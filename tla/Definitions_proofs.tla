------------------------- MODULE Definitions_proofs -------------------------
(***************************************************************************)
(* The files of a strategy, the strategies themselves and the messages     *)
(* that are digested, for every text, every input of any length and any    *)
(* number of edits.                                                        *)
(***************************************************************************)
EXTENDS Decision_proofs, Definitions, DigestProperties

(***************************************************************************)
(* Picking the items of a sequence in some of its places.                  *)
(***************************************************************************)
KeepsIn(f, items, places, N) ==
  f = [n \in 0..N |->
         IF n = 0 THEN <<>>
         ELSE IF n \in places THEN Append(f[n-1], items[n])
         ELSE f[n-1]]

\* The lists of a sequence exist, whatever its length.
LEMMA KeepingExists ==
  ASSUME NEW items, NEW places, NEW N \in Nat
  PROVE  \E f : KeepsIn(f, items, places, N)
<1> DEFINE T == {n \in Nat : \E f : KeepsIn(f, items, places, n)}
<1>1. 0 \in T
  <2>1. KeepsIn([n \in 0..0 |-> <<>>], items, places, 0)
    BY DEF KeepsIn
  <2> QED
    BY <2>1
<1>2. ASSUME NEW n \in Nat, n \in T PROVE n + 1 \in T
  <2>1. PICK f : KeepsIn(f, items, places, n)
    BY <1>2
  <2> DEFINE last == IF n + 1 \in places THEN Append(f[n], items[n + 1]) ELSE f[n]
             g == [k \in 0..(n + 1) |-> IF k = n + 1 THEN last ELSE f[k]]
  <2>2. ASSUME NEW k \in 0..(n + 1)
        PROVE  g[k] = IF k = 0 THEN <<>>
                      ELSE IF k \in places THEN Append(g[k-1], items[k]) ELSE g[k-1]
    <3>1. CASE k = n + 1
      <4>1. g[k] = last /\ k - 1 = n /\ g[n] = f[n] /\ k # 0
        BY <3>1
      <4> QED
        BY <3>1, <4>1
    <3>2. CASE k # n + 1
      <4>1. k \in 0..n /\ g[k] = f[k] /\ (k # 0 => k - 1 \in 0..n /\ g[k-1] = f[k-1])
        BY <3>2
      <4> QED
        BY <2>1, <4>1 DEF KeepsIn
    <3> QED
      BY <3>1, <3>2
  <2>3. KeepsIn(g, items, places, n + 1)
    BY <2>2 DEF KeepsIn
  <2> QED
    BY <2>3
<1> HIDE DEF T
<1>3. Nat \subseteq T
  BY <1>1, <1>2, Induct
<1> QED
  BY <1>3 DEF T

\* One more place.
LEMMA KeepsOneMore ==
  ASSUME NEW f, NEW items, NEW places, NEW N \in Nat, KeepsIn(f, items, places, N),
         NEW n \in Nat, n + 1 <= N
  PROVE  f[n + 1] = IF n + 1 \in places THEN Append(f[n], items[n + 1]) ELSE f[n]
<1>1. n + 1 \in 0..N /\ n + 1 # 0 /\ (n + 1) - 1 = n
  OBVIOUS
<1> QED
  BY <1>1 DEF KeepsIn

\* Kept is the last of those lists.
LEMMA KeptAtTheEnd ==
  ASSUME NEW items, NEW places, Len(items) \in Nat
  PROVE  \E f : KeepsIn(f, items, places, Len(items)) /\ Kept(items, places) = f[Len(items)]
<1> DEFINE f == CHOOSE f : KeepsIn(f, items, places, Len(items))
<1>1. KeepsIn(f, items, places, Len(items))
  BY KeepingExists
<1>2. Kept(items, places) = f[Len(items)]
  BY DEF Kept, KeepsIn
<1> QED
  BY <1>1, <1>2

\* Sequences that begin alike keep the same items as long as they do.
LEMMA KeptBeginsAlike ==
  ASSUME NEW s, NEW t, NEW P, NEW Q, NEW M \in Nat, NEW N \in Nat, NEW K \in Nat,
         K <= M, K <= N, \A i \in 1..K : s[i] = t[i] /\ (i \in P <=> i \in Q),
         NEW f, KeepsIn(f, s, P, M), NEW g, KeepsIn(g, t, Q, N)
  PROVE  f[K] = g[K]
<1> DEFINE T == {n \in Nat : n <= K => f[n] = g[n]}
<1>1. 0 \in T
  BY DEF KeepsIn
<1>2. ASSUME NEW n \in Nat, n \in T PROVE n + 1 \in T
  <2>1. SUFFICES ASSUME n + 1 <= K PROVE f[n + 1] = g[n + 1]
    OBVIOUS
  <2>2. /\ f[n + 1] = IF n + 1 \in P THEN Append(f[n], s[n + 1]) ELSE f[n]
        /\ g[n + 1] = IF n + 1 \in Q THEN Append(g[n], t[n + 1]) ELSE g[n]
    BY <2>1, KeepsOneMore
  <2>3. f[n] = g[n] /\ s[n + 1] = t[n + 1] /\ (n + 1 \in P <=> n + 1 \in Q)
    BY <1>2, <2>1
  <2> QED
    BY <2>2, <2>3
<1> HIDE DEF T
<1>3. Nat \subseteq T
  BY <1>1, <1>2, Induct
<1> QED
  BY <1>3 DEF T

\* What is kept is the items of those places, no more and no fewer.
LEMMA KeptItems ==
  ASSUME NEW R, NEW items \in Seq(R), NEW places
  PROVE  /\ Kept(items, places) \in Seq(R)
         /\ \A k \in DOMAIN Kept(items, places) :
              \E i \in DOMAIN items : i \in places /\ Kept(items, places)[k] = items[i]
         /\ \A i \in DOMAIN items :
              i \in places => \E k \in DOMAIN Kept(items, places) : Kept(items, places)[k] = items[i]
<1> DEFINE N == Len(items)
<1>0. N \in Nat /\ DOMAIN items = 1..N /\ \A i \in 1..N : items[i] \in R
  BY LenProperties, ElementOfSeq
<1>1. PICK f : KeepsIn(f, items, places, N) /\ Kept(items, places) = f[N]
  BY <1>0, KeptAtTheEnd
<1> HIDE DEF N
<1> DEFINE Good(n) == /\ f[n] \in Seq(R)
                      /\ \A k \in DOMAIN f[n] : \E i \in 1..n : i \in places /\ f[n][k] = items[i]
                      /\ \A i \in 1..n : i \in places => \E k \in DOMAIN f[n] : f[n][k] = items[i]
           T == {n \in Nat : n <= N => Good(n)}
<1>2. 0 \in T
  <2>1. f[0] = <<>>
    BY <1>0, <1>1 DEF KeepsIn
  <2>2. f[0] \in Seq(R) /\ DOMAIN f[0] = {}
    BY <2>1, EmptySeq
  <2> QED
    BY <2>2
<1>3. ASSUME NEW n \in Nat, n \in T PROVE n + 1 \in T
  <2>1. SUFFICES ASSUME n + 1 <= N PROVE Good(n + 1)
    OBVIOUS
  <2>2. Good(n)
    BY <1>0, <1>3, <2>1
  <2>3. f[n + 1] = IF n + 1 \in places THEN Append(f[n], items[n + 1]) ELSE f[n]
    BY <1>0, <1>1, <2>1, KeepsOneMore
  <2>4. CASE n + 1 \notin places
    <3>1. f[n + 1] = f[n]
      BY <2>3, <2>4
    <3>2. /\ 1..n \subseteq 1..(n + 1)
          /\ \A i \in 1..(n + 1) : i \in places => i \in 1..n
      BY <2>4
    <3>3. \A k \in DOMAIN f[n + 1] : \E i \in 1..(n + 1) : i \in places /\ f[n + 1][k] = items[i]
      BY <2>2, <3>1, <3>2, Zenon
    <3>4. \A i \in 1..(n + 1) :
            i \in places => \E k \in DOMAIN f[n + 1] : f[n + 1][k] = items[i]
      BY <2>2, <3>1, <3>2, Zenon
    <3> QED
      BY <2>2, <3>1, <3>3, <3>4
  <2>5. CASE n + 1 \in places
    <3>1. items[n + 1] \in R
      BY <1>0, <2>1
    <3>2. /\ f[n + 1] \in Seq(R)
          /\ Len(f[n + 1]) = Len(f[n]) + 1
          /\ \A k \in 1..Len(f[n]) : f[n + 1][k] = f[n][k]
          /\ f[n + 1][Len(f[n]) + 1] = items[n + 1]
      BY <2>2, <2>3, <2>5, <3>1, AppendProperties
    <3>3. /\ Len(f[n]) \in Nat /\ DOMAIN f[n] = 1..Len(f[n])
          /\ DOMAIN f[n + 1] = 1..(Len(f[n]) + 1)
      BY <2>2, <3>2, LenProperties
    <3>4. ASSUME NEW k \in DOMAIN f[n + 1]
          PROVE  \E i \in 1..(n + 1) : i \in places /\ f[n + 1][k] = items[i]
      <4>1. CASE k = Len(f[n]) + 1
        BY <2>5, <3>2, <4>1
      <4>2. CASE k \in DOMAIN f[n]
        <5>1. PICK i \in 1..n : i \in places /\ f[n][k] = items[i]
          BY <2>2, <4>2
        <5>2. i \in 1..(n + 1) /\ f[n + 1][k] = items[i]
          BY <3>2, <3>3, <4>2, <5>1
        <5> QED
          BY <5>1, <5>2
      <4> QED
        BY <3>3, <4>1, <4>2
    <3>5. ASSUME NEW i \in 1..(n + 1), i \in places
          PROVE  \E k \in DOMAIN f[n + 1] : f[n + 1][k] = items[i]
      <4>1. CASE i = n + 1
        <5>1. Len(f[n]) + 1 \in DOMAIN f[n + 1]
          BY <3>3
        <5> QED
          BY <3>2, <4>1, <5>1
      <4>2. CASE i \in 1..n
        <5>1. PICK k \in DOMAIN f[n] : f[n][k] = items[i]
          BY <2>2, <3>5, <4>2
        <5>2. k \in DOMAIN f[n + 1] /\ f[n + 1][k] = items[i]
          BY <3>2, <3>3, <5>1
        <5> QED
          BY <5>2
      <4> QED
        BY <4>1, <4>2
    <3> QED
      BY <3>2, <3>4, <3>5
  <2> QED
    BY <2>4, <2>5
<1> HIDE DEF T, Good
<1>4. Nat \subseteq T
  BY <1>2, <1>3, Induct
<1>5. Good(N)
  BY <1>0, <1>4 DEF T
<1> QED
  BY <1>0, <1>1, <1>5 DEF Good

\* What is kept of sequences that are alike up to the last item of the longer
\* one: the same, or that item after it.
LEMMA OneMoreKept ==
  ASSUME NEW s, NEW t, NEW P, NEW Q, NEW N \in Nat, Len(s) = N, Len(t) = N + 1,
         \A i \in 1..N : s[i] = t[i] /\ (i \in P <=> i \in Q)
  PROVE  Kept(t, Q) = IF N + 1 \in Q THEN Append(Kept(s, P), t[N + 1]) ELSE Kept(s, P)
<1>1. PICK f : KeepsIn(f, s, P, N) /\ Kept(s, P) = f[N]
  BY KeptAtTheEnd
<1>2. PICK g : KeepsIn(g, t, Q, N + 1) /\ Kept(t, Q) = g[N + 1]
  BY KeptAtTheEnd
<1>3. f[N] = g[N]
  BY <1>1, <1>2, KeptBeginsAlike
<1>4. g[N + 1] = IF N + 1 \in Q THEN Append(g[N], t[N + 1]) ELSE g[N]
  BY <1>2, KeepsOneMore
<1> QED
  BY <1>1, <1>2, <1>3, <1>4

(***************************************************************************)
(* Texts of source code.                                                   *)
(***************************************************************************)
IsText(text) == text \in Seq({text[i] : i \in DOMAIN text})

\* The rule is in a text just when it is in what both halves read of it.
LEMMA RuleSurvives ==
  ASSUME NEW text, IsText(text), NEW rule \in Strategies
  PROVE  (\E i \in DOMAIN text : text[i] = rule)
           <=> (\E k \in DOMAIN ReadSourceText(text) : ReadSourceText(text)[k] = rule)
<1> DEFINE places == {i \in DOMAIN text : ~(text[i] = CR /\ i < Len(text) /\ text[i + 1] = LF)}
           kept == ReplaceCRLF(text)
           letters == {text[i] : i \in DOMAIN text}
<1>0. rule # CR /\ rule # LF
  BY DEF Strategies, Momentum, Reversion, CR, LF
<1>1. kept = Kept(text, places)
  BY DEF ReplaceCRLF
<1>2. /\ \A k \in DOMAIN kept : \E i \in DOMAIN text : i \in places /\ kept[k] = text[i]
      /\ \A i \in DOMAIN text : i \in places => \E k \in DOMAIN kept : kept[k] = text[i]
  <2>1. text \in Seq(letters)
    BY DEF IsText
  <2> HIDE DEF places, kept, letters
  <2> QED
    BY <1>1, <2>1, KeptItems
<1>3. /\ DOMAIN ReadSourceText(text) = DOMAIN kept
      /\ \A k \in DOMAIN kept : ReadSourceText(text)[k] = IF kept[k] = CR THEN LF ELSE kept[k]
  BY DEF ReadSourceText, ReplaceCR
<1>4. \A i \in DOMAIN text : text[i] = rule => i \in places
  BY <1>0
<1> HIDE DEF places, kept
<1> QED
  BY <1>0, <1>2, <1>3, <1>4

\* Texts that are read alike have the same rule.
LEMMA RuleAsRead ==
  ASSUME NEW text, IsText(text), NEW other, IsText(other),
         ReadSourceText(text) = ReadSourceText(other)
  PROVE  RuleIn(text) = RuleIn(other)
<1>1. \A rule \in Strategies :
        (\E i \in DOMAIN text : text[i] = rule) <=> (\E i \in DOMAIN other : other[i] = rule)
  BY RuleSurvives
<1> QED
  BY <1>1 DEF RuleIn

(***************************************************************************)
(* Texts of parameters.                                                    *)
(***************************************************************************)
\* What the writer of parameters writes, its reader reads back.
LEMMA CanonicalReadsBack ==
  ASSUME NEW f, f = [key \in 1..2 |-> f[key]]
  PROVE  Parsed(CanonicalText(f)) = f
<1> DEFINE size == Cardinality(DOMAIN f)
           sorted == CHOOSE keys \in [1..size -> DOMAIN f] :
                       \A i, j \in 1..size : i < j => keys[i] < keys[j]
<1>1. DOMAIN f = 1..2
  OBVIOUS
<1>2. size = 2
  <2>1. \A a, b \in Int : Cardinality(a..b) = IF a > b THEN 0 ELSE b - a + 1
    BY FS_Interval
  <2>2. PICK first \in Int, last \in Int : first = 1 /\ last = 2
    OBVIOUS
  <2>3. Cardinality(first..last) = IF first > last THEN 0 ELSE last - first + 1
    BY <2>1, Zenon
  <2>4. DOMAIN f = first..last
    BY <1>1, <2>2
  <2>5. size = IF first > last THEN 0 ELSE last - first + 1
    BY <2>3, <2>4
  <2> HIDE DEF size
  <2> QED
    BY <2>2, <2>5
<1>3. CanonicalText(f).members = [i \in 1..size |-> <<sorted[i], f[sorted[i]]>>]
  BY DEF CanonicalText
<1> HIDE DEF size
<1>4. sorted \in [1..2 -> 1..2] /\ sorted[1] < sorted[2]
  <2>1. [i \in 1..2 |-> i] \in [1..2 -> 1..2]
    OBVIOUS
  <2>2. \A i, j \in 1..2 : i < j => [k \in 1..2 |-> k][i] < [k \in 1..2 |-> k][j]
    OBVIOUS
  <2>3. \E keys \in [1..size -> DOMAIN f] : \A i, j \in 1..size : i < j => keys[i] < keys[j]
    BY <1>1, <1>2, <2>1, <2>2
  <2>4. sorted \in [1..size -> DOMAIN f] /\ \A i, j \in 1..size : i < j => sorted[i] < sorted[j]
    BY <2>3
  <2> HIDE DEF sorted
  <2> QED
    BY <1>1, <1>2, <2>4
<1> HIDE DEF sorted
<1>5. sorted[1] = 1 /\ sorted[2] = 2
  BY <1>4
<1> DEFINE text == CanonicalText(f)
<1>6. /\ DOMAIN text.members = {1, 2}
      /\ text.members[1][1] = 1 /\ text.members[1][2] = f[1]
      /\ text.members[2][1] = 2 /\ text.members[2][2] = f[2]
  BY <1>2, <1>3, <1>5
<1> HIDE DEF text
<1>7. {text.members[i][1] : i \in DOMAIN text.members} = 1..2
  BY <1>6
<1>8. DOMAIN Parsed(text) = 1..2 /\ Parsed(text) = [k \in 1..2 |-> Parsed(text)[k]]
  BY <1>7 DEF Parsed
<1>9. ASSUME NEW k \in 1..2 PROVE Parsed(text)[k] = f[k]
  <2> DEFINE place == CHOOSE i \in DOMAIN text.members :
                        /\ text.members[i][1] = k
                        /\ \A j \in DOMAIN text.members : text.members[j][1] = k => j <= i
  <2>1. Parsed(text)[k] = text.members[place][2]
    BY <1>7 DEF Parsed
  <2>2. place \in DOMAIN text.members /\ text.members[place][1] = k
    <3>1. k \in DOMAIN text.members /\ text.members[k][1] = k
          /\ \A j \in DOMAIN text.members : text.members[j][1] = k => j <= k
      BY <1>6
    <3> QED
      BY <3>1
  <2> HIDE DEF place
  <2> QED
    BY <1>6, <2>1, <2>2
<1> QED
  BY <1>8, <1>9 DEF text

\* So it is canonical, and no other text of the same parameters is.
LEMMA OneCanonicalText ==
  ASSUME NEW f, f = [key \in 1..2 |-> f[key]], NEW text, Parsed(text) = f
  PROVE  IsCanonical(text) <=> text = CanonicalText(f)
BY CanonicalReadsBack DEF IsCanonical

(***************************************************************************)
(* The files: an artifact and an output are always some regeneration's,    *)
(* each perhaps another's, whose parameters may be written in another way. *)
(***************************************************************************)
ArtifactFrom(text, m, written) ==
  [schema_version |-> 2, strategy_version_id |-> StrategyId,
   research_input_id |-> m.research_input_id,
   source_digest |-> DigestOf(ReadSourceText(text)),
   parameters_canonical |-> written, parameters_digest |-> DigestOf(written),
   research_input_digest |-> DigestOf(PythonInputProjection(m))]

OutputFrom(text, m, written) ==
  Sealed(OutputOf(ArtifactFrom(text, m, written), SignalsOf(text, m)))

InSomeWay(written, text) == Parsed(written) = ParametersIn(text)

Emitted(out, text, m) == out = OutputFrom(text, m, CanonicalText(ParametersIn(text)))

FilesInv ==
  /\ source \in Sources /\ input \in Inputs
  /\ \E text \in Sources, m \in Inputs : \E written :
       InSomeWay(written, text) /\ artifact = ArtifactFrom(text, m, written)
  /\ \E text \in Sources, m \in Inputs : \E written : output = OutputFrom(text, m, written)
  /\ unwritten # <<>> =>
       \E text \in Sources, m \in Inputs : \E out : unwritten = <<out>> /\ Emitted(out, text, m)

LEMMA RegeneratedIs ==
  ASSUME NEW text, NEW m
  PROVE  LET written == CanonicalText(ParametersIn(text)) IN
         /\ Regenerated(text, m).artifact = ArtifactFrom(text, m, written)
         /\ Regenerated(text, m).output = OutputFrom(text, m, written)
         /\ Regenerated(text, m) = [artifact |-> ArtifactFrom(text, m, written),
                                    output |-> OutputFrom(text, m, written)]
         /\ InSomeWay(written, text)
<1>1. BuildArtifact(text, m) = ArtifactFrom(text, m, CanonicalText(ParametersIn(text)))
  BY DEF BuildArtifact, ArtifactFrom
<1>2. Parsed(CanonicalText(ParametersIn(text))) = ParametersIn(text)
  <2>1. ParametersIn(text) = [key \in 1..2 |-> ParametersIn(text)[key]]
    BY DEF ParametersIn
  <2> QED
    BY <2>1, CanonicalReadsBack
<1> QED
  BY <1>1, <1>2 DEF Regenerated, OutputFrom, InSomeWay

\* The same rule on the same entries of the same pack has the same signals.
LEMMA SignalsAlike ==
  ASSUME NEW text, NEW other, RuleIn(text) = RuleIn(other),
         NEW m, NEW n, m.entries = n.entries, m.pack = n.pack
  PROVE  SignalsOf(text, m) = SignalsOf(other, n)
<1>1. ASSUME NEW strategy PROVE Signals(strategy, m) = Signals(strategy, n)
  <2>1. ASSUME NEW i PROVE SignalAt(strategy, m, i) = SignalAt(strategy, n, i)
    BY DEF SignalAt
  <2>2. [i \in DOMAIN m.entries |-> SignalAt(strategy, m, i)]
          = [i \in DOMAIN n.entries |-> SignalAt(strategy, n, i)]
    BY <2>1
  <2> QED
    BY <2>2 DEF Signals
<1> QED
  BY <1>1 DEF SignalsOf

\* Files the kernel accepts are the regenerated ones.
LEMMA AcceptedRegenerated ==
  ASSUME FilesInv, Accepted
  PROVE  [artifact |-> artifact, output |-> output] = Regenerated(source, input)
<1> DEFINE canonical == CanonicalText(ParametersIn(source))
<1>a. PICK text \in Sources, m \in Inputs : \E written :
        InSomeWay(written, text) /\ artifact = ArtifactFrom(text, m, written)
  BY DEF FilesInv
<1>1. PICK written :
        InSomeWay(written, text) /\ artifact = ArtifactFrom(text, m, written)
  BY <1>a
<1>b. PICK text2 \in Sources, m2 \in Inputs : \E written2 :
        output = OutputFrom(text2, m2, written2)
  BY DEF FilesInv
<1>2. PICK written2 : output = OutputFrom(text2, m2, written2)
  BY <1>b
<1>3. /\ ReadSourceText(text) = ReadSourceText(source)
      /\ IsCanonical(written)
  BY <1>1 DEF Accepted, ArtifactReviewed, VerifyContent, ArtifactFrom, DigestOf,
              NormalizeNewlines, ReadSourceText
<1>4. PythonInputProjection(m) = PythonInputProjection(input)
  BY <1>1 DEF Accepted, InputValid, ArtifactFrom, DigestOf, InputProjection, PythonInputProjection
<1>5. /\ ReadSourceText(text2) = ReadSourceText(text)
      /\ written2 = written
      /\ PythonInputProjection(m2) = PythonInputProjection(m)
      /\ m2.research_input_id = m.research_input_id
  BY <1>1, <1>2 DEF Accepted, OutputMatches, OutputFrom, Sealed, OutputOf, ArtifactFrom, DigestOf
<1>6. /\ m.entries = input.entries /\ m.pack = input.pack
      /\ m.research_input_id = input.research_input_id
  BY <1>4 DEF PythonInputProjection
<1>7. m2.entries = input.entries /\ m2.pack = input.pack
  BY <1>4, <1>5 DEF PythonInputProjection
<1>8. RuleIn(text) = RuleIn(source) /\ RuleIn(text2) = RuleIn(source)
  <2>1. IsText(source) /\ IsText(text) /\ IsText(text2)
    BY SourcesAssumption DEF FilesInv, IsText
  <2> QED
    BY <1>3, <1>5, <2>1, RuleAsRead
<1>9. written = canonical
  <2>1. ParametersIn(text) = ParametersIn(source)
    BY <1>8 DEF ParametersIn
  <2>2. ParametersIn(source) = [key \in 1..2 |-> ParametersIn(source)[key]]
    BY DEF ParametersIn
  <2> QED
    BY <1>1, <1>3, <2>1, <2>2, OneCanonicalText DEF InSomeWay
<1>10. SignalsOf(text2, m2) = SignalsOf(source, input)
  BY <1>7, <1>8, SignalsAlike
<1>11. artifact = ArtifactFrom(source, input, canonical)
  BY <1>1, <1>3, <1>4, <1>6, <1>9 DEF ArtifactFrom
<1>12. output = OutputFrom(source, input, canonical)
  <2>1. ArtifactFrom(text2, m2, written2) = ArtifactFrom(source, input, canonical)
    BY <1>3, <1>4, <1>5, <1>6, <1>9 DEF ArtifactFrom
  <2> QED
    BY <1>2, <1>10, <2>1 DEF OutputFrom
<1> QED
  BY <1>11, <1>12, RegeneratedIs

\* Regenerated files are accepted when the kernel accepts the input.
LEMMA RegeneratedAccepted ==
  ASSUME VerifyInput(input), KernelAccepts(input),
         [artifact |-> artifact, output |-> output] = Regenerated(source, input)
  PROVE  Accepted
<1> DEFINE canonical == CanonicalText(ParametersIn(source))
<1>1. /\ artifact = ArtifactFrom(source, input, canonical)
      /\ output = OutputFrom(source, input, canonical)
  BY RegeneratedIs
<1>2. IsCanonical(canonical)
  <2>1. ParametersIn(source) = [key \in 1..2 |-> ParametersIn(source)[key]]
    BY DEF ParametersIn
  <2>2. Parsed(canonical) = ParametersIn(source)
    BY RegeneratedIs DEF InSomeWay
  <2> QED
    BY <2>1, <2>2, OneCanonicalText
<1> HIDE DEF canonical
<1>3. ArtifactReviewed(artifact, source)
  BY <1>1, <1>2 DEF ArtifactReviewed, VerifyContent, ArtifactFrom, NormalizeNewlines, ReadSourceText
<1>4. InputValid(input) /\ input.content_digest = artifact.research_input_digest
  BY <1>1 DEF InputValid, VerifyInput, InputProjection, PythonInputProjection, ArtifactFrom
<1>5. OutputValid(output) /\ OutputMatches(output, artifact)
  BY <1>1 DEF OutputValid, OutputMatches, OutputFrom, ArtifactFrom, OutputOf, Sealed
<1> QED
  BY <1>3, <1>4, <1>5 DEF Accepted

\* The halves agree in every state of the invariant.
LEMMA InvAgrees == FilesInv => HalvesAgree
<1>1. ASSUME FilesInv, Accepted PROVE CheckPasses /\ KernelAccepts(input)
  <2>1. [artifact |-> artifact, output |-> output] = Regenerated(source, input)
    BY <1>1, AcceptedRegenerated
  <2>2. InputValid(input)
    BY <1>1 DEF Accepted
  <2>3. VerifyInput(input) /\ KernelAccepts(input)
    BY <2>2 DEF InputValid, InputProjection, VerifyInput, PythonInputProjection,
                KernelAccepts, ProducerAccepts
  <2> QED
    BY <2>1, <2>3 DEF CheckPasses
<1>2. ASSUME CheckPasses, KernelAccepts(input) PROVE Accepted
  BY <1>2, RegeneratedAccepted DEF CheckPasses
<1> QED
  BY <1>1, <1>2 DEF HalvesAgree

(***************************************************************************)
(* The invariant holds, whatever is edited, regenerated or broken off.     *)
(***************************************************************************)
LEMMA FirstFiles == Init => FilesInv
<1> SUFFICES ASSUME Init PROVE FilesInv
  OBVIOUS
<1> DEFINE written == CanonicalText(ParametersIn(source))
<1>1. /\ artifact = ArtifactFrom(source, input, written)
      /\ output = OutputFrom(source, input, written)
      /\ InSomeWay(written, source)
  BY RegeneratedIs DEF Init
<1>2. source \in Sources /\ input \in Inputs /\ unwritten = <<>>
  BY DEF Init
<1> HIDE DEF written
<1> QED
  BY <1>1, <1>2 DEF FilesInv

LEMMA FilesStep == FilesInv /\ [Next]_<<files, unwritten, edits>> => FilesInv'
<1> SUFFICES ASSUME FilesInv, [Next]_<<files, unwritten, edits>> PROVE FilesInv'
  OBVIOUS
<1>0. source \in Sources /\ input \in Inputs
  BY DEF FilesInv
<1>1. ASSUME NEW text \in Sources, EditSource(text) PROVE FilesInv'
  BY <1>1 DEF EditSource, FilesInv
<1>2. ASSUME NEW m \in Inputs, EditInput(m) PROVE FilesInv'
  BY <1>2 DEF EditInput, FilesInv
<1>3. ASSUME NEW new, Reformat(new) PROVE FilesInv'
  <2>a. PICK text \in Sources, m \in Inputs : \E written :
          InSomeWay(written, text) /\ artifact = ArtifactFrom(text, m, written)
    BY DEF FilesInv
  <2>1. PICK written :
          InSomeWay(written, text) /\ artifact = ArtifactFrom(text, m, written)
    BY <2>a
  <2>b. PICK text2 \in Sources, m2 \in Inputs : \E written2 :
          output = OutputFrom(text2, m2, written2)
    BY DEF FilesInv
  <2>2. PICK written2 : output = OutputFrom(text2, m2, written2)
    BY <2>b
  <2>3. InSomeWay(new, text)
    BY <1>3, <2>1 DEF Reformat, InSomeWay, ArtifactFrom
  <2>4. artifact' = ArtifactFrom(text, m, new)
    BY <1>3, <2>1 DEF Reformat, ArtifactFrom
  <2>5. output' = OutputFrom(text2, m2, new)
    <3>1. output.content = OutputOf(ArtifactFrom(text2, m2, written2), SignalsOf(text2, m2))
      BY <2>2 DEF OutputFrom, Sealed
    <3>2. [output.content EXCEPT !.parameters_digest = DigestOf(new)]
            = OutputOf(ArtifactFrom(text2, m2, new), SignalsOf(text2, m2))
      BY <3>1 DEF OutputOf, ArtifactFrom
    <3> QED
      BY <1>3, <3>2 DEF Reformat, OutputFrom
  <2>6. UNCHANGED <<source, input, unwritten>>
    BY <1>3 DEF Reformat
  <2> QED
    BY <2>3, <2>4, <2>5, <2>6 DEF FilesInv
<1>4. CASE EmitArtifact
  <2> DEFINE written == CanonicalText(ParametersIn(source))
             out == Regenerated(source, input).output
  <2>1. /\ artifact' = ArtifactFrom(source, input, written)
        /\ InSomeWay(written, source)
        /\ Emitted(out, source, input)
        /\ unwritten' = <<out>>
    BY <1>4, RegeneratedIs DEF EmitArtifact, Emitted
  <2>2. UNCHANGED <<source, input, output>>
    BY <1>4 DEF EmitArtifact
  <2> HIDE DEF written, out
  <2> QED
    BY <1>0, <2>1, <2>2 DEF FilesInv
<1>5. CASE EmitOutput
  <2>a. PICK text \in Sources, m \in Inputs : \E out : unwritten = <<out>> /\ Emitted(out, text, m)
    BY <1>5 DEF EmitOutput, FilesInv
  <2>1. PICK out : unwritten = <<out>> /\ Emitted(out, text, m)
    BY <2>a
  <2>2. output' = out /\ unwritten' = <<>> /\ UNCHANGED <<source, input, artifact>>
    BY <1>5, <2>1 DEF EmitOutput
  <2>3. \E written : output' = OutputFrom(text, m, written)
    BY <2>1, <2>2 DEF Emitted
  <2> QED
    BY <2>2, <2>3 DEF FilesInv
<1>6. CASE Interrupt
  BY <1>6 DEF Interrupt, files, FilesInv
<1>7. CASE UNCHANGED <<files, unwritten, edits>>
  BY <1>7 DEF files, FilesInv
<1> QED
  BY <1>1, <1>2, <1>3, <1>4, <1>5, <1>6, <1>7 DEF Next

LEMMA FilesAlways == Spec => []FilesInv
BY FirstFiles, FilesStep, PTL DEF Spec

\* What the kernel accepts is what the gate of the Python half passes, for
\* every set of sources and inputs and any number of edits: a kernel that
\* cannot run a strategy still refuses every file the strategy did not give
\* (validate_experiment_spec and run_research.py --check, HalvesAgree).
THEOREM HalvesAlwaysAgree == Spec => []HalvesAgree
BY FilesAlways, InvAgrees, PTL

\* The research behind accepted files is known from the artifact.
LEMMA ResearchKnown ==
  ASSUME FilesInv, Accepted
  PROVE  /\ IsText(source)
         /\ artifact.source_digest = DigestOf(ReadSourceText(source))
         /\ artifact.research_input_digest = DigestOf(PythonInputProjection(input))
         /\ Research = [rule |-> RuleIn(source), entries |-> input.entries, pack |-> input.pack,
                        signals |-> SignalsOf(source, input)]
<1>1. [artifact |-> artifact, output |-> output] = Regenerated(source, input)
  BY AcceptedRegenerated
<1>2. /\ artifact = BuildArtifact(source, input)
      /\ output = Sealed(OutputOf(BuildArtifact(source, input), SignalsOf(source, input)))
  BY <1>1 DEF Regenerated
<1>3. IsText(source)
  BY SourcesAssumption DEF FilesInv, IsText
<1> QED
  BY <1>2, <1>3 DEF BuildArtifact, Sealed, OutputOf, Research

\* One artifact never stands for two pieces of research: two moments at which
\* the files are accepted with the same artifact have the same rule, entries,
\* pack and signals (contract.rs, the identity of a strategy version).
THEOREM ArtifactNamesResearch == Spec => OneArtifactOneResearch
<1>1. FilesInv /\ FilesInv' /\ [Next]_<<files, unwritten, edits>>
        => [Accepted /\ Accepted' /\ artifact' = artifact
              => Research' = Research]_<<files, unwritten, edits>>
  <2> SUFFICES ASSUME FilesInv, FilesInv', Accepted, Accepted', artifact' = artifact
               PROVE  Research' = Research
    OBVIOUS
  <2>1. /\ IsText(source)
        /\ artifact.source_digest = DigestOf(ReadSourceText(source))
        /\ artifact.research_input_digest = DigestOf(PythonInputProjection(input))
        /\ Research = [rule |-> RuleIn(source), entries |-> input.entries, pack |-> input.pack,
                       signals |-> SignalsOf(source, input)]
    BY ResearchKnown
  <2>2. (FilesInv /\ Accepted =>
          /\ IsText(source)
          /\ artifact.source_digest = DigestOf(ReadSourceText(source))
          /\ artifact.research_input_digest = DigestOf(PythonInputProjection(input))
          /\ Research = [rule |-> RuleIn(source), entries |-> input.entries, pack |-> input.pack,
                         signals |-> SignalsOf(source, input)])'
    BY ResearchKnown, PTL
  <2>3. /\ IsText(source')
        /\ artifact'.source_digest = DigestOf(ReadSourceText(source'))
        /\ artifact'.research_input_digest = DigestOf(PythonInputProjection(input'))
        /\ Research' = [rule |-> RuleIn(source'), entries |-> input'.entries,
                        pack |-> input'.pack, signals |-> SignalsOf(source', input')]
    BY <2>2
  <2>4. /\ ReadSourceText(source') = ReadSourceText(source)
        /\ PythonInputProjection(input') = PythonInputProjection(input)
    BY <2>1, <2>3 DEF DigestOf
  <2>5. input'.entries = input.entries /\ input'.pack = input.pack
    BY <2>4 DEF PythonInputProjection
  <2>6. RuleIn(source') = RuleIn(source)
    BY <2>1, <2>3, <2>4, RuleAsRead
  <2>7. SignalsOf(source', input') = SignalsOf(source, input)
    BY <2>5, <2>6, SignalsAlike
  <2> QED
    BY <2>1, <2>3, <2>5, <2>6, <2>7
<1> QED
  BY <1>1, FilesAlways, PTL DEF Spec, OneArtifactOneResearch

\* Another style of line ends or another description of the input never turns
\* the kernel's verdict (normalize_newlines; the projection of an input).
THEOREM VerdictSurvivesCheckout == Spec => CheckoutsShareIdentity
<1>1. FilesInv /\ [Next]_<<files, unwritten, edits>>
        => [SameReading /\ UNCHANGED <<artifact, output>>
              => Accepted' = Accepted]_<<files, unwritten, edits>>
  <2> SUFFICES ASSUME FilesInv, SameReading, UNCHANGED <<artifact, output>>
               PROVE  Accepted' = Accepted
    OBVIOUS
  <2>1. /\ input'.schema_version = input.schema_version
        /\ input'.content_digest = input.content_digest
        /\ input'.entries = input.entries /\ input'.pack = input.pack
        /\ input'.research_input_id = input.research_input_id
    BY InputsAssumption DEF SameReading, FilesInv
  <2>2. NormalizeNewlines(source') = NormalizeNewlines(source)
    BY DEF SameReading, ReadSourceText, NormalizeNewlines
  <2>3. ArtifactReviewed(artifact, source)' <=> ArtifactReviewed(artifact, source)
    BY <2>2 DEF ArtifactReviewed
  <2>4. KernelAccepts(input)' <=> KernelAccepts(input)
    BY <2>1 DEF KernelAccepts
  <2>5. InputValid(input)' <=> InputValid(input)
    BY <2>1, <2>4 DEF InputValid, InputProjection
  <2>6. OutputValid(output)' /\ OutputMatches(output, artifact)'
          <=> OutputValid(output) /\ OutputMatches(output, artifact)
    OBVIOUS
  <2>7. artifact' = artifact
    OBVIOUS
  <2>8. Accepted' <=> Accepted
    BY <2>1, <2>3, <2>5, <2>6, <2>7 DEF Accepted
  <2> QED
    BY <2>8 DEF Accepted
<1> QED
  BY <1>1, FilesAlways, PTL DEF Spec, CheckoutsShareIdentity

(***************************************************************************)
(* The strategies.                                                         *)
(***************************************************************************)
LEMMA EntriesAreListed ==
  ASSUME NEW m \in Inputs
  PROVE  /\ Len(m.entries) \in Nat /\ DOMAIN m.entries = 1..Len(m.entries)
         /\ \A i \in DOMAIN m.entries : m.entries[i].sequence \in Int
<1> DEFINE R == {m.entries[i] : i \in DOMAIN m.entries}
<1>1. m.entries \in Seq(R) /\ \A i \in DOMAIN m.entries : m.entries[i].sequence \in Int
  BY InputsAssumption
<1> HIDE DEF R
<1> QED
  BY <1>1, LenProperties

\* One more observation leaves the signals there were and adds at most its own.
LEMMA OneMoreSignal ==
  ASSUME NEW m \in Inputs, NEW n \in Inputs, NEW strategy,
         n.pack = m.pack, Len(n.entries) = Len(m.entries) + 1,
         \A i \in DOMAIN m.entries : n.entries[i] = m.entries[i]
  PROVE  \/ Signals(strategy, n) = Signals(strategy, m)
         \/ Signals(strategy, n)
              = Append(Signals(strategy, m), SignalAt(strategy, n, Len(n.entries)))
<1> DEFINE N == Len(m.entries)
           s == [i \in DOMAIN m.entries |-> SignalAt(strategy, m, i)]
           t == [i \in DOMAIN n.entries |-> SignalAt(strategy, n, i)]
           P == {i \in DOMAIN m.entries : SideAt(strategy, m.entries, i) # ""}
           Q == {i \in DOMAIN n.entries : SideAt(strategy, n.entries, i) # ""}
<1>1. N \in Nat /\ DOMAIN m.entries = 1..N /\ DOMAIN n.entries = 1..(N + 1)
  BY EntriesAreListed
<1>2. \A i \in 1..N : SideAt(strategy, n.entries, i) = SideAt(strategy, m.entries, i)
  <2> SUFFICES ASSUME NEW i \in 1..N
               PROVE  SideAt(strategy, n.entries, i) = SideAt(strategy, m.entries, i)
    OBVIOUS
  <2>1. i <= Lookback \/ (i \in 1..N /\ i - 1 \in 1..N)
    BY <1>1 DEF Lookback
  <2>2. \A j \in 1..N : n.entries[j] = m.entries[j]
    BY <1>1
  <2>3. CASE i <= Lookback
    BY <2>3 DEF SideAt
  <2>4. CASE i \in 1..N /\ i - 1 \in 1..N
    BY <2>2, <2>4 DEF SideAt, Reference
  <2> QED
    BY <2>1, <2>3, <2>4
<1>3. \A i \in 1..N : SignalAt(strategy, n, i) = SignalAt(strategy, m, i)
  BY <1>1, <1>2 DEF SignalAt
<1>4. /\ Len(s) = N /\ Len(t) = N + 1
      /\ \A i \in 1..N : s[i] = t[i] /\ (i \in P <=> i \in Q)
      /\ t[N + 1] = SignalAt(strategy, n, N + 1)
  <2>1. /\ DOMAIN s = 1..N /\ DOMAIN t = 1..(N + 1)
        /\ s = [i \in 1..N |-> s[i]] /\ t = [i \in 1..(N + 1) |-> t[i]]
    BY <1>1
  <2>2. ASSUME NEW i \in 1..N PROVE s[i] = t[i] /\ (i \in P <=> i \in Q)
    <3>1. i \in DOMAIN m.entries /\ i \in DOMAIN n.entries
      BY <1>1
    <3>2. s[i] = SignalAt(strategy, m, i) /\ t[i] = SignalAt(strategy, n, i)
      BY <3>1
    <3>3. /\ i \in P <=> SideAt(strategy, m.entries, i) # ""
          /\ i \in Q <=> SideAt(strategy, n.entries, i) # ""
      BY <3>1
    <3> HIDE DEF s, t, P, Q
    <3> QED
      BY <1>2, <1>3, <3>2, <3>3
  <2>3. t[N + 1] = SignalAt(strategy, n, N + 1)
    BY <1>1
  <2> HIDE DEF s, t, P, Q, N
  <2>4. Len(s) = N /\ Len(t) = N + 1
    BY <1>1, <2>1
  <2> QED
    BY <2>2, <2>3, <2>4
<1>5. Signals(strategy, m) = Kept(s, P) /\ Signals(strategy, n) = Kept(t, Q)
  BY DEF Signals
<1>6. Len(n.entries) = N + 1
  OBVIOUS
<1> HIDE DEF N, s, t, P, Q
<1>7. Kept(t, Q) = IF N + 1 \in Q THEN Append(Kept(s, P), t[N + 1]) ELSE Kept(s, P)
  BY <1>1, <1>4, OneMoreKept
<1> QED
  BY <1>4, <1>5, <1>6, <1>7

\* No strategy looks ahead, whatever its input is and however the entries go on
\* (build_output; NothingLooksAhead).
THEOREM NoneLooksAhead == Spec => NothingLooksAhead
<1>1. FilesInv /\ FilesInv'
        => [OneMoreEntry =>
              \A strategy \in Strategies :
                LET before == Signals(strategy, input)
                    after == Signals(strategy, input')
                IN \/ after = before
                   \/ after = Append(before, SignalAt(strategy, input', Len(input'.entries)))]_input
  <2> SUFFICES ASSUME FilesInv, FilesInv', OneMoreEntry, NEW strategy \in Strategies
               PROVE  \/ Signals(strategy, input') = Signals(strategy, input)
                      \/ Signals(strategy, input')
                           = Append(Signals(strategy, input),
                                    SignalAt(strategy, input', Len(input'.entries)))
    OBVIOUS
  <2>1. input \in Inputs /\ input' \in Inputs
    BY DEF FilesInv
  <2> QED
    BY <2>1, OneMoreSignal DEF OneMoreEntry
<1> QED
  BY <1>1, FilesAlways, PTL DEF Spec, NothingLooksAhead

\* A signal is that of an entry on which the strategy takes a side.
LEMMA SignalIsOfAnEntry ==
  ASSUME NEW m \in Inputs, NEW strategy, NEW n \in DOMAIN Signals(strategy, m)
  PROVE  /\ ~(n > Len(Signals(strategy, m)))
         /\ \E i \in DOMAIN m.entries : Signals(strategy, m)[n] = SignalAt(strategy, m, i)
<1> DEFINE items == [i \in DOMAIN m.entries |-> SignalAt(strategy, m, i)]
           places == {i \in DOMAIN m.entries : SideAt(strategy, m.entries, i) # ""}
           R == {SignalAt(strategy, m, i) : i \in DOMAIN m.entries}
<1>1. items \in Seq(R) /\ DOMAIN items = DOMAIN m.entries
      /\ \A i \in DOMAIN items : items[i] = SignalAt(strategy, m, i)
  BY EntriesAreListed
<1>2. Signals(strategy, m) = Kept(items, places)
  BY DEF Signals
<1> HIDE DEF items, places, R
<1>3. /\ Signals(strategy, m) \in Seq(R)
      /\ \E i \in DOMAIN items : Signals(strategy, m)[n] = items[i]
  BY <1>1, <1>2, KeptItems
<1>4. ~(n > Len(Signals(strategy, m)))
  BY <1>3, LenProperties
<1> QED
  BY <1>1, <1>3, <1>4

\* The entry of a sequence number, and the place of a quote of its own name.
LEMMA OneEntry ==
  ASSUME NEW m \in Inputs, Rising(m.entries), NEW i \in DOMAIN m.entries
  PROVE  (CHOOSE e \in {m.entries[j] : j \in DOMAIN m.entries} :
            e.sequence = m.entries[i].sequence) = m.entries[i]
<1> DEFINE Entries == {m.entries[j] : j \in DOMAIN m.entries}
           entry == CHOOSE e \in Entries : e.sequence = m.entries[i].sequence
<1>1. entry \in Entries /\ entry.sequence = m.entries[i].sequence
  <2>1. \E e \in Entries : e.sequence = m.entries[i].sequence
    OBVIOUS
  <2> HIDE DEF Entries
  <2> QED
    BY <2>1
<1>2. PICK j \in DOMAIN m.entries : entry = m.entries[j]
  BY <1>1
<1> HIDE DEF entry
<1>3. i = j
  <2>1. /\ m.entries[i].sequence \in Int /\ m.entries[j].sequence \in Int
        /\ i \in Nat /\ j \in Nat
    BY <1>2, EntriesAreListed
  <2>2. /\ i < j => m.entries[i].sequence < m.entries[j].sequence
        /\ j < i => m.entries[j].sequence < m.entries[i].sequence
    BY <1>2 DEF Rising
  <2>3. m.entries[j].sequence = m.entries[i].sequence
    BY <1>1, <1>2
  <2> QED
    BY <2>1, <2>2, <2>3
<1> QED
  BY <1>2, <1>3 DEF entry

\* A decision that follows a signal is reproduced, with the evidence of the
\* entry or with none.
LEMMA FollowedReproduces ==
  ASSUME NEW strategy, NEW signals, NEW n, ~(n > Len(signals)), NEW i \in DOMAIN input.entries,
         signals[n] = SignalAt(strategy, input, i),
         input \in Inputs, Rising(input.entries), NamesDiffer,
         NEW ev, ev = PinnedOn(signals[n]) \/ ev = None
  PROVE  RunVerdict(input, signals, "A", strategy, n, Followed(strategy, signals[n]), ev) = ""
<1> DEFINE entry == input.entries[i]
           signal == signals[n]
           run == Followed(strategy, signal)
<1>1. /\ signal.sequence = entry.sequence /\ signal.decision_at = entry.decision_at
      /\ signal.symbol = entry.quote.symbol /\ signal.pack = input.pack
      /\ signal.source = entry.quote.source /\ signal.quote_id = entry.quote.quote_id
  BY DEF SignalAt
<1>2. EntriesFor(input, run.request.quote_ref) = {i}
  BY <1>1 DEF EntriesFor, Followed, NamesDiffer
<1>3. First({i}) = i
  <2>1. i <= i
    BY EntriesAreListed
  <2> QED
    BY <2>1 DEF First
<1>4. /\ run.request.cycle_id = "A" /\ run.request.strategy_version_id = strategy
      /\ AsFrozen(run, signal)
      /\ run.request.decision_at = entry.decision_at
      /\ run.request.signal.symbol = entry.quote.symbol
      /\ run.request.quote_ref = QuoteRef(input.pack, entry.quote)
  BY <1>1 DEF Followed, AsFrozen, QuoteRef
<1>5. ev # None => /\ <<ev.pack, ev.quote, ev.available_at>>
                        = <<input.pack, entry.quote, entry.available_at>>
                   /\ LevelAsFrozen(run, ev.execution, entry)
  <2> SUFFICES ASSUME ev = PinnedOn(signal)
               PROVE  /\ <<ev.pack, ev.quote, ev.available_at>>
                           = <<input.pack, entry.quote, entry.available_at>>
                      /\ LevelAsFrozen(run, ev.execution, entry)
    OBVIOUS
  <2>1. (CHOOSE e \in {input.entries[j] : j \in DOMAIN input.entries} :
           e.sequence = signal.sequence) = entry
    BY <1>1, OneEntry
  <2> DEFINE level == entry.levels[signal.side]
  <2>2. ev = [pack |-> input.pack, quote |-> entry.quote, available_at |-> entry.available_at,
              execution |-> [quote_ref |-> QuoteRef(input.pack, entry.quote),
                             side |-> signal.side, price |-> level.price,
                             available |-> level.available,
                             observed_at |-> entry.quote.observed_at]]
    BY <2>1 DEF PinnedOn
  <2> HIDE DEF run, entry, signal
  <2> QED
    BY <1>4, <2>2 DEF LevelAsFrozen
<1> HIDE DEF entry, run
<1>6. {i} # {}
  OBVIOUS
<1>7. input.entries[First({i})] = entry
  BY <1>3 DEF entry
<1> QED
  BY <1>2, <1>4, <1>5, <1>6, <1>7 DEF RunVerdict, run

LEMMA InvReproduces == input \in Inputs => FollowedSignalsReproduce
<1> SUFFICES ASSUME input \in Inputs, ProducerAccepts(input), NamesDiffer,
                    NEW strategy \in Strategies, NEW n \in DOMAIN Signals(strategy, input),
                    NEW ev \in {PinnedOn(Signals(strategy, input)[n]), None}
             PROVE  RunVerdict(input, Signals(strategy, input), "A", strategy, n,
                               Followed(strategy, Signals(strategy, input)[n]), ev) = ""
  BY DEF FollowedSignalsReproduce
<1>1. PICK i \in DOMAIN input.entries : Signals(strategy, input)[n] = SignalAt(strategy, input, i)
  BY SignalIsOfAnEntry
<1>2. ~(n > Len(Signals(strategy, input))) /\ Rising(input.entries)
  BY SignalIsOfAnEntry DEF ProducerAccepts
<1> QED
  BY <1>1, <1>2, FollowedReproduces

\* Whatever a strategy signals on an input both halves accept, following it
\* reproduces the research (build_output and verify_research_reproduction).
THEOREM SignalsReproduce == Spec => []FollowedSignalsReproduce
<1>1. FilesInv => FollowedSignalsReproduce
  BY InvReproduces DEF FilesInv
<1> QED
  BY <1>1, FilesAlways, PTL


(***************************************************************************)
(* Padding.                                                                *)
(***************************************************************************)
\* Four bytes tell a number that fits in them.
LEMMA BytesOf ==
  ASSUME NEW n \in Nat, n < 8 * MessageBound
  PROVE  /\ Bytes(n) \in Seq(0..255) /\ Len(Bytes(n)) = 4
         /\ Number(Bytes(n)[1], Bytes(n)[2], Bytes(n)[3], Bytes(n)[4]) = n
<1> DEFINE a == n \div 16777216
           b == (n \div 65536) % 256
           c == (n \div 256) % 256
           d == n % 256
<1>1. a \in 0..255 /\ b \in 0..255 /\ c \in 0..255 /\ d \in 0..255
  BY SMT DEF MessageBound
<1>2. Number(a, b, c, d) = n
  BY SMT DEF Number
<1>3. Bytes(n) = <<a, b, c, d>>
  BY SMT DEF Bytes
<1> HIDE DEF a, b, c, d
<1> QED
  BY <1>1, <1>2, <1>3

LEMMA ZerosAre ==
  ASSUME NEW n \in Nat
  PROVE  /\ Zeros(n) \in Seq(0..255) /\ Len(Zeros(n)) = n
         /\ \A i \in 1..n : Zeros(n)[i] = 0
BY DEF Zeros

\* One sequence of bytes after another.
IsJoin(c, a, b, m, k) ==
  /\ c \in Seq(0..255) /\ Len(c) = m + k
  /\ \A i \in 1..m : c[i] = a[i]
  /\ \A i \in 1..k : c[m + i] = b[i]

LEMMA Joined ==
  ASSUME NEW a \in Seq(0..255), NEW b \in Seq(0..255)
  PROVE  IsJoin(a \o b, a, b, Len(a), Len(b))
<1> DEFINE m == Len(a)
           k == Len(b)
<1>1. /\ a \o b \in Seq(0..255) /\ Len(a \o b) = m + k
      /\ \A i \in 1..m + k : (a \o b)[i] = IF i <= m THEN a[i] ELSE b[i - m]
  BY ConcatProperties
<1>2. m \in Nat /\ k \in Nat
  OBVIOUS
<1> HIDE DEF m, k
<1>3. ASSUME NEW i \in 1..m PROVE (a \o b)[i] = a[i]
  BY <1>1, <1>2
<1>4. ASSUME NEW i \in 1..k PROVE (a \o b)[m + i] = b[i]
  <2>1. m + i \in 1..m + k /\ ~(m + i <= m) /\ (m + i) - m = i
    BY <1>2
  <2> QED
    BY <1>1, <2>1
<1> QED
  BY <1>1, <1>3, <1>4 DEF IsJoin, m, k

\* The parts of a padded message, each at its place.
IsPadded(padded, text, n, z) ==
  /\ n \in Nat /\ z \in 0..63 /\ (n + z) % 64 = 55
  /\ padded \in Seq(0..255) /\ Len(padded) = n + z + 9
  /\ \A i \in 1..n : padded[i] = text[i]
  /\ padded[n + 1] = 128
  /\ \A i \in n + 2..n + z + 5 : padded[i] = 0
  /\ \A i \in 1..4 : padded[n + z + 5 + i] = Bytes(8 * n)[i]

LEMMA PaddedIs ==
  ASSUME NEW text, IsMessage(text)
  PROVE  IsPadded(Padded(text), text, Len(text), ZeroFill(Len(text) + 1))
<1> DEFINE n == Len(text)
           z == ZeroFill(n + 1)
<1>1. text \in Seq(0..255) /\ n \in Nat /\ n < MessageBound
  BY DEF IsMessage
<1>2. z \in 0..63 /\ (n + z) % 64 = 55
  <2> HIDE DEF n
  <2> QED
    BY <1>1 DEF ZeroFill, BlockBytes
<1>0. Zeros(z) = Zeros(ZeroFill(Len(text) + 1)) /\ n = Len(text)
  OBVIOUS
<1> HIDE DEF n, z
<1> DEFINE mark == <<Mark>>
           marked == text \o mark
           filled == marked \o Zeros(z)
           bits == Bytes(8 * n)
           length == Zeros(4) \o bits
<1>3. /\ marked \in Seq(0..255) /\ Len(marked) = n + 1
      /\ \A i \in 1..n : marked[i] = text[i]
      /\ marked[n + 1] = 128
  <2>1. mark \in Seq(0..255) /\ Len(mark) = 1 /\ mark[1] = 128 /\ 1 \in 1..1
    BY DEF Mark
  <2> HIDE DEF mark
  <2>2. IsJoin(marked, text, mark, Len(text), Len(mark))
    BY <1>1, <2>1, Joined, Zenon
  <2>3. IsJoin(marked, text, mark, n, 1)
    BY <1>0, <2>1, <2>2, Zenon
  <2> HIDE DEF marked
  <2> QED
    BY <2>1, <2>3 DEF IsJoin
<1> HIDE DEF marked
<1>4. /\ filled \in Seq(0..255) /\ Len(filled) = (n + 1) + z
      /\ \A i \in 1..n + 1 : filled[i] = marked[i]
      /\ \A i \in 1..z : filled[(n + 1) + i] = 0
  <2>1. Zeros(z) \in Seq(0..255) /\ Len(Zeros(z)) = z /\ \A i \in 1..z : Zeros(z)[i] = 0
    BY <1>2, ZerosAre
  <2> DEFINE p == n + 1
             zeros == Zeros(z)
  <2>2. p \in Nat /\ z \in Nat /\ marked \in Seq(0..255) /\ Len(marked) = p
    BY <1>1, <1>2, <1>3
  <2>3. zeros \in Seq(0..255) /\ Len(zeros) = z
    BY <2>1
  <2> HIDE DEF p, zeros
  <2>4. IsJoin(marked \o zeros, marked, zeros, p, z)
    BY <2>2, <2>3, Joined
  <2>5. filled = marked \o zeros
    BY DEF zeros
  <2> HIDE DEF filled
  <2> QED
    BY <2>1, <2>4, <2>5 DEF p, zeros, IsJoin
<1> HIDE DEF filled
<1>5. /\ length \in Seq(0..255) /\ Len(length) = 8
      /\ \A i \in 1..4 : length[i] = 0 /\ length[4 + i] = bits[i]
  <2>1. Zeros(4) \in Seq(0..255) /\ Len(Zeros(4)) = 4 /\ \A i \in 1..4 : Zeros(4)[i] = 0
    BY ZerosAre
  <2>2. bits \in Seq(0..255) /\ Len(bits) = 4
    <3>1. 8 * n \in Nat /\ 8 * n < 8 * MessageBound
      BY <1>1, SMT DEF MessageBound
    <3> QED
      BY <3>1, BytesOf
  <2> HIDE DEF bits
  <2>3. IsJoin(length, Zeros(4), bits, 4, 4)
    BY <2>1, <2>2, Joined
  <2> HIDE DEF length
  <2> QED
    BY <2>1, <2>3 DEF IsJoin
<1>6. Padded(text) = filled \o length
  BY <1>0 DEF Padded, BitLength, filled, marked
<1> HIDE DEF length, bits
<1> DEFINE m == n + z + 1
<1>7. m \in Nat /\ 8 \in Nat
  BY <1>1, <1>2
<1>8. /\ Padded(text) \in Seq(0..255) /\ Len(Padded(text)) = m + 8
      /\ \A i \in 1..m : Padded(text)[i] = filled[i]
      /\ \A i \in 1..8 : Padded(text)[m + i] = length[i]
  <2>1. filled \in Seq(0..255) /\ Len(filled) = m /\ length \in Seq(0..255) /\ Len(length) = 8
    <3>1. Len(filled) = (n + 1) + z /\ m = (n + 1) + z
      BY <1>1, <1>2, <1>4
    <3> HIDE DEF m
    <3> QED
      BY <1>4, <1>5, <3>1
  <2> HIDE DEF m
  <2>2. IsJoin(filled \o length, filled, length, m, 8)
    BY <1>7, <2>1, Joined
  <2> QED
    BY <1>6, <2>2 DEF IsJoin
<1>9. Len(Padded(text)) = n + z + 9
  BY <1>1, <1>2, <1>8
<1>10. ASSUME NEW i \in 1..n PROVE Padded(text)[i] = text[i]
  <2>1. i \in 1..m /\ i \in 1..n + 1
    BY <1>1, <1>2
  <2> QED
    BY <1>3, <1>4, <1>8, <2>1
<1>11. Padded(text)[n + 1] = 128
  <2>1. n + 1 \in 1..m /\ n + 1 \in 1..n + 1
    BY <1>1, <1>2
  <2> QED
    BY <1>3, <1>4, <1>8, <2>1
<1>12. ASSUME NEW i \in n + 2..n + z + 5 PROVE Padded(text)[i] = 0
  <2>1. CASE i <= n + z + 1
    <3> DEFINE j == i - (n + 1)
    <3>1. i \in 1..m /\ j \in 1..z /\ (n + 1) + j = i
      BY <1>1, <1>2, <2>1
    <3> HIDE DEF j, m
    <3> QED
      BY <1>4, <1>8, <3>1
  <2>2. CASE ~(i <= n + z + 1)
    <3> DEFINE j == i - m
    <3>1. j \in 1..4 /\ j \in 1..8 /\ m + j = i
      BY <1>1, <1>2, <2>2
    <3> HIDE DEF j, m
    <3> QED
      BY <1>5, <1>8, <3>1
  <2> QED
    BY <2>1, <2>2
<1>13. ASSUME NEW i \in 1..4 PROVE Padded(text)[n + z + 5 + i] = bits[i]
  <2>1. 4 + i \in 1..8 /\ m + (4 + i) = n + z + 5 + i
    BY <1>1, <1>2
  <2> HIDE DEF m
  <2> QED
    BY <1>5, <1>8, <2>1
<1> QED
  BY <1>1, <1>2, <1>8, <1>9, <1>10, <1>11, <1>12, <1>13 DEF bits, n, z, IsPadded

\* No byte is lost in the blocks, and each is where it was.
LEMMA HashedIs ==
  ASSUME NEW text, IsMessage(text)
  PROVE  /\ Len(Sha256(text)) \in Nat /\ Len(Sha256(text)) * 64 = Len(Padded(text))
         /\ \A b \in 1..Len(Sha256(text)) : Len(Sha256(text)[b]) = 64
         /\ \A n \in 1..Len(Padded(text)) : Hashed(text, n) = Padded(text)[n]
<1> DEFINE bytes == Padded(text)
           N == Len(bytes)
           B == N \div 64
           z == ZeroFill(Len(text) + 1)
           block(b) == SubSeq(bytes, (b - 1) * 64 + 1, b * 64)
<1>1. bytes \in Seq(0..255) /\ N \in Nat /\ N % 64 = 0
  <2> DEFINE n == Len(text)
  <2>1. IsPadded(bytes, text, n, z)
    BY PaddedIs, Zenon
  <2> HIDE DEF bytes, n, z
  <2>2. bytes \in Seq(0..255)
    BY <2>1 DEF IsPadded
  <2>3. n \in Nat /\ z \in 0..63 /\ (n + z) % 64 = 55 /\ N = n + z + 9
    BY <2>1 DEF IsPadded
  <2> HIDE DEF N
  <2> QED
    BY <2>2, <2>3
<1>2. Sha256(text) = [b \in 1..B |-> block(b)]
  BY DEF Sha256, Blocks, BlockBytes
<1> HIDE DEF bytes, N
<1>3. B \in Nat /\ B * 64 = N
  BY <1>1
<1> HIDE DEF B
<1>4. Len(Sha256(text)) = B
  <2> HIDE DEF block
  <2> QED
    BY <1>2, <1>3
<1>5. ASSUME NEW b \in 1..B
      PROVE  /\ Len(block(b)) = 64
             /\ \A i \in 1..64 : block(b)[i] = bytes[(b - 1) * 64 + i]
  <2> DEFINE first == (b - 1) * 64 + 1
             last == b * 64
  <2>1. first \in Int /\ last \in Int /\ first <= last /\ last - first + 1 = 64
    BY <1>3
  <2>2. \A i \in first..last : bytes[i] \in 0..255
    <3>1. \A i \in first..last : i \in 1..N
      BY <1>1, <1>3
    <3> QED
      BY <1>1, <3>1, ElementOfSeq DEF N
  <2>3. \A i \in Int : first + i - 1 = (b - 1) * 64 + i
    OBVIOUS
  <2> HIDE DEF first, last
  <2>4. /\ Len(SubSeq(bytes, first, last)) = 64
        /\ \A i \in 1..64 : SubSeq(bytes, first, last)[i] = bytes[first + i - 1]
    BY <2>1, <2>2, SubSeqProperties
  <2>5. block(b) = SubSeq(bytes, first, last)
    BY DEF first, last
  <2> QED
    BY <2>3, <2>4, <2>5
<1> HIDE DEF block
<1>6. ASSUME NEW n \in 1..N PROVE Hashed(text, n) = bytes[n]
  <2> DEFINE b == ((n - 1) \div 64) + 1
             i == ((n - 1) % 64) + 1
  <2>1. b \in 1..B /\ i \in 1..64 /\ (b - 1) * 64 + i = n
    BY <1>1, <1>3
  <2>2. Hashed(text, n) = Sha256(text)[b][i]
    BY DEF Hashed, BlockBytes
  <2> HIDE DEF b, i
  <2>3. Sha256(text)[b] = block(b)
    BY <1>2, <2>1
  <2> QED
    BY <1>5, <2>1, <2>2, <2>3
<1> QED
  BY <1>2, <1>3, <1>4, <1>5, <1>6 DEF N, bytes

\* There is one way to fill the last block up.
RestIs(a, k) == k \in 0..511 /\ (a + k) % 512 = 448

LEMMA OneRest ==
  ASSUME NEW a \in Nat, NEW j, NEW k, RestIs(a, j), RestIs(a, k)
  PROVE  j = k
<1>0. j \in 0..511 /\ k \in 0..511 /\ (a + j) % 512 = 448 /\ (a + k) % 512 = 448
  BY DEF RestIs
<1>1. PICK p \in Int : a + j = 512 * p + 448
  <2>1. (a + j) \div 512 \in Int /\ a + j = 512 * ((a + j) \div 512) + 448
    BY <1>0
  <2> QED
    BY <2>1
<1>2. PICK q \in Int : a + k = 512 * q + 448
  <2>1. (a + k) \div 512 \in Int /\ a + k = 512 * ((a + k) \div 512) + 448
    BY <1>0
  <2> QED
    BY <2>1
<1> DEFINE d == j - k
           e == p - q
<1>3. d \in -511..511 /\ e \in Int /\ d = 512 * e
  <2>1. d = 512 * e
    BY <1>0, <1>1, <1>2
  <2>2. d \in -511..511 /\ e \in Int
    BY <1>0
  <2> QED
    BY <2>1, <2>2
<1>4. j = k + d /\ k \in Int
  BY <1>0
<1> HIDE DEF d, e
<1>5. e = 0
  BY <1>3
<1>6. d = 0
  BY <1>3, <1>5
<1> QED
  BY <1>4, <1>6

\* Every message is hashed in the blocks the standard cuts it into: whole, marked,
\* filled up with as few zeros as there can be and with its length in bits, so
\* that no message is hashed like the beginning of another (digest.rs).
THEOREM PaddingIsStandard == []IsMessage(message) => []PadsAsStandard
<1>1. IsMessage(message) => PadsAsStandard
  <2> SUFFICES ASSUME IsMessage(message) PROVE PadsAsStandard
    OBVIOUS
  <2> DEFINE n == Len(message)
             z == ZeroFill(n + 1)
             l == 8 * n
             k == CHOOSE z_1 \in 0..511 : (l + 1 + z_1) % 512 = 448
             end == (l + 1 + k) \div 8
             H(i) == Hashed(message, i)
  <2>1. n \in Nat /\ n < MessageBound
    BY DEF IsMessage
  <2>2. IsPadded(Padded(message), message, n, z)
    BY PaddedIs, Zenon
  <2>3. n \in Nat /\ z \in 0..63 /\ (n + z) % 64 = 55 /\ Len(Padded(message)) = n + z + 9
    <3> HIDE DEF n, z
    <3> QED
      BY <2>2 DEF IsPadded
  <2>4. /\ Len(Sha256(message)) \in Nat /\ Len(Sha256(message)) * 64 = n + z + 9
        /\ \A b \in 1..Len(Sha256(message)) : Len(Sha256(message)[b]) = 64
        /\ \A i \in 1..n + z + 9 : H(i) = Padded(message)[i]
    <3>1. /\ Len(Sha256(message)) \in Nat /\ Len(Sha256(message)) * 64 = Len(Padded(message))
          /\ \A b \in 1..Len(Sha256(message)) : Len(Sha256(message)[b]) = 64
          /\ \A i \in 1..Len(Padded(message)) : H(i) = Padded(message)[i]
      BY HashedIs, Zenon
    <3> HIDE DEF z, n, H
    <3> QED
      BY <2>3, <3>1, Zenon
  <2>5. k = 8 * z + 7
    <3> HIDE DEF z, n
    <3>1. 8 * z + 7 \in 0..511 /\ (l + 1 + (8 * z + 7)) % 512 = 448
      BY <2>3
    <3>2. k \in 0..511 /\ (l + 1 + k) % 512 = 448
      BY <3>1
    <3> DEFINE a == l + 1
               rest == 8 * z + 7
    <3>3. a \in Nat
      BY <2>3
    <3>4. RestIs(a, rest)
      BY <3>1, Zenon DEF RestIs
    <3>5. RestIs(a, k)
      BY <3>2, Zenon DEF RestIs
    <3> HIDE DEF k, a, rest
    <3>6. rest = k
      BY <3>3, <3>4, <3>5, OneRest, Zenon
    <3> QED
      BY <3>6, Zenon DEF rest
  <2> HIDE DEF k, z, n
  <2>6. end = n + z + 1
    BY <2>3, <2>5
  <2> HIDE DEF end, H
  <2>7. Len(Sha256(message)) * 512 = l + 1 + k + 64
    <3>1. Len(Sha256(message)) \in Nat /\ Len(Sha256(message)) * 64 = n + z + 9
      BY <2>4, Zenon
    <3> QED
      BY <2>3, <2>5, <3>1
  <2>8. ASSUME NEW i \in 1..n PROVE H(i) = message[i]
    <3>1. i \in 1..n + z + 9
      BY <2>3
    <3> QED
      BY <2>2, <2>4, <3>1 DEF IsPadded
  <2>9. H(n + 1) = 128
    <3>1. n + 1 \in 1..n + z + 9
      BY <2>3
    <3> QED
      BY <2>2, <2>4, <3>1 DEF IsPadded
  <2>10. ASSUME NEW i \in n + 2..end + 4 PROVE H(i) = 0
    <3>1. i \in 1..n + z + 9 /\ i \in n + 2..n + z + 5
      BY <2>3, <2>6
    <3> QED
      BY <2>2, <2>4, <3>1 DEF IsPadded
  <2>11. ASSUME NEW i \in 1..4 PROVE H(end + 4 + i) = Bytes(l)[i]
    <3>1. end + 4 + i = n + z + 5 + i /\ end + 4 + i \in 1..n + z + 9
      BY <2>3, <2>6
    <3>2. Padded(message)[n + z + 5 + i] = Bytes(l)[i]
      BY <2>2, Zenon DEF IsPadded
    <3>3. H(end + 4 + i) = Padded(message)[end + 4 + i]
      BY <2>4, <3>1, Zenon
    <3> QED
      BY <3>1, <3>2, <3>3, Zenon
  <2>12. end \in Nat
    BY <2>3, <2>6
  <2>13. H(end + 5) = Bytes(l)[1] /\ H(end + 6) = Bytes(l)[2]
         /\ H(end + 7) = Bytes(l)[3] /\ H(end + 8) = Bytes(l)[4]
    <3>1. /\ end + 4 + 1 = end + 5 /\ end + 4 + 2 = end + 6
          /\ end + 4 + 3 = end + 7 /\ end + 4 + 4 = end + 8
          /\ 1 \in 1..4 /\ 2 \in 1..4 /\ 3 \in 1..4 /\ 4 \in 1..4
      BY <2>12
    <3> QED
      BY <2>11, <3>1
  <2>14. /\ Bytes(l) \in Seq(0..255) /\ Len(Bytes(l)) = 4
         /\ Number(Bytes(l)[1], Bytes(l)[2], Bytes(l)[3], Bytes(l)[4]) = l
    <3>1. l \in Nat /\ l < 8 * MessageBound
      BY <2>1, SMT DEF MessageBound
    <3> QED
      BY <3>1, BytesOf
  <2>15. ASSUME NEW i \in end + 5..end + 8 PROVE H(i) \in 0..255
    <3>1. \A j \in 1..4 : Bytes(l)[j] \in 0..255
      BY <2>14, ElementOfSeq
    <3>2. PICK j \in 1..4 : i = end + 4 + j
      <4>1. i - (end + 4) \in 1..4 /\ i = end + 4 + (i - (end + 4))
        BY <2>12
      <4> QED
        BY <4>1
    <3> QED
      BY <2>11, <3>1, <3>2
  <2>16. Number(H(end + 5), H(end + 6), H(end + 7), H(end + 8)) = l
    BY <2>13, <2>14
  <2> HIDE DEF l
  <2>17. /\ Len(Sha256(message)) * 512 = l + 1 + k + 64
         /\ \A b \in 1..Len(Sha256(message)) : Len(Sha256(message)[b]) = 64
         /\ \A i \in 1..n : H(i) = message[i]
         /\ H(n + 1) = 128
         /\ \A i \in n + 2..end + 4 : H(i) = 0
         /\ \A i \in end + 5..end + 8 : H(i) \in 0..255
         /\ Number(H(end + 5), H(end + 6), H(end + 7), H(end + 8)) = l
    BY <2>4, <2>7, <2>8, <2>9, <2>10, <2>15, <2>16
  <2> QED
    BY <2>17, Zenon DEF PadsAsStandard, n, k, end, H, l
<1> QED
  BY <1>1, PTL

\* Two messages hashed in the same blocks are one message: the padding takes away
\* nothing that told them apart (digest.rs, whose digests name the files).
THEOREM BlocksTellTheMessage ==
  ASSUME NEW text, IsMessage(text), NEW other, IsMessage(other), Sha256(text) = Sha256(other)
  PROVE  text = other
<1> DEFINE n == Len(text)
           m == Len(other)
           z == ZeroFill(n + 1)
           y == ZeroFill(m + 1)
           P == Padded(text)
           Q == Padded(other)
<1>1. IsPadded(P, text, n, z) /\ IsPadded(Q, other, m, y)
  BY PaddedIs, Zenon
<1>2. /\ n \in Nat /\ z \in 0..63 /\ Len(P) = n + z + 9
      /\ m \in Nat /\ y \in 0..63 /\ Len(Q) = m + y + 9
  <2> HIDE DEF n, m, z, y, P, Q
  <2> QED
    BY <1>1 DEF IsPadded
<1>3. n < MessageBound /\ m < MessageBound /\ text \in Seq(0..255) /\ other \in Seq(0..255)
  BY DEF IsMessage
<1>4. Len(P) = Len(Q)
  <2>1. Len(Sha256(text)) \in Nat /\ Len(Sha256(text)) * 64 = Len(P)
    BY HashedIs, Zenon
  <2>2. Len(Sha256(other)) * 64 = Len(Q)
    BY HashedIs, Zenon
  <2> QED
    BY <2>1, <2>2, Zenon
<1>5. \A i \in 1..Len(P) : P[i] = Q[i]
  <2>1. \A i \in 1..Len(P) : Hashed(text, i) = P[i]
    BY HashedIs, Zenon
  <2>2. \A i \in 1..Len(Q) : Hashed(other, i) = Q[i]
    BY HashedIs, Zenon
  <2>3. \A i : Hashed(text, i) = Hashed(other, i)
    BY Zenon DEF Hashed
  <2> HIDE DEF P, Q
  <2> QED
    BY <1>4, <2>1, <2>2, <2>3, Zenon
<1> HIDE DEF n, m, z, y, P, Q
<1>6. n + z = m + y
  BY <1>2, <1>4
<1>7. ASSUME NEW i \in 1..4 PROVE Bytes(8 * n)[i] = Bytes(8 * m)[i]
  <2>1. n + z + 5 + i \in 1..Len(P) /\ n + z + 5 + i = m + y + 5 + i
    BY <1>2, <1>6
  <2>2. P[n + z + 5 + i] = Bytes(8 * n)[i] /\ Q[m + y + 5 + i] = Bytes(8 * m)[i]
    BY <1>1, Zenon DEF IsPadded
  <2> QED
    BY <1>5, <2>1, <2>2, Zenon
<1>8. n = m
  <2>1. 8 * n \in Nat /\ 8 * n < 8 * MessageBound /\ 8 * m \in Nat /\ 8 * m < 8 * MessageBound
    BY <1>2, <1>3, SMT DEF MessageBound
  <2> DEFINE a == Bytes(8 * n)
             b == Bytes(8 * m)
  <2>2. Number(a[1], a[2], a[3], a[4]) = 8 * n
    BY <2>1, BytesOf
  <2>3. Number(b[1], b[2], b[3], b[4]) = 8 * m
    BY <2>1, BytesOf
  <2>4. a[1] = b[1] /\ a[2] = b[2] /\ a[3] = b[3] /\ a[4] = b[4]
    BY <1>7
  <2> HIDE DEF a, b
  <2>5. 8 * n = 8 * m
    BY <2>2, <2>3, <2>4, Zenon
  <2>6. n \in Nat /\ m \in Nat
    BY <1>2, Zenon
  <2> QED
    BY <2>5, <2>6
<1>9. ASSUME NEW i \in 1..n PROVE text[i] = other[i]
  <2>1. i \in 1..Len(P)
    BY <1>2
  <2>2. P[i] = text[i] /\ Q[i] = other[i]
    BY <1>1, <1>8, Zenon DEF IsPadded
  <2> QED
    BY <1>5, <2>1, <2>2, Zenon
<1> QED
  BY <1>3, <1>8, <1>9, SeqEqual DEF n, m
=============================================================================
