--------------------------- MODULE Decision_proofs ---------------------------
(***************************************************************************)
(* What a decision does to a portfolio, for every portfolio, request,      *)
(* quote and pack (domain/execution.rs, domain/portfolio.rs): a decision   *)
(* that fills is always affordable to account for, a purchase opens one    *)
(* lot and costs at most a tenth of the cash, a sale clears one lot of an  *)
(* earlier day and never costs money.                                      *)
(*                                                                         *)
(* Sums and filters over lots are recursive functions, which reach the     *)
(* provers as CHOOSE.  Each gets a lemma that the function exists and two  *)
(* that say what it is, by induction on the length; the induction itself   *)
(* is the lemma Induct, by a minimal counterexample.                       *)
(***************************************************************************)
EXTENDS Execution, FiniteSetTheorems, WellFoundedInduction, SequenceTheorems, TLAPS

(***************************************************************************)
(* Induction over the natural numbers.                                     *)
(***************************************************************************)
\* A nonempty set of natural numbers has a least one: of the intervals that
\* end in one of its members, one is minimal for inclusion.
LEMMA Least ==
  ASSUME NEW T, T \subseteq Nat, T # {}
  PROVE \E x \in T : \A y \in T : x <= y
<1>1. PICK top \in T : TRUE
  OBVIOUS
<1> DEFINE S == 0..top
           W == {0..m : m \in {t \in T : t <= top}}
<1>2. IsWellFoundedOn(StrictSubsetOrdering(S), SUBSET S)
  <2>1. IsFiniteSet(S)
    BY <1>1, FS_Interval
  <2>2. FiniteSubsetsOf(S) = SUBSET S
    BY <2>1, FS_FiniteSubsetsOfFinite
  <2> HIDE DEF S
  <2>3. IsWellFoundedOn(StrictSubsetOrdering(S), FiniteSubsetsOf(S))
    BY FS_StrictSubsetOrderingWellFounded
  <2> QED
    BY <2>2, <2>3
<1>3. W \subseteq SUBSET S /\ W # {}
  BY <1>1
<1>4. PICK X \in W : \A Y \in W : ~(<<Y, X>> \in StrictSubsetOrdering(S))
  <2> HIDE DEF W, S
  <2> QED BY <1>2, <1>3, WFMin
<1>5. PICK x \in T : x <= top /\ X = 0..x
  OBVIOUS
<1>6. ASSUME NEW y \in T, y < x PROVE FALSE
  <2>1. 0..y \in W
    BY <1>5, <1>6
  <2>2. 0..y \subseteq 0..x /\ 0..y # 0..x
    BY <1>5, <1>6
  <2>3. <<0..y, 0..x>> \in StrictSubsetOrdering(S)
    BY <1>3, <1>5, <2>1, <2>2 DEF StrictSubsetOrdering
  <2> QED
    BY <1>4, <1>5, <2>1, <2>3
<1> QED
  BY <1>5, <1>6

\* A set that has 0 and is closed under successor has every number: its least
\* missing number would have a predecessor.
LEMMA Induct ==
  ASSUME NEW T, 0 \in T, \A n \in Nat : n \in T => n + 1 \in T
  PROVE  Nat \subseteq T
<1>1. SUFFICES ASSUME Nat \ T # {} PROVE FALSE
  OBVIOUS
<1>2. PICK x \in Nat \ T : \A y \in Nat \ T : x <= y
  BY <1>1, Least, Zenon
<1>3. x # 0 /\ x - 1 \in Nat /\ x - 1 \notin T
  BY <1>2
<1> QED
  BY <1>2, <1>3

\* A nonempty bounded set of natural numbers has a greatest one.
LEMMA GreatestIs ==
  ASSUME NEW T, T \subseteq Nat, T # {}, NEW top \in Nat, \A y \in T : y <= top
  PROVE  Greatest(T) \in T /\ \A y \in T : y <= Greatest(T)
<1> DEFINE U == {m \in Nat : \A y \in T : y <= m}
<1>1. U \subseteq Nat /\ U # {}
  OBVIOUS
<1> HIDE DEF U
<1>2. PICK x \in U : \A y \in U : x <= y
  BY <1>1, Least, Zenon
<1> USE DEF U
<1>3. x \in T
  <2>1. SUFFICES ASSUME x \notin T PROVE FALSE
    OBVIOUS
  <2>2. \A y \in T : y < x
    BY <1>2, <2>1
  <2>3. x \in Nat /\ (\A y \in T : y \in Nat)
    OBVIOUS
  <2> HIDE DEF U
  <2>4. ASSUME NEW y \in T PROVE y \in Nat /\ y <= x - 1
    <3>1. y \in Nat /\ y < x
      BY <2>2, <2>3
    <3> QED
      BY <2>3, <3>1
  <2>5. x - 1 \in Nat
    <3>1. PICK y \in T : TRUE
      OBVIOUS
    <3> QED
      BY <2>3, <2>4
  <2>6. x - 1 \in U
    BY <2>4, <2>5 DEF U
  <2>7. x <= x - 1
    BY <1>2, <2>6
  <2> QED
    BY <2>3, <2>7
<1>4. \E m \in T : \A y \in T : y <= m
  BY <1>2, <1>3
<1> QED
  BY <1>4 DEF Greatest

(***************************************************************************)
(* Ordered early returns.                                                  *)
(***************************************************************************)
\* No reason is given just when none of the checks gives one; one that is given
\* is that of a check.
LEMMA NoReason ==
  ASSUME NEW reasons, NEW n \in Nat, DOMAIN reasons = 1..n
  PROVE  /\ FirstReason(reasons) = "" <=> \A i \in 1..n : reasons[i] = ""
         /\ FirstReason(reasons) # "" => \E i \in 1..n : FirstReason(reasons) = reasons[i]
<1> DEFINE given == {i \in DOMAIN reasons : reasons[i] # ""}
<1>1. CASE given = {}
  BY <1>1 DEF FirstReason
<1>2. CASE given # {}
  <2>1. given \subseteq Nat
    <3>1. \A i \in given : i \in 1..n
      OBVIOUS
    <3> HIDE DEF given
    <3> QED
      BY <3>1
  <2> DEFINE first == CHOOSE i \in given : \A j \in given : i <= j
  <2>2. first \in given
    <3> HIDE DEF given
    <3>1. \E i \in given : \A j \in given : i <= j
      BY <1>2, <2>1, Least, Zenon
    <3> QED
      BY <3>1
  <2>3. FirstReason(reasons) = reasons[first]
    BY <1>2 DEF FirstReason
  <2> HIDE DEF first
  <2> QED
    BY <2>2, <2>3
<1> QED
  BY <1>1, <1>2

(***************************************************************************)
(* Units: the sum over the first n lots, for every n.                      *)
(***************************************************************************)
IsTotal(f, lots, S, N) ==
  f = [n \in 0..N |->
         IF n = 0 THEN 0 ELSE f[n-1] + IF n \in S THEN lots[n].quantity ELSE 0]

\* The sum exists, whatever its length.
LEMMA TotalExists ==
  ASSUME NEW lots, NEW S, NEW N \in Nat
  PROVE  \E f : IsTotal(f, lots, S, N)
<1> DEFINE T == {n \in Nat : \E f : IsTotal(f, lots, S, n)}
<1>1. 0 \in T
  <2>1. IsTotal([n \in 0..0 |-> 0], lots, S, 0)
    BY DEF IsTotal
  <2> QED
    BY <2>1
<1>2. ASSUME NEW n \in Nat, n \in T PROVE n + 1 \in T
  <2>1. PICK f : IsTotal(f, lots, S, n)
    BY <1>2
  <2> DEFINE more == IF n + 1 \in S THEN lots[n + 1].quantity ELSE 0
             g == [k \in 0..(n + 1) |-> IF k = n + 1 THEN f[n] + more ELSE f[k]]
  <2>2. IsTotal(g, lots, S, n + 1)
    BY <2>1 DEF IsTotal
  <2> QED
    BY <2>2
<1> HIDE DEF T
<1>3. Nat \subseteq T
  BY <1>1, <1>2, Induct
<1> QED
  BY <1>3 DEF T

\* Units is the last of those sums.
LEMMA UnitsIs ==
  ASSUME NEW lots, NEW S, Len(lots) \in Nat
  PROVE  \E f : IsTotal(f, lots, S, Len(lots)) /\ Units(lots, S) = f[Len(lots)]
<1> DEFINE f == CHOOSE f : IsTotal(f, lots, S, Len(lots))
<1>1. IsTotal(f, lots, S, Len(lots))
  BY TotalExists
<1>2. Units(lots, S) = f[Len(lots)]
  BY DEF Units, IsTotal
<1> QED
  BY <1>1, <1>2

\* Nothing is in no lots.
LEMMA UnitsOfNone ==
  ASSUME NEW lots, NEW S, Len(lots) \in Nat, \A n \in 1..Len(lots) : n \notin S
  PROVE  Units(lots, S) = 0
<1>1. PICK f : IsTotal(f, lots, S, Len(lots)) /\ Units(lots, S) = f[Len(lots)]
  BY UnitsIs
<1> DEFINE T == {n \in Nat : n <= Len(lots) => f[n] = 0}
<1>2. 0 \in T
  BY <1>1 DEF IsTotal
<1>3. ASSUME NEW n \in Nat, n \in T PROVE n + 1 \in T
  BY <1>1, <1>3 DEF IsTotal
<1> HIDE DEF T
<1>4. Nat \subseteq T
  BY <1>2, <1>3, Induct
<1> QED
  BY <1>1, <1>4 DEF T

\* The units of one lot are its quantity.
LEMMA UnitsOfOne ==
  ASSUME NEW lots, NEW S, Len(lots) \in Nat, NEW i \in 1..Len(lots), i \in S,
         \A n \in 1..Len(lots) : n \in S => n = i, lots[i].quantity \in Nat
  PROVE  Units(lots, S) = lots[i].quantity
<1>1. PICK f : IsTotal(f, lots, S, Len(lots)) /\ Units(lots, S) = f[Len(lots)]
  BY UnitsIs
<1> DEFINE q == lots[i].quantity
           T == {n \in Nat : n <= Len(lots) => f[n] = IF n < i THEN 0 ELSE q}
<1>2. 0 \in T
  BY <1>1 DEF IsTotal
<1>3. ASSUME NEW n \in Nat, n \in T PROVE n + 1 \in T
  <2>1. SUFFICES ASSUME n + 1 <= Len(lots) PROVE f[n + 1] = IF n + 1 < i THEN 0 ELSE q
    OBVIOUS
  <2>2. f[n + 1] = f[n] + IF n + 1 \in S THEN lots[n + 1].quantity ELSE 0
    BY <1>1, <2>1 DEF IsTotal
  <2>3. f[n] = IF n < i THEN 0 ELSE q
    BY <1>3, <2>1
  <2>4. n + 1 \in S <=> n + 1 = i
    BY <2>1
  <2> HIDE DEF T
  <2> QED
    BY <2>2, <2>3, <2>4
<1> HIDE DEF T
<1>4. Nat \subseteq T
  BY <1>2, <1>3, Induct
<1> QED
  BY <1>1, <1>4 DEF T

(***************************************************************************)
(* Remaining: the lots that are not empty, in their order.                 *)
(***************************************************************************)
IsKept(f, lots, N) ==
  f = [n \in 0..N |-> IF n = 0 THEN <<>> ELSE Retain(f[n-1], lots[n])]

\* The filtered sequence exists, whatever its length.
LEMMA KeptExists ==
  ASSUME NEW lots, NEW N \in Nat
  PROVE  \E f : IsKept(f, lots, N)
<1> DEFINE T == {n \in Nat : \E f : IsKept(f, lots, n)}
<1>1. 0 \in T
  <2>1. IsKept([n \in 0..0 |-> <<>>], lots, 0)
    BY DEF IsKept
  <2> QED
    BY <2>1
<1>2. ASSUME NEW n \in Nat, n \in T PROVE n + 1 \in T
  <2>1. PICK f : IsKept(f, lots, n)
    BY <1>2
  <2> DEFINE g == [k \in 0..(n + 1) |->
                      IF k = n + 1 THEN Retain(f[n], lots[n + 1]) ELSE f[k]]
  <2>2. IsKept(g, lots, n + 1)
    BY <2>1 DEF IsKept
  <2> QED
    BY <2>2
<1> HIDE DEF T
<1>3. Nat \subseteq T
  BY <1>1, <1>2, Induct
<1> QED
  BY <1>3 DEF T

\* r holds the lots at the places m, which are the nonempty ones up to n.
Picks(r, m, lots, n) ==
  /\ r \in Seq({lots[i] : i \in 1..Len(lots)})
  /\ m \in [1..Len(r) -> 1..n]
  /\ \A j \in 1..Len(r) : r[j] = lots[m[j]] /\ lots[m[j]].quantity > 0
  /\ \A j, k \in 1..Len(r) : j < k => m[j] < m[k]
  /\ \A i \in 1..n : lots[i].quantity > 0 => \E j \in 1..Len(r) : m[j] = i

\* One more lot that is not empty.
LEMMA PickOneMore ==
  ASSUME NEW r, NEW m, NEW lots, NEW n \in Nat, Len(lots) \in Nat, n + 1 <= Len(lots),
         Picks(r, m, lots, n), lots[n + 1].quantity > 0
  PROVE  \E p : Picks(Append(r, lots[n + 1]), p, lots, n + 1)
<1> DEFINE S == {lots[i] : i \in 1..Len(lots)}
           lot == lots[n + 1]
           s == Append(r, lot)
           p == [j \in 1..(Len(r) + 1) |-> IF j = Len(r) + 1 THEN n + 1 ELSE m[j]]
<1>1. r \in Seq(S) /\ lot \in S
  BY DEF Picks
<1> HIDE DEF S
<1>2. /\ s \in Seq(S) /\ Len(s) = Len(r) + 1 /\ Len(r) \in Nat
      /\ \A j \in 1..Len(r) : s[j] = r[j]
      /\ s[Len(r) + 1] = lot
  BY <1>1, AppendProperties, LenProperties
<1>3. /\ m \in [1..Len(r) -> 1..n]
      /\ \A j \in 1..Len(r) : r[j] = lots[m[j]] /\ lots[m[j]].quantity > 0
      /\ \A j, k \in 1..Len(r) : j < k => m[j] < m[k]
      /\ \A i \in 1..n : lots[i].quantity > 0 => \E j \in 1..Len(r) : m[j] = i
  BY DEF Picks
<1> HIDE DEF s
<1>4. \A j \in 1..Len(r) : p[j] = m[j] /\ p[j] \in 1..n
  BY <1>2, <1>3, SMTT(30)
<1>5. p[Len(r) + 1] = n + 1 /\ DOMAIN p = 1..Len(s) /\ p = [j \in 1..Len(s) |-> p[j]]
  BY <1>2
<1>0. \A j \in 1..Len(s) : j \in 1..Len(r) \/ j = Len(r) + 1
  BY <1>2
<1> HIDE DEF p
<1>6. p \in [1..Len(s) -> 1..(n + 1)]
  <2>1. ASSUME NEW j \in 1..Len(s) PROVE p[j] \in 1..(n + 1)
    <3>1. CASE j \in 1..Len(r)
      BY <1>4, <3>1
    <3>2. CASE j = Len(r) + 1
      BY <1>5, <3>2
    <3> QED
      BY <1>0, <3>1, <3>2
  <2> QED
    BY <1>5, <2>1
<1>7. ASSUME NEW j \in 1..Len(s) PROVE s[j] = lots[p[j]] /\ lots[p[j]].quantity > 0
  <2>1. CASE j \in 1..Len(r)
    BY <1>2, <1>3, <1>4, <2>1
  <2>2. CASE j = Len(r) + 1
    BY <1>2, <1>5, <2>2
  <2> QED
    BY <1>0, <2>1, <2>2
<1>8. ASSUME NEW j \in 1..Len(s), NEW k \in 1..Len(s), j < k PROVE p[j] < p[k]
  <2>1. j \in 1..Len(r)
    BY <1>2, <1>8
  <2>2. CASE k = Len(r) + 1
    BY <1>4, <1>5, <2>1, <2>2, SMTT(30)
  <2>3. CASE k # Len(r) + 1
    <3>1. k \in 1..Len(r)
      BY <1>2, <2>3
    <3> QED
      BY <1>3, <1>4, <1>8, <2>1, <3>1
  <2> QED
    BY <2>2, <2>3
<1>9. ASSUME NEW i \in 1..(n + 1), lots[i].quantity > 0 PROVE \E j \in 1..Len(s) : p[j] = i
  <2>1. CASE i = n + 1
    BY <1>2, <1>5, <2>1
  <2>2. CASE i # n + 1
    <3>1. PICK j \in 1..Len(r) : m[j] = i
      BY <1>3, <1>9, <2>2
    <3> QED
      BY <1>2, <1>4, <3>1, SMTT(30)
  <2> QED
    BY <2>1, <2>2
<1> QED
  BY <1>2, <1>6, <1>7, <1>8, <1>9, ZenonT(40) DEF Picks, S, s

\* Remaining picks the lots that are not empty.
LEMMA RemainingPicks ==
  ASSUME NEW lots, Len(lots) \in Nat
  PROVE  \E m : Picks(Remaining(lots), m, lots, Len(lots))
<1> DEFINE f == CHOOSE f : IsKept(f, lots, Len(lots))
<1>1. IsKept(f, lots, Len(lots))
  BY KeptExists
<1>2. Remaining(lots) = f[Len(lots)]
  BY DEF Remaining, IsKept
<1> HIDE DEF f
<1> DEFINE T == {n \in Nat : n <= Len(lots) => \E m : Picks(f[n], m, lots, n)}
<1>3. 0 \in T
  <2>1. f[0] = <<>>
    BY <1>1 DEF IsKept
  <2>2. Picks(<<>>, [j \in {} |-> 1], lots, 0)
    <3>1. <<>> \in Seq({lots[i] : i \in 1..Len(lots)}) /\ Len(<<>>) = 0 /\ 1..0 = {}
      BY EmptySeq
    <3> QED
      BY <3>1 DEF Picks
  <2> QED
    BY <2>1, <2>2
<1>4. ASSUME NEW n \in Nat, n \in T PROVE n + 1 \in T
  <2>1. SUFFICES ASSUME n + 1 <= Len(lots) PROVE \E m : Picks(f[n + 1], m, lots, n + 1)
    OBVIOUS
  <2>2. PICK m : Picks(f[n], m, lots, n)
    BY <1>4, <2>1
  <2>3. f[n + 1] = Retain(f[n], lots[n + 1])
    BY <1>1, <2>1 DEF IsKept
  <2> HIDE DEF T
  <2>4. CASE lots[n + 1].quantity > 0
    BY <2>1, <2>2, <2>3, <2>4, PickOneMore DEF Retain
  <2>5. CASE ~(lots[n + 1].quantity > 0)
    <3>1. Picks(f[n], m, lots, n + 1)
      <4>1. m \in [1..Len(f[n]) -> 1..(n + 1)]
        BY <2>2 DEF Picks
      <4>2. \A i \in 1..(n + 1) : lots[i].quantity > 0 => i \in 1..n
        BY <2>5
      <4> QED
        BY <2>2, <4>1, <4>2 DEF Picks
    <3> QED
      BY <2>3, <2>5, <3>1 DEF Retain
  <2> QED
    BY <2>4, <2>5
<1> HIDE DEF T
<1>5. Nat \subseteq T
  BY <1>3, <1>4, Induct
<1>6. \E m : Picks(f[Len(lots)], m, lots, Len(lots))
  BY <1>5 DEF T
<1> QED
  BY <1>2, <1>6

(***************************************************************************)
(* What a decision that fills has passed.                                  *)
(***************************************************************************)
\* The quantity rule a decision is sized by, and the fill it may end in.
RuleOf(ev, pack) == QuantityRule(pack.instruments, ev.instrument)
SizedFill(state, req, ev, pack) ==
  FillOf(req, OrderQuantity(req, state, ev.execution.price, RuleOf(ev, pack)),
         ev.execution.price)

\* A fill is the last of the returns of decide and execute: every check before
\* it has passed, and accounting for it has succeeded.
LEMMA FillIsLast ==
  ASSUME NEW state, NEW req, NEW ev, NEW pack,
         Decide(state, req, ev, pack).ok, Decide(state, req, ev, pack).value.fill # None
  PROVE  LET fill == SizedFill(state, req, ev, pack)
             level == ev.execution
         IN /\ Decide(state, req, ev, pack) = Filled(fill, Apply(state, fill).value.cash)
            /\ Apply(state, fill).ok
            /\ PackValid(pack) /\ RequestError(req) = "" /\ ev # None
            /\ EvidenceError(req, ev) = "" /\ MarketRejection(req, ev, pack) = ""
            /\ PositionRejection(req, state) = ""
            /\ QuantityRejection(req.signal.side, fill.quantity, RuleOf(ev, pack), level) = ""
<1> DEFINE rule == RuleOf(ev, pack)
           level == ev.execution
           quantity == OrderQuantity(req, state, level.price, rule)
           fill == SizedFill(state, req, ev, pack)
           next == Apply(state, fill)
<1>1. \A reason : Rejected(state, reason).value.fill = None
  BY DEF Rejected, Ok
<1>2. \A name : ~Err(name).ok
  BY DEF Err
<1>3. /\ PackValid(pack) /\ RequestError(req) = "" /\ ev # None
      /\ EvidenceError(req, ev) = "" /\ MarketRejection(req, ev, pack) = ""
      /\ Decide(state, req, ev, pack) = Execute(state, req, level, rule)
  <2>1. PackValid(pack) /\ RequestError(req) = ""
    BY <1>2 DEF Decide
  <2>2. ev # None
    BY <1>1, <2>1 DEF Decide
  <2>3. EvidenceError(req, ev) = ""
    BY <1>2, <2>1, <2>2 DEF Decide
  <2>4. MarketRejection(req, ev, pack) = ""
    BY <1>1, <2>1, <2>2, <2>3 DEF Decide
  <2> QED
    BY <2>1, <2>2, <2>3, <2>4 DEF Decide, RuleOf
<1>4. fill = FillOf(req, quantity, level.price) /\ fill.quantity = quantity
  BY DEF SizedFill, FillOf
<1>5. /\ PositionRejection(req, state) = ""
      /\ QuantityRejection(req.signal.side, quantity, rule, level) = ""
      /\ next.ok
      /\ Execute(state, req, level, rule) = Filled(fill, next.value.cash)
  <2> HIDE DEF rule, fill
  <2> QED
    BY <1>1, <1>2, <1>3, <1>4 DEF Execute
<1> QED
  BY <1>3, <1>4, <1>5

\* A quote that is recent enough is of the day of the decision.
LEMMA QuoteOfTheDay ==
  ASSUME NEW at, NEW ev
  PROVE  QuoteTimeRejection(at, ev) = "" =>
           DayOf(ev.quote.observed_at) = DayOf(at)
<1> DEFINE w1 == When(ev.quote.observed_at > at, "quote_from_future")
           w2 == When(ev.available_at > at, "quote_not_yet_available")
           w3 == When(TooOld(ev.quote.observed_at, at), "stale_quote")
           reasons == <<w1, w2, w3>>
<1>1. QuoteTimeRejection(at, ev) = FirstReason(reasons)
  BY DEF QuoteTimeRejection
<1> HIDE DEF w1, w2, w3
<1>2. DOMAIN reasons = 1..3 /\ reasons[3] = w3
  OBVIOUS
<1> HIDE DEF reasons
<1>3. FirstReason(reasons) = "" => \A i \in 1..3 : reasons[i] = ""
  BY <1>2, NoReason
<1>4. 3 \in 1..3
  OBVIOUS
<1>5. QuoteTimeRejection(at, ev) = "" => w3 = ""
  BY <1>1, <1>2, <1>3, <1>4
<1> QED
  BY <1>5 DEF w3, When, TooOld

\* A level that is used is of the side ordered.
LEMMA LevelOfTheSide ==
  ASSUME NEW side, NEW at, NEW level, level # None
  PROVE  LevelRejection(side, at, level) = "" =>
           level.side = side
<1> DEFINE w1 == When(level.side # side, "execution_side_mismatch")
           w2 == When(TooOld(level.observed_at, at), "stale_execution_evidence")
           reasons == <<w1, w2>>
<1>1. LevelRejection(side, at, level) = FirstReason(reasons)
  BY DEF LevelRejection
<1> HIDE DEF w1, w2
<1>2. DOMAIN reasons = 1..2 /\ reasons[1] = w1
  OBVIOUS
<1> HIDE DEF reasons
<1>3. FirstReason(reasons) = "" => \A i \in 1..2 : reasons[i] = ""
  BY <1>2, NoReason
<1>4. 1 \in 1..2
  OBVIOUS
<1>5. LevelRejection(side, at, level) = "" => w1 = ""
  BY <1>1, <1>2, <1>3, <1>4
<1> QED
  BY <1>5 DEF w1, When

\* A market that raises no objection: the quote is of the day of the decision,
\* the instrument has a quantity rule and the level is of the side ordered.
LEMMA MarketAccepts ==
  ASSUME NEW req, NEW ev, NEW pack
  PROVE  MarketRejection(req, ev, pack) = "" =>
           /\ DayOf(ev.quote.observed_at) = DayOf(req.decision_at)
           /\ QuantityRefusal(pack.instruments, req.signal.symbol, ev.instrument,
                              DayOf(req.decision_at)) = ""
           /\ ev.execution # None /\ ev.execution.side = req.signal.side
<1> DEFINE w1 == QuoteTimeRejection(req.decision_at, ev)
           w2 == DateRejection(pack.calendar, DayOf(req.decision_at))
           w3 == SessionRejection(pack.sessions, TimeOfDay(req.decision_at))
           w4 == QuantityRefusal(pack.instruments, req.signal.symbol, ev.instrument,
                                 DayOf(req.decision_at))
           w5 == QuoteStatusRejection(req.signal.side, ev.quote)
           w6 == LevelRejection(req.signal.side, req.decision_at, ev.execution)
           reasons == <<w1, w2, w3, w4, w5, w6>>
<1>1. MarketRejection(req, ev, pack) = FirstReason(reasons)
  BY DEF MarketRejection
<1> HIDE DEF w1, w2, w3, w4, w5, w6
<1>2. DOMAIN reasons = 1..6 /\ reasons[1] = w1 /\ reasons[4] = w4 /\ reasons[6] = w6
  OBVIOUS
<1> HIDE DEF reasons
<1>3. FirstReason(reasons) = "" => \A i \in 1..6 : reasons[i] = ""
  BY <1>2, NoReason
<1>4. 1 \in 1..6 /\ 4 \in 1..6 /\ 6 \in 1..6
  OBVIOUS
<1>5. MarketRejection(req, ev, pack) = "" => w1 = "" /\ w4 = "" /\ w6 = ""
  BY <1>1, <1>2, <1>3, <1>4
<1>6. w6 = "" => ev.execution # None
  BY DEF w6, LevelRejection
<1> QED
  BY <1>5, <1>6, QuoteOfTheDay, LevelOfTheSide DEF w1, w4, w6

\* The one supported quantity rule is whole lots of a hundred, a million at most.
WholeLots(rule) ==
  rule.minimum = LotSize /\ rule.step = LotSize /\ rule.maximum = 1000000

\* A pack whose instruments are valid knows one quantity rule: a quantity that
\* is not refused is of that rule (instrument.rs).
LEMMA RuleIsWholeLots ==
  ASSUME NEW snap, NEW symbol, NEW pinned, NEW day, InstrumentsValid(snap)
  PROVE  QuantityRefusal(snap, symbol, pinned, day) = "" =>
           LET rule == QuantityRule(snap, pinned) IN
           rule \in snap.rules /\ WholeLots(rule)
<1> DEFINE w1 == When(Identity(snap, symbol) # pinned, "instrument_identity_conflict")
           w2 == When(~Covers(pinned, day), "instrument_date_not_covered")
           w3 == When(pinned.security_type # "OrdinaryAShare", "unsupported_security_type")
           w4 == When(pinned.board # "MainBoard", "unsupported_instrument_board")
           w5 == When(pinned.exchange # "Sse", "unsupported_instrument_exchange")
           w6 == When(pinned.rule_version = None, "instrument_rule_missing")
           w7 == When(pinned.rule_version # QuantityRuleVersion, "unsupported_instrument_rule")
           w8 == When(~\E r \in snap.rules : r.version = pinned.rule_version,
                      "instrument_rule_missing")
           w9 == When(~\E r \in snap.rules : r.version = pinned.rule_version /\ Covers(r, day),
                      "instrument_rule_date_not_covered")
           reasons == <<w1, w2, w3, w4, w5, w6, w7, w8, w9>>
<1>0. QuantityRefusal(snap, symbol, pinned, day) = "" => pinned # None
  BY DEF QuantityRefusal
<1>1. pinned # None => QuantityRefusal(snap, symbol, pinned, day) = FirstReason(reasons)
  BY DEF QuantityRefusal
<1> HIDE DEF w1, w2, w3, w4, w5, w6, w7, w8, w9
<1>2. DOMAIN reasons = 1..9 /\ reasons[7] = w7 /\ reasons[8] = w8
  OBVIOUS
<1> HIDE DEF reasons
<1>3. FirstReason(reasons) = "" => \A i \in 1..9 : reasons[i] = ""
  BY <1>2, NoReason
<1>4. 7 \in 1..9 /\ 8 \in 1..9
  OBVIOUS
<1>5. QuantityRefusal(snap, symbol, pinned, day) = "" => w7 = "" /\ w8 = ""
  BY <1>0, <1>1, <1>2, <1>3, <1>4
<1> DEFINE rule == QuantityRule(snap, pinned)
<1>6. QuantityRefusal(snap, symbol, pinned, day) = "" =>
        rule \in snap.rules /\ rule.version = QuantityRuleVersion
  BY <1>5 DEF w7, w8, When, QuantityRule
<1>7. \A r \in snap.rules : r.version = QuantityRuleVersion =>
        <<r.minimum, r.step, r.maximum>> = <<100, 100, 1000000>>
  BY SMT DEF InstrumentsValid
<1> HIDE DEF rule
<1>8. rule \in snap.rules /\ rule.version = QuantityRuleVersion =>
        WholeLots(rule)
  BY <1>7, SMT DEF WholeLots, LotSize
<1> QED
  BY <1>6, <1>8 DEF rule

\* The evidence a request is decided on is the one it names.
LEMMA EvidenceIsNamed ==
  ASSUME NEW req, NEW ev
  PROVE  EvidenceError(req, ev) = "" =>
           /\ EvidenceValid(ev)
           /\ req.quote_ref = QuoteRef(ev.pack, ev.quote)
           /\ req.signal.symbol = ev.quote.symbol
<1> DEFINE w1 == When(~EvidenceValid(ev), "invalid_evidence")
           w2 == When(req.quote_ref.pack # ev.pack, "quote_data_pack_mismatch")
           w3 == When(req.quote_ref # QuoteRef(ev.pack, ev.quote),
                      "quote_evidence_identity_mismatch")
           w4 == When(req.signal.symbol # ev.quote.symbol, "symbol_mismatch")
           reasons == <<w1, w2, w3, w4>>
<1>1. EvidenceError(req, ev) = FirstReason(reasons)
  BY DEF EvidenceError
<1> HIDE DEF w1, w2, w3, w4
<1>2. DOMAIN reasons = 1..4 /\ reasons[1] = w1 /\ reasons[3] = w3 /\ reasons[4] = w4
  OBVIOUS
<1> HIDE DEF reasons
<1>3. FirstReason(reasons) = "" => \A i \in 1..4 : reasons[i] = ""
  BY <1>2, NoReason
<1>4. 1 \in 1..4 /\ 3 \in 1..4 /\ 4 \in 1..4
  OBVIOUS
<1>5. EvidenceError(req, ev) = "" => w1 = "" /\ w3 = "" /\ w4 = ""
  BY <1>1, <1>2, <1>3, <1>4
<1> QED
  BY <1>5 DEF w1, w3, w4, When

\* A well-formed request is decided at an instant.
LEMMA RequestIsTimed ==
  ASSUME NEW req
  PROVE  RequestError(req) = "" =>
           IsTimestamp(req.decision_at)
<1> DEFINE w1 == When(req.schema_version # 4, "unsupported_contract_version")
           w2 == When(~({req.cycle_id, req.strategy_version_id, req.signal_id,
                         req.quote_ref.quote_id, req.quote_ref.source} \subseteq Keys),
                      "invalid_identity")
           w3 == When(req.signal.symbol \notin WellFormedSymbols, "invalid_symbol_format")
           w4 == When(~IsTimestamp(req.decision_at), "invalid_timestamp")
           reasons == <<w1, w2, w3, w4>>
<1>1. RequestError(req) = FirstReason(reasons)
  BY DEF RequestError
<1> HIDE DEF w1, w2, w3, w4
<1>2. DOMAIN reasons = 1..4 /\ reasons[4] = w4
  OBVIOUS
<1> HIDE DEF reasons
<1>3. FirstReason(reasons) = "" => \A i \in 1..4 : reasons[i] = ""
  BY <1>2, NoReason
<1>4. 4 \in 1..4
  OBVIOUS
<1>5. RequestError(req) = "" => w4 = ""
  BY <1>1, <1>2, <1>3, <1>4
<1> QED
  BY <1>5 DEF w4, When

\* A quantity that is taken is at least the minimum, a multiple of the step and
\* available.
LEMMA QuantityIsTaken ==
  ASSUME NEW side, NEW quantity, NEW rule, NEW level
  PROVE  QuantityRejection(side, quantity, rule, level) = "" =>
           /\ ~(quantity < rule.minimum) /\ quantity % rule.step = 0
           /\ ~(quantity > rule.maximum) /\ ~(quantity > level.available)
<1> DEFINE w1 == When(quantity < rule.minimum,
                      IF side = "Buy" THEN "insufficient_budget_for_board_lot_and_fees"
                                      ELSE "no_t1_sellable_lot")
           w2 == When(quantity % rule.step # 0, "unsupported_odd_lot_position")
           w3 == When(quantity > rule.maximum, "order_quantity_exceeds_instrument_limit")
           w4 == When(quantity > Capacity(level), "insufficient_execution_liquidity")
           reasons == <<w1, w2, w3, w4>>
<1>1. QuantityRejection(side, quantity, rule, level) = FirstReason(reasons)
  BY DEF QuantityRejection
<1> HIDE DEF w1, w2, w3, w4
<1>2. DOMAIN reasons = 1..4 /\ reasons[1] = w1 /\ reasons[2] = w2 /\ reasons[3] = w3 /\ reasons[4] = w4
  OBVIOUS
<1> HIDE DEF reasons
<1>3. FirstReason(reasons) = "" => \A i \in 1..4 : reasons[i] = ""
  BY <1>2, NoReason
<1>4. 1 \in 1..4 /\ 2 \in 1..4 /\ 3 \in 1..4 /\ 4 \in 1..4
  OBVIOUS
<1>5. QuantityRejection(side, quantity, rule, level) = "" => w1 = "" /\ w2 = "" /\ w3 = "" /\ w4 = ""
  BY <1>1, <1>2, <1>3, <1>4
<1> QED
  BY <1>5 DEF w1, w2, w3, w4, When, Capacity

(***************************************************************************)
(* The books a decision finds and leaves.                                  *)
(***************************************************************************)
\* The lots of a book are numbered.
LEMMA BookIsNumbered ==
  ASSUME NEW state, IsBook(state)
  PROVE  Len(state.lots) \in Nat /\ DOMAIN state.lots = 1..Len(state.lots)
BY LenProperties DEF IsBook

\* An empty account is a book.
LEMMA NewIsBook ==
  ASSUME NEW cash \in Nat
  PROVE  IsBook(NewPortfolio(cash))
<1>1. <<>> \in Seq({<<>>[i] : i \in DOMAIN <<>>}) /\ DOMAIN <<>> = {}
  BY EmptySeq
<1> QED
  BY <1>1 DEF IsBook, NewPortfolio

\* What a symbol holds, whole or sellable, is its one lot or nothing.
LEMMA UnitsOfSymbol ==
  ASSUME NEW state, IsBook(state), NEW symbol, NEW S, S \subseteq LotsOf(state, symbol)
  PROVE  /\ S = {} => Units(state.lots, S) = 0
         /\ \A i \in S : Units(state.lots, S) = state.lots[i].quantity
<1>1. Len(state.lots) \in Nat /\ DOMAIN state.lots = 1..Len(state.lots)
  BY BookIsNumbered
<1>2. S = {} => Units(state.lots, S) = 0
  BY <1>1, UnitsOfNone
<1>3. ASSUME NEW i \in S PROVE Units(state.lots, S) = state.lots[i].quantity
  <2>1. i \in 1..Len(state.lots) /\ state.lots[i].quantity \in Nat
    BY <1>1 DEF LotsOf, IsBook
  <2>2. \A n \in 1..Len(state.lots) : n \in S => n = i
    BY <1>1, <1>3 DEF LotsOf, IsBook
  <2> HIDE DEF IsBook
  <2> QED
    BY <1>1, <2>1, <2>2, UnitsOfOne
<1> QED
  BY <1>2, <1>3

\* A purchase of at least one lot is one of those that fit the budget.
LEMMA Sizing ==
  ASSUME NEW cash \in Nat, NEW price \in Int, price > 0,
         NEW rule, WholeLots(rule),
         ~(BuyQuantity(cash, price, rule) < rule.minimum)
  PROVE  LET quantity == BuyQuantity(cash, price, rule)
         IN quantity \in Nat /\ quantity >= 100 /\ BuyCost(quantity, price) <= BuyBudget(cash)
<1>0. rule.minimum = 100 /\ rule.step = 100
  BY DEF WholeLots, LotSize
<1> DEFINE budget == BuyBudget(cash)
           top == budget \div (price * rule.step)
           fits == {q \in {n * rule.step : n \in 0..top} :
                      /\ q >= rule.minimum
                      /\ BuyCost(q, price) <= budget /\ BuyCost(q, price) <= cash}
<1>1. BuyQuantity(cash, price, rule) = IF fits = {} THEN 0 ELSE Greatest(fits)
  BY DEF BuyQuantity
<1>2. fits # {}
  BY <1>0, <1>1
<1>3. budget \in Int
  BY SMT DEF BuyBudget, BuyBudgetBps
<1>4. top \in Int
  <2> HIDE DEF budget
  <2>1. price * rule.step \in Int /\ price * rule.step > 0
    BY <1>0
  <2> QED
    BY <1>3, <2>1
<1> HIDE DEF budget, top
<1>5. \A q \in fits : /\ q \in Nat /\ q >= 100 /\ q <= top * 100 /\ top \in Nat
                      /\ BuyCost(q, price) <= budget
  <2> SUFFICES ASSUME NEW q \in fits
               PROVE  /\ q \in Nat /\ q >= 100 /\ q <= top * 100 /\ top \in Nat
                      /\ BuyCost(q, price) <= budget
    OBVIOUS
  <2>1. PICK n \in 0..top : q = n * rule.step
    OBVIOUS
  <2>2. q >= rule.minimum /\ BuyCost(q, price) <= budget
    OBVIOUS
  <2> HIDE DEF fits
  <2>3. n \in Nat /\ n <= top /\ top \in Nat
    BY <1>4, <2>1
  <2> QED
    BY <1>0, <2>1, <2>2, <2>3
<1> HIDE DEF fits
<1>6. Greatest(fits) \in fits
  <2>1. top * 100 \in Nat /\ fits \subseteq Nat /\ \A q \in fits : q <= top * 100
    <3>1. PICK q \in fits : TRUE
      BY <1>2
    <3>2. top \in Nat
      BY <1>5, <3>1
    <3> QED
      BY <1>5, <3>2
  <2> QED
    BY <1>2, <2>1, GreatestIs
<1>7. BuyQuantity(cash, price, rule) = Greatest(fits)
  BY <1>1, <1>2 DEF fits
<1> QED
  BY <1>5, <1>6, <1>7 DEF budget

\* Fees are whole and not negative, and a tenth of the cash bounds the budget.
LEMMA FeesAreNatural ==
  ASSUME NEW gross \in Nat, NEW side
  PROVE  Commission(gross) \in Nat /\ StampDuty(side, gross) \in Nat
<1>1. CheckedFee(gross, CommissionBps) \in Nat /\ CheckedFee(gross, StampDutyBps) \in Nat
  BY SMT DEF CheckedFee, CommissionBps, StampDutyBps
<1> QED
  BY <1>1 DEF Commission, StampDuty, Larger, MinCommission

\* A purchase may use at most a tenth of the cash (execution.rs, the budget).
LEMMA BudgetIsATenth ==
  ASSUME NEW cash \in Nat
  PROVE  BuyBudget(cash) \in Nat /\ 10 * BuyBudget(cash) <= cash
BY SMT DEF BuyBudget, BuyBudgetBps

\* A purchase adds a lot of a symbol the book does not hold, for at most a
\* tenth of its cash.
OpensLot(state, next, symbol, day) ==
  /\ LotsOf(state, symbol) = {}
  /\ \E quantity \in Nat \ {0} :
       next.lots = Append(state.lots, [symbol |-> symbol, quantity |-> quantity,
                                       bought_on |-> day])
  /\ \E cost \in Nat \ {0} : 10 * cost <= state.cash /\ next.cash = state.cash - cost

\* left has the elements of lots but the i-th, in their order.
Without(lots, i, left) ==
  /\ left \in Seq({lots[k] : k \in DOMAIN lots})
  /\ \E m \in [DOMAIN left -> DOMAIN lots \ {i}] :
       /\ \A j \in DOMAIN left : left[j] = lots[m[j]]
       /\ \A j, k \in DOMAIN left : j < k => m[j] < m[k]
       /\ \A k \in DOMAIN lots \ {i} : \E j \in DOMAIN left : m[j] = k

\* A sale takes the one lot of a symbol, bought on an earlier day, and leaves
\* the others; it never costs money.
Clears(state, next, symbol, day) ==
  /\ next.cash \in Nat /\ next.cash >= state.cash
  /\ \E i \in LotsOf(state, symbol) :
       state.lots[i].bought_on < day /\ Without(state.lots, i, next.lots)

\* A purchase of at least one lot costs something and at most a tenth.
LEMMA PurchaseCost ==
  ASSUME NEW cash \in Nat, NEW price \in Int, price > 0,
         NEW rule, WholeLots(rule),
         ~(BuyQuantity(cash, price, rule) < rule.minimum)
  PROVE  LET quantity == BuyQuantity(cash, price, rule)
             cost == BuyCost(quantity, price)
         IN /\ quantity \in Nat \ {0}
            /\ cost \in Nat \ {0} /\ 10 * cost <= cash
            /\ cost = quantity * price + (Commission(quantity * price) + 0)
<1> DEFINE quantity == BuyQuantity(cash, price, rule)
           gross == quantity * price
           cost == BuyCost(quantity, price)
<1>1. quantity \in Nat /\ quantity >= 100 /\ cost <= BuyBudget(cash)
  BY Sizing
<1>2. cost = gross + Commission(gross)
  BY DEF BuyCost
<1> HIDE DEF quantity, cost
<1>3. gross \in Nat /\ gross > 0
  BY <1>1
<1> HIDE DEF gross
<1>4. Commission(gross) \in Nat
  BY <1>3, FeesAreNatural
<1>5. BuyBudget(cash) \in Nat /\ 10 * BuyBudget(cash) <= cash
  BY BudgetIsATenth
<1>6. cost \in Nat \ {0} /\ 10 * cost <= cash /\ cost = gross + (Commission(gross) + 0)
  BY <1>1, <1>2, <1>3, <1>4, <1>5
<1> QED
  BY <1>1, <1>6 DEF quantity, cost, gross

\* A symbol that may be bought is not held.
LEMMA NothingHeld ==
  ASSUME NEW state, IsBook(state), NEW req
  PROVE  req.signal.side = "Buy" /\ PositionRejection(req, state) = "" =>
           LotsOf(state, req.signal.symbol) = {}
<1> DEFINE symbol == req.signal.symbol
<1>1. ASSUME NEW i \in LotsOf(state, symbol) PROVE Quantity(state, symbol) > 0
  <2>1. LotsOf(state, symbol) \subseteq LotsOf(state, symbol)
    OBVIOUS
  <2>2. Quantity(state, symbol) = state.lots[i].quantity
    BY <2>1, UnitsOfSymbol DEF Quantity
  <2>3. state.lots[i].quantity \in Nat \ {0}
    BY DEF LotsOf, IsBook
  <2> QED
    BY <2>2, <2>3
<1>2. req.signal.side = "Buy" /\ PositionRejection(req, state) = "" =>
        ~(Quantity(state, symbol) > 0)
  BY DEF PositionRejection
<1> QED
  BY <1>1, <1>2

\* What the accounting of a purchase writes.
AfterBuying(state, fill) ==
  [cash |-> state.cash - BuyTotal(fill),
   lots |-> Append(state.lots, [symbol |-> fill.symbol, quantity |-> fill.quantity,
                                bought_on |-> fill.trade_day])]

\* A purchase that can be booked is booked so (portfolio.rs apply).
LEMMA ApplyOfBuy ==
  ASSUME NEW state, NEW fill
  PROVE  fill.side = "Buy" /\ Apply(state, fill).ok =>
           Apply(state, fill).value = AfterBuying(state, fill)
<1>1. \A name : ~Err(name).ok
  BY DEF Err
<1>2. \A v : Ok(v).value = v
  BY DEF Ok
<1>3. fill.side = "Buy" /\ Apply(state, fill).ok => Apply(state, fill) = ApplyBuy(state, fill)
  BY <1>1 DEF Apply
<1>4. ApplyBuy(state, fill).ok => ApplyBuy(state, fill) = Ok(AfterBuying(state, fill))
  BY <1>1, Zenon DEF ApplyBuy, AfterBuying
<1> QED
  BY <1>2, <1>3, <1>4, Zenon

\* What a purchase does to a book.
LEMMA PurchaseOpens ==
  ASSUME NEW state, IsBook(state), NEW req, req.signal.side = "Buy",
         NEW price \in Int, price > 0,
         NEW rule, WholeLots(rule),
         NEW fill, fill = FillOf(req, OrderQuantity(req, state, price, rule), price),
         LotsOf(state, req.signal.symbol) = {},
         ~(fill.quantity < rule.minimum), Apply(state, fill).ok
  PROVE  OpensLot(state, Apply(state, fill).value, req.signal.symbol, DayOf(req.decision_at))
<1> DEFINE symbol == req.signal.symbol
           day == DayOf(req.decision_at)
           quantity == BuyQuantity(state.cash, price, rule)
           cost == BuyCost(quantity, price)
<1>1. /\ fill.quantity = quantity /\ fill.price = price /\ fill.side = "Buy"
      /\ fill.symbol = symbol /\ fill.trade_day = day
      /\ fill.fees = Commission(quantity * price) + 0
  BY DEF FillOf, OrderQuantity, StampDuty
<1>2. state.cash \in Nat /\ ~(quantity < rule.minimum)
  BY <1>1 DEF IsBook
<1>3. /\ quantity \in Nat \ {0} /\ cost \in Nat \ {0} /\ 10 * cost <= state.cash
      /\ cost = quantity * price + (Commission(quantity * price) + 0)
  BY <1>2, PurchaseCost
<1>4. BuyTotal(fill) = cost
  BY <1>1, <1>3, Zenon DEF BuyTotal
<1>5. LotsOf(state, symbol) = {}
  OBVIOUS
<1>6. Apply(state, fill).value = AfterBuying(state, fill)
  BY <1>1, ApplyOfBuy, Zenon
<1> DEFINE next == Apply(state, fill).value
           lot(n) == [symbol |-> symbol, quantity |-> n, bought_on |-> day]
<1>7. next.cash = state.cash - cost /\ next.lots = Append(state.lots, lot(quantity))
  <2>1. /\ AfterBuying(state, fill).cash = state.cash - BuyTotal(fill)
        /\ AfterBuying(state, fill).lots =
             Append(state.lots, [symbol |-> fill.symbol, quantity |-> fill.quantity,
                                 bought_on |-> fill.trade_day])
    BY DEF AfterBuying
  <2> QED
    BY <1>1, <1>4, <1>6, <2>1, Zenon
<1> HIDE DEF cost, quantity, next, day, symbol
<1>8. OpensLot(state, next, symbol, day)
  <2>1. \E n \in Nat \ {0} : next.lots = Append(state.lots, lot(n))
    <3> HIDE DEF lot
    <3> QED BY <1>3, <1>7
  <2>2. \E n \in Nat \ {0} : 10 * n <= state.cash /\ next.cash = state.cash - n
    BY <1>3, <1>7
  <2> QED
    BY <1>5, <2>1, <2>2 DEF OpensLot
<1> QED
  BY <1>8 DEF next, symbol, day

\* What the accounting of a sale writes.
AfterSale(state, fill) ==
  [cash |-> state.cash + fill.quantity * fill.price - fill.fees,
   lots |-> AfterSelling(state.lots, Sellable(state, fill.symbol, fill.trade_day),
                         fill.quantity)]

\* A sale that can be booked is booked so, and its fees do not exceed what it
\* brings in (portfolio.rs apply).
LEMMA ApplyOfSell ==
  ASSUME NEW state, NEW fill
  PROVE  fill.side = "Sell" /\ Apply(state, fill).ok =>
           /\ Apply(state, fill).value = AfterSale(state, fill)
           /\ ~(fill.fees > fill.quantity * fill.price)
<1>1. \A name : ~Err(name).ok
  BY DEF Err
<1>2. \A v : Ok(v).value = v
  BY DEF Ok
<1>3. fill.side = "Sell" /\ Apply(state, fill).ok => Apply(state, fill) = ApplySell(state, fill)
  BY <1>1 DEF Apply
<1>4. ApplySell(state, fill).ok =>
        /\ ApplySell(state, fill) = Ok(AfterSale(state, fill))
        /\ ~(fill.fees > fill.quantity * fill.price)
  BY <1>1, Zenon DEF ApplySell, AfterSale
<1> QED
  BY <1>2, <1>3, <1>4, Zenon

\* Emptying one lot leaves the others, in their order.
LEMMA SellingOne ==
  ASSUME NEW state, IsBook(state), NEW i \in DOMAIN state.lots
  PROVE  Without(state.lots, i, AfterSelling(state.lots, {i}, state.lots[i].quantity))
<1> DEFINE lots == state.lots
           q == lots[i].quantity
           sold == [k \in DOMAIN lots |->
                      [lots[k] EXCEPT !.quantity = @ - Taken(lots, {i}, q, k)]]
           left == Remaining(sold)
<1>1. Len(lots) \in Nat /\ DOMAIN lots = 1..Len(lots)
  BY BookIsNumbered
<1>2. \A k \in DOMAIN lots : lots[k].quantity \in Nat \ {0}
  BY DEF IsBook
<1>20. \A k \in DOMAIN lots :
         lots[k] = [symbol |-> lots[k].symbol, quantity |-> lots[k].quantity,
                    bought_on |-> lots[k].bought_on]
  BY DEF IsBook
<1>3. Taken(lots, {i}, q, i) = q
  <2>1. Units(lots, {j \in {i} : j < i}) = 0
    <3>1. {j \in {i} : j < i} = {}
      BY <1>1
    <3> QED
      BY <1>1, <3>1, UnitsOfNone
  <2>2. q \in Nat
    BY <1>2
  <2> HIDE DEF q
  <2>3. Demand(lots, {i}, q, i) = q
    BY <2>1, <2>2 DEF Demand, Larger
  <2>4. q <= q
    BY <2>2
  <2> QED
    BY <2>3, <2>4 DEF Taken, Smaller, q
<1>4. \A k \in DOMAIN lots : k # i => Taken(lots, {i}, q, k) = 0
  BY DEF Taken
<1>5. sold[i].quantity = 0
  <2>1. sold[i] = [lots[i] EXCEPT !.quantity = @ - q]
    BY <1>3
  <2>2. q - q = 0
    BY <1>2
  <2>3. PICK a, b, d : lots[i] = [symbol |-> a, quantity |-> b, bought_on |-> d]
    BY <1>20
  <2> QED
    BY <2>1, <2>2, <2>3
<1>6. ASSUME NEW k \in DOMAIN lots, k # i PROVE sold[k] = lots[k]
  <2>1. sold[k] = [lots[k] EXCEPT !.quantity = @ - 0]
    BY <1>4, <1>6
  <2>2. lots[k].quantity - 0 = lots[k].quantity
    BY <1>2
  <2>3. PICK a, b, d : lots[k] = [symbol |-> a, quantity |-> b, bought_on |-> d]
    BY <1>20
  <2> QED
    BY <2>1, <2>2, <2>3
<1>7. DOMAIN sold = 1..Len(lots) /\ sold = [k \in 1..Len(lots) |-> sold[k]]
  BY <1>1
<1> HIDE DEF sold
<1>8. Len(sold) = Len(lots)
  <2> DEFINE S == {sold[k] : k \in 1..Len(lots)}
  <2>1. sold \in [1..Len(lots) -> S]
    BY <1>7
  <2>2. sold \in Seq(S)
    <3> HIDE DEF S
    <3> QED BY <1>1, <2>1, SeqDef
  <2>3. DOMAIN sold = 1..Len(sold) /\ Len(sold) \in Nat
    BY <2>2, LenProperties
  <2> QED
    BY <1>1, <1>7, <2>3
<1>9. PICK m : Picks(left, m, sold, Len(lots))
  BY <1>1, <1>8, RemainingPicks
<1> HIDE DEF left
<1>10. /\ left \in Seq({sold[k] : k \in 1..Len(lots)})
       /\ m \in [1..Len(left) -> 1..Len(lots)]
       /\ \A j \in 1..Len(left) : left[j] = sold[m[j]] /\ sold[m[j]].quantity > 0
       /\ \A j, k \in 1..Len(left) : j < k => m[j] < m[k]
       /\ \A k \in 1..Len(lots) : sold[k].quantity > 0 => \E j \in 1..Len(left) : m[j] = k
  BY <1>8, <1>9 DEF Picks
<1>11. DOMAIN left = 1..Len(left) /\ Len(left) \in Nat
  BY <1>10, LenProperties
<1>12. \A j \in DOMAIN left : /\ m[j] \in DOMAIN lots \ {i} /\ left[j] = lots[m[j]]
  BY <1>1, <1>5, <1>6, <1>10, <1>11
<1>13. m \in [DOMAIN left -> DOMAIN lots \ {i}]
  BY <1>10, <1>11, <1>12
<1>14. left \in Seq({lots[k] : k \in DOMAIN lots})
  <2> DEFINE S == {lots[k] : k \in DOMAIN lots}
  <2>1. left \in [1..Len(left) -> S]
    <3>1. left = [j \in 1..Len(left) |-> left[j]]
      BY <1>10, SeqDef
    <3> QED BY <1>11, <1>12, <3>1
  <2> HIDE DEF S
  <2>2. left \in Seq(S)
    BY <1>11, <2>1, SeqDef
  <2> QED
    BY <2>2 DEF S
<1>15. \A k \in DOMAIN lots \ {i} : \E j \in DOMAIN left : m[j] = k
  <2> SUFFICES ASSUME NEW k \in DOMAIN lots \ {i} PROVE \E j \in DOMAIN left : m[j] = k
    OBVIOUS
  <2>1. sold[k] = lots[k] /\ lots[k].quantity \in Nat \ {0}
    BY <1>2, <1>6
  <2>2. sold[k].quantity > 0 /\ k \in 1..Len(lots)
    <3>1. sold[k].quantity \in Nat \ {0}
      BY <2>1, Zenon
    <3> HIDE DEF lots
    <3> QED BY <1>1, <3>1
  <2>3. \E j \in 1..Len(left) : m[j] = k
    BY <1>10, <2>2, Zenon
  <2> QED
    BY <1>11, <2>3
<1>16. left = AfterSelling(lots, {i}, q)
  BY DEF left, sold, AfterSelling
<1> HIDE DEF q, lots
<1>17. Without(lots, i, left)
  BY <1>10, <1>11, <1>12, <1>13, <1>14, <1>15, ZenonT(40) DEF Without
<1> QED
  BY <1>16, <1>17 DEF q, lots

\* The lots a sale of at least one lot takes are one lot.
LEMMA SellableIsOne ==
  ASSUME NEW state, IsBook(state), NEW symbol, NEW day, NEW rule, WholeLots(rule),
         ~(SellableQuantity(state, symbol, day) < rule.minimum)
  PROVE  \E i \in LotsOf(state, symbol) :
           /\ state.lots[i].bought_on < day
           /\ Sellable(state, symbol, day) = {i}
           /\ SellableQuantity(state, symbol, day) = state.lots[i].quantity
<1> DEFINE S == Sellable(state, symbol, day)
<1>1. S \subseteq LotsOf(state, symbol)
  BY DEF Sellable
<1>2. \A i, j \in LotsOf(state, symbol) : i = j
  BY DEF LotsOf, IsBook
<1>3. S # {}
  <2>1. SUFFICES ASSUME S = {} PROVE FALSE
    OBVIOUS
  <2>2. SellableQuantity(state, symbol, day) = 0
    BY <1>1, <2>1, UnitsOfSymbol DEF SellableQuantity
  <2>3. rule.minimum = 100
    BY DEF WholeLots, LotSize
  <2> QED
    BY <2>2, <2>3
<1>4. PICK i \in S : TRUE
  BY <1>3
<1>5. S = {i}
  BY <1>1, <1>2
<1>6. SellableQuantity(state, symbol, day) = state.lots[i].quantity
  BY <1>1, UnitsOfSymbol DEF SellableQuantity
<1>7. state.lots[i].bought_on < day
  BY DEF Sellable
<1> QED
  BY <1>1, <1>5, <1>6, <1>7

\* What a sale does to a book.
LEMMA SaleClears ==
  ASSUME NEW state, IsBook(state), NEW req, req.signal.side = "Sell",
         NEW price \in Int, price > 0,
         NEW rule, WholeLots(rule),
         NEW fill, fill = FillOf(req, OrderQuantity(req, state, price, rule), price),
         ~(fill.quantity < rule.minimum), Apply(state, fill).ok
  PROVE  Clears(state, Apply(state, fill).value, req.signal.symbol, DayOf(req.decision_at))
<1> DEFINE symbol == req.signal.symbol
           day == DayOf(req.decision_at)
           quantity == SellableQuantity(state, symbol, day)
           gross == quantity * price
           fees == Commission(gross) + StampDuty("Sell", gross)
           next == Apply(state, fill).value
<1>1. /\ fill.quantity = quantity /\ fill.price = price /\ fill.side = "Sell"
      /\ fill.symbol = symbol /\ fill.trade_day = day
      /\ fill.fees = fees
  BY DEF FillOf, OrderQuantity
<1>2. ~(quantity < rule.minimum)
  BY <1>1
<1>3. PICK i \in LotsOf(state, symbol) :
           /\ state.lots[i].bought_on < day
           /\ Sellable(state, symbol, day) = {i}
           /\ quantity = state.lots[i].quantity
  BY <1>2, SellableIsOne
<1>4. i \in DOMAIN state.lots /\ quantity \in Nat \ {0} /\ state.cash \in Nat
  BY <1>3 DEF LotsOf, IsBook
<1>5. next = AfterSale(state, fill) /\ ~(fees > gross)
  <2>1. /\ next = AfterSale(state, fill)
        /\ ~(fill.fees > fill.quantity * fill.price)
    BY <1>1, ApplyOfSell, Zenon
  <2> QED
    BY <1>1, <2>1, Zenon
<1>6. /\ next.cash = state.cash + gross - fees
      /\ next.lots = AfterSelling(state.lots, {i}, state.lots[i].quantity)
  <2>1. /\ AfterSale(state, fill).cash = state.cash + fill.quantity * fill.price - fill.fees
        /\ AfterSale(state, fill).lots =
             AfterSelling(state.lots, Sellable(state, fill.symbol, fill.trade_day), fill.quantity)
    BY DEF AfterSale
  <2>2. fill.quantity * fill.price = gross /\ fill.fees = fees
    BY <1>1, Zenon
  <2>3. Sellable(state, fill.symbol, fill.trade_day) = {i}
    BY <1>1, <1>3, Zenon
  <2>4. fill.quantity = state.lots[i].quantity
    BY <1>1, <1>3, Zenon
  <2> HIDE DEF next, gross, fees, quantity, symbol, day
  <2> QED
    BY <1>5, <2>1, <2>2, <2>3, <2>4, Zenon
<1>7. Without(state.lots, i, next.lots)
  <2>1. Without(state.lots, i, AfterSelling(state.lots, {i}, state.lots[i].quantity))
    BY <1>4, SellingOne
  <2> QED
    BY <1>6, <2>1, Zenon
<1> HIDE DEF symbol, day, next, quantity
<1>8. gross \in Nat
  BY <1>4
<1> HIDE DEF gross
<1>9. Commission(gross) \in Nat /\ StampDuty("Sell", gross) \in Nat
  BY <1>8, FeesAreNatural
<1>10. fees \in Nat
  BY <1>9
<1> HIDE DEF fees
<1>11. next.cash \in Nat /\ next.cash >= state.cash
  BY <1>4, <1>5, <1>6, <1>8, <1>10
<1>12. Clears(state, next, symbol, day)
  BY <1>3, <1>7, <1>11 DEF Clears
<1> QED
  BY <1>12 DEF symbol, day, next

\* A purchase keeps a book a book.
LEMMA OpensKeepsBook ==
  ASSUME NEW state, IsBook(state), NEW next, NEW symbol, NEW day \in Nat,
         OpensLot(state, next, symbol, day)
  PROVE  IsBook(next)
<1>1. PICK quantity \in Nat \ {0} :
        next.lots = Append(state.lots, [symbol |-> symbol, quantity |-> quantity,
                                        bought_on |-> day])
  BY DEF OpensLot
<1>2. PICK cost \in Nat \ {0} : 10 * cost <= state.cash /\ next.cash = state.cash - cost
  BY DEF OpensLot
<1> DEFINE lot == [symbol |-> symbol, quantity |-> quantity, bought_on |-> day]
           lots == state.lots
           n == Len(lots)
           S == {lots[i] : i \in DOMAIN lots}
           more == S \cup {lot}
<1>3. n \in Nat /\ DOMAIN lots = 1..n /\ lots \in Seq(S)
  BY BookIsNumbered DEF IsBook
<1>4. /\ next.lots \in Seq(more) /\ DOMAIN next.lots = 1..(n + 1)
      /\ \A i \in 1..n : next.lots[i] = lots[i]
      /\ next.lots[n + 1] = lot
  <2> HIDE DEF lot, lots, S
  <2>1. lots \in Seq(more)
    BY <1>3, SeqMonotonic
  <2>2. next.lots = Append(lots, lot)
    BY <1>1 DEF lot, lots
  <2>3. /\ Append(lots, lot) \in Seq(more) /\ Len(Append(lots, lot)) = n + 1
        /\ \A i \in 1..n : Append(lots, lot)[i] = lots[i]
        /\ Append(lots, lot)[n + 1] = lot
    BY <2>1, AppendProperties
  <2>4. DOMAIN Append(lots, lot) = 1..(n + 1)
    BY <2>3, LenProperties
  <2> QED
    BY <2>2, <2>3, <2>4
<1>5. \A i \in 1..(n + 1) : i \in 1..n \/ i = n + 1
  BY <1>3
<1>6. \A i \in 1..n : i \in DOMAIN lots /\ i # n + 1 /\ i \in 1..(n + 1)
  BY <1>3
<1>7. next.cash \in Nat
  <2>1. state.cash \in Nat
    BY DEF IsBook
  <2> QED
    BY <1>2, <2>1
<1>8. next.lots \in Seq({next.lots[i] : i \in DOMAIN next.lots})
  <2>1. ASSUME NEW x \in more PROVE \E i \in 1..(n + 1) : next.lots[i] = x
    <3>1. CASE x = lot
      <4>1. n + 1 \in 1..(n + 1)
        BY <1>3
      <4> HIDE DEF lot
      <4> QED BY <1>4, <3>1, <4>1
    <3>2. CASE x # lot
      <4>1. PICK i \in DOMAIN lots : x = lots[i]
        BY <3>2
      <4> QED BY <1>3, <1>4, <1>6, <4>1
    <3> QED
      BY <3>1, <3>2
  <2>3. more \subseteq {next.lots[i] : i \in DOMAIN next.lots}
    BY <1>4, <2>1
  <2> HIDE DEF more
  <2> QED
    BY <1>4, <2>3, SeqMonotonic
<1>9. \A i \in DOMAIN lots : lots[i].symbol # symbol
  BY DEF OpensLot, LotsOf
<1>10. lot.symbol = symbol /\ lot.quantity = quantity /\ lot.bought_on = day
  OBVIOUS
<1>11. ASSUME NEW i \in DOMAIN next.lots
       PROVE  LET x == next.lots[i] IN
              /\ x = [symbol |-> x.symbol, quantity |-> x.quantity, bought_on |-> x.bought_on]
              /\ x.quantity \in Nat \ {0}
              /\ x.bought_on \in Nat
  <2>1. CASE i \in 1..n
    <3>1. next.lots[i] = lots[i] /\ i \in DOMAIN lots
      BY <1>4, <1>6, <2>1
    <3>2. /\ lots[i] = [symbol |-> lots[i].symbol, quantity |-> lots[i].quantity,
                        bought_on |-> lots[i].bought_on]
          /\ lots[i].quantity \in Nat \ {0} /\ lots[i].bought_on \in Nat
      BY <3>1 DEF IsBook
    <3> HIDE DEF lots
    <3> QED
      BY <3>1, <3>2, Zenon
  <2>2. CASE i = n + 1
    <3>1. next.lots[i] = lot
      BY <1>4, <2>2
    <3>2. lot = [symbol |-> lot.symbol, quantity |-> lot.quantity, bought_on |-> lot.bought_on]
      OBVIOUS
    <3>3. lot.quantity \in Nat \ {0} /\ lot.bought_on \in Nat
      BY <1>10, Zenon
    <3> HIDE DEF lot
    <3> QED
      BY <3>1, <3>2, <3>3, Zenon
  <2> QED
    BY <1>4, <1>5, <2>1, <2>2
<1>12. ASSUME NEW i \in DOMAIN next.lots, NEW j \in DOMAIN next.lots,
              next.lots[i].symbol = next.lots[j].symbol
       PROVE  i = j
  <2>1. \A k, l \in DOMAIN lots : lots[k].symbol = lots[l].symbol => k = l
    BY DEF IsBook
  <2> HIDE DEF lots, lot
  <2> QED
    BY <1>4, <1>5, <1>6, <1>9, <1>10, <1>12, <2>1
<1> HIDE DEF lot, lots, S, more
<1> QED
  BY <1>7, <1>8, <1>11, <1>12, Zenon DEF IsBook

\* A sale keeps a book a book.
LEMMA ClearsKeepsBook ==
  ASSUME NEW state, IsBook(state), NEW next, NEW symbol, NEW day,
         Clears(state, next, symbol, day)
  PROVE  IsBook(next)
<1> DEFINE lots == state.lots
           left == next.lots
<1>1. PICK i \in LotsOf(state, symbol) : Without(lots, i, left)
  BY DEF Clears
<1>2. PICK m \in [DOMAIN left -> DOMAIN lots \ {i}] :
        /\ \A j \in DOMAIN left : left[j] = lots[m[j]]
        /\ \A j, k \in DOMAIN left : j < k => m[j] < m[k]
  BY <1>1 DEF Without
<1>3. left \in Seq({lots[k] : k \in DOMAIN lots})
  BY <1>1 DEF Without
<1>4. DOMAIN left = 1..Len(left) /\ Len(left) \in Nat
  BY <1>3, LenProperties
<1>5. left \in Seq({left[j] : j \in DOMAIN left})
  <2> DEFINE S == {left[j] : j \in DOMAIN left}
  <2>1. left = [j \in 1..Len(left) |-> left[j]]
    BY <1>3, SeqDef
  <2>2. left \in [1..Len(left) -> S]
    BY <1>4, <2>1
  <2> HIDE DEF S
  <2>3. left \in Seq(S)
    BY <1>4, <2>2, SeqDef
  <2> QED
    BY <2>3 DEF S
<1>6. next.cash \in Nat
  BY DEF Clears
<1>7. \A j \in DOMAIN left : m[j] \in DOMAIN lots
  BY <1>2
<1>8. ASSUME NEW j \in DOMAIN left
      PROVE  LET x == left[j] IN
             /\ x = [symbol |-> x.symbol, quantity |-> x.quantity, bought_on |-> x.bought_on]
             /\ x.quantity \in Nat \ {0}
             /\ x.bought_on \in Nat
  <2> DEFINE x == lots[m[j]]
  <2>1. /\ x = [symbol |-> x.symbol, quantity |-> x.quantity, bought_on |-> x.bought_on]
        /\ x.quantity \in Nat \ {0}
        /\ x.bought_on \in Nat
    BY <1>7 DEF IsBook
  <2>2. left[j] = x
    BY <1>2
  <2> HIDE DEF x, left
  <2> QED
    BY <2>1, <2>2, Zenon
<1>9. ASSUME NEW j \in DOMAIN left, NEW k \in DOMAIN left, left[j].symbol = left[k].symbol
      PROVE  j = k
  <2>1. m[j] = m[k]
    <3>1. \A a, b \in DOMAIN lots : lots[a].symbol = lots[b].symbol => a = b
      BY DEF IsBook
    <3> HIDE DEF lots, left
    <3> QED
      BY <1>2, <1>7, <1>9, <3>1
  <2>2. m[j] \in Nat /\ m[k] \in Nat
    BY <1>7, BookIsNumbered
  <2>3. j \in Nat /\ k \in Nat
    BY <1>4
  <2>4. ~(m[j] < m[k]) /\ ~(m[k] < m[j])
    BY <2>1, <2>2
  <2>5. ~(j < k) /\ ~(k < j)
    BY <1>2, <2>4
  <2> QED
    BY <2>3, <2>5
<1> QED
  BY <1>5, <1>6, <1>8, <1>9, Zenon DEF IsBook

(***************************************************************************)
(* What a fill does.                                                       *)
(***************************************************************************)
\* A decision that fills order `req' on evidence `ev' turns the book `state'
\* into `next'.
Trades(state, req, ev, next) ==
  LET symbol == req.signal.symbol
      day == DayOf(req.decision_at)
  IN /\ ev # None /\ ev.execution # None
     /\ req.quote_ref = QuoteRef(ev.pack, ev.quote)
     /\ ev.quote.symbol = symbol
     /\ ev.execution.side = req.signal.side
     /\ DayOf(ev.quote.observed_at) = day
     /\ req.signal.side = "Buy" => OpensLot(state, next, symbol, day)
     /\ req.signal.side = "Sell" => Clears(state, next, symbol, day)

\* A symbol holds a lot of this quantity since this day.
Holding(state, symbol, quantity, day) ==
  \E k \in LotsOf(state, symbol) :
    state.lots[k].quantity = quantity /\ state.lots[k].bought_on = day

\* The fill of a purchase is the lot it opens, that of a sale one lot of an
\* earlier day.
WholeLot(state, req, fill, next) ==
  LET symbol == req.signal.symbol
      day == DayOf(req.decision_at)
  IN /\ req.signal.side = "Buy" =>
          next.lots = Append(state.lots, [symbol |-> symbol, quantity |-> fill.quantity,
                                          bought_on |-> day])
     /\ req.signal.side = "Sell" =>
          \E since : since < day /\ Holding(state, symbol, fill.quantity, since)

\* A fill that can be booked is of a whole lot (execution.rs decide_unbound,
\* portfolio.rs apply).
LEMMA FillIsWhole ==
  ASSUME NEW state, IsBook(state), NEW req, req.signal.side \in Sides, NEW price,
         NEW rule, WholeLots(rule),
         NEW fill, fill = FillOf(req, OrderQuantity(req, state, price, rule), price),
         ~(fill.quantity < rule.minimum), Apply(state, fill).ok
  PROVE  WholeLot(state, req, fill, Apply(state, fill).value)
<1> DEFINE symbol == req.signal.symbol
           day == DayOf(req.decision_at)
<1>1. fill.side = req.signal.side /\ fill.symbol = symbol /\ fill.trade_day = day
  BY DEF FillOf
<1>2. CASE req.signal.side = "Buy"
  <2>1. Apply(state, fill).value = AfterBuying(state, fill)
    BY <1>1, <1>2, ApplyOfBuy, Zenon
  <2>2. AfterBuying(state, fill).lots =
          Append(state.lots, [symbol |-> fill.symbol, quantity |-> fill.quantity,
                              bought_on |-> fill.trade_day])
    BY DEF AfterBuying
  <2> QED
    BY <1>1, <1>2, <2>1, <2>2 DEF WholeLot
<1>3. CASE req.signal.side = "Sell"
  <2>1. fill.quantity = SellableQuantity(state, symbol, day)
    BY <1>3 DEF FillOf, OrderQuantity
  <2>2. PICK i \in LotsOf(state, symbol) :
             /\ state.lots[i].bought_on < day
             /\ fill.quantity = state.lots[i].quantity
    BY <2>1, SellableIsOne
  <2> QED
    BY <1>3, <2>2 DEF WholeLot, Holding
<1> QED
  BY <1>2, <1>3 DEF Sides

\* Instants fall on days.
LEMMA DaysAreNatural ==
  ASSUME NEW t \in Int, IsTimestamp(t)
  PROVE  DayOf(t) \in Nat
BY SMT DEF IsTimestamp, DayOf, DaySeconds

\* A fill can always be accounted for, whoever asks and whatever the quote: it
\* is of the side, symbol and day of the evidence it names, opens a lot the
\* book did not hold for at most a tenth of its cash or clears one of an
\* earlier day, and leaves a book (execution.rs decide, portfolio.rs apply).
THEOREM FillsTrade ==
  ASSUME NEW state, IsBook(state),
         NEW req, req.decision_at \in Int, req.signal.side \in Sides,
         NEW ev, ev # None /\ ev.execution # None => ev.execution.price \in Int,
         NEW pack, Decide(state, req, ev, pack).ok,
         Decide(state, req, ev, pack).value.fill # None
  PROVE  LET outcome == Decide(state, req, ev, pack).value
             next == Apply(state, outcome.fill).value
         IN /\ Apply(state, outcome.fill).ok
            /\ outcome.status = "Filled" /\ outcome.cash_after = next.cash
            /\ Trades(state, req, ev, next)
            /\ WholeLot(state, req, outcome.fill, next)
            /\ IsBook(next)
<1> DEFINE symbol == req.signal.symbol
           day == DayOf(req.decision_at)
           rule == RuleOf(ev, pack)
           price == ev.execution.price
           fill == SizedFill(state, req, ev, pack)
           next == Apply(state, fill).value
<1>1. /\ Decide(state, req, ev, pack) = Filled(fill, next.cash)
      /\ Apply(state, fill).ok
      /\ PackValid(pack) /\ RequestError(req) = "" /\ ev # None
      /\ EvidenceError(req, ev) = "" /\ MarketRejection(req, ev, pack) = ""
      /\ PositionRejection(req, state) = ""
      /\ QuantityRejection(req.signal.side, fill.quantity, rule, ev.execution) = ""
  BY FillIsLast
<1>2. /\ DayOf(ev.quote.observed_at) = day
      /\ QuantityRefusal(pack.instruments, symbol, ev.instrument, day) = ""
      /\ ev.execution # None /\ ev.execution.side = req.signal.side
  BY <1>1, MarketAccepts, Zenon
<1>3. WholeLots(rule)
  <2>1. InstrumentsValid(pack.instruments)
    BY <1>1 DEF PackValid
  <2> QED
    BY <1>2, <2>1, RuleIsWholeLots, Zenon DEF RuleOf
<1>4. /\ EvidenceValid(ev) /\ req.quote_ref = QuoteRef(ev.pack, ev.quote)
      /\ symbol = ev.quote.symbol
  BY <1>1, EvidenceIsNamed, Zenon
<1>5. day \in Nat
  BY <1>1, RequestIsTimed, DaysAreNatural, Zenon
<1>6. ~(fill.quantity < rule.minimum)
  BY <1>1, QuantityIsTaken, Zenon
<1>7. price \in Int /\ price > 0
  <2>1. LevelValid(ev.execution, ev.quote, ev.available_at)
    BY <1>2, <1>4, Zenon DEF EvidenceValid, FixtureQuoteValid
  <2>2. price > 0
    BY <2>1, Zenon DEF LevelValid
  <2> QED
    BY <1>1, <1>2, <2>2
<1>8. fill = FillOf(req, OrderQuantity(req, state, price, rule), price)
  BY DEF SizedFill
<1> HIDE DEF fill, rule, price
<1>9. req.signal.side = "Buy" => OpensLot(state, next, symbol, day)
  <2>1. SUFFICES ASSUME req.signal.side = "Buy" PROVE OpensLot(state, next, symbol, day)
    OBVIOUS
  <2>2. LotsOf(state, symbol) = {}
    BY <1>1, <2>1, NothingHeld, Zenon
  <2> QED
    BY <1>1, <1>3, <1>6, <1>7, <1>8, <2>1, <2>2, PurchaseOpens
<1>10. req.signal.side = "Sell" => Clears(state, next, symbol, day)
  BY <1>1, <1>3, <1>6, <1>7, <1>8, SaleClears
<1>11. IsBook(next)
  <2> HIDE DEF next, day, symbol
  <2>1. CASE req.signal.side = "Buy"
    BY <1>5, <1>9, <2>1, OpensKeepsBook
  <2>2. CASE req.signal.side = "Sell"
    BY <1>10, <2>2, ClearsKeepsBook
  <2> QED
    BY <2>1, <2>2 DEF Sides
<1>12. /\ Decide(state, req, ev, pack).value.fill = fill
       /\ Decide(state, req, ev, pack).value.status = "Filled"
       /\ Decide(state, req, ev, pack).value.cash_after = next.cash
  <2> HIDE DEF next
  <2>1. /\ Filled(fill, next.cash).value.fill = fill
        /\ Filled(fill, next.cash).value.status = "Filled"
        /\ Filled(fill, next.cash).value.cash_after = next.cash
    BY DEF Filled, Ok
  <2>2. Decide(state, req, ev, pack) = Filled(fill, next.cash)
    BY <1>1 DEF next
  <2> QED
    BY <2>1, <2>2, Zenon
<1>13. Trades(state, req, ev, next)
  BY <1>1, <1>2, <1>4, <1>9, <1>10, Zenon DEF Trades
<1>14. WholeLot(state, req, fill, next)
  BY <1>1, <1>3, <1>6, <1>8, FillIsWhole
<1> HIDE DEF next
<1> QED
  BY <1>1, <1>11, <1>12, <1>13, <1>14, Zenon DEF next
=============================================================================
