--------------------------- MODULE MC_Definitions ---------------------------
(***************************************************************************)
(* The research that ships with the program, walked over in three ways:    *)
(*   files         the momentum strategy on the shipped input, edited in   *)
(*                 every part: a comment or the rule in the source, with   *)
(*                 three kinds of line ends; a price, the order, the pack, *)
(*                 the description and a sequence number of the input,     *)
(*                 with a content digest that follows the edit or not;     *)
(*   observations  an input that grows by one observation at a time, with  *)
(*                 moves just below, on and above both thresholds, and the *)
(*                 shipped one; an observation may reuse the name of an    *)
(*                 earlier quote and share the time of the decision before;*)
(*   bytes         messages on both sides of the two places where their    *)
(*                 padding changes shape, 56 and 64 bytes into a block, in *)
(*                 the first and the second block, that end with the bytes *)
(*                 the padding itself is made of.                          *)
(***************************************************************************)
EXTENDS Definitions, DigestProperties, ReviewedResearch

VARIABLE walk

Stock == "600000.SH"
TheSymbols == {Stock}
Quotes == <<"q1", "q2", "q3", "q4">>
TheKeys == {"offline-research-input-v1"} \cup {Quotes[i] : i \in DOMAIN Quotes}

(***************************************************************************)
(* Files.                                                                  *)
(***************************************************************************)
Lines(comment, rule, end, last) == <<comment>> \o end \o <<rule>> \o last
TheSources ==
  {Lines(comment, rule, end, last) :
     comment \in {"comment", "remark"}, rule \in Strategies,
     end \in {<<LF>>, <<CR, LF>>}, last \in {<<LF>>, <<CR>>}}
Source == Lines("comment", Momentum, <<LF>>, <<LF>>)

Shipped == BundledInputs["offline-research-input-v1"]
Manifest(entries, pack, description) ==
  [schema_version |-> 1, research_input_id |-> "offline-research-input-v1",
   pack |-> pack, description |-> description, entries |-> entries, content_digest |-> <<>>]

Swapped == [Shipped.entries EXCEPT ![4].quote = Shipped.entries[5].quote,
                                   ![5].quote = Shipped.entries[4].quote]
Contents ==
  {Manifest(Shipped.entries, Pack1, "frozen"),
   Manifest(Shipped.entries, Pack1, "reworded"),
   Manifest(Shipped.entries, Pack2, "frozen"),
   Manifest([Shipped.entries EXCEPT ![3].quote.price = 1241], Pack1, "frozen"),
   Manifest(Swapped, Pack1, "frozen"),
   Manifest([Shipped.entries EXCEPT ![1].sequence = 0], Pack1, "frozen")}

Fresh(m) == [m EXCEPT !.content_digest = DigestOf(PythonInputProjection(m))]
Stale(m) ==
  [m EXCEPT !.content_digest =
     DigestOf(PythonInputProjection(Manifest(Shipped.entries, Pack1, "frozen")))]
TheInputs == {Fresh(m) : m \in Contents} \cup {Stale(m) : m \in Contents}

FilesFor(text, m) ==
  /\ source = text /\ input = m
  /\ artifact = Regenerated(text, m).artifact /\ output = Regenerated(text, m).output
  /\ unwritten = <<>> /\ edits = 0

(***************************************************************************)
(* Observations.                                                           *)
(***************************************************************************)
MaxEntries == 4

\* Moves from 2000: 0, 20, 25 and 40 hundredths of a percent up, 25 and 40 down.
Prices == {2000, 2004, 2005, 2008, 1995, 1992}

Observation(n, decided, name, price) ==
  Entry(n, decided, name, price, price + 10, price - 10)

Observed(entries) == Fresh(Manifest(entries, Pack1, "frozen"))

Observe ==
  LET entries == input.entries
      n == Len(entries) + 1
      earliest == IF n = 1 THEN On(10, 30, 10, 0) ELSE entries[n - 1].decision_at
  IN /\ n <= MaxEntries
     /\ \E price \in IF n = 1 THEN {2000} ELSE Prices, pause \in {0, 60}, name \in {Quotes[n], "q3"} :
          input' = Observed(Append(entries, Observation(n, earliest + pause, name, price)))
     /\ UNCHANGED <<source, artifact, output, unwritten, edits>>

(***************************************************************************)
(* Bytes.                                                                  *)
(***************************************************************************)
TheBytes == {0, Mark, 97}
MaxTail == 3
Starts == (51..64) \cup (115..128)

Extend ==
  /\ \E n \in Starts : Len(message) - n \in 0..MaxTail - 1
  /\ \E byte \in TheBytes : message' = Append(message, byte)
  /\ Cardinality({i \in DOMAIN message' : message'[i] # 97}) <= MaxTail

(***************************************************************************)
(* The walks.                                                              *)
(***************************************************************************)
MCInit ==
  \/ walk = "files" /\ Init /\ message = <<>>
  \/ walk = "observations" /\ message = <<>>
     /\ \E entries \in {<<>>, Shipped.entries} : FilesFor(Source, Observed(entries))
  \/ walk = "bytes" /\ message \in {[i \in 1..n |-> 97] : n \in Starts}
     /\ FilesFor(Source, Observed(<<>>))

MCNext ==
  \/ walk = "files" /\ Next /\ UNCHANGED <<walk, message>>
  \/ walk = "observations" /\ Observe /\ UNCHANGED <<walk, message>>
  \/ walk = "bytes" /\ Extend /\ UNCHANGED <<walk, files, unwritten, edits>>

MCSpec == MCInit /\ [][MCNext]_<<walk, message, files, unwritten, edits>>
=============================================================================
