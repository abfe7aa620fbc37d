------------------------------ MODULE Producer ------------------------------
(***************************************************************************)
(* The research producer (v2/research, Python): two fixed strategies read  *)
(* a frozen input, entry after entry, and signal a side or nothing; the    *)
(* output lists the signals in the order of the entries.  The input is     *)
(* checked by both halves, here by verify_input and in the kernel by       *)
(* ResearchInputManifest::validate.  A signal id is the tuple its text is  *)
(* formatted from; a content digest is a value equal to itself only, so    *)
(* recomputing it from unchanged content always agrees.                    *)
(* Decision times are written in one way, with seconds and the offset      *)
(* +08:00: Python compares them as texts and Rust as instants.             *)
(***************************************************************************)
EXTENDS Reproduction, Digest

Momentum == "research-momentum-v1"
Reversion == "research-reversion-v1"
Strategies == {Momentum, Reversion}

Lookback == 2
ThresholdBps(strategy) == IF strategy = Momentum THEN 25 ELSE 40

Up(strategy, price, reference) == price * 10000 >= reference * (10000 + ThresholdBps(strategy))

Down(strategy, price, reference) == price * 10000 <= reference * (10000 - ThresholdBps(strategy))

\* The side a strategy takes on a move, "" for none; each tries to buy first.
Direction(strategy, price, reference) ==
  IF strategy = Momentum
    THEN IF Up(strategy, price, reference) THEN "Buy"
         ELSE IF Down(strategy, price, reference) THEN "Sell" ELSE ""
    ELSE IF Down(strategy, price, reference) THEN "Buy"
         ELSE IF Up(strategy, price, reference) THEN "Sell" ELSE ""

\* Mutant of Reference: the prices are compared with the latest one.
LatestReference(entries, i) == entries[Len(entries)].quote.price

\* The observation just before, whatever it observed.
Reference(entries, i) == entries[i - 1].quote.price

SideAt(strategy, entries, i) ==
  IF i <= Lookback THEN ""
  ELSE Direction(strategy, entries[i].quote.price, Reference(entries, i))

\* Mutant of SignalAt: the decision time is the one of the latest observation.
SignalAtLatest(strategy, manifest, i) ==
  LET entry == manifest.entries[i]
      side == SideAt(strategy, manifest.entries, i)
  IN [signal_id |-> <<strategy, entry.sequence, side>>, sequence |-> entry.sequence,
      decision_at |-> manifest.entries[Len(manifest.entries)].decision_at, symbol |-> entry.quote.symbol,
      side |-> side, pack |-> manifest.pack, source |-> entry.quote.source,
      quote_id |-> entry.quote.quote_id]

SignalAt(strategy, manifest, i) ==
  LET entry == manifest.entries[i]
      side == SideAt(strategy, manifest.entries, i)
  IN [signal_id |-> <<strategy, entry.sequence, side>>, sequence |-> entry.sequence,
      decision_at |-> entry.decision_at, symbol |-> entry.quote.symbol, side |-> side,
      pack |-> manifest.pack, source |-> entry.quote.source, quote_id |-> entry.quote.quote_id]

\* build_output: the signals of a strategy on an input, in observation order.
Signals(strategy, manifest) ==
  Kept([i \in DOMAIN manifest.entries |-> SignalAt(strategy, manifest, i)],
       {i \in DOMAIN manifest.entries : SideAt(strategy, manifest.entries, i) # ""})

Rising(entries) ==
  \A i, j \in DOMAIN entries :
    i < j => /\ entries[i].sequence < entries[j].sequence
             /\ entries[i].decision_at <= entries[j].decision_at

\* verify_input
ProducerAccepts(manifest) == Rising(manifest.entries)

\* ResearchInputManifest::validate
KernelAccepts(manifest) ==
  /\ Rising(manifest.entries)
  /\ \A i \in DOMAIN manifest.entries :
       LET entry == manifest.entries[i] IN
       /\ entry.sequence > 0
       /\ \A side \in Sides : entry.levels[side].price > 0 /\ entry.levels[side].available >= 0
=============================================================================
