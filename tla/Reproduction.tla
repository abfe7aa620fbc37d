---------------------------- MODULE Reproduction ----------------------------
(***************************************************************************)
(* The comparison of one recorded decision with frozen research            *)
(* (v2/src/store/query.rs, verify_research_reproduction): a run and the    *)
(* evidence it pinned, against the signal in its place of a frozen output  *)
(* and the entry that signal names in a frozen input.                      *)
(***************************************************************************)
EXTENDS Execution

\* entry_for looks for the entries of that source and name, whatever the pack,
\* and stops at the first.
EntriesFor(manifest, ref) ==
  {i \in DOMAIN manifest.entries :
     /\ manifest.entries[i].quote.source = ref.source
     /\ manifest.entries[i].quote.quote_id = ref.quote_id}
First(places) == CHOOSE i \in places : \A j \in places : i <= j

\* Mutant of AsFrozen: the pack is not compared.
AsFrozenOnAnyPack(run, frozen) ==
  /\ run.request.signal_id = frozen.signal_id
  /\ run.request.decision_at = frozen.decision_at
  /\ run.request.signal = [symbol |-> frozen.symbol, side |-> frozen.side]
  /\ run.request.quote_ref.source = frozen.source
  /\ run.request.quote_ref.quote_id = frozen.quote_id

AsFrozen(run, frozen) ==
  /\ run.request.signal_id = frozen.signal_id
  /\ run.request.decision_at = frozen.decision_at
  /\ run.request.signal = [symbol |-> frozen.symbol, side |-> frozen.side]
  /\ run.request.quote_ref = [pack |-> frozen.pack, source |-> frozen.source,
                              quote_id |-> frozen.quote_id]

\* The level is compared with the frozen one of the side it is for, which need
\* not be the side that was signalled.
LevelAsFrozen(run, level, entry) ==
  /\ level.price = entry.levels[level.side].price
  /\ level.available = entry.levels[level.side].available
  /\ level.observed_at = entry.quote.observed_at
  /\ level.quote_ref = run.request.quote_ref

\* What is wrong with the n-th run of experiment c, which pinned ev, "" when
\* nothing is.
RunVerdict(manifest, signals, c, strategy, n, run, ev) ==
  LET entries == EntriesFor(manifest, run.request.quote_ref) IN
  IF n > Len(signals) THEN "research_output_has_no_signal_for_run"
  ELSE IF \/ run.request.cycle_id # c
          \/ run.request.strategy_version_id # strategy
          \/ ~AsFrozen(run, signals[n])
    THEN "research_signal_mismatch"
  ELSE IF entries = {} THEN "research_input_missing_entry"
  ELSE LET entry == manifest.entries[First(entries)] IN
    IF \/ entry.decision_at # run.request.decision_at
       \/ entry.quote.symbol # run.request.signal.symbol
      THEN "research_input_entry_mismatch"
    ELSE IF ev = None THEN ""
    ELSE IF <<ev.pack, ev.quote, ev.available_at>>
              # <<manifest.pack, entry.quote, entry.available_at>>
      THEN "research_input_evidence_substitution"
    ELSE IF ev.execution # None /\ ~LevelAsFrozen(run, ev.execution, entry)
      THEN "research_input_liquidity_substitution"
    ELSE ""
=============================================================================
