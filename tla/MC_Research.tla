---------------------------- MODULE MC_Research ----------------------------
(***************************************************************************)
(* Reproduction with the frozen input and outputs the program carries.     *)
(***************************************************************************)
EXTENDS Research, ReviewedResearch

\* What the program carries, under names of their own: TLC evaluates the
\* definition given to a constant at every use and the one behind it once.
ThePacks == BundledPacks
TheStrategies == BundledStrategies
TheInputs == BundledInputs
TheOutputs == BundledOutputs

Stock == "600000.SH"
TheSymbols == {Stock}
TheReceipts == {On(10, 30, 9, 0)}
TheKeys ==
  {"A", "B", "post-hoc-signal", FixtureSource, Pack1, Pack2, "offline-research-input-v1"}
  \cup DOMAIN BundledStrategies
  \cup {BundledOutputs[id].signals[n].signal_id : id \in DOMAIN BundledStrategies, n \in 1..2}
  \cup {BundledInputs["offline-research-input-v1"].entries[n].quote.quote_id : n \in 1..5}

SpecOf(c, strategy, pack) ==
  [schema_version |-> 1, cycle_id |-> c, initial_cash |-> 2000000,
   strategy |-> Artifact(strategy), policy |-> PolicyVersion, pack |-> pack]

Frozen(n) == BundledInputs["offline-research-input-v1"].entries[n]

\* The import a frozen entry gives for one side.
FrozenImport(pack, n, side) ==
  LET quote == Frozen(n).quote IN
  [schema_version |-> 2, pack |-> pack, available_at |-> Frozen(n).available_at, quote |-> quote,
   execution |-> [schema_version |-> 2, quote_ref |-> QuoteRef(pack, quote), side |-> side,
                  price |-> Frozen(n).levels[side].price,
                  available |-> Frozen(n).levels[side].available,
                  observed_at |-> quote.observed_at]]

\* The request a frozen signal gives, on the pack of the experiment.
FrozenRequest(c, strategy, n, pack) ==
  LET frozen == BundledOutputs[strategy].signals[n] IN
  [schema_version |-> 4, cycle_id |-> c, strategy_version_id |-> strategy,
   signal_id |-> frozen.signal_id, decision_at |-> frozen.decision_at,
   signal |-> [symbol |-> frozen.symbol, side |-> frozen.side],
   quote_ref |-> [pack |-> pack, source |-> frozen.source, quote_id |-> frozen.quote_id]]

\* A decision nobody froze, on the last entry.
PostHoc(c) ==
  [schema_version |-> 4, cycle_id |-> c, strategy_version_id |-> "research-momentum-v1",
   signal_id |-> "post-hoc-signal", decision_at |-> Frozen(5).decision_at,
   signal |-> [symbol |-> Stock, side |-> "Buy"], quote_ref |-> QuoteRef(Pack1, Frozen(5).quote)]

(***************************************************************************)
(* Two experiments of one strategy, the second on the pack its input       *)
(* belongs to or on the other one; quotes as frozen, at another price and  *)
(* of the other pack; and a decision that was never frozen.                *)
(***************************************************************************)
OnePack == [id \in {Pack1} |-> BundledPacks[id]]
SameSpecs == {SpecOf("A", "research-momentum-v1", Pack1), SpecOf("B", "research-momentum-v1", Pack1),
              SpecOf("B", "research-momentum-v1", Pack2)}
SameImports ==
  {FrozenImport(Pack1, 3, "Buy"), FrozenImport(Pack1, 4, "Sell"),
   [FrozenImport(Pack1, 4, "Sell") EXCEPT !.execution.price = @ + 1]}
SameRequests ==
  {FrozenRequest("A", "research-momentum-v1", n, Pack1) : n \in 1..2}
  \cup {FrozenRequest("B", "research-momentum-v1", n, pack) : n \in 1..2, pack \in {Pack1, Pack2}}
  \cup {PostHoc("A")}

(***************************************************************************)
(* Both strategies in one file, every import that follows the frozen input.*)
(***************************************************************************)
BothSpecs == {SpecOf("A", "research-momentum-v1", Pack1), SpecOf("B", "research-reversion-v1", Pack1)}
BothImports == {FrozenImport(Pack1, n, side) : n \in {3, 4}, side \in Sides}
BothRequests ==
  {FrozenRequest("A", "research-momentum-v1", n, Pack1) : n \in 1..2}
  \cup {FrozenRequest("B", "research-reversion-v1", n, Pack1) : n \in 1..2}

(***************************************************************************)
(* The outputs that ship are the ones the strategies give on the input     *)
(* that ships: the same decisions, on the same quotes, in the same order.  *)
(***************************************************************************)
Strategy == INSTANCE Producer

ASSUME ShippedOutputsRegenerate ==
  \A strategy \in Strategy!Strategies :
    LET frozen == BundledOutputs[strategy].signals
        signals == Strategy!Signals(strategy, BundledInputs["offline-research-input-v1"])
    IN /\ Len(signals) = Len(frozen)
       /\ \A n \in DOMAIN frozen : \A field \in DOMAIN frozen[n] \ {"signal_id"} :
            signals[n][field] = frozen[n][field]
=============================================================================
