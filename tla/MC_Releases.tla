---------------------------- MODULE MC_Releases ----------------------------
(***************************************************************************)
(* Five builds: the first one carries one pack, the second adds the other, *)
(* the third has edited the added pack, the fourth the strategy, the fifth *)
(* the default pack.  Two experiments, one on each pack.                   *)
(***************************************************************************)
EXTENDS Releases, ReviewedPacks

Fri(h, m) == Date(10, 30) * DaySeconds + Clock(h, m)
Stock == "600000.SH"
TheSymbols == {Stock}
TheKeys == {"A", "B", "s1", "s2", "qb", FixtureSource, Pack1, Pack2,
            "research-momentum-v1", "offline-research-input-v1"}

Artifact(source) ==
  [strategy_version_id |-> "research-momentum-v1",
   research_input_id |-> "offline-research-input-v1",
   research_input_digest |-> "beca60bb", source_digest |-> source]
Strategies(source) == [id \in {"research-momentum-v1"} |-> Artifact(source)]
TheInputs == [id \in {"offline-research-input-v1"} |-> [content_digest |-> "beca60bb"]]

Edited(pack) == [pack EXCEPT !.instruments.last = @ - 1]
Build(ids, edited, source) ==
  [packs |-> [id \in ids |-> IF id \in edited THEN Edited(BundledPacks[id]) ELSE BundledPacks[id]],
   strategies |-> Strategies(source), inputs |-> TheInputs]

Builds ==
  << Build({Pack1}, {}, "reviewed"),
     Build({Pack1, Pack2}, {}, "reviewed"),
     Build({Pack1, Pack2}, {Pack2}, "reviewed"),
     Build({Pack1, Pack2}, {}, "edited"),
     Build({Pack1}, {Pack1}, "reviewed") >>

SpecOf(c, pack, source) ==
  [schema_version |-> 1, cycle_id |-> c, initial_cash |-> 11000, strategy |-> Artifact(source),
   policy |-> "v2-paper-policy-6", pack |-> pack]

Import(pack) ==
  [schema_version |-> 2, pack |-> pack, available_at |-> Fri(13, 59),
   quote |-> [symbol |-> Stock, price |-> 20, observed_at |-> Fri(13, 59),
              source |-> FixtureSource, quote_id |-> "qb",
              tradable |-> TRUE, limit_up |-> FALSE, limit_down |-> FALSE],
   execution |-> [schema_version |-> 2,
                  quote_ref |-> [pack |-> pack, source |-> FixtureSource, quote_id |-> "qb"],
                  side |-> "Buy", price |-> 5, available |-> 1000, observed_at |-> Fri(13, 59)]]

Request(c, pack, signal, at) ==
  [schema_version |-> 4, cycle_id |-> c,
   strategy_version_id |-> "research-momentum-v1", signal_id |-> signal,
   decision_at |-> at, signal |-> [symbol |-> Stock, side |-> "Buy"],
   quote_ref |-> [pack |-> pack, source |-> FixtureSource, quote_id |-> "qb"]]

TheSpecs == {SpecOf("A", Pack1, "reviewed"), SpecOf("B", Pack2, "reviewed"), SpecOf("B", Pack2, "edited")}
TheImports == {Import(Pack1), Import(Pack2)}
TheRequests == {Request("A", Pack1, "s1", Fri(14, 0)), Request("A", Pack1, "s2", Fri(14, 1)),
                Request("B", Pack2, "s1", Fri(14, 0))}
TheReceipts == {Fri(9, 0)}
=============================================================================
