-------------------------- MODULE ReviewedResearch --------------------------
(***************************************************************************)
(* The frozen research compiled into the program (v2/data/research-*.json  *)
(* and strategy-*.json): one input of five observations and the signals    *)
(* each of the two strategies must reproduce from it.  A digest is a       *)
(* value equal to itself only, so the first characters stand for it.       *)
(***************************************************************************)
EXTENDS ReviewedPacks

On(month, day, h, m) == Date(month, day) * DaySeconds + Clock(h, m)

Level(price) == [price |-> price, available |-> 800]

\* Observed half a minute before the decision it serves, visible a second on.
Entry(sequence, decided, name, price, buy, sell) ==
  [sequence |-> sequence, decision_at |-> decided, available_at |-> decided - 29,
   quote |-> [symbol |-> "600000.SH", price |-> price, observed_at |-> decided - 30,
              source |-> "offline-fixture", quote_id |-> name,
              tradable |-> TRUE, limit_up |-> FALSE, limit_down |-> FALSE],
   levels |-> [side \in {"Buy", "Sell"} |-> IF side = "Buy" THEN Level(buy) ELSE Level(sell)]]

BundledInputs ==
  [id \in {"offline-research-input-v1"} |->
    [research_input_id |-> id, pack |-> Pack1, content_digest |-> "beca60bb",
     entries |->
       << Entry(1, On(10, 30, 10, 0),  "offline-quote-20261030-0959", 1200, 1210, 1190),
          Entry(2, On(10, 30, 10, 30), "offline-quote-20261030-1029", 1240, 1245, 1235),
          Entry(3, On(10, 30, 14, 0),  "offline-quote-20261030-1359", 1290, 1295, 1285),
          Entry(4, On(11, 2, 10, 0),   "offline-quote-20261102-0959", 1250, 1255, 1245),
          Entry(5, On(11, 2, 14, 0),   "offline-quote-20261102-1359", 1250, 1255, 1245) >>]]

Artifact(id) ==
  [strategy_version_id |-> id, research_input_id |-> "offline-research-input-v1",
   research_input_digest |-> "beca60bb", content |-> "reviewed"]

BundledStrategies ==
  [id \in {"research-momentum-v1", "research-reversion-v1"} |-> Artifact(id)]

FrozenSignal(name, decided, side, quote) ==
  [signal_id |-> name, decision_at |-> decided, symbol |-> "600000.SH", side |-> side,
   pack |-> Pack1, source |-> "offline-fixture", quote_id |-> quote]

\* The two strategies trade the same two quotes in opposite directions.
FrozenSignals(id) ==
  IF id = "research-momentum-v1"
    THEN << FrozenSignal("research-momentum-v1-0003-buy", On(10, 30, 14, 0), "Buy",
                         "offline-quote-20261030-1359"),
            FrozenSignal("research-momentum-v1-0004-sell", On(11, 2, 10, 0), "Sell",
                         "offline-quote-20261102-0959") >>
    ELSE << FrozenSignal("research-reversion-v1-0003-sell", On(10, 30, 14, 0), "Sell",
                         "offline-quote-20261030-1359"),
            FrozenSignal("research-reversion-v1-0004-buy", On(11, 2, 10, 0), "Buy",
                         "offline-quote-20261102-0959") >>

BundledOutputs ==
  [id \in DOMAIN BundledStrategies |->
    [research_input_id |-> "offline-research-input-v1", research_input_digest |-> "beca60bb",
     signals |-> FrozenSignals(id)]]
=============================================================================
