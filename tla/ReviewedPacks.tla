--------------------------- MODULE ReviewedPacks ---------------------------
(***************************************************************************)
(* The reviewed catalogue compiled into the program (v2/data/*.json, read  *)
(* by reviewed_market_pack): one calendar and one session policy shared by *)
(* both packs, and one instrument snapshot per pack.                       *)
(***************************************************************************)
EXTENDS MarketRules

\* 2026-MM-DD as a day number; day 3 is 2026-01-01.
DaysBefore == <<0, 31, 59, 90, 120, 151, 181, 212, 243, 273, 304, 334>>
Date(month, day) == DaysBefore[month] + day + 2

BundledCalendar ==
  [version |-> "sse-szse-scheduled-2026-v1",
   first |-> Date(1, 1), last |-> Date(12, 31),
   holidays |-> << [first |-> Date(1, 1),  last |-> Date(1, 3)],
                   [first |-> Date(2, 15), last |-> Date(2, 23)],
                   [first |-> Date(4, 4),  last |-> Date(4, 6)],
                   [first |-> Date(5, 1),  last |-> Date(5, 5)],
                   [first |-> Date(6, 19), last |-> Date(6, 21)],
                   [first |-> Date(9, 25), last |-> Date(9, 27)],
                   [first |-> Date(10, 1), last |-> Date(10, 7)] >>]

Window(from, to, inclusive) == [start |-> from, end |-> to, end_inclusive |-> inclusive]

BundledSessions ==
  [version   |-> "cn-a-share-continuous-only-v1",
   opening   |-> Window(Clock(9, 15), Clock(9, 25), TRUE),
   morning   |-> Window(Clock(9, 30), Clock(11, 30), TRUE),
   afternoon |-> Window(Clock(13, 0), Clock(14, 57), FALSE),
   closing   |-> Window(Clock(14, 57), Clock(15, 0), TRUE)]

Instruments(version, from) ==
  LET item(symbol, board, type, rule) ==
        [symbol |-> symbol, evidence_version |-> version, exchange |-> "Sse",
         board |-> board, security_type |-> type, first |-> from,
         last |-> Date(11, 5), rule_version |-> rule]
  IN [version |-> version, first |-> from, last |-> Date(11, 5),
      instruments |-> {item("600000.SH", "MainBoard", "OrdinaryAShare", QuantityRuleVersion),
                       item("688001.SH", "Star", "OrdinaryAShare", None),
                       item("513150.SH", "NotApplicable", "Etf", None)},
      rules |-> {[version |-> QuantityRuleVersion, first |-> Date(7, 6),
                  last |-> Date(11, 5), minimum |-> 100, step |-> 100,
                  maximum |-> 1000000]}]

Pack(id, snapshot) ==
  [pack_id |-> id, calendar |-> BundledCalendar, sessions |-> BundledSessions,
   instruments |-> snapshot]

Pack1 == "cn-offline-fixture-pack-1"
Pack2 == "cn-offline-fixture-pack-2"

BundledPacks ==
  [id \in {Pack1, Pack2} |->
     Pack(id, IF id = Pack1 THEN Instruments("cn-instruments-offline-v1", Date(10, 27))
                            ELSE Instruments("cn-instruments-offline-v2", Date(10, 30)))]
=============================================================================
