----------------------------- MODULE MC_Account -----------------------------
(***************************************************************************)
(* The account specification on its own, with quotes the ledger would take *)
(* many steps to collect.                                                  *)
(***************************************************************************)
EXTENDS Account

TheCycles == {"A"}
TheSymbols == {"600000.SH"}
TheQuotes == {"q1", "q2", "q3"}
TheDays == {1, 2}
TheAmounts == {1, 10, 20}
=============================================================================
