----------------------------- MODULE MC_Readers -----------------------------
(***************************************************************************)
(* One reader beside the two experiments of MC_Ledger.                     *)
(***************************************************************************)
EXTENDS MC_Ledger, Readers

TheReaders == {"r"}
ReadDays == {Date(10, 30), Date(11, 2)}
ReadRequests ==
  {Request("A", Pack1, "s1", Fri(14, 0), "Buy", "qb"),
   Request("A", Pack1, "s2", Fri(14, 1), "Buy", "qb"),
   Request("A", Pack1, "s3", Mon(10, 0), "Sell", "rs"),
   Request("B", Pack1, "s1", Fri(14, 0), "Buy", "qb")}
OnlyA == {"A"}
=============================================================================
