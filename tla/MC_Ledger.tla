----------------------------- MODULE MC_Ledger -----------------------------
(***************************************************************************)
(* Instances of the ledger on the reviewed packs and one real instrument.  *)
(* Decisions fall on Friday 2026-10-30 and Monday 2026-11-02, the days the *)
(* frozen research input uses.                                             *)
(***************************************************************************)
EXTENDS LedgerProperties, ReviewedPacks

Fri(h, m) == Date(10, 30) * DaySeconds + Clock(h, m)
Mon(h, m) == Date(11, 2) * DaySeconds + Clock(h, m)

Stock == "600000.SH"
TheSymbols == {Stock}
TheDays == {Date(10, 30), Date(10, 31), Date(11, 2)}

Momentum == [strategy_version_id |-> "research-momentum-v1",
             research_input_id |-> "offline-research-input-v1",
             research_input_digest |-> "beca60bb", content |-> "reviewed"]

\* TLC evaluates the definition given to a constant at every use, and the one
\* behind it once.
ThePacks == BundledPacks
TheStrategies == [id \in {"research-momentum-v1"} |-> Momentum]
TheInputs == [id \in {"offline-research-input-v1"} |-> [content_digest |-> "beca60bb"]]

SpecOf(c, cash, pack) ==
  [schema_version |-> 1, cycle_id |-> c, initial_cash |-> cash, strategy |-> Momentum,
   policy |-> PolicyVersion, pack |-> pack]

\* A quote seen one minute before it is used, with liquidity for one side.
Import(pack, name, side, seen, price, available) ==
  [schema_version |-> 2, pack |-> pack, available_at |-> seen,
   quote |-> [symbol |-> Stock, price |-> 20, observed_at |-> seen,
              source |-> FixtureSource, quote_id |-> name,
              tradable |-> TRUE, limit_up |-> FALSE, limit_down |-> FALSE],
   execution |-> [schema_version |-> 2,
                  quote_ref |-> [pack |-> pack, source |-> FixtureSource, quote_id |-> name],
                  side |-> side, price |-> price, available |-> available,
                  observed_at |-> seen]]

Request(c, pack, signal, at, side, name) ==
  [schema_version |-> 4, cycle_id |-> c,
   strategy_version_id |-> "research-momentum-v1", signal_id |-> signal,
   decision_at |-> at, signal |-> [symbol |-> Stock, side |-> side],
   quote_ref |-> [pack |-> pack, source |-> FixtureSource, quote_id |-> name]]

TheKeys == {"A", "B", "s1", "s2", "s3", "s4", "s5", "s6", "s7", "s8",
            "qb", "qs", "rb", "rs", FixtureSource, Pack1, Pack2,
            "research-momentum-v1", "offline-research-input-v1"}

(***************************************************************************)
(* One experiment, quotes for both sides on both days, two requests naming *)
(* each: every order of imports, decisions and completion.                 *)
(***************************************************************************)
OneSpec == {SpecOf("A", 11000, Pack1)}
OneCycle == {"A"}
OneImports ==
  {Import(Pack1, "qb", "Buy", Fri(13, 59), 5, 1000),
   Import(Pack1, "qs", "Sell", Fri(13, 59), 10, 1000),
   Import(Pack1, "rb", "Buy", Mon(9, 59), 5, 1000),
   Import(Pack1, "rs", "Sell", Mon(9, 59), 10, 1000)}
OneRequests ==
  {Request("A", Pack1, "s1", Fri(14, 0), "Buy", "qb"),
   Request("A", Pack1, "s2", Fri(14, 1), "Buy", "qb"),
   Request("A", Pack1, "s3", Fri(14, 1), "Sell", "qs"),
   Request("A", Pack1, "s5", Mon(10, 0), "Sell", "rs"),
   Request("A", Pack1, "s6", Mon(10, 1), "Buy", "rb"),
   Request("A", Pack1, "s7", Mon(10, 1), "Sell", "rs")}
OneReceipt == {Fri(9, 0)}
NoAmounts == {}

(***************************************************************************)
(* Two experiments, the second on the pack and the quotes of the first or  *)
(* on the other pack, under the same names; a quote that may come at two   *)
(* prices and at two readings of the clock; and inputs that are refused.   *)
(***************************************************************************)
TwoCycles == {"A", "B"}
TwoDays == {Date(10, 30), Date(11, 2)}
TwoAmounts == {11000, 20000} \cup {BuyCost(q, p) : q \in {100, 200, 300}, p \in {5, 10}}
              \cup {q * 10 - Commission(q * 10) - StampDuty("Sell", q * 10) :
                      q \in {100, 200, 300}}
Forged == [Momentum EXCEPT !.content = "edited"]
TwoSpecs ==
  {SpecOf("A", 11000, Pack1), SpecOf("B", 20000, Pack1), SpecOf("B", 20000, Pack2),
   [SpecOf("A", 11000, Pack1) EXCEPT !.strategy = Forged],
   SpecOf("A", 0, Pack1),
   [SpecOf("B", 20000, Pack2) EXCEPT !.policy = "v2-paper-policy-5"],
   [SpecOf("B", 20000, Pack2) EXCEPT !.schema_version = 2]}
TwoImports ==
  {Import(Pack1, "qb", "Buy", Fri(13, 59), 5, 1000),
   Import(Pack1, "qb", "Buy", Fri(13, 59), 10, 1000),
   Import(Pack1, "rs", "Sell", Mon(9, 59), 10, 1000),
   [Import(Pack1, "rs", "Sell", Mon(9, 59), 10, 1000) EXCEPT !.execution.quote_ref.pack = Pack2],
   [Import(Pack1, "rs", "Sell", Mon(9, 59), 10, 1000) EXCEPT !.available_at = Mon(9, 58)]}
TwoRequests ==
  {Request("A", Pack1, "s1", Fri(14, 0), "Buy", "qb"),
   Request("A", Pack1, "s1", Fri(14, 1), "Buy", "qb"),
   Request("A", Pack1, "s2", Mon(10, 0), "Sell", "rs"),
   Request("A", Pack2, "s3", Fri(14, 0), "Buy", "qb"),
   Request("B", Pack1, "s1", Fri(14, 0), "Buy", "qb"),
   Request("B", Pack2, "s1", Fri(14, 0), "Buy", "qb"),
   Request("B", Pack1, "s2", Mon(10, 0), "Sell", "rs"),
   [Request("B", Pack2, "s4", Fri(14, 0), "Buy", "qb") EXCEPT !.strategy_version_id = "qb"],
   [Request("B", Pack2, "s5", Fri(14, 0), "Buy", "qb") EXCEPT !.schema_version = 3],
   [Request("A", Pack1, "s6", Fri(14, 0), "Buy", "qb") EXCEPT !.decision_at = BadTime]}
TwoReceipts == {Fri(9, 0), Fri(9, 1)}

(***************************************************************************)
(* A cheap stock: bought at five cents, its sale cannot pay the fees.      *)
(***************************************************************************)
CheapImports ==
  {Import(Pack1, "qb", "Buy", Fri(13, 59), 5, 1000),
   Import(Pack1, "rs", "Sell", Mon(9, 59), 5, 1000)}
CheapRequests ==
  {Request("A", Pack1, "s1", Fri(14, 0), "Buy", "qb"),
   Request("A", Pack1, "s2", Mon(10, 0), "Sell", "rs")}
OnePack == [id \in {Pack1} |-> BundledPacks[id]]
=============================================================================
