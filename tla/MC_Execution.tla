---------------------------- MODULE MC_Execution ----------------------------
(***************************************************************************)
(* The decision and the portfolio it changes, as functions walked over     *)
(* grids of arguments, one argument changing at a time:                    *)
(*   clock   instants around every boundary the rules have, against quotes *)
(*           seen at several times;                                        *)
(*   day     every second of one trading day, on a quote of that second;   *)
(*   offer   at one good instant, evidence of either side and none, prices,*)
(*           capacities, lots old and new, cash around what a lot costs;   *)
(*   limit   amounts on both sides of every overflow check.  The code      *)
(*           multiplies and adds with checked_mul and checked_add; MaxInt, *)
(*           which stands for the largest i64, is small enough here for    *)
(*           each check to be met;                                         *)
(*   fills   no decision but any sequence of fills: a sale may take part   *)
(*           of a position, which `decide' never asks for but `apply'      *)
(*           accepts and load_state relies on.                             *)
(***************************************************************************)
EXTENDS ExecutionProperties

VARIABLES grid,    \* the one that is walked
          applied  \* the number of fills that made the book

vars == <<grid, applied, arguments>>

Stock == "600000.SH"
TheSymbols == {Stock}
TheKeys == {"A", "strategy", "s1", "q1", FixtureSource, Pack1}

On(month, day, h, m, s) == Date(month, day) * DaySeconds + Clock(h, m) + s

\* Friday 2026-10-30 around the sessions; Saturday, Monday, a holiday and a
\* day outside the instrument snapshot.
TheInstants ==
  {On(10, 30, 9, 25, 0), On(10, 30, 9, 30, 0), On(10, 30, 11, 30, 0), On(10, 30, 11, 30, 1),
   On(10, 30, 14, 2, 0), On(10, 30, 14, 2, 1), On(10, 30, 14, 5, 0), On(10, 30, 14, 57, 0),
   On(10, 31, 14, 0, 0), On(11, 2, 14, 0, 0), On(10, 7, 14, 0, 0), On(11, 6, 14, 0, 0)}
Observations ==
  {On(10, 30, 9, 24, 0), On(10, 30, 11, 28, 0), On(10, 30, 13, 59, 0), On(10, 30, 14, 2, 0),
   On(11, 2, 13, 59, 0)}
TheCapacities == {0, 100, 199, 200, 10000}
TheMultiples == {1, 2, 50, 1900}
Offers == [side : Sides, price : {5, 45, 60}, available : TheCapacities]

Lot(day, quantity) == [symbol |-> Stock, quantity |-> quantity, bought_on |-> Date(10, day)]
Books ==
  [cash : {9999, 10000, 49999, 50000, 94999, 95000, 100000},
   lots : {<<>>, <<Lot(29, 200)>>, <<Lot(30, 200)>>, <<Lot(29, 100), Lot(30, 100)>>}]
Flags == {"plain", "halted", "limit_up", "limit_down"}

Noticed == On(10, 30, 13, 59, 0)
Midnight == On(10, 30, 0, 0, 0)
GoodInstant == On(10, 30, 14, 2, 0)

Quote(seen, flag) ==
  [symbol |-> Stock, price |-> 20, observed_at |-> seen, source |-> FixtureSource,
   quote_id |-> "q1", tradable |-> flag # "halted",
   limit_up |-> flag = "limit_up", limit_down |-> flag = "limit_down"]

TheRef == QuoteRef(Pack1, Quote(Noticed, "plain"))

Level(offer, lit) ==
  [schema_version |-> 2, quote_ref |-> TheRef, side |-> offer.side,
   price |-> offer.price, available |-> offer.available, observed_at |-> lit]

EvidenceOf(seen, level) ==
  [schema_version |-> 5, pack |-> Pack1, quote |-> Quote(seen, "plain"), execution |-> level,
   instrument |-> Identity(BundledPacks[Pack1].instruments, Stock), received_at |-> seen,
   available_at |-> IF level = None THEN seen ELSE Larger(seen, level.observed_at)]

FirstLevel(lit) == Level([side |-> "Buy", price |-> 45, available |-> 10000], lit)

FirstRequest(instant) ==
  [schema_version |-> 4, cycle_id |-> "A", strategy_version_id |-> "strategy",
   signal_id |-> "s1", decision_at |-> instant, signal |-> [symbol |-> Stock, side |-> "Buy"],
   quote_ref |-> TheRef]

(***************************************************************************)
(* Amounts at the end of the integers: the budget at cash * 1000, a board  *)
(* lot at price * step, a sale at gross * 3, gross * 5 and cash + net.     *)
(***************************************************************************)
WidePrices == {1, 50, 95, 199980, 199981, 333300, 333301, 1000000, 1000001}
WideOffers == [side : Sides, price : WidePrices, available : {100, 10000}]
SmallCash == {55000, 99999, 100000, 100001, 1000000}
LargeCash == {80000000, 99995503, 99995504, 100000000}
WideBooks ==
  [cash : SmallCash \cup LargeCash,
   lots : {<<>>, <<Lot(29, 100)>>, <<Lot(29, 100), Lot(29, 100)>>}]

(***************************************************************************)
(* Fills.                                                                  *)
(***************************************************************************)
MaxFills == 5
Start == NewPortfolio(15000)
RichStart == NewPortfolio(MaxInt - 5000)

TheBookings ==
  [symbol : {Stock}, side : {"Buy"}, quantity : {100, 300}, price : {10},
   fees : {500}, trade_day : {1, 2}]
  \cup
  [symbol : {"600001.SH"}, side : {"Buy"}, quantity : {100}, price : {10},
   fees : {500}, trade_day : {1}]
  \cup
  [symbol : {Stock}, side : {"Sell"}, quantity : {100, 200, 400}, price : {5, 40},
   fees : {502}, trade_day : {1, 2, 3}]

(***************************************************************************)
(* The walks.                                                              *)
(***************************************************************************)
Init ==
  /\ grid \in {"clock", "day", "offer", "limit", "fills"}
  /\ applied = 0
  /\ market = BundledPacks[Pack1]
  /\ evidence = IF grid = "day" THEN EvidenceOf(Midnight, None)
                                ELSE EvidenceOf(Noticed, FirstLevel(Noticed))
  /\ CASE grid = "fills" -> request = None /\ book \in {Start, RichStart}
       [] grid = "day"   -> request = FirstRequest(Midnight) /\ book = NewPortfolio(100000)
       [] OTHER          -> request = FirstRequest(GoodInstant) /\ book = NewPortfolio(100000)

Asked(new) == request' = new /\ UNCHANGED <<grid, applied, book, evidence, market>>
Shown(new) == evidence' = new /\ UNCHANGED <<grid, applied, book, request, market>>

Instant == grid = "clock" /\ \E at \in TheInstants : Asked([request EXCEPT !.decision_at = at])
Observed == grid = "clock" /\ \E seen \in Observations : \E lit \in {seen, Noticed} :
              Shown(EvidenceOf(seen, FirstLevel(lit)))
Tick ==
  LET at == request.decision_at + 1 IN
  /\ grid = "day" /\ DayOf(at) = DayOf(Midnight)
  /\ request' = [request EXCEPT !.decision_at = at]
  /\ evidence' = EvidenceOf(at, None)
  /\ UNCHANGED <<grid, applied, book, market>>

Signal == grid \notin {"day", "fills"} /\ \E side \in Sides :
            Asked([request EXCEPT !.signal.side = side])
Status == grid = "offer" /\ \E flag \in Flags : Shown([evidence EXCEPT !.quote = Quote(Noticed, flag)])
Offer ==
  \/ grid = "offer" /\ Shown([evidence EXCEPT !.execution = None])
  \/ \E offer \in CASE grid = "offer" -> Offers [] grid = "limit" -> WideOffers [] OTHER -> {} :
       Shown([evidence EXCEPT !.execution = Level(offer, Noticed)])
Own ==
  /\ book' \in CASE grid = "clock" -> [cash : {100000}, lots : {<<>>, <<Lot(29, 200)>>}]
                 [] grid = "offer" -> Books
                 [] grid = "limit" -> WideBooks
                 [] OTHER          -> {}
  /\ UNCHANGED <<grid, applied, request, evidence, market>>

Trade(fill) ==
  /\ grid = "fills" /\ applied < MaxFills
  /\ Apply(book, fill).ok
  /\ book' = Apply(book, fill).value
  /\ applied' = applied + 1
  /\ UNCHANGED <<grid, request, evidence, market>>

\* TLC's own integers hold the budget of small amounts of cash only.
Computable == request # None /\ request.signal.side = "Buy" => book.cash \notin LargeCash

Next ==
  \/ (Instant \/ Observed \/ Tick \/ Signal \/ Status \/ Offer \/ Own) /\ Computable'
  \/ \E fill \in TheBookings : Trade(fill)
Spec == Init /\ [][Next]_vars

\* What the walks put together are arguments of the right types.
ASSUME GridsAreTyped ==
  /\ \A state \in Books \cup WideBooks \cup {Start, RichStart} : IsPortfolio(state)
  /\ \A at \in TheInstants \cup {Midnight} : IsRequest(FirstRequest(at))
  /\ \A seen \in Observations \cup {Midnight} :
       IsEvidence(EvidenceOf(seen, None)) /\ IsEvidence(EvidenceOf(seen, FirstLevel(Noticed)))
  /\ \A offer \in Offers \cup WideOffers : IsLevel(Level(offer, Noticed))
=============================================================================
