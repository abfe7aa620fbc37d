------------------------ MODULE ExecutionProperties ------------------------
(***************************************************************************)
(* What one call of the decision (execution.rs) or of the accounting       *)
(* (portfolio.rs) promises, whatever its arguments: the properties compare *)
(* it with the calls beside it, at another instant, with another quantity  *)
(* on offer, with the fill of the opposite side, and with the loops as the *)
(* code writes them.                                                       *)
(***************************************************************************)
EXTENDS Execution, ReviewedPacks

VARIABLES
  book,      \* the portfolio
  request,   \* None while nothing is requested
  evidence,  \* None when there is none
  market     \* the pack of the experiment

CONSTANTS
  Instants,    \* at which a decision is compared
  Capacities,  \* quantities on offer a decision is compared for
  Multiples,   \* of its price, at which a position is sold again
  Bookings     \* fills that are applied

arguments == <<book, request, evidence, market>>

ASSUME CasesAssumption ==
  /\ Instants \subseteq Nat /\ Capacities \subseteq Nat /\ Multiples \subseteq 1..1900
  /\ \A fill \in Bookings : fill.quantity \in Int /\ fill.trade_day \in Int

(***************************************************************************)
(* Arguments of the types the code gives them.                             *)
(***************************************************************************)
IsLot(lot) ==
  /\ lot = [symbol |-> lot.symbol, quantity |-> lot.quantity, bought_on |-> lot.bought_on]
  /\ lot.quantity \in Nat \ {0} /\ lot.bought_on \in Nat

IsPortfolio(state) ==
  /\ state = [cash |-> state.cash, lots |-> state.lots]
  /\ state.cash \in 0..MaxInt
  /\ state.lots \in Seq({state.lots[i] : i \in DOMAIN state.lots})
  /\ \A i \in DOMAIN state.lots : IsLot(state.lots[i])

IsRequest(req) ==
  /\ req = [schema_version |-> req.schema_version, cycle_id |-> req.cycle_id,
            strategy_version_id |-> req.strategy_version_id, signal_id |-> req.signal_id,
            decision_at |-> req.decision_at, signal |-> req.signal, quote_ref |-> req.quote_ref]
  /\ req.signal = [symbol |-> req.signal.symbol, side |-> req.signal.side]
  /\ req.decision_at \in Int /\ req.signal.side \in Sides

IsLevel(level) ==
  /\ level = [schema_version |-> level.schema_version, quote_ref |-> level.quote_ref,
              side |-> level.side, price |-> level.price, available |-> level.available,
              observed_at |-> level.observed_at]
  /\ level.price \in Int /\ level.available \in Int /\ level.observed_at \in Int

IsEvidence(ev) ==
  /\ ev = [schema_version |-> ev.schema_version, pack |-> ev.pack,
           available_at |-> ev.available_at, quote |-> ev.quote, instrument |-> ev.instrument,
           execution |-> ev.execution, received_at |-> ev.received_at]
  /\ ev.quote.observed_at \in Int /\ ev.available_at \in Int
  /\ ev.execution = None \/ IsLevel(ev.execution)

(***************************************************************************)
(* The decision, and the ones beside it.                                   *)
(***************************************************************************)
Decision == Decide(book, request, evidence, market)

DecisionAt(instant) ==
  Decide(book, [request EXCEPT !.decision_at = instant], evidence, market)

Offering(available) ==
  [evidence EXCEPT !.execution = [@ EXCEPT !.available = available]]
DecisionWith(available) == Decide(book, request, Offering(available), market)

Fills(decision) == decision.ok /\ decision.value.status = "Filled"

\* The arguments are of their types, and None is not one of these records.
IsCall ==
  /\ IsPortfolio(book)
  /\ request = None \/ IsRequest(request)
  /\ evidence = None \/ IsEvidence(evidence)
  /\ evidence # None /\ evidence.execution # None =>
       \A n \in Capacities : None \notin {Offering(n), Offering(n).execution}

(***************************************************************************)
(* Properties of the clock.                                                *)
(***************************************************************************)

\* The table of CALENDAR_SESSIONS.md read as a clock: these are the only
\* seconds at which the verdict changes, and what it changes to.
Published ==
  << <<Clock(9, 15), "opening_auction_not_supported">>,
     <<Clock(9, 25) + 1, "outside_trading_session">>,
     <<Clock(9, 30), "">>,
     <<Clock(11, 30) + 1, "midday_break">>,
     <<Clock(13, 0), "">>,
     <<Clock(14, 57), "closing_auction_not_supported">>,
     <<Clock(15, 0) + 1, "outside_trading_session">> >>

\* The reason published for a second, "" inside a continuous window.
Phase(time) ==
  LET begun == {i \in DOMAIN Published : Published[i][1] <= time}
  IN IF begun = {} THEN "outside_trading_session" ELSE Published[Greatest(begun)][2]
SessionReasons == {Published[i][2] : i \in DOMAIN Published} \ {""}

\* A decision of a trading day on a quote of the very second is refused for the
\* session in just the seconds published as closed and with the reason published
\* for them: no second is left out or claimed by two phases, though the afternoon
\* ends where the closing auction begins and only one of two touching windows may
\* hold the shared instant.
VerdictFollowsTheClock ==
  /\ request # None /\ evidence # None
  /\ evidence.quote.observed_at = request.decision_at
  /\ evidence.available_at = request.decision_at
  /\ CalendarDay(market.calendar, DayOf(request.decision_at)) = "Trading"
  /\ market.sessions = BundledSessions
  => LET phase == Phase(TimeOfDay(request.decision_at))
         decision == Decision
     IN decision.ok =>
          IF phase # "" THEN decision.value.reason = phase
                        ELSE decision.value.reason \notin SessionReasons

\* The evidence of a decision expires once: after it has been refused as stale
\* no later instant ever fills, at the next boundary, the next day or any other.
EvidenceExpires ==
  LET decision == Decision IN
  /\ request # None
  /\ decision.ok /\ decision.value.reason \in {"stale_quote", "stale_execution_evidence"}
  => \A later \in Instants : request.decision_at < later => ~Fills(DecisionAt(later))

(***************************************************************************)
(* Properties of sizes and amounts.                                        *)
(***************************************************************************)

\* Whole candidate or no fill (execution.rs): the visible capacity decides
\* whether an order is filled and never how much of it.
NeverDownsized ==
  request # None /\ evidence # None /\ evidence.execution # None =>
    LET decided == [available \in Capacities |-> DecisionWith(available)] IN
    \A many \in Capacities :
      Fills(decided[many]) =>
        \A few \in Capacities :
          few <= many =>
            IF few >= decided[many].value.fill.quantity
              THEN decided[few] = decided[many]
              ELSE ~Fills(decided[few])

\* One of the checks the sizing loop makes at every turn fails.
LoopCostOverflows(quantity, price) ==
  LET gross == quantity * price IN
  \/ Overflows(gross)
  \/ Overflows(gross * CommissionBps)
  \/ Overflows(gross * CommissionBps + 9999)
  \/ Overflows(gross + Commission(gross))

\* The search for the quantity, turn by turn, with all its checks.
LoopQuantity(cash, price, rule) ==
  LET budget == BuyBudget(cash)
      down[n \in 0..(budget \div (price * rule.step))] ==
        LET quantity == n * rule.step
        IN IF quantity < rule.minimum THEN Ok(0)
           ELSE IF LoopCostOverflows(quantity, price) THEN Err("amount_overflow")
           ELSE IF BuyCost(quantity, price) <= budget /\ BuyCost(quantity, price) <= cash
             THEN Ok(quantity)
           ELSE down[n-1]
  IN IF Overflows(cash * BuyBudgetBps) \/ Overflows(price * rule.step)
       THEN Err("amount_overflow")
     ELSE down[budget \div (price * rule.step)]

\* Nothing but its size can refuse the order.
BuysUnlessTooLarge ==
  /\ request # None /\ evidence # None
  /\ PackValid(market) /\ RequestError(request) = "" /\ EvidenceError(request, evidence) = ""
  /\ MarketRejection(request, evidence, market) = ""
  /\ request.signal.side = "Buy" /\ PositionRejection(request, book) = ""

TheRule == QuantityRule(market.instruments, evidence.instrument)

\* A purchase errs exactly where one of the checks of the sizing loop fails,
\* and is otherwise for the quantity the loop ends at: a search that computes
\* only the two products before the loop with care loses no overflow in it.
PurchasesErrWhereTheLoopDoes ==
  BuysUnlessTooLarge =>
    LET loop == LoopQuantity(book.cash, evidence.execution.price, TheRule)
    IN /\ ~loop.ok <=> Decision = Err("amount_overflow")
       /\ /\ loop.ok /\ loop.value > 0
          /\ loop.value <= evidence.execution.available /\ loop.value <= TheRule.maximum
          => Decision.value.fill.quantity = loop.value

\* What was bought is offered for sale.
Closing(later) == [request EXCEPT !.decision_at = later, !.signal = [@ EXCEPT !.side = "Sell"]]
SaleOf(held, later, price) ==
  Execute(held, Closing(later), [price |-> price, available |-> MaxInt], TheRule)

\* The position a purchase opens can be sold whole on a later day, at the same
\* price and at any up to 1,900 times it, unless the fees exceed the proceeds:
\* no overflow locks it in, because only a cash balance a thousandth of the
\* range can buy and only a tenth of it is at stake.  At the same price the lots
\* are then as before and the cash is short by exactly both fees.
PositionsCanBeClosed ==
  LET decision == Decision IN
  request # None /\ request.signal.side = "Buy" /\ Fills(decision) =>
    LET bought == decision.value.fill
        gross == bought.quantity * bought.price
        held == Apply(book, bought).value
        fees == Commission(gross) + StampDuty("Sell", gross)
    IN /\ 10 * (book.cash - held.cash) <= book.cash
       /\ \A later \in Instants : bought.trade_day < DayOf(later) =>
            /\ SellableQuantity(held, bought.symbol, DayOf(later)) = bought.quantity
            /\ fees <= gross =>
                 Apply(held, SaleOf(held, later, bought.price).value.fill)
                   = Ok([cash |-> book.cash - bought.fees - fees, lots |-> book.lots])
            /\ \A times \in Multiples :
                 LET sale == SaleOf(held, later, times * bought.price) IN
                 Fills(sale) \/ sale = Err("invalid_t1_sell")

(***************************************************************************)
(* The literal loop of `apply': walk the lots with what remains to be      *)
(* sold, and retain the lots that are not empty.                           *)
(***************************************************************************)
\* What one lot gives.
Consumed(remaining, lot, fill) ==
  IF lot.symbol = fill.symbol /\ lot.bought_on < fill.trade_day /\ remaining > 0
    THEN Smaller(remaining, lot.quantity) ELSE 0

LoopSell(lots, fill) ==
  LET loop[n \in 0..Len(lots)] ==
        IF n = 0 THEN [remaining |-> fill.quantity, lots |-> <<>>]
        ELSE LET before == loop[n-1]
                 consumed == Consumed(before.remaining, lots[n], fill)
                 lot == [lots[n] EXCEPT !.quantity = @ - consumed]
             IN [remaining |-> before.remaining - consumed,
                 lots |-> IF lot.quantity > 0 THEN Append(before.lots, lot) ELSE before.lots]
  IN loop[Len(lots)].lots

\* A sale leaves exactly the lots the loop leaves, over partial sales of
\* several lots, lots of other symbols and lots too young to sell.
SellsLikeTheLoop ==
  \A fill \in Bookings :
    fill.side = "Sell" /\ Apply(book, fill).ok =>
      Apply(book, fill).value.lots = LoopSell(book.lots, fill)
=============================================================================
