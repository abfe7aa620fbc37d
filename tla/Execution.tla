----------------------------- MODULE Execution -----------------------------
(***************************************************************************)
(* The pure decision (v2/src/domain/execution.rs): an explicit portfolio,  *)
(* request, evidence and market data pack in, an outcome or a rule error   *)
(* out.  A rejection is an outcome and is recorded by the caller; a rule   *)
(* error is not.                                                           *)
(*                                                                         *)
(* A timestamp is an instant in seconds; BadTime is any text `timestamp'   *)
(* refuses (not RFC 3339, or not at the +08:00 offset).                    *)
(***************************************************************************)
EXTENDS Portfolio

CONSTANTS Keys,              \* texts key_valid accepts
          WellFormedSymbols  \* texts symbol_format_valid accepts

BuyBudgetBps == 1000
CommissionBps == 3
MinCommission == 500
StampDutyBps == 5
MaxQuoteAge == 180
Sides == {"Buy", "Sell"}
FixtureSource == "offline-fixture"

BadTime == -1
IsTimestamp(t) == t >= 0

QuoteRef(pack, quote) == [pack |-> pack, source |-> quote.source, quote_id |-> quote.quote_id]

(***************************************************************************)
(* Contract checks on imports, evidence and requests.                      *)
(***************************************************************************)
LevelValid(level, quote, available_at) ==
  /\ level.schema_version = 2
  /\ level.quote_ref.source = quote.source
  /\ level.quote_ref.quote_id = quote.quote_id
  /\ level.price > 0
  /\ level.available >= 0
  /\ IsTimestamp(level.observed_at)
  /\ level.observed_at <= available_at

FixtureQuoteValid(quote, available_at, level) ==
  /\ quote.source = FixtureSource
  /\ quote.quote_id \in Keys
  /\ quote.symbol \in WellFormedSymbols
  /\ quote.price > 0
  /\ IsTimestamp(quote.observed_at) /\ IsTimestamp(available_at)
  /\ quote.observed_at <= available_at
  /\ level = None \/ LevelValid(level, quote, available_at)

\* validate_quote_import; the evidence Store builds from an accepted import
\* passes validate_evidence for the same reasons plus a readable receipt time.
ImportValid(input) ==
  /\ input.schema_version = 2
  /\ input.pack \in Keys
  /\ input.execution = None \/ input.execution.quote_ref.pack = input.pack
  /\ FixtureQuoteValid(input.quote, input.available_at, input.execution)

EvidenceValid(ev) ==
  /\ ev.schema_version = 5
  /\ ev.pack \in Keys
  /\ ev.execution = None \/ ev.execution.quote_ref.pack = ev.pack
  /\ IsTimestamp(ev.received_at)
  /\ FixtureQuoteValid(ev.quote, ev.available_at, ev.execution)

RequestError(req) ==
  FirstReason(<<
    When(req.schema_version # 4, "unsupported_contract_version"),
    When(~({req.cycle_id, req.strategy_version_id, req.signal_id,
         req.quote_ref.quote_id, req.quote_ref.source} \subseteq Keys), "invalid_identity"),
    When(req.signal.symbol \notin WellFormedSymbols, "invalid_symbol_format"),
    When(~IsTimestamp(req.decision_at), "invalid_timestamp") >>)

EvidenceError(req, ev) ==
  FirstReason(<<
    When(~EvidenceValid(ev), "invalid_evidence"),
    When(req.quote_ref.pack # ev.pack, "quote_data_pack_mismatch"),
    When(req.quote_ref # QuoteRef(ev.pack, ev.quote), "quote_evidence_identity_mismatch"),
    When(req.signal.symbol # ev.quote.symbol, "symbol_mismatch") >>)

(***************************************************************************)
(* Recorded rejections, in the order the code returns them.                *)
(***************************************************************************)
\* Mutant of TooOld: the age is taken between the two clock times alone.
TooOldByClock(observed_at, at) == TimeOfDay(at) - TimeOfDay(observed_at) > MaxQuoteAge

TooOld(observed_at, at) ==
  DayOf(observed_at) # DayOf(at) \/ at - observed_at > MaxQuoteAge

QuoteTimeRejection(at, ev) ==
  FirstReason(<<
    When(ev.quote.observed_at > at, "quote_from_future"),
    When(ev.available_at > at, "quote_not_yet_available"),
    When(TooOld(ev.quote.observed_at, at), "stale_quote") >>)

DateRejection(calendar, day) ==
  LET kind == CalendarDay(calendar, day) IN
  FirstReason(<<
    When(kind = "Weekend", "weekend_market_closed"),
    When(kind = "Holiday", "holiday_market_closed"),
    When(kind = "Unknown", "unknown_trading_date") >>)

QuoteStatusRejection(side, quote) ==
  FirstReason(<<
    When(~quote.tradable, "not_tradable"),
    When(side = "Buy" /\ quote.limit_up, "limit_up_buy_blocked"),
    When(side = "Sell" /\ quote.limit_down, "limit_down_sell_blocked") >>)

LevelRejection(side, at, level) ==
  IF level = None THEN "execution_evidence_missing"
  ELSE FirstReason(<<
    When(level.side # side, "execution_side_mismatch"),
    When(TooOld(level.observed_at, at), "stale_execution_evidence") >>)

\* Everything about the market and the evidence that may refuse the order.
MarketRejection(req, ev, pack) ==
  LET at == req.decision_at
      day == DayOf(at)
  IN FirstReason(<<
       QuoteTimeRejection(at, ev),
       DateRejection(pack.calendar, day),
       SessionRejection(pack.sessions, TimeOfDay(at)),
       QuantityRefusal(pack.instruments, req.signal.symbol, ev.instrument, day),
       QuoteStatusRejection(req.signal.side, ev.quote),
       LevelRejection(req.signal.side, at, ev.execution)>>)

(***************************************************************************)
(* Fees, sizing and capacity.                                              *)
(***************************************************************************)
FeeOverflows(gross, bps) == Overflows(gross * bps + 9999)
CheckedFee(gross, bps) == (gross * bps + 9999) \div 10000      \* rounded up
Commission(gross) == Larger(CheckedFee(gross, CommissionBps), MinCommission)
StampDuty(side, gross) == IF side = "Sell" THEN CheckedFee(gross, StampDutyBps) ELSE 0

BuyCost(quantity, price) == quantity * price + Commission(quantity * price)
BuyBudget(cash) == (cash * BuyBudgetBps) \div 10000

Greatest(S) == CHOOSE m \in S : \A n \in S : n <= m

BuyQuantity(cash, price, rule) ==
  LET budget == BuyBudget(cash)
      top == budget \div (price * rule.step)
      fits == {q \in {n * rule.step : n \in 0..top} :
                 /\ q >= rule.minimum
                 /\ BuyCost(q, price) <= budget /\ BuyCost(q, price) <= cash}
  IN IF fits = {} THEN 0 ELSE Greatest(fits)

\* Mutant of SizingOverflows: only the budget is a checked product.
BudgetOverflows(req, state, price, rule) ==
  req.signal.side = "Buy" /\ Overflows(state.cash * BuyBudgetBps)

SizingOverflows(req, state, price, rule) ==
  /\ req.signal.side = "Buy"
  /\ Overflows(state.cash * BuyBudgetBps) \/ Overflows(price * rule.step)

OrderQuantity(req, state, price, rule) ==
  IF req.signal.side = "Buy"
    THEN BuyQuantity(state.cash, price, rule)
    ELSE SellableQuantity(state, req.signal.symbol, DayOf(req.decision_at))

\* Mutant of PositionRejection: a position may be added to.
PositionIgnored(req, state) == ""

PositionRejection(req, state) ==
  IF req.signal.side = "Buy" /\ Quantity(state, req.signal.symbol) > 0
    THEN "position_already_open" ELSE ""

\* Mutant of Capacity: a level of at least one lot takes any order.
CapacityOfSomeLot(level) == IF level.available >= LotSize THEN MaxInt ELSE level.available

Capacity(level) == level.available

QuantityRejection(side, quantity, rule, level) ==
  FirstReason(<<
    When(quantity < rule.minimum,
      IF side = "Buy" THEN "insufficient_budget_for_board_lot_and_fees"
                      ELSE "no_t1_sellable_lot"),
    When(quantity % rule.step # 0, "unsupported_odd_lot_position"),
    When(quantity > rule.maximum, "order_quantity_exceeds_instrument_limit"),
    When(quantity > Capacity(level), "insufficient_execution_liquidity") >>)

FeesOverflow(side, gross) ==
  \/ Overflows(gross)
  \/ FeeOverflows(gross, CommissionBps)
  \/ side = "Sell" /\ FeeOverflows(gross, StampDutyBps)
  \/ Overflows(Commission(gross) + StampDuty(side, gross))

FillOf(req, quantity, price) ==
  [symbol |-> req.signal.symbol, side |-> req.signal.side,
   quantity |-> quantity, price |-> price,
   fees |-> Commission(quantity * price) + StampDuty(req.signal.side, quantity * price),
   trade_day |-> DayOf(req.decision_at)]

(***************************************************************************)
(* The decision.                                                           *)
(***************************************************************************)
Rejected(state, reason) ==
  Ok([status |-> "Rejected", reason |-> reason, fill |-> None, cash_after |-> state.cash])

Filled(fill, cash) ==
  Ok([status |-> "Filled", reason |-> "filled", fill |-> fill, cash_after |-> cash])

\* Size the order, take it whole or not at all, and account for it.
Execute(state, req, level, rule) ==
  LET price == level.price
      quantity == OrderQuantity(req, state, price, rule)
      refusal == QuantityRejection(req.signal.side, quantity, rule, level)
      fill == FillOf(req, quantity, price)
      next == Apply(state, fill)
  IN IF PositionRejection(req, state) # "" THEN Rejected(state, PositionRejection(req, state))
     ELSE IF SizingOverflows(req, state, price, rule) THEN Err("amount_overflow")
     ELSE IF refusal # "" THEN Rejected(state, refusal)
     ELSE IF FeesOverflow(req.signal.side, quantity * price) THEN Err("amount_overflow")
     ELSE IF ~next.ok THEN next
     ELSE Filled(fill, next.value.cash)

\* The three validate() calls every decision starts with.
PackValid(pack) ==
  /\ CalendarValid(pack.calendar)
  /\ SessionsValid(pack.sessions)
  /\ InstrumentsValid(pack.instruments)

Decide(state, req, ev, pack) ==
  IF ~PackValid(pack) THEN Err("invalid_market_snapshot")
  ELSE IF RequestError(req) # "" THEN Err(RequestError(req))
  ELSE IF ev = None THEN Rejected(state, "quote_evidence_missing")
  ELSE IF EvidenceError(req, ev) # "" THEN Err(EvidenceError(req, ev))
  ELSE IF MarketRejection(req, ev, pack) # "" THEN Rejected(state, MarketRejection(req, ev, pack))
  ELSE Execute(state, req, ev.execution, QuantityRule(pack.instruments, ev.instrument))
=============================================================================
