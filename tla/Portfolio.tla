----------------------------- MODULE Portfolio -----------------------------
(***************************************************************************)
(* Cash and T+1 lot accounting (v2/src/domain/portfolio.rs).  A portfolio  *)
(* is the cash left and the lots in the order they were bought.            *)
(***************************************************************************)
EXTENDS MarketRules

CONSTANT MaxInt        \* the largest i64; small in a run, never reached there
                       \* unless the run is about overflow
ASSUME MaxIntAssumption == MaxInt \in Nat /\ MaxInt >= 20000

LotSize == 100

\* Result<_, RuleError>.
Ok(v) == [ok |-> TRUE, value |-> v]
Err(name) == [ok |-> FALSE, error |-> name]

Overflows(n) == n > MaxInt

Smaller(a, b) == IF a <= b THEN a ELSE b
Larger(a, b) == IF a >= b THEN a ELSE b

NewPortfolio(cash) == [cash |-> cash, lots |-> <<>>]

\* Units in the lots with the given indices.
Units(lots, indices) ==
  LET total[n \in 0..Len(lots)] ==
        IF n = 0 THEN 0 ELSE total[n-1] + IF n \in indices THEN lots[n].quantity ELSE 0
  IN total[Len(lots)]

LotsOf(state, symbol) ==
  {i \in DOMAIN state.lots : state.lots[i].symbol = symbol}

Quantity(state, symbol) == Units(state.lots, LotsOf(state, symbol))

\* Mutant of Sellable: a lot is sellable from the day it was bought.
SellableSameDay(state, symbol, day) ==
  {i \in LotsOf(state, symbol) : state.lots[i].bought_on <= day}

\* T+1: a lot is sellable from the day after it was bought.
Sellable(state, symbol, day) ==
  {i \in LotsOf(state, symbol) : state.lots[i].bought_on < day}

SellableQuantity(state, symbol, day) ==
  Units(state.lots, Sellable(state, symbol, day))

\* Mutant of BuyTotal: the fees are recorded with the fill but not paid.
BuyTotalWithoutFees(fill) == fill.quantity * fill.price

BuyTotal(fill) == fill.quantity * fill.price + fill.fees

ApplyBuy(state, fill) ==
  LET total == BuyTotal(fill) IN
  IF Overflows(total) THEN Err("amount_overflow")
  ELSE IF total > state.cash THEN Err("insufficient_cash")
  ELSE Ok([cash |-> state.cash - total,
           lots |-> Append(state.lots, [symbol |-> fill.symbol,
                                        quantity |-> fill.quantity,
                                        bought_on |-> fill.trade_day])])

\* Mutant of Demand: what earlier lots gave is not taken off.
DemandOfEach(lots, eligible, quantity, i) == quantity

\* What is still to be sold when the eligible lots before i are used up.
Demand(lots, eligible, quantity, i) ==
  Larger(0, quantity - Units(lots, {j \in eligible : j < i}))

\* First in, first out over the eligible lots.
Taken(lots, eligible, quantity, i) ==
  IF i \in eligible THEN Smaller(Demand(lots, eligible, quantity, i), lots[i].quantity) ELSE 0

\* Emptied lots disappear.
Retain(kept, lot) == IF lot.quantity > 0 THEN Append(kept, lot) ELSE kept

Remaining(lots) ==
  LET kept[n \in 0..Len(lots)] == IF n = 0 THEN <<>> ELSE Retain(kept[n-1], lots[n])
  IN kept[Len(lots)]

AfterSelling(lots, eligible, quantity) ==
  Remaining([i \in DOMAIN lots |->
               [lots[i] EXCEPT !.quantity = @ - Taken(lots, eligible, quantity, i)]])

ApplySell(state, fill) ==
  LET gross == fill.quantity * fill.price
      eligible == Sellable(state, fill.symbol, fill.trade_day)
      cash == state.cash + gross - fill.fees
  IN IF \/ fill.fees > gross
        \/ SellableQuantity(state, fill.symbol, fill.trade_day) < fill.quantity
       THEN Err("invalid_t1_sell")
     ELSE IF Overflows(cash) THEN Err("amount_overflow")
     ELSE Ok([cash |-> cash,
              lots |-> AfterSelling(state.lots, eligible, fill.quantity)])

Apply(state, fill) ==
  IF fill.quantity <= 0 \/ fill.quantity % LotSize # 0 \/ fill.price <= 0 \/ fill.fees < 0
    THEN Err("invalid_fill")
  ELSE IF Overflows(fill.quantity * fill.price) THEN Err("amount_overflow")
  ELSE IF fill.side = "Buy" THEN ApplyBuy(state, fill)
  ELSE ApplySell(state, fill)

\* A portfolio as decisions make it: no empty lot and one lot a symbol.
IsBook(state) ==
  /\ state.cash \in Nat
  /\ state.lots \in Seq({state.lots[i] : i \in DOMAIN state.lots})
  /\ \A i \in DOMAIN state.lots :
       LET lot == state.lots[i] IN
       /\ lot = [symbol |-> lot.symbol, quantity |-> lot.quantity, bought_on |-> lot.bought_on]
       /\ lot.quantity \in Nat \ {0}
       /\ lot.bought_on \in Nat
  /\ \A i, j \in DOMAIN state.lots : state.lots[i].symbol = state.lots[j].symbol => i = j
=============================================================================
