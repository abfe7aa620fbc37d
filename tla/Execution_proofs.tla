-------------------------- MODULE Execution_proofs --------------------------
(***************************************************************************)
(* The properties of one call, for arguments of any size: every portfolio, *)
(* request, evidence and pack, every instant and every quantity on offer.  *)
(* A behaviour is any sequence of calls, []IsCall: the functions keep no   *)
(* state, so a call promises the same whatever was called before.          *)
(***************************************************************************)
EXTENDS ExecutionProperties, Decision_proofs

(***************************************************************************)
(* Which of the ordered early returns is taken.                            *)
(***************************************************************************)
\* The reason given is the first there is.
LEMMA TheFirst ==
  ASSUME NEW reasons, NEW n \in Nat, DOMAIN reasons = 1..n
  PROVE  FirstReason(reasons) # "" =>
           \E i \in 1..n : /\ FirstReason(reasons) = reasons[i] /\ reasons[i] # ""
                           /\ \A j \in 1..n : j < i => reasons[j] = ""
<1> DEFINE given == {i \in DOMAIN reasons : reasons[i] # ""}
<1>0. given \subseteq Nat
  <2>1. \A i \in given : i \in 1..n
    OBVIOUS
  <2> HIDE DEF given
  <2> QED
    BY <2>1
<1>1. CASE given = {}
  BY <1>1 DEF FirstReason
<1>2. CASE given # {}
  <2> DEFINE first == CHOOSE i \in given : \A j \in given : i <= j
  <2>1. first \in given /\ \A j \in given : first <= j
    <3> HIDE DEF given
    <3>1. \E i \in given : \A j \in given : i <= j
      BY <1>0, <1>2, Least, Zenon
    <3> QED
      BY <3>1
  <2>2. FirstReason(reasons) = reasons[first]
    BY <1>2 DEF FirstReason
  <2> HIDE DEF first
  <2>3. PICK k \in 1..n : k = first /\ reasons[k] # "" /\ \A j \in given : k <= j
    BY <2>1
  <2>4. ASSUME NEW j \in 1..n, j < k PROVE reasons[j] = ""
    <3>1. ~(k <= j)
      BY <2>4
    <3> QED
      BY <2>3, <3>1
  <2> QED
    BY <2>2, <2>3, <2>4
<1> QED
  BY <1>1, <1>2

\* All of them when n of them are given by n checks.
LEMMA OneOf ==
  ASSUME NEW reasons, NEW n \in Nat, DOMAIN reasons = 1..n, NEW S,
         \A i \in 1..n : reasons[i] \in S \cup {""}
  PROVE  FirstReason(reasons) \in S \cup {""}
BY TheFirst

\* What a decision that fills has passed.
LEMMA FilledIsLast ==
  ASSUME NEW state, NEW req, NEW ev, NEW pack, Fills(Decide(state, req, ev, pack))
  PROVE  LET fill == SizedFill(state, req, ev, pack)
             level == ev.execution
         IN /\ Decide(state, req, ev, pack) = Filled(fill, Apply(state, fill).value.cash)
            /\ Decide(state, req, ev, pack).value.fill = fill
            /\ Apply(state, fill).ok
            /\ PackValid(pack) /\ RequestError(req) = "" /\ ev # None
            /\ EvidenceError(req, ev) = "" /\ MarketRejection(req, ev, pack) = ""
            /\ PositionRejection(req, state) = ""
            /\ ~SizingOverflows(req, state, level.price, RuleOf(ev, pack))
            /\ QuantityRejection(req.signal.side, fill.quantity, RuleOf(ev, pack), level) = ""
            /\ ~FeesOverflow(req.signal.side, fill.quantity * level.price)
<1> DEFINE rule == RuleOf(ev, pack)
           level == ev.execution
           quantity == OrderQuantity(req, state, level.price, rule)
           fill == SizedFill(state, req, ev, pack)
           next == Apply(state, fill)
<1>1. \A reason : Rejected(state, reason).value.status # "Filled"
  BY DEF Rejected, Ok
<1>2. \A name : ~Err(name).ok
  BY DEF Err
<1>3. /\ PackValid(pack) /\ RequestError(req) = "" /\ ev # None
      /\ EvidenceError(req, ev) = "" /\ MarketRejection(req, ev, pack) = ""
      /\ Decide(state, req, ev, pack) = Execute(state, req, level, rule)
  <2>0. Decide(state, req, ev, pack).ok /\ Decide(state, req, ev, pack).value.status = "Filled"
    BY DEF Fills
  <2>1. PackValid(pack) /\ RequestError(req) = ""
    BY <1>2, <2>0 DEF Decide
  <2>2. ev # None
    BY <1>1, <2>0, <2>1 DEF Decide
  <2>3. EvidenceError(req, ev) = ""
    BY <1>2, <2>0, <2>1, <2>2 DEF Decide
  <2>4. MarketRejection(req, ev, pack) = ""
    BY <1>1, <2>0, <2>1, <2>2, <2>3 DEF Decide
  <2> QED
    BY <2>1, <2>2, <2>3, <2>4 DEF Decide, RuleOf
<1>4. fill = FillOf(req, quantity, level.price) /\ fill.quantity = quantity
  BY DEF SizedFill, FillOf
<1>5. /\ PositionRejection(req, state) = ""
      /\ ~SizingOverflows(req, state, level.price, rule)
      /\ QuantityRejection(req.signal.side, quantity, rule, level) = ""
      /\ ~FeesOverflow(req.signal.side, quantity * level.price)
      /\ next.ok
      /\ Execute(state, req, level, rule) = Filled(fill, next.value.cash)
  <2>0. /\ Execute(state, req, level, rule).ok
        /\ Execute(state, req, level, rule).value.status = "Filled"
    BY <1>3 DEF Fills
  <2> HIDE DEF rule, fill
  <2> QED
    BY <1>1, <1>2, <1>4, <2>0 DEF Execute
<1>6. Filled(fill, next.value.cash).value.fill = fill
  BY DEF Filled, Ok
<1> QED
  BY <1>3, <1>4, <1>5, <1>6

(***************************************************************************)
(* The visible capacity.                                                   *)
(***************************************************************************)
\* A quantity is taken just when it passes the four checks.
LEMMA QuantityPasses ==
  ASSUME NEW side, NEW quantity, NEW rule, NEW level
  PROVE  QuantityRejection(side, quantity, rule, level) = "" <=>
           /\ ~(quantity < rule.minimum) /\ quantity % rule.step = 0
           /\ ~(quantity > rule.maximum) /\ ~(quantity > level.available)
<1> DEFINE w1 == When(quantity < rule.minimum,
                      IF side = "Buy" THEN "insufficient_budget_for_board_lot_and_fees"
                                      ELSE "no_t1_sellable_lot")
           w2 == When(quantity % rule.step # 0, "unsupported_odd_lot_position")
           w3 == When(quantity > rule.maximum, "order_quantity_exceeds_instrument_limit")
           w4 == When(quantity > Capacity(level), "insufficient_execution_liquidity")
           reasons == <<w1, w2, w3, w4>>
<1>1. QuantityRejection(side, quantity, rule, level) = FirstReason(reasons)
  BY DEF QuantityRejection
<1>2. /\ w1 = "" <=> ~(quantity < rule.minimum)
      /\ w2 = "" <=> quantity % rule.step = 0
      /\ w3 = "" <=> ~(quantity > rule.maximum)
      /\ w4 = "" <=> ~(quantity > level.available)
  BY DEF When, Capacity
<1> HIDE DEF w1, w2, w3, w4
<1>3. DOMAIN reasons = 1..4 /\ reasons[1] = w1 /\ reasons[2] = w2 /\ reasons[3] = w3 /\ reasons[4] = w4
  OBVIOUS
<1> HIDE DEF reasons
<1>4. FirstReason(reasons) = "" <=> \A i \in 1..4 : reasons[i] = ""
  BY <1>3, NoReason
<1>5. (\A i \in 1..4 : reasons[i] = "") <=> w1 = "" /\ w2 = "" /\ w3 = "" /\ w4 = ""
  <2>1. 1..4 = {1, 2, 3, 4}
    OBVIOUS
  <2> QED
    BY <1>3, <2>1
<1> QED
  BY <1>1, <1>2, <1>4, <1>5

\* Sums of lots are natural numbers, and hold each of the lots.
LEMMA UnitsAreNatural ==
  ASSUME NEW lots, NEW S, Len(lots) \in Nat,
         \A i \in 1..Len(lots) : lots[i].quantity \in Nat
  PROVE  /\ Units(lots, S) \in Nat
         /\ \A i \in 1..Len(lots) : i \in S => lots[i].quantity <= Units(lots, S)
<1>1. PICK f : IsTotal(f, lots, S, Len(lots)) /\ Units(lots, S) = f[Len(lots)]
  BY UnitsIs
<1> DEFINE Good(n) == /\ f[n] \in Nat
                      /\ \A i \in 1..n : i \in S => lots[i].quantity <= f[n]
           T == {n \in Nat : n <= Len(lots) => Good(n)}
<1>2. 0 \in T
  BY <1>1 DEF IsTotal
<1>3. ASSUME NEW n \in Nat, n \in T PROVE n + 1 \in T
  <2>1. SUFFICES ASSUME n + 1 <= Len(lots) PROVE Good(n + 1)
    OBVIOUS
  <2>2. Good(n)
    BY <1>3, <2>1
  <2>3. f[n + 1] = f[n] + IF n + 1 \in S THEN lots[n + 1].quantity ELSE 0
    BY <1>1, <2>1 DEF IsTotal
  <2>4. lots[n + 1].quantity \in Nat
    BY <2>1
  <2>5. f[n + 1] \in Nat /\ f[n] <= f[n + 1] /\ (n + 1 \in S => lots[n + 1].quantity <= f[n + 1])
    BY <2>2, <2>3, <2>4
  <2>6. ASSUME NEW i \in 1..(n + 1), i \in S PROVE lots[i].quantity <= f[n + 1]
    <3>1. CASE i = n + 1
      BY <2>5, <2>6, <3>1
    <3>2. CASE i \in 1..n
      <4>1. lots[i].quantity <= f[n] /\ lots[i].quantity \in Nat
        BY <2>1, <2>2, <2>6, <3>2
      <4> QED
        BY <2>2, <2>5, <4>1
    <3> QED
      BY <3>1, <3>2
  <2> QED
    BY <2>5, <2>6
<1> HIDE DEF T
<1>4. Nat \subseteq T
  BY <1>2, <1>3, Induct
<1>5. Good(Len(lots))
  BY <1>4 DEF T
<1> QED
  BY <1>1, <1>5

\* The lots of a portfolio are numbered and of their types.
LEMMA PortfolioIsNumbered ==
  ASSUME NEW state, IsPortfolio(state)
  PROVE  /\ state.cash \in Nat /\ Len(state.lots) \in Nat
         /\ DOMAIN state.lots = 1..Len(state.lots)
         /\ \A i \in 1..Len(state.lots) :
              IsLot(state.lots[i]) /\ state.lots[i].quantity \in Nat \ {0}
<1>1. Len(state.lots) \in Nat /\ DOMAIN state.lots = 1..Len(state.lots)
  BY LenProperties DEF IsPortfolio
<1>2. \A i \in DOMAIN state.lots : IsLot(state.lots[i]) /\ state.lots[i].quantity \in Nat \ {0}
  BY DEF IsPortfolio, IsLot
<1>3. state.cash \in Nat
  BY DEF IsPortfolio
<1> QED
  BY <1>1, <1>2, <1>3

\* What an accepted order may be: whole lots, at a price.
LEMMA AcceptedOrder ==
  ASSUME NEW req, NEW ev, NEW pack, IsEvidence(ev),
         PackValid(pack), EvidenceError(req, ev) = "", MarketRejection(req, ev, pack) = ""
  PROVE  /\ WholeLots(RuleOf(ev, pack))
         /\ ev.execution # None /\ ev.execution.side = req.signal.side
         /\ IsLevel(ev.execution) /\ ev.execution.price > 0
<1>1. InstrumentsValid(pack.instruments)
  BY DEF PackValid
<1>2. /\ QuantityRefusal(pack.instruments, req.signal.symbol, ev.instrument,
                         DayOf(req.decision_at)) = ""
      /\ ev.execution # None /\ ev.execution.side = req.signal.side
  BY MarketAccepts
<1>3. WholeLots(RuleOf(ev, pack))
  BY <1>1, <1>2, RuleIsWholeLots DEF RuleOf
<1>4. EvidenceValid(ev)
  BY EvidenceIsNamed
<1>5. ev.execution.price > 0
  BY <1>2, <1>4 DEF EvidenceValid, FixtureQuoteValid, LevelValid
<1>6. IsLevel(ev.execution)
  BY <1>2 DEF IsEvidence
<1> QED
  BY <1>2, <1>3, <1>5, <1>6

\* The quantity of an order is a number, when it is not too small.
LEMMA OrderIsNatural ==
  ASSUME NEW state, IsPortfolio(state), NEW req, NEW price \in Int, price > 0,
         NEW rule, WholeLots(rule),
         ~(OrderQuantity(req, state, price, rule) < rule.minimum)
  PROVE  OrderQuantity(req, state, price, rule) \in Nat
<1>1. CASE req.signal.side = "Buy"
  <2>1. OrderQuantity(req, state, price, rule) = BuyQuantity(state.cash, price, rule)
    BY <1>1 DEF OrderQuantity
  <2>2. state.cash \in Nat
    BY PortfolioIsNumbered
  <2> QED
    BY <2>1, <2>2, Sizing
<1>2. CASE req.signal.side # "Buy"
  <2>1. OrderQuantity(req, state, price, rule)
          = Units(state.lots, Sellable(state, req.signal.symbol, DayOf(req.decision_at)))
    BY <1>2 DEF OrderQuantity, SellableQuantity
  <2>2. Len(state.lots) \in Nat /\ \A i \in 1..Len(state.lots) : state.lots[i].quantity \in Nat
    BY PortfolioIsNumbered
  <2> QED
    BY <2>1, <2>2, UnitsAreNatural
<1> QED
  BY <1>1, <1>2

\* Evidence with another quantity on offer differs in nothing else.
Offered(ev, n) == [ev EXCEPT !.execution = [@ EXCEPT !.available = n]]

LEMMA OfferedIs ==
  ASSUME NEW ev, IsEvidence(ev), IsLevel(ev.execution), NEW n
  PROVE  /\ Offered(ev, n).schema_version = ev.schema_version
         /\ Offered(ev, n).pack = ev.pack /\ Offered(ev, n).quote = ev.quote
         /\ Offered(ev, n).instrument = ev.instrument
         /\ Offered(ev, n).available_at = ev.available_at
         /\ Offered(ev, n).received_at = ev.received_at
         /\ Offered(ev, n).execution.schema_version = ev.execution.schema_version
         /\ Offered(ev, n).execution.quote_ref = ev.execution.quote_ref
         /\ Offered(ev, n).execution.side = ev.execution.side
         /\ Offered(ev, n).execution.price = ev.execution.price
         /\ Offered(ev, n).execution.available = n
         /\ Offered(ev, n).execution.observed_at = ev.execution.observed_at
<1>1. PICK a, b, c, d, e, f, g :
        ev = [schema_version |-> a, pack |-> b, available_at |-> c, quote |-> d,
              instrument |-> e, execution |-> f, received_at |-> g]
  BY DEF IsEvidence
<1>2. PICK h, i, j, k, l, m :
        ev.execution = [schema_version |-> h, quote_ref |-> i, side |-> j, price |-> k,
                        available |-> l, observed_at |-> m]
  BY DEF IsLevel
<1> DEFINE level == [ev.execution EXCEPT !.available = n]
<1>3. /\ level.schema_version = ev.execution.schema_version
      /\ level.quote_ref = ev.execution.quote_ref
      /\ level.side = ev.execution.side
      /\ level.price = ev.execution.price
      /\ level.available = n
      /\ level.observed_at = ev.execution.observed_at
  BY <1>2
<1>4. Offered(ev, n) = [ev EXCEPT !.execution = level]
  BY DEF Offered
<1> HIDE DEF level
<1>5. /\ Offered(ev, n).schema_version = ev.schema_version
      /\ Offered(ev, n).pack = ev.pack /\ Offered(ev, n).quote = ev.quote
      /\ Offered(ev, n).instrument = ev.instrument
      /\ Offered(ev, n).available_at = ev.available_at
      /\ Offered(ev, n).received_at = ev.received_at
      /\ Offered(ev, n).execution = level
  BY <1>1, <1>4
<1> QED
  BY <1>3, <1>5 DEF level

\* Evidence that differs in the quantity on offer alone.
SameButOffer(m, f) ==
  /\ f.schema_version = m.schema_version /\ f.pack = m.pack /\ f.quote = m.quote
  /\ f.instrument = m.instrument /\ f.available_at = m.available_at
  /\ f.received_at = m.received_at
  /\ f.execution.schema_version = m.execution.schema_version
  /\ f.execution.quote_ref = m.execution.quote_ref
  /\ f.execution.side = m.execution.side /\ f.execution.price = m.execution.price
  /\ f.execution.observed_at = m.execution.observed_at
  /\ m.execution # None /\ f.execution # None

\* The quantity on offer is looked at only to compare the order with it.
LEMMA OfferedPasses ==
  ASSUME NEW req, NEW pack, NEW m, NEW f, SameButOffer(m, f), f.execution.available \in Nat
  PROVE  EvidenceError(req, m) = "" =>
           /\ EvidenceError(req, f) = ""
           /\ MarketRejection(req, f, pack) = MarketRejection(req, m, pack)
<1>1. /\ f.schema_version = m.schema_version /\ f.pack = m.pack /\ f.quote = m.quote
      /\ f.instrument = m.instrument /\ f.available_at = m.available_at
      /\ f.received_at = m.received_at
      /\ f.execution.schema_version = m.execution.schema_version
      /\ f.execution.quote_ref = m.execution.quote_ref
      /\ f.execution.side = m.execution.side /\ f.execution.price = m.execution.price
      /\ f.execution.observed_at = m.execution.observed_at
  BY DEF SameButOffer
<1>2. m.execution # None /\ f.execution # None
  BY DEF SameButOffer
<1>3. EvidenceValid(m) => EvidenceValid(f)
  <2>1. f.execution.available >= 0
    OBVIOUS
  <2>2. LevelValid(m.execution, m.quote, m.available_at)
          => LevelValid(f.execution, f.quote, f.available_at)
    BY <1>1, <2>1 DEF LevelValid
  <2>3. FixtureQuoteValid(m.quote, m.available_at, m.execution)
          => FixtureQuoteValid(f.quote, f.available_at, f.execution)
    BY <1>1, <1>2, <2>2 DEF FixtureQuoteValid
  <2> QED
    BY <1>1, <1>2, <2>3 DEF EvidenceValid
<1>4. ASSUME EvidenceError(req, m) = "" PROVE EvidenceError(req, f) = ""
  <2>1. EvidenceValid(m)
    BY <1>4, EvidenceIsNamed
  <2>2. When(~EvidenceValid(f), "invalid_evidence") = When(~EvidenceValid(m), "invalid_evidence")
    BY <1>3, <2>1 DEF When
  <2>3. QuoteRef(f.pack, f.quote) = QuoteRef(m.pack, m.quote)
    BY <1>1
  <2>4. EvidenceError(req, f) = EvidenceError(req, m)
    BY <1>1, <2>2, <2>3, Zenon DEF EvidenceError
  <2> QED
    BY <1>4, <2>4
<1>5. LevelRejection(req.signal.side, req.decision_at, f.execution)
        = LevelRejection(req.signal.side, req.decision_at, m.execution)
  BY <1>1, <1>2, Zenon DEF LevelRejection
<1>6. QuoteTimeRejection(req.decision_at, f) = QuoteTimeRejection(req.decision_at, m)
  BY <1>1, Zenon DEF QuoteTimeRejection
<1>7. MarketRejection(req, f, pack) = MarketRejection(req, m, pack)
  BY <1>1, <1>5, <1>6, Zenon DEF MarketRejection
<1> QED
  BY <1>4, <1>7

\* A filled order is filled alike from any quantity that holds it, and not at
\* all from less.
LEMMA WholeOrNothing ==
  ASSUME NEW state, IsPortfolio(state), NEW req, NEW ev, IsEvidence(ev), IsLevel(ev.execution),
         NEW pack, NEW many \in Nat, NEW few \in Nat,
         None \notin {Offered(ev, many), Offered(ev, many).execution},
         None \notin {Offered(ev, few), Offered(ev, few).execution},
         Fills(Decide(state, req, Offered(ev, many), pack))
  PROVE  LET decided(n) == Decide(state, req, Offered(ev, n), pack) IN
         IF few >= decided(many).value.fill.quantity
           THEN decided(few) = decided(many)
           ELSE ~Fills(decided(few))
<1> DEFINE m == Offered(ev, many)
           f == Offered(ev, few)
           price == ev.execution.price
           rule == RuleOf(m, pack)
           quantity == OrderQuantity(req, state, price, rule)
           fill == FillOf(req, quantity, price)
<1>0. \A n : /\ Offered(ev, n).instrument = ev.instrument
            /\ Offered(ev, n).execution.price = ev.execution.price
            /\ Offered(ev, n).execution.available = n
  BY OfferedIs
<1>1. /\ f.instrument = m.instrument /\ m.execution.price = price /\ f.execution.price = price
      /\ m.execution.available = many /\ f.execution.available = few
  BY <1>0, Zenon
<1>2. RuleOf(f, pack) = rule
  BY <1>1 DEF RuleOf
<1>3. SizedFill(state, req, m, pack) = fill /\ SizedFill(state, req, f, pack) = fill
  BY <1>1, <1>2 DEF SizedFill
<1>4. fill.quantity = quantity
  BY DEF FillOf
<1> DEFINE next == Apply(state, fill)
<1>5. /\ Decide(state, req, m, pack) = Filled(fill, next.value.cash)
      /\ Decide(state, req, m, pack).value.fill = fill
      /\ next.ok
      /\ PackValid(pack) /\ RequestError(req) = "" /\ m # None
      /\ EvidenceError(req, m) = "" /\ MarketRejection(req, m, pack) = ""
      /\ PositionRejection(req, state) = ""
      /\ ~SizingOverflows(req, state, price, rule)
      /\ QuantityRejection(req.signal.side, quantity, rule, m.execution) = ""
      /\ ~FeesOverflow(req.signal.side, quantity * price)
  <2>1. LET last == SizedFill(state, req, m, pack) IN
        /\ Decide(state, req, m, pack) = Filled(last, Apply(state, last).value.cash)
        /\ Decide(state, req, m, pack).value.fill = last
        /\ Apply(state, last).ok
        /\ PackValid(pack) /\ RequestError(req) = "" /\ m # None
        /\ EvidenceError(req, m) = "" /\ MarketRejection(req, m, pack) = ""
        /\ PositionRejection(req, state) = ""
        /\ ~SizingOverflows(req, state, m.execution.price, rule)
        /\ QuantityRejection(req.signal.side, last.quantity, rule, m.execution) = ""
        /\ ~FeesOverflow(req.signal.side, last.quantity * m.execution.price)
    BY FilledIsLast
  <2> HIDE DEF fill, quantity, rule, price
  <2> QED
    BY <1>1, <1>3, <1>4, <2>1, Zenon
<1>6. /\ ~(quantity < rule.minimum) /\ quantity % rule.step = 0
      /\ ~(quantity > rule.maximum) /\ ~(quantity > many)
  <2> HIDE DEF quantity, rule
  <2>1. /\ ~(quantity < rule.minimum) /\ quantity % rule.step = 0
        /\ ~(quantity > rule.maximum) /\ ~(quantity > m.execution.available)
    BY <1>5, QuantityPasses
  <2> QED
    BY <1>1, <2>1, Zenon
<1>7. quantity \in Nat
  <2>1. EvidenceValid(m) /\ m.execution # None
    BY <1>5, EvidenceIsNamed
  <2>2. price \in Int /\ price > 0
    BY <1>1, <2>1 DEF EvidenceValid, FixtureQuoteValid, LevelValid, IsLevel
  <2>3. WholeLots(rule)
    <3>1. InstrumentsValid(pack.instruments)
      BY <1>5 DEF PackValid
    <3>2. QuantityRefusal(pack.instruments, req.signal.symbol, m.instrument,
                          DayOf(req.decision_at)) = ""
      BY <1>5, MarketAccepts
    <3> QED
      BY <3>1, <3>2, RuleIsWholeLots DEF RuleOf
  <2> HIDE DEF price, rule
  <2> QED
    BY <1>6, <2>2, <2>3, OrderIsNatural
<1>8. EvidenceError(req, f) = "" /\ MarketRejection(req, f, pack) = "" /\ f # None
  <2>1. m.execution # None /\ f.execution # None /\ f # None
    OBVIOUS
  <2>2. /\ \A n : /\ Offered(ev, n).schema_version = ev.schema_version
                  /\ Offered(ev, n).pack = ev.pack /\ Offered(ev, n).quote = ev.quote
                  /\ Offered(ev, n).instrument = ev.instrument
                  /\ Offered(ev, n).available_at = ev.available_at
                  /\ Offered(ev, n).received_at = ev.received_at
        /\ \A n : /\ Offered(ev, n).execution.schema_version = ev.execution.schema_version
                  /\ Offered(ev, n).execution.quote_ref = ev.execution.quote_ref
                  /\ Offered(ev, n).execution.side = ev.execution.side
                  /\ Offered(ev, n).execution.price = ev.execution.price
                  /\ Offered(ev, n).execution.observed_at = ev.execution.observed_at
    BY OfferedIs
  <2>3. SameButOffer(m, f)
    BY <2>1, <2>2, Zenon DEF SameButOffer
  <2>4. f.execution.available \in Nat
    BY <1>1
  <2> HIDE DEF m, f
  <2>5. EvidenceError(req, m) = "" =>
          /\ EvidenceError(req, f) = ""
          /\ MarketRejection(req, f, pack) = MarketRejection(req, m, pack)
    BY <2>3, <2>4, OfferedPasses
  <2> QED
    BY <1>5, <2>1, <2>5
<1>9. Decide(state, req, f, pack) = Execute(state, req, f.execution, rule)
  BY <1>2, <1>5, <1>8 DEF Decide, RuleOf
<1>10. QuantityRejection(req.signal.side, quantity, rule, f.execution) = "" <=> ~(quantity > few)
  <2> HIDE DEF quantity, rule
  <2>1. QuantityRejection(req.signal.side, quantity, rule, f.execution) = "" <=>
          ~(quantity > f.execution.available)
    BY <1>6, QuantityPasses
  <2> QED
    BY <1>1, <2>1, Zenon
<1>11. CASE few >= quantity
  <2>1. ~(quantity > few)
    BY <1>7, <1>11
  <2>2. Execute(state, req, f.execution, rule) = Filled(fill, next.value.cash)
    <3> HIDE DEF rule
    <3> QED
      BY <1>1, <1>5, <1>10, <2>1 DEF Execute
  <2> QED
    BY <1>4, <1>5, <1>9, <1>11, <2>2
<1>12. CASE ~(few >= quantity)
  <2>1. QuantityRejection(req.signal.side, quantity, rule, f.execution) # ""
    <3>1. quantity > few
      <4> HIDE DEF quantity
      <4> QED BY <1>7, <1>12
    <3> QED
      BY <1>10, <3>1, Zenon
  <2>2. ~Fills(Decide(state, req, f, pack))
    <3>1. SUFFICES ASSUME Fills(Decide(state, req, f, pack)) PROVE FALSE
      OBVIOUS
    <3>2. QuantityRejection(req.signal.side, SizedFill(state, req, f, pack).quantity,
                            RuleOf(f, pack), f.execution) = ""
      BY <3>1, FilledIsLast
    <3> QED
      BY <1>2, <1>3, <1>4, <2>1, <3>2
  <2> QED
    BY <1>4, <1>5, <1>12, <2>2
<1> QED
  BY <1>11, <1>12

\* Every order is taken whole or not at all, in every sequence of calls: what is
\* on offer beyond the order changes nothing, and an offer below it fills
\* nothing (execution.rs, insufficient_execution_liquidity).
THEOREM OrdersAreTakenWhole == []IsCall => []NeverDownsized
<1>1. IsCall => NeverDownsized
  <2> SUFFICES ASSUME IsCall, request # None, evidence # None, evidence.execution # None,
                      NEW many \in Capacities, NEW few \in Capacities,
                      Fills(DecisionWith(many))
               PROVE  IF few >= DecisionWith(many).value.fill.quantity
                        THEN DecisionWith(few) = DecisionWith(many)
                        ELSE ~Fills(DecisionWith(few))
    BY DEF NeverDownsized
  <2>1. /\ IsPortfolio(book) /\ IsEvidence(evidence) /\ IsLevel(evidence.execution)
        /\ None \notin {Offering(many), Offering(many).execution}
        /\ None \notin {Offering(few), Offering(few).execution}
    BY DEF IsCall, IsEvidence
  <2>2. many \in Nat /\ few \in Nat
    BY CasesAssumption
  <2>3. \A n : Offering(n) = Offered(evidence, n)
    BY DEF Offering, Offered
  <2>4. \A n : DecisionWith(n) = Decide(book, request, Offered(evidence, n), market)
    BY <2>3 DEF DecisionWith
  <2> QED
    BY <2>1, <2>2, <2>3, <2>4, WholeOrNothing
<1> QED
  BY <1>1, PTL

(***************************************************************************)
(* Ordered early returns written out.                                      *)
(***************************************************************************)
LEMMA OneIndex ==
  ASSUME NEW n \in Nat, NEW i \in 1..n, NEW k \in 1..n
  PROVE  ~(i < k) /\ ~(k < i) => k = i
OBVIOUS

LEMMA FirstIs ==
  ASSUME NEW reasons, NEW n \in Nat, DOMAIN reasons = 1..n, NEW i \in 1..n,
         \A j \in 1..n : j < i => reasons[j] = ""
  PROVE  reasons[i] # "" => FirstReason(reasons) = reasons[i]
<1>1. SUFFICES ASSUME reasons[i] # "" PROVE FirstReason(reasons) = reasons[i]
  OBVIOUS
<1>2. FirstReason(reasons) # ""
  BY <1>1, NoReason
<1>3. PICK k \in 1..n : /\ FirstReason(reasons) = reasons[k] /\ reasons[k] # ""
                        /\ \A j \in 1..n : j < k => reasons[j] = ""
  BY <1>2, TheFirst
<1>4. ~(k < i) /\ ~(i < k)
  BY <1>1, <1>3
<1>5. k = i
  BY <1>4, OneIndex
<1> QED
  BY <1>3, <1>5

LEMMA FirstOfTwo ==
  ASSUME NEW reasons, DOMAIN reasons = 1..2
  PROVE  FirstReason(reasons)
           = IF reasons[1] # "" THEN reasons[1]
             ELSE reasons[2]
<1>1. reasons[1] # "" => FirstReason(reasons) = reasons[1]
  <2>1. 1 \in 1..2 /\ \A j \in 1..2 : ~(j < 1)
    OBVIOUS
  <2> QED
    BY <2>1, FirstIs, Zenon
<1>2. reasons[1] = "" /\ reasons[2] # "" => FirstReason(reasons) = reasons[2]
  <2>1. \A j \in 1..2 : j < 2 => j = 1
    OBVIOUS
  <2>2. 2 \in 1..2
    OBVIOUS
  <2>3. reasons[1] = "" =>
          \A j \in 1..2 : j < 2 => reasons[j] = ""
    BY <2>1, Zenon
  <2> QED
    BY <2>2, <2>3, FirstIs, Zenon
<1>3. reasons[1] = "" /\ reasons[2] = "" => FirstReason(reasons) = ""
  <2>1. \A j \in 1..2 : j = 1 \/ j = 2
    OBVIOUS
  <2> QED
    BY <2>1, NoReason, Zenon
<1> QED
  BY <1>1, <1>2, <1>3

LEMMA FirstOfThree ==
  ASSUME NEW reasons, DOMAIN reasons = 1..3
  PROVE  FirstReason(reasons)
           = IF reasons[1] # "" THEN reasons[1]
             ELSE IF reasons[2] # "" THEN reasons[2]
             ELSE reasons[3]
<1>1. reasons[1] # "" => FirstReason(reasons) = reasons[1]
  <2>1. 1 \in 1..3 /\ \A j \in 1..3 : ~(j < 1)
    OBVIOUS
  <2> QED
    BY <2>1, FirstIs, Zenon
<1>2. reasons[1] = "" /\ reasons[2] # "" => FirstReason(reasons) = reasons[2]
  <2>1. \A j \in 1..3 : j < 2 => j = 1
    OBVIOUS
  <2>2. 2 \in 1..3
    OBVIOUS
  <2>3. reasons[1] = "" =>
          \A j \in 1..3 : j < 2 => reasons[j] = ""
    BY <2>1, Zenon
  <2> QED
    BY <2>2, <2>3, FirstIs, Zenon
<1>3. reasons[1] = "" /\ reasons[2] = "" /\ reasons[3] # "" => FirstReason(reasons) = reasons[3]
  <2>1. \A j \in 1..3 : j < 3 => j = 1 \/ j = 2
    OBVIOUS
  <2>2. 3 \in 1..3
    OBVIOUS
  <2>3. reasons[1] = "" /\ reasons[2] = "" =>
          \A j \in 1..3 : j < 3 => reasons[j] = ""
    BY <2>1, Zenon
  <2> QED
    BY <2>2, <2>3, FirstIs, Zenon
<1>4. reasons[1] = "" /\ reasons[2] = "" /\ reasons[3] = "" => FirstReason(reasons) = ""
  <2>1. \A j \in 1..3 : j = 1 \/ j = 2 \/ j = 3
    OBVIOUS
  <2> QED
    BY <2>1, NoReason, Zenon
<1> QED
  BY <1>1, <1>2, <1>3, <1>4

LEMMA FirstOfFour ==
  ASSUME NEW reasons, DOMAIN reasons = 1..4
  PROVE  FirstReason(reasons)
           = IF reasons[1] # "" THEN reasons[1]
             ELSE IF reasons[2] # "" THEN reasons[2]
             ELSE IF reasons[3] # "" THEN reasons[3]
             ELSE reasons[4]
<1>1. reasons[1] # "" => FirstReason(reasons) = reasons[1]
  <2>1. 1 \in 1..4 /\ \A j \in 1..4 : ~(j < 1)
    OBVIOUS
  <2> QED
    BY <2>1, FirstIs, Zenon
<1>2. reasons[1] = "" /\ reasons[2] # "" => FirstReason(reasons) = reasons[2]
  <2>1. \A j \in 1..4 : j < 2 => j = 1
    OBVIOUS
  <2>2. 2 \in 1..4
    OBVIOUS
  <2>3. reasons[1] = "" =>
          \A j \in 1..4 : j < 2 => reasons[j] = ""
    BY <2>1, Zenon
  <2> QED
    BY <2>2, <2>3, FirstIs, Zenon
<1>3. reasons[1] = "" /\ reasons[2] = "" /\ reasons[3] # "" => FirstReason(reasons) = reasons[3]
  <2>1. \A j \in 1..4 : j < 3 => j = 1 \/ j = 2
    OBVIOUS
  <2>2. 3 \in 1..4
    OBVIOUS
  <2>3. reasons[1] = "" /\ reasons[2] = "" =>
          \A j \in 1..4 : j < 3 => reasons[j] = ""
    BY <2>1, Zenon
  <2> QED
    BY <2>2, <2>3, FirstIs, Zenon
<1>4. reasons[1] = "" /\ reasons[2] = "" /\ reasons[3] = ""
      /\ reasons[4] # "" => FirstReason(reasons) = reasons[4]
  <2>1. \A j \in 1..4 : j < 4 => j = 1 \/ j = 2 \/ j = 3
    OBVIOUS
  <2>2. 4 \in 1..4
    OBVIOUS
  <2>3. reasons[1] = "" /\ reasons[2] = "" /\ reasons[3] = "" =>
          \A j \in 1..4 : j < 4 => reasons[j] = ""
    BY <2>1, Zenon
  <2> QED
    BY <2>2, <2>3, FirstIs, Zenon
<1>5. reasons[1] = "" /\ reasons[2] = "" /\ reasons[3] = ""
      /\ reasons[4] = "" => FirstReason(reasons) = ""
  <2>1. \A j \in 1..4 : j = 1 \/ j = 2 \/ j = 3 \/ j = 4
    OBVIOUS
  <2> QED
    BY <2>1, NoReason, Zenon
<1> QED
  BY <1>1, <1>2, <1>3, <1>4, <1>5

LEMMA FirstOfSix ==
  ASSUME NEW reasons, DOMAIN reasons = 1..6
  PROVE  FirstReason(reasons)
           = IF reasons[1] # "" THEN reasons[1]
             ELSE IF reasons[2] # "" THEN reasons[2]
             ELSE IF reasons[3] # "" THEN reasons[3]
             ELSE IF reasons[4] # "" THEN reasons[4]
             ELSE IF reasons[5] # "" THEN reasons[5]
             ELSE reasons[6]
<1>1. reasons[1] # "" => FirstReason(reasons) = reasons[1]
  <2>1. 1 \in 1..6 /\ \A j \in 1..6 : ~(j < 1)
    OBVIOUS
  <2> QED
    BY <2>1, FirstIs, Zenon
<1>2. reasons[1] = "" /\ reasons[2] # "" => FirstReason(reasons) = reasons[2]
  <2>1. \A j \in 1..6 : j < 2 => j = 1
    OBVIOUS
  <2>2. 2 \in 1..6
    OBVIOUS
  <2>3. reasons[1] = "" =>
          \A j \in 1..6 : j < 2 => reasons[j] = ""
    BY <2>1, Zenon
  <2> QED
    BY <2>2, <2>3, FirstIs, Zenon
<1>3. reasons[1] = "" /\ reasons[2] = "" /\ reasons[3] # "" => FirstReason(reasons) = reasons[3]
  <2>1. \A j \in 1..6 : j < 3 => j = 1 \/ j = 2
    OBVIOUS
  <2>2. 3 \in 1..6
    OBVIOUS
  <2>3. reasons[1] = "" /\ reasons[2] = "" =>
          \A j \in 1..6 : j < 3 => reasons[j] = ""
    BY <2>1, Zenon
  <2> QED
    BY <2>2, <2>3, FirstIs, ZenonT(60)
<1>4. reasons[1] = "" /\ reasons[2] = "" /\ reasons[3] = ""
      /\ reasons[4] # "" => FirstReason(reasons) = reasons[4]
  <2>1. \A j \in 1..6 : j < 4 => j = 1 \/ j = 2 \/ j = 3
    OBVIOUS
  <2>2. 4 \in 1..6
    OBVIOUS
  <2>3. reasons[1] = "" /\ reasons[2] = "" /\ reasons[3] = "" =>
          \A j \in 1..6 : j < 4 => reasons[j] = ""
    BY <2>1, Zenon
  <2> QED
    BY <2>2, <2>3, FirstIs, ZenonT(60)
<1>5. reasons[1] = "" /\ reasons[2] = "" /\ reasons[3] = ""
      /\ reasons[4] = "" /\ reasons[5] # "" => FirstReason(reasons) = reasons[5]
  <2>1. \A j \in 1..6 : j < 5 => j = 1 \/ j = 2 \/ j = 3 \/ j = 4
    OBVIOUS
  <2>2. 5 \in 1..6
    OBVIOUS
  <2>3. reasons[1] = "" /\ reasons[2] = "" /\ reasons[3] = ""
         /\ reasons[4] = "" =>
          \A j \in 1..6 : j < 5 => reasons[j] = ""
    BY <2>1, Zenon
  <2> QED
    BY <2>2, <2>3, FirstIs, ZenonT(60)
<1>6. reasons[1] = "" /\ reasons[2] = "" /\ reasons[3] = ""
      /\ reasons[4] = "" /\ reasons[5] = "" /\ reasons[6] # "" => FirstReason(reasons) = reasons[6]
  <2>1. \A j \in 1..6 : j < 6 => j = 1 \/ j = 2 \/ j = 3 \/ j = 4 \/ j = 5
    OBVIOUS
  <2>2. 6 \in 1..6
    OBVIOUS
  <2>3. reasons[1] = "" /\ reasons[2] = "" /\ reasons[3] = ""
         /\ reasons[4] = "" /\ reasons[5] = "" =>
          \A j \in 1..6 : j < 6 => reasons[j] = ""
    BY <2>1, Zenon
  <2> QED
    BY <2>2, <2>3, FirstIs, ZenonT(60)
<1>7. reasons[1] = "" /\ reasons[2] = "" /\ reasons[3] = ""
      /\ reasons[4] = "" /\ reasons[5] = "" /\ reasons[6] = "" => FirstReason(reasons) = ""
  <2>1. \A j \in 1..6 : j = 1 \/ j = 2 \/ j = 3 \/ j = 4 \/ j = 5 \/ j = 6
    OBVIOUS
  <2> QED
    BY <2>1, NoReason, Zenon
<1> QED
  BY <1>1, <1>2, <1>3, <1>4, <1>5, <1>6, <1>7

(***************************************************************************)
(* The reasons each check can give.                                        *)
(***************************************************************************)
TimeReasons == {"quote_from_future", "quote_not_yet_available", "stale_quote"}
DateReasons == {"weekend_market_closed", "holiday_market_closed", "unknown_trading_date"}
ClockReasons == {"opening_auction_not_supported", "closing_auction_not_supported",
                 "midday_break", "outside_trading_session"}
InstrumentReasons ==
  {"instrument_identity_missing", "instrument_identity_conflict", "instrument_date_not_covered",
   "unsupported_security_type", "unsupported_instrument_board",
   "unsupported_instrument_exchange", "instrument_rule_missing", "unsupported_instrument_rule",
   "instrument_rule_date_not_covered"}
StatusReasons == {"not_tradable", "limit_up_buy_blocked", "limit_down_sell_blocked"}
LevelReasons == {"execution_evidence_missing", "execution_side_mismatch",
                 "stale_execution_evidence"}
SizeReasons == {"insufficient_budget_for_board_lot_and_fees", "no_t1_sellable_lot",
                "unsupported_odd_lot_position", "order_quantity_exceeds_instrument_limit",
                "insufficient_execution_liquidity"}

LEMMA TimeChecked ==
  ASSUME NEW at, NEW ev
  PROVE  /\ QuoteTimeRejection(at, ev) \in TimeReasons \cup {""}
         /\ QuoteTimeRejection(at, ev) = "" <=>
              /\ ~(ev.quote.observed_at > at) /\ ~(ev.available_at > at)
              /\ ~TooOld(ev.quote.observed_at, at)
         /\ QuoteTimeRejection(at, ev) = "stale_quote" =>
              ~(ev.quote.observed_at > at) /\ TooOld(ev.quote.observed_at, at)
<1> DEFINE w1 == When(ev.quote.observed_at > at, "quote_from_future")
           w2 == When(ev.available_at > at, "quote_not_yet_available")
           w3 == When(TooOld(ev.quote.observed_at, at), "stale_quote")
<1>1. QuoteTimeRejection(at, ev) = FirstReason(<<w1, w2, w3>>)
  BY DEF QuoteTimeRejection
<1>2. /\ w1 = IF ev.quote.observed_at > at THEN "quote_from_future" ELSE ""
      /\ w2 = IF ev.available_at > at THEN "quote_not_yet_available" ELSE ""
      /\ w3 = IF TooOld(ev.quote.observed_at, at) THEN "stale_quote" ELSE ""
  BY DEF When
<1> HIDE DEF w1, w2, w3
<1>3. QuoteTimeRejection(at, ev) = IF w1 # "" THEN w1 ELSE IF w2 # "" THEN w2 ELSE w3
  <2> DEFINE reasons == <<w1, w2, w3>>
  <2>1. /\ DOMAIN reasons = 1..3
        /\ reasons[1] = w1 /\ reasons[2] = w2 /\ reasons[3] = w3
    OBVIOUS
  <2> HIDE DEF reasons
  <2>2. FirstReason(reasons)
          = IF reasons[1] # "" THEN reasons[1] ELSE IF reasons[2] # "" THEN reasons[2] ELSE
            reasons[3]
    BY <2>1, FirstOfThree
  <2>3. FirstReason(reasons) = IF w1 # "" THEN w1 ELSE IF w2 # "" THEN w2 ELSE w3
    BY <2>1, <2>2
  <2> QED
    BY <1>1, <2>3 DEF reasons
<1> QED
  BY <1>2, <1>3 DEF TimeReasons

LEMMA LevelChecked ==
  ASSUME NEW side, NEW at, NEW level
  PROVE  /\ LevelRejection(side, at, level) \in LevelReasons \cup {""}
         /\ LevelRejection(side, at, level) = "" => ~TooOld(level.observed_at, at)
         /\ LevelRejection(side, at, level) = "stale_execution_evidence" =>
              level # None /\ TooOld(level.observed_at, at)
<1>1. CASE level = None
  BY <1>1 DEF LevelRejection, LevelReasons
<1>2. CASE level # None
  <2> DEFINE w1 == When(level.side # side, "execution_side_mismatch")
             w2 == When(TooOld(level.observed_at, at), "stale_execution_evidence")
  <2>1. LevelRejection(side, at, level) = FirstReason(<<w1, w2>>)
    BY <1>2 DEF LevelRejection
  <2>2. /\ w1 = IF level.side # side THEN "execution_side_mismatch" ELSE ""
        /\ w2 = IF TooOld(level.observed_at, at) THEN "stale_execution_evidence" ELSE ""
    BY DEF When
  <2> HIDE DEF w1, w2
  <2>3. LevelRejection(side, at, level) = IF w1 # "" THEN w1 ELSE w2
    <3> DEFINE reasons == <<w1, w2>>
    <3>1. /\ DOMAIN reasons = 1..2
          /\ reasons[1] = w1 /\ reasons[2] = w2
      OBVIOUS
    <3> HIDE DEF reasons
    <3>2. FirstReason(reasons)
            = IF reasons[1] # "" THEN reasons[1] ELSE reasons[2]
      BY <3>1, FirstOfTwo
    <3>3. FirstReason(reasons) = IF w1 # "" THEN w1 ELSE w2
      BY <3>1, <3>2
    <3> QED
      BY <2>1, <3>3 DEF reasons
  <2> QED
    BY <1>2, <2>2, <2>3 DEF LevelReasons
<1> QED
  BY <1>1, <1>2

LEMMA DateChecked ==
  ASSUME NEW calendar, NEW day
  PROVE  /\ DateRejection(calendar, day) \in DateReasons \cup {""}
         /\ CalendarDay(calendar, day) = "Trading" => DateRejection(calendar, day) = ""
<1> DEFINE kind == CalendarDay(calendar, day)
           w1 == When(kind = "Weekend", "weekend_market_closed")
           w2 == When(kind = "Holiday", "holiday_market_closed")
           w3 == When(kind = "Unknown", "unknown_trading_date")
<1>1. DateRejection(calendar, day) = FirstReason(<<w1, w2, w3>>)
  BY DEF DateRejection
<1> HIDE DEF kind
<1>2. /\ w1 = IF kind = "Weekend" THEN "weekend_market_closed" ELSE ""
      /\ w2 = IF kind = "Holiday" THEN "holiday_market_closed" ELSE ""
      /\ w3 = IF kind = "Unknown" THEN "unknown_trading_date" ELSE ""
  BY DEF When
<1> HIDE DEF w1, w2, w3
<1>3. DateRejection(calendar, day) = IF w1 # "" THEN w1 ELSE IF w2 # "" THEN w2 ELSE w3
  <2> DEFINE reasons == <<w1, w2, w3>>
  <2>1. /\ DOMAIN reasons = 1..3
        /\ reasons[1] = w1 /\ reasons[2] = w2 /\ reasons[3] = w3
    OBVIOUS
  <2> HIDE DEF reasons
  <2>2. FirstReason(reasons)
          = IF reasons[1] # "" THEN reasons[1] ELSE IF reasons[2] # "" THEN reasons[2] ELSE
            reasons[3]
    BY <2>1, FirstOfThree
  <2>3. FirstReason(reasons) = IF w1 # "" THEN w1 ELSE IF w2 # "" THEN w2 ELSE w3
    BY <2>1, <2>2
  <2> QED
    BY <1>1, <2>3 DEF reasons
<1>4. /\ DateRejection(calendar, day) \in DateReasons \cup {""}
      /\ kind = "Trading" => DateRejection(calendar, day) = ""
  BY <1>2, <1>3 DEF DateReasons
<1> QED
  BY <1>4 DEF kind

LEMMA StatusChecked ==
  ASSUME NEW side, NEW quote
  PROVE  QuoteStatusRejection(side, quote) \in StatusReasons \cup {""}
<1> DEFINE w1 == When(~quote.tradable, "not_tradable")
           w2 == When(side = "Buy" /\ quote.limit_up, "limit_up_buy_blocked")
           w3 == When(side = "Sell" /\ quote.limit_down, "limit_down_sell_blocked")
<1>1. QuoteStatusRejection(side, quote) = FirstReason(<<w1, w2, w3>>)
  BY DEF QuoteStatusRejection
<1>2. w1 \in StatusReasons \cup {""} /\ w2 \in StatusReasons \cup {""} /\ w3 \in StatusReasons \cup {""}
  BY DEF When, StatusReasons
<1> HIDE DEF w1, w2, w3
<1>3. QuoteStatusRejection(side, quote) = IF w1 # "" THEN w1 ELSE IF w2 # "" THEN w2 ELSE w3
  <2> DEFINE reasons == <<w1, w2, w3>>
  <2>1. /\ DOMAIN reasons = 1..3
        /\ reasons[1] = w1 /\ reasons[2] = w2 /\ reasons[3] = w3
    OBVIOUS
  <2> HIDE DEF reasons
  <2>2. FirstReason(reasons)
          = IF reasons[1] # "" THEN reasons[1] ELSE IF reasons[2] # "" THEN reasons[2] ELSE
            reasons[3]
    BY <2>1, FirstOfThree
  <2>3. FirstReason(reasons) = IF w1 # "" THEN w1 ELSE IF w2 # "" THEN w2 ELSE w3
    BY <2>1, <2>2
  <2> QED
    BY <1>1, <2>3 DEF reasons
<1> QED
  BY <1>2, <1>3

LEMMA SizeChecked ==
  ASSUME NEW side, NEW quantity, NEW rule, NEW level
  PROVE  QuantityRejection(side, quantity, rule, level) \in SizeReasons \cup {""}
<1> DEFINE w1 == When(quantity < rule.minimum,
                      IF side = "Buy" THEN "insufficient_budget_for_board_lot_and_fees"
                                      ELSE "no_t1_sellable_lot")
           w2 == When(quantity % rule.step # 0, "unsupported_odd_lot_position")
           w3 == When(quantity > rule.maximum, "order_quantity_exceeds_instrument_limit")
           w4 == When(quantity > Capacity(level), "insufficient_execution_liquidity")
           S == SizeReasons \cup {""}
<1>1. QuantityRejection(side, quantity, rule, level) = FirstReason(<<w1, w2, w3, w4>>)
  BY DEF QuantityRejection
<1>2. w1 \in S /\ w2 \in S /\ w3 \in S /\ w4 \in S
  BY DEF When, SizeReasons
<1> HIDE DEF w1, w2, w3, w4
<1>3. QuantityRejection(side, quantity, rule, level)
        = IF w1 # "" THEN w1 ELSE IF w2 # "" THEN w2 ELSE IF w3 # "" THEN w3 ELSE w4
  <2> DEFINE reasons == <<w1, w2, w3, w4>>
  <2>1. /\ DOMAIN reasons = 1..4
        /\ reasons[1] = w1 /\ reasons[2] = w2 /\ reasons[3] = w3 /\ reasons[4] = w4
    OBVIOUS
  <2> HIDE DEF reasons
  <2>2. FirstReason(reasons)
          = IF reasons[1] # "" THEN reasons[1] ELSE IF reasons[2] # "" THEN reasons[2] ELSE
            IF reasons[3] # "" THEN reasons[3] ELSE reasons[4]
    BY <2>1, FirstOfFour
  <2>3. FirstReason(reasons)
          = IF w1 # "" THEN w1 ELSE IF w2 # "" THEN w2 ELSE IF w3 # "" THEN w3 ELSE w4
    BY <2>1, <2>2
  <2> QED
    BY <1>1, <2>3 DEF reasons
<1> QED
  BY <1>2, <1>3

LEMMA InstrumentChecked ==
  ASSUME NEW snap, NEW symbol, NEW pinned, NEW day
  PROVE  QuantityRefusal(snap, symbol, pinned, day) \in InstrumentReasons \cup {""}
<1> DEFINE w1 == When(Identity(snap, symbol) # pinned, "instrument_identity_conflict")
           w2 == When(~Covers(pinned, day), "instrument_date_not_covered")
           w3 == When(pinned.security_type # "OrdinaryAShare", "unsupported_security_type")
           w4 == When(pinned.board # "MainBoard", "unsupported_instrument_board")
           w5 == When(pinned.exchange # "Sse", "unsupported_instrument_exchange")
           w6 == When(pinned.rule_version = None, "instrument_rule_missing")
           w7 == When(pinned.rule_version # QuantityRuleVersion, "unsupported_instrument_rule")
           w8 == When(~\E r \in snap.rules : r.version = pinned.rule_version,
                      "instrument_rule_missing")
           w9 == When(~\E r \in snap.rules : r.version = pinned.rule_version /\ Covers(r, day),
                      "instrument_rule_date_not_covered")
           reasons == <<w1, w2, w3, w4, w5, w6, w7, w8, w9>>
           S == InstrumentReasons \cup {""}
<1>1. CASE pinned = None
  BY <1>1 DEF QuantityRefusal, InstrumentReasons
<1>2. CASE pinned # None
  <2>1. QuantityRefusal(snap, symbol, pinned, day) = FirstReason(reasons)
    BY <1>2 DEF QuantityRefusal
  <2>2. /\ w1 \in S /\ w2 \in S /\ w3 \in S /\ w4 \in S /\ w5 \in S
        /\ w6 \in S /\ w7 \in S /\ w8 \in S /\ w9 \in S
    BY Zenon DEF When, InstrumentReasons
  <2> HIDE DEF w1, w2, w3, w4, w5, w6, w7, w8, w9, S
  <2>3. DOMAIN reasons = 1..9 /\ \A i \in 1..9 : reasons[i] \in S
    BY <2>2
  <2> HIDE DEF reasons
  <2>4. FirstReason(reasons) \in InstrumentReasons \cup {""}
    BY <2>3, OneOf DEF S
  <2> QED
    BY <2>1, <2>4
<1> QED
  BY <1>1, <1>2

LEMMA ClockChecked ==
  ASSUME NEW p, NEW time
  PROVE  SessionRejection(p, time) \in ClockReasons \cup {""}
<1> DEFINE continuous == Contains(p.morning, time) \/ Contains(p.afternoon, time)
           w1 == When(Contains(p.opening, time), "opening_auction_not_supported")
           w2 == When(Contains(p.closing, time), "closing_auction_not_supported")
           w3 == When(~continuous /\ time > p.morning.end /\ time < p.afternoon.start,
                      "midday_break")
           w4 == When(~continuous, "outside_trading_session")
           S == ClockReasons \cup {""}
<1>1. SessionRejection(p, time) = FirstReason(<<w1, w2, w3, w4>>)
  BY DEF SessionRejection
<1>2. w1 \in S /\ w2 \in S /\ w3 \in S /\ w4 \in S
  BY Zenon DEF When, ClockReasons
<1> HIDE DEF w1, w2, w3, w4
<1>3. SessionRejection(p, time)
        = IF w1 # "" THEN w1 ELSE IF w2 # "" THEN w2 ELSE IF w3 # "" THEN w3 ELSE w4
  <2> DEFINE reasons == <<w1, w2, w3, w4>>
  <2>1. /\ DOMAIN reasons = 1..4
        /\ reasons[1] = w1 /\ reasons[2] = w2 /\ reasons[3] = w3 /\ reasons[4] = w4
    OBVIOUS
  <2> HIDE DEF reasons
  <2>2. FirstReason(reasons)
          = IF reasons[1] # "" THEN reasons[1] ELSE IF reasons[2] # "" THEN reasons[2] ELSE
            IF reasons[3] # "" THEN reasons[3] ELSE reasons[4]
    BY <2>1, FirstOfFour
  <2>3. FirstReason(reasons)
          = IF w1 # "" THEN w1 ELSE IF w2 # "" THEN w2 ELSE IF w3 # "" THEN w3 ELSE w4
    BY <2>1, <2>2
  <2> QED
    BY <1>1, <2>3 DEF reasons
<1> QED
  BY <1>2, <1>3

\* The six checks of the market, in their order.
LEMMA MarketChecked ==
  ASSUME NEW req, NEW ev, NEW pack
  PROVE  LET w1 == QuoteTimeRejection(req.decision_at, ev)
             w2 == DateRejection(pack.calendar, DayOf(req.decision_at))
             w3 == SessionRejection(pack.sessions, TimeOfDay(req.decision_at))
             w4 == QuantityRefusal(pack.instruments, req.signal.symbol, ev.instrument,
                                   DayOf(req.decision_at))
             w5 == QuoteStatusRejection(req.signal.side, ev.quote)
             w6 == LevelRejection(req.signal.side, req.decision_at, ev.execution)
         IN MarketRejection(req, ev, pack)
              = IF w1 # "" THEN w1 ELSE IF w2 # "" THEN w2 ELSE IF w3 # "" THEN w3
                ELSE IF w4 # "" THEN w4 ELSE IF w5 # "" THEN w5 ELSE w6
<1> DEFINE w1 == QuoteTimeRejection(req.decision_at, ev)
           w2 == DateRejection(pack.calendar, DayOf(req.decision_at))
           w3 == SessionRejection(pack.sessions, TimeOfDay(req.decision_at))
           w4 == QuantityRefusal(pack.instruments, req.signal.symbol, ev.instrument,
                                 DayOf(req.decision_at))
           w5 == QuoteStatusRejection(req.signal.side, ev.quote)
           w6 == LevelRejection(req.signal.side, req.decision_at, ev.execution)
<1>1. MarketRejection(req, ev, pack) = FirstReason(<<w1, w2, w3, w4, w5, w6>>)
  BY DEF MarketRejection
<1> HIDE DEF w1, w2, w3, w4, w5, w6
<1>2. FirstReason(<<w1, w2, w3, w4, w5, w6>>)
        = IF w1 # "" THEN w1 ELSE IF w2 # "" THEN w2 ELSE IF w3 # "" THEN w3
          ELSE IF w4 # "" THEN w4 ELSE IF w5 # "" THEN w5 ELSE w6
  <2> DEFINE reasons == <<w1, w2, w3, w4, w5, w6>>
  <2>1. /\ DOMAIN reasons = 1..6
        /\ reasons[1] = w1 /\ reasons[2] = w2 /\ reasons[3] = w3
        /\ reasons[4] = w4 /\ reasons[5] = w5 /\ reasons[6] = w6
    OBVIOUS
  <2> HIDE DEF reasons
  <2>2. FirstReason(reasons)
          = IF reasons[1] # "" THEN reasons[1] ELSE IF reasons[2] # "" THEN reasons[2] ELSE
            IF reasons[3] # "" THEN reasons[3] ELSE IF reasons[4] # "" THEN reasons[4] ELSE
            IF reasons[5] # "" THEN reasons[5] ELSE reasons[6]
    BY <2>1, FirstOfSix
  <2>3. FirstReason(reasons)
          = IF w1 # "" THEN w1 ELSE IF w2 # "" THEN w2 ELSE IF w3 # "" THEN w3
            ELSE IF w4 # "" THEN w4 ELSE IF w5 # "" THEN w5 ELSE w6
    BY <2>1, <2>2
  <2> QED
    BY <2>3 DEF reasons
<1>3. MarketRejection(req, ev, pack)
        = IF w1 # "" THEN w1 ELSE IF w2 # "" THEN w2 ELSE IF w3 # "" THEN w3
          ELSE IF w4 # "" THEN w4 ELSE IF w5 # "" THEN w5 ELSE w6
  BY <1>1, <1>2
<1> QED
  BY <1>3 DEF w1, w2, w3, w4, w5, w6

\* Where the reason of an outcome comes from.
LEMMA ReasonsChecked ==
  ASSUME NEW state, NEW req, NEW ev, NEW pack, Decide(state, req, ev, pack).ok
  PROVE  LET reason == Decide(state, req, ev, pack).value.reason IN
         \/ reason \in SizeReasons \cup {"quote_evidence_missing", "position_already_open", "filled"}
         \/ /\ ev # None /\ EvidenceError(req, ev) = "" /\ MarketRejection(req, ev, pack) # ""
            /\ reason = MarketRejection(req, ev, pack)
<1> DEFINE S == SizeReasons \cup {"quote_evidence_missing", "position_already_open", "filled"}
           decision == Decide(state, req, ev, pack)
<1>1. \A name : ~Err(name).ok
  BY DEF Err
<1>2. \A reason : Rejected(state, reason).value.reason = reason
  BY DEF Rejected, Ok
<1>3. \A fill, cash : Filled(fill, cash).value.reason = "filled"
  BY DEF Filled, Ok
<1>4. PackValid(pack) /\ RequestError(req) = ""
  BY <1>1 DEF Decide
<1>5. CASE ev = None
  BY <1>2, <1>4, <1>5 DEF Decide
<1>6. CASE ev # None
  <2>1. EvidenceError(req, ev) = ""
    BY <1>1, <1>4, <1>6 DEF Decide
  <2>2. CASE MarketRejection(req, ev, pack) # ""
    BY <1>2, <1>4, <1>6, <2>1, <2>2 DEF Decide
  <2>3. CASE MarketRejection(req, ev, pack) = ""
    <3> DEFINE rule == QuantityRule(pack.instruments, ev.instrument)
               price == ev.execution.price
               quantity == OrderQuantity(req, state, price, rule)
               refusal == QuantityRejection(req.signal.side, quantity, rule, ev.execution)
               fill == FillOf(req, quantity, price)
    <3>1. decision = Execute(state, req, ev.execution, rule)
      BY <1>4, <1>6, <2>1, <2>3 DEF Decide
    <3>2. refusal \in SizeReasons \cup {""}
      BY SizeChecked
    <3>3. PositionRejection(req, state) \in {"position_already_open", ""}
      BY DEF PositionRejection
    <3>4. \/ decision = Rejected(state, PositionRejection(req, state))
             /\ PositionRejection(req, state) # ""
          \/ decision = Rejected(state, refusal) /\ refusal # ""
          \/ decision = Filled(fill, Apply(state, fill).value.cash)
      <4> HIDE DEF rule, refusal, fill, quantity, price
      <4> USE DEF refusal, fill, quantity, price
      <4> QED
        BY <1>1, <3>1, Zenon DEF Execute
    <3> HIDE DEF refusal, fill, decision
    <3>5. decision.value.reason \in S
      <4>1. CASE decision = Rejected(state, PositionRejection(req, state))
                   /\ PositionRejection(req, state) # ""
        <5>1. decision.value.reason = PositionRejection(req, state)
          BY <1>2, <4>1, Zenon
        <5> QED
          BY <3>3, <4>1, <5>1
      <4>2. CASE decision = Rejected(state, refusal) /\ refusal # ""
        <5>1. decision.value.reason = refusal
          BY <1>2, <4>2, Zenon
        <5> QED
          BY <3>2, <4>2, <5>1
      <4>3. CASE decision = Filled(fill, Apply(state, fill).value.cash)
        <5>1. decision.value.reason = "filled"
          BY <1>3, <4>3, Zenon
        <5> QED
          BY <5>1
      <4> QED
        BY <3>4, <4>1, <4>2, <4>3
    <3> QED
      BY <3>5 DEF decision
  <2> QED
    BY <2>2, <2>3
<1> QED
  BY <1>5, <1>6

(***************************************************************************)
(* The age of the evidence.                                                *)
(***************************************************************************)
LEMMA OlderLater ==
  ASSUME NEW observed \in Int, NEW at \in Int, NEW later \in Int, ~(observed > at), at < later
  PROVE  TooOld(observed, at) => TooOld(observed, later)
<1>1. DayOf(observed) \in Int /\ DayOf(at) \in Int /\ DayOf(later) \in Int
  BY DEF DayOf, DaySeconds
<1>2. DayOf(observed) <= DayOf(at) /\ DayOf(at) <= DayOf(later)
  BY DEF DayOf, DaySeconds
<1>3. CASE DayOf(observed) # DayOf(at)
  BY <1>1, <1>2, <1>3 DEF TooOld
<1>4. CASE at - observed > MaxQuoteAge
  BY <1>4 DEF TooOld, MaxQuoteAge
<1> QED
  BY <1>3, <1>4 DEF TooOld

\* A market that raises no objection: both pieces of evidence are recent.
LEMMA EvidenceIsRecent ==
  ASSUME NEW req, NEW ev, NEW pack
  PROVE  MarketRejection(req, ev, pack) = "" =>
           /\ ~TooOld(ev.quote.observed_at, req.decision_at)
           /\ ~TooOld(ev.execution.observed_at, req.decision_at)
<1>1. MarketRejection(req, ev, pack) = "" =>
        /\ QuoteTimeRejection(req.decision_at, ev) = ""
        /\ LevelRejection(req.signal.side, req.decision_at, ev.execution) = ""
  BY MarketChecked
<1> QED
  BY <1>1, TimeChecked, LevelChecked

\* Evidence refused as stale was observed before the decision, and too long ago.
LEMMA StaleIsTooOld ==
  ASSUME NEW req, NEW ev, NEW pack,
         EvidenceError(req, ev) = "",
         MarketRejection(req, ev, pack) \in {"stale_quote", "stale_execution_evidence"}
  PROVE  \/ /\ ~(ev.quote.observed_at > req.decision_at)
            /\ TooOld(ev.quote.observed_at, req.decision_at)
         \/ /\ ev.execution # None /\ ~(ev.available_at > req.decision_at)
            /\ LevelValid(ev.execution, ev.quote, ev.available_at)
            /\ TooOld(ev.execution.observed_at, req.decision_at)
<1> DEFINE w1 == QuoteTimeRejection(req.decision_at, ev)
           w2 == DateRejection(pack.calendar, DayOf(req.decision_at))
           w3 == SessionRejection(pack.sessions, TimeOfDay(req.decision_at))
           w4 == QuantityRefusal(pack.instruments, req.signal.symbol, ev.instrument,
                                 DayOf(req.decision_at))
           w5 == QuoteStatusRejection(req.signal.side, ev.quote)
           w6 == LevelRejection(req.signal.side, req.decision_at, ev.execution)
           Stale == {"stale_quote", "stale_execution_evidence"}
<1>1. MarketRejection(req, ev, pack)
        = IF w1 # "" THEN w1 ELSE IF w2 # "" THEN w2 ELSE IF w3 # "" THEN w3
          ELSE IF w4 # "" THEN w4 ELSE IF w5 # "" THEN w5 ELSE w6
  BY MarketChecked
<1>2. w1 \in TimeReasons \cup {""} /\ w6 \in LevelReasons \cup {""}
  BY TimeChecked, LevelChecked
<1>3. w2 \notin Stale /\ w3 \notin Stale
  <2>1. w2 \in DateReasons \cup {""} /\ w3 \in ClockReasons \cup {""}
    BY DateChecked, ClockChecked
  <2> HIDE DEF w2, w3
  <2> QED
    BY <2>1 DEF DateReasons, ClockReasons
<1>4. w4 \notin Stale /\ w5 \notin Stale
  <2>1. w4 \in InstrumentReasons \cup {""} /\ w5 \in StatusReasons \cup {""}
    BY InstrumentChecked, StatusChecked
  <2> HIDE DEF w4, w5
  <2> QED
    BY <2>1 DEF InstrumentReasons, StatusReasons
<1>5. w1 = "stale_quote" \/ (w1 = "" /\ w6 = "stale_execution_evidence")
  <2>1. MarketRejection(req, ev, pack) \in Stale
    OBVIOUS
  <2> HIDE DEF w1, w2, w3, w4, w5, w6
  <2> QED
    BY <1>1, <1>2, <1>3, <1>4, <2>1 DEF TimeReasons, LevelReasons
<1>6. w1 = "stale_quote" => /\ ~(ev.quote.observed_at > req.decision_at)
                            /\ TooOld(ev.quote.observed_at, req.decision_at)
  BY TimeChecked
<1>7. w1 = "" /\ w6 = "stale_execution_evidence" =>
        /\ ev.execution # None /\ ~(ev.available_at > req.decision_at)
        /\ TooOld(ev.execution.observed_at, req.decision_at)
  BY TimeChecked, LevelChecked
<1>8. ev.execution # None => LevelValid(ev.execution, ev.quote, ev.available_at)
  BY EvidenceIsNamed DEF EvidenceValid, FixtureQuoteValid
<1> QED
  BY <1>5, <1>6, <1>7, <1>8

\* The evidence of a decision expires once and for good, in every sequence of
\* calls: what has been refused as stale fills at no later instant, whichever of
\* the two observations was too old (execution.rs, quote_time_rejection).
THEOREM EvidenceExpiresOnce == []IsCall => []EvidenceExpires
<1>1. IsCall => EvidenceExpires
  <2> DEFINE Stale == {"stale_quote", "stale_execution_evidence"}
  <2> SUFFICES ASSUME IsCall, request # None, Decision.ok, Decision.value.reason \in Stale,
                      NEW later \in Instants, request.decision_at < later,
                      Fills(DecisionAt(later))
               PROVE  FALSE
    BY DEF EvidenceExpires
  <2> DEFINE next == [request EXCEPT !.decision_at = later]
  <2>1. IsRequest(request) /\ request.decision_at \in Int /\ later \in Int
    BY CasesAssumption DEF IsCall, IsRequest
  <2>2. next.decision_at = later
    BY <2>1 DEF IsRequest
  <2>3. /\ evidence # None /\ EvidenceError(request, evidence) = ""
        /\ MarketRejection(request, evidence, market) \in Stale
    <3>1. \/ Decision.value.reason
               \in SizeReasons \cup {"quote_evidence_missing", "position_already_open", "filled"}
          \/ /\ evidence # None /\ EvidenceError(request, evidence) = ""
             /\ MarketRejection(request, evidence, market) # ""
             /\ Decision.value.reason = MarketRejection(request, evidence, market)
      BY ReasonsChecked DEF Decision
    <3>2. Decision.value.reason
            \notin SizeReasons \cup {"quote_evidence_missing", "position_already_open", "filled"}
      BY DEF SizeReasons
    <3> QED
      BY <3>1, <3>2
  <2>4. IsEvidence(evidence)
    BY <2>3 DEF IsCall
  <2>5. MarketRejection(next, evidence, market) = ""
    <3>1. Fills(Decide(book, next, evidence, market))
      BY DEF DecisionAt
    <3> HIDE DEF next
    <3> QED
      BY <3>1, FilledIsLast
  <2>6. ~TooOld(evidence.quote.observed_at, later) /\ ~TooOld(evidence.execution.observed_at, later)
    <3> HIDE DEF next
    <3> QED
      BY <2>2, <2>5, EvidenceIsRecent
  <2>7. CASE /\ ~(evidence.quote.observed_at > request.decision_at)
             /\ TooOld(evidence.quote.observed_at, request.decision_at)
    <3>1. evidence.quote.observed_at \in Int
      BY <2>4 DEF IsEvidence
    <3> QED
      BY <2>1, <2>6, <2>7, <3>1, OlderLater
  <2>8. CASE /\ evidence.execution # None /\ ~(evidence.available_at > request.decision_at)
             /\ LevelValid(evidence.execution, evidence.quote, evidence.available_at)
             /\ TooOld(evidence.execution.observed_at, request.decision_at)
    <3>1. evidence.execution.observed_at \in Int /\ evidence.available_at \in Int
      BY <2>4, <2>8 DEF IsEvidence, IsLevel
    <3>2. ~(evidence.execution.observed_at > request.decision_at)
      BY <2>1, <2>8, <3>1 DEF LevelValid
    <3> QED
      BY <2>1, <2>6, <2>8, <3>1, <3>2, OlderLater
  <2> HIDE DEF Stale
  <2> QED
    BY <2>3, <2>7, <2>8, StaleIsTooOld DEF Stale
<1> QED
  BY <1>1, PTL

(***************************************************************************)
(* The clock of the bundled session policy.                                *)
(***************************************************************************)
LEMMA PublishedAt ==
  /\ DOMAIN Published = 1..7
  /\ Published[1][1] = 33300
  /\ Published[2][1] = 33901
  /\ Published[3][1] = 34200
  /\ Published[4][1] = 41401
  /\ Published[5][1] = 46800
  /\ Published[6][1] = 53820
  /\ Published[7][1] = 54001
BY DEF Published, Clock

LEMMA PublishedIs ==
  /\ Published[1][2] = "opening_auction_not_supported"
  /\ Published[2][2] = "outside_trading_session"
  /\ Published[3][2] = ""
  /\ Published[4][2] = "midday_break"
  /\ Published[5][2] = ""
  /\ Published[6][2] = "closing_auction_not_supported"
  /\ Published[7][2] = "outside_trading_session"
BY DEF Published

LEMMA SevenIs == \A i \in 1..7 : i = 1 \/ i = 2 \/ i = 3 \/ i = 4 \/ i = 5 \/ i = 6 \/ i = 7
OBVIOUS

\* The reasons the clock can give.
LEMMA SessionReasonsAre == SessionReasons \subseteq ClockReasons /\ "" \notin SessionReasons
<1>1. ASSUME NEW reason \in SessionReasons PROVE reason \in ClockReasons
  <2>0. DOMAIN Published = 1..7
    BY PublishedAt
  <2>1. PICK i \in 1..7 : reason = Published[i][2]
    BY <1>1, <2>0 DEF SessionReasons
  <2>2. reason # ""
    BY <1>1 DEF SessionReasons
  <2> QED
    BY <2>1, <2>2, PublishedIs, SevenIs, Zenon DEF ClockReasons
<1> QED
  BY <1>1 DEF SessionReasons

\* The last second that has begun tells the phase.
LEMMA PhaseIs ==
  ASSUME NEW time \in Int, NEW i \in 1..7, Published[i][1] <= time,
         \A j \in 1..7 : i < j => ~(Published[j][1] <= time)
  PROVE  Phase(time) = Published[i][2]
<1> DEFINE begun == {j \in DOMAIN Published : Published[j][1] <= time}
<1>1. \A j : j \in begun <=> j \in 1..7 /\ Published[j][1] <= time
  BY PublishedAt
<1>2. Phase(time) = IF begun = {} THEN "outside_trading_session" ELSE Published[Greatest(begun)][2]
  BY DEF Phase
<1> HIDE DEF begun
<1>3. i \in begun /\ begun \subseteq Nat /\ \A j \in begun : j <= 7
  <2>1. \A j \in 1..7 : j \in Nat /\ j <= 7
    OBVIOUS
  <2> QED
    BY <1>1, <2>1, Zenon
<1>4. Greatest(begun) \in begun /\ \A j \in begun : j <= Greatest(begun)
  <2>1. begun # {} /\ 7 \in Nat
    BY <1>3
  <2> QED
    BY <1>3, <2>1, GreatestIs
<1> DEFINE last == Greatest(begun)
<1>5. last \in 1..7 /\ Published[last][1] <= time /\ i <= last
  BY <1>1, <1>3, <1>4
<1> HIDE DEF last
<1>6. last = i
  <2>1. ~(i < last)
    BY <1>5
  <2> QED
    BY <1>5, <2>1
<1> QED
  BY <1>2, <1>3, <1>6 DEF last

LEMMA NoPhase ==
  ASSUME NEW time
  PROVE  {i \in DOMAIN Published : Published[i][1] <= time} = {} => Phase(time) = Published[2][2]
<1>1. {i \in DOMAIN Published : Published[i][1] <= time} = {} => Phase(time) = "outside_trading_session"
  BY DEF Phase
<1> QED
  BY <1>1, PublishedIs, Zenon

LEMMA PhaseBefore ==
  ASSUME NEW time \in Int
  PROVE  ~(33300 <= time) => Phase(time) = Published[2][2]
<1>1. ~(33300 <= time) => \A i \in 1..7 : ~(Published[i][1] <= time)
  BY PublishedAt, SevenIs
<1>2. ~(33300 <= time) => {i \in DOMAIN Published : Published[i][1] <= time} = {}
  BY <1>1, PublishedAt
<1> QED
  BY <1>2, NoPhase

\* The phases as intervals.
LEMMA Phases ==
  ASSUME NEW time \in Int
  PROVE  /\ time < 33300 => Phase(time) = Published[2][2]
         /\ 33300 <= time /\ time < 33901 => Phase(time) = Published[1][2]
         /\ 33901 <= time /\ time < 34200 => Phase(time) = Published[2][2]
         /\ 34200 <= time /\ time < 41401 => Phase(time) = Published[3][2]
         /\ 41401 <= time /\ time < 46800 => Phase(time) = Published[4][2]
         /\ 46800 <= time /\ time < 53820 => Phase(time) = Published[5][2]
         /\ 53820 <= time /\ time < 54001 => Phase(time) = Published[6][2]
         /\ 54001 <= time => Phase(time) = Published[7][2]
<1>2. 33300 <= time /\ time < 33901 => Phase(time) = Published[1][2]
  <2>1. \A j \in 1..7 : 1 < j => 33901 <= Published[j][1] /\ Published[j][1] \in Int
    <3> SUFFICES ASSUME NEW j \in 1..7, 1 < j PROVE 33901 <= Published[j][1] /\ Published[j][1] \in Int
      OBVIOUS
    <3>1. j = 2 \/ j = 3 \/ j = 4 \/ j = 5 \/ j = 6 \/ j = 7
      OBVIOUS
    <3> QED
      BY <3>1, PublishedAt
  <2>2. 33300 <= time /\ time < 33901 => \A j \in 1..7 : 1 < j => ~(Published[j][1] <= time)
    BY <2>1
  <2>3. 33300 <= time /\ time < 33901 => Published[1][1] <= time
    BY PublishedAt
  <2>4. 1 \in 1..7
    OBVIOUS
  <2> QED
    BY <2>2, <2>3, <2>4, PhaseIs
<1>3. 33901 <= time /\ time < 34200 => Phase(time) = Published[2][2]
  <2>1. \A j \in 1..7 : 2 < j => 34200 <= Published[j][1] /\ Published[j][1] \in Int
    <3> SUFFICES ASSUME NEW j \in 1..7, 2 < j PROVE 34200 <= Published[j][1] /\ Published[j][1] \in Int
      OBVIOUS
    <3>1. j = 3 \/ j = 4 \/ j = 5 \/ j = 6 \/ j = 7
      OBVIOUS
    <3> QED
      BY <3>1, PublishedAt
  <2>2. 33901 <= time /\ time < 34200 => \A j \in 1..7 : 2 < j => ~(Published[j][1] <= time)
    BY <2>1
  <2>3. 33901 <= time /\ time < 34200 => Published[2][1] <= time
    BY PublishedAt
  <2>4. 2 \in 1..7
    OBVIOUS
  <2> QED
    BY <2>2, <2>3, <2>4, PhaseIs
<1>4. 34200 <= time /\ time < 41401 => Phase(time) = Published[3][2]
  <2>1. \A j \in 1..7 : 3 < j => 41401 <= Published[j][1] /\ Published[j][1] \in Int
    <3> SUFFICES ASSUME NEW j \in 1..7, 3 < j PROVE 41401 <= Published[j][1] /\ Published[j][1] \in Int
      OBVIOUS
    <3>1. j = 4 \/ j = 5 \/ j = 6 \/ j = 7
      OBVIOUS
    <3> QED
      BY <3>1, PublishedAt
  <2>2. 34200 <= time /\ time < 41401 => \A j \in 1..7 : 3 < j => ~(Published[j][1] <= time)
    BY <2>1
  <2>3. 34200 <= time /\ time < 41401 => Published[3][1] <= time
    BY PublishedAt
  <2>4. 3 \in 1..7
    OBVIOUS
  <2> QED
    BY <2>2, <2>3, <2>4, PhaseIs
<1>5. 41401 <= time /\ time < 46800 => Phase(time) = Published[4][2]
  <2>1. \A j \in 1..7 : 4 < j => 46800 <= Published[j][1] /\ Published[j][1] \in Int
    <3> SUFFICES ASSUME NEW j \in 1..7, 4 < j PROVE 46800 <= Published[j][1] /\ Published[j][1] \in Int
      OBVIOUS
    <3>1. j = 5 \/ j = 6 \/ j = 7
      OBVIOUS
    <3> QED
      BY <3>1, PublishedAt
  <2>2. 41401 <= time /\ time < 46800 => \A j \in 1..7 : 4 < j => ~(Published[j][1] <= time)
    BY <2>1
  <2>3. 41401 <= time /\ time < 46800 => Published[4][1] <= time
    BY PublishedAt
  <2>4. 4 \in 1..7
    OBVIOUS
  <2> QED
    BY <2>2, <2>3, <2>4, PhaseIs
<1>6. 46800 <= time /\ time < 53820 => Phase(time) = Published[5][2]
  <2>1. \A j \in 1..7 : 5 < j => 53820 <= Published[j][1] /\ Published[j][1] \in Int
    <3> SUFFICES ASSUME NEW j \in 1..7, 5 < j PROVE 53820 <= Published[j][1] /\ Published[j][1] \in Int
      OBVIOUS
    <3>1. j = 6 \/ j = 7
      OBVIOUS
    <3> QED
      BY <3>1, PublishedAt
  <2>2. 46800 <= time /\ time < 53820 => \A j \in 1..7 : 5 < j => ~(Published[j][1] <= time)
    BY <2>1
  <2>3. 46800 <= time /\ time < 53820 => Published[5][1] <= time
    BY PublishedAt
  <2>4. 5 \in 1..7
    OBVIOUS
  <2> QED
    BY <2>2, <2>3, <2>4, PhaseIs
<1>7. 53820 <= time /\ time < 54001 => Phase(time) = Published[6][2]
  <2>1. \A j \in 1..7 : 6 < j => 54001 <= Published[j][1] /\ Published[j][1] \in Int
    <3> SUFFICES ASSUME NEW j \in 1..7, 6 < j PROVE 54001 <= Published[j][1] /\ Published[j][1] \in Int
      OBVIOUS
    <3>1. j = 7
      OBVIOUS
    <3> QED
      BY <3>1, PublishedAt
  <2>2. 53820 <= time /\ time < 54001 => \A j \in 1..7 : 6 < j => ~(Published[j][1] <= time)
    BY <2>1
  <2>3. 53820 <= time /\ time < 54001 => Published[6][1] <= time
    BY PublishedAt
  <2>4. 6 \in 1..7
    OBVIOUS
  <2> QED
    BY <2>2, <2>3, <2>4, PhaseIs
<1>8. 54001 <= time => Phase(time) = Published[7][2]
  <2>2. 54001 <= time => \A j \in 1..7 : 7 < j => ~(Published[j][1] <= time)
    OBVIOUS
  <2>3. 54001 <= time => Published[7][1] <= time
    BY PublishedAt
  <2>4. 7 \in 1..7
    OBVIOUS
  <2> QED
    BY <2>2, <2>3, <2>4, PhaseIs
<1>9. time < 33300 => Phase(time) = Published[2][2]
  <2>1. time < 33300 => ~(33300 <= time)
    OBVIOUS
  <2> QED
    BY <2>1, PhaseBefore
<1> QED
  BY <1>2, <1>3, <1>4, <1>5, <1>6, <1>7, <1>8, <1>9

\* The session policy tells the phase.
LEMMA SessionsFollowThePhases ==
  ASSUME NEW time \in Int
  PROVE  SessionRejection(BundledSessions, time) = Phase(time)
<1> DEFINE p == BundledSessions
           continuous == Contains(p.morning, time) \/ Contains(p.afternoon, time)
           midday == ~continuous /\ time > p.morning.end /\ time < p.afternoon.start
           w1 == When(Contains(p.opening, time), "opening_auction_not_supported")
           w2 == When(Contains(p.closing, time), "closing_auction_not_supported")
           w3 == When(midday, "midday_break")
           w4 == When(~continuous, "outside_trading_session")
<1>1. SessionRejection(p, time) = FirstReason(<<w1, w2, w3, w4>>)
  BY DEF SessionRejection
<1>2. /\ Contains(p.opening, time) <=> 33300 <= time /\ time <= 33900
      /\ Contains(p.morning, time) <=> 34200 <= time /\ time <= 41400
      /\ Contains(p.afternoon, time) <=> 46800 <= time /\ time < 53820
      /\ Contains(p.closing, time) <=> 53820 <= time /\ time <= 54000
      /\ p.morning.end = 41400 /\ p.afternoon.start = 46800
  BY DEF BundledSessions, Window, Clock, Contains
<1>3. /\ w1 = IF Contains(p.opening, time) THEN "opening_auction_not_supported" ELSE ""
      /\ w2 = IF Contains(p.closing, time) THEN "closing_auction_not_supported" ELSE ""
      /\ w3 = IF midday THEN "midday_break" ELSE ""
      /\ w4 = IF ~continuous THEN "outside_trading_session" ELSE ""
  BY DEF When
<1> HIDE DEF p, w1, w2, w3, w4
<1>4. SessionRejection(p, time)
        = IF w1 # "" THEN w1 ELSE IF w2 # "" THEN w2 ELSE IF w3 # "" THEN w3 ELSE w4
  <2> DEFINE reasons == <<w1, w2, w3, w4>>
  <2>1. /\ DOMAIN reasons = 1..4
        /\ reasons[1] = w1 /\ reasons[2] = w2 /\ reasons[3] = w3 /\ reasons[4] = w4
    OBVIOUS
  <2> HIDE DEF reasons
  <2>2. FirstReason(reasons)
          = IF reasons[1] # "" THEN reasons[1] ELSE IF reasons[2] # "" THEN reasons[2] ELSE
            IF reasons[3] # "" THEN reasons[3] ELSE reasons[4]
    BY <2>1, FirstOfFour
  <2>3. FirstReason(reasons)
          = IF w1 # "" THEN w1 ELSE IF w2 # "" THEN w2 ELSE IF w3 # "" THEN w3 ELSE w4
    BY <2>1, <2>2
  <2> QED
    BY <1>1, <2>3 DEF reasons
<1> DEFINE o == Contains(p.opening, time)
           c == Contains(p.closing, time)
           told == SessionRejection(p, time)
<1>5. /\ o => told = Published[1][2]
      /\ ~o /\ c => told = Published[6][2]
      /\ ~o /\ ~c /\ midday => told = Published[4][2]
      /\ ~o /\ ~c /\ ~midday /\ continuous => told = Published[3][2] /\ told = Published[5][2]
      /\ ~o /\ ~c /\ ~midday /\ ~continuous => told = Published[2][2] /\ told = Published[7][2]
  <2> HIDE DEF o, c, midday, continuous, told
  <2>1. told = IF w1 # "" THEN w1 ELSE IF w2 # "" THEN w2 ELSE IF w3 # "" THEN w3 ELSE w4
    BY <1>4 DEF told
  <2>2. /\ w1 = IF o THEN "opening_auction_not_supported" ELSE ""
        /\ w2 = IF c THEN "closing_auction_not_supported" ELSE ""
        /\ w3 = IF midday THEN "midday_break" ELSE ""
        /\ w4 = IF ~continuous THEN "outside_trading_session" ELSE ""
    BY <1>3 DEF o, c
  <2> QED
    BY <2>1, <2>2, PublishedIs
<1>6. CASE time < 33300
  <2>1. ~o /\ ~c /\ ~midday /\ ~continuous
    BY <1>2, <1>6
  <2> HIDE DEF o, c, midday, continuous, told
  <2>2. told = Published[2][2]
    BY <1>5, <2>1
  <2>3. Phase(time) = Published[2][2]
    BY <1>6, Phases
  <2> QED
    BY <2>2, <2>3 DEF told, p
<1>7. CASE 33300 <= time /\ time < 33901
  <2>1. o
    BY <1>2, <1>7
  <2> HIDE DEF o, c, midday, continuous, told
  <2>2. told = Published[1][2]
    BY <1>5, <2>1
  <2>3. Phase(time) = Published[1][2]
    BY <1>7, Phases
  <2> QED
    BY <2>2, <2>3 DEF told, p
<1>8. CASE 33901 <= time /\ time < 34200
  <2>1. ~o /\ ~c /\ ~midday /\ ~continuous
    BY <1>2, <1>8
  <2> HIDE DEF o, c, midday, continuous, told
  <2>2. told = Published[2][2]
    BY <1>5, <2>1
  <2>3. Phase(time) = Published[2][2]
    BY <1>8, Phases
  <2> QED
    BY <2>2, <2>3 DEF told, p
<1>9. CASE 34200 <= time /\ time < 41401
  <2>1. ~o /\ ~c /\ ~midday /\ continuous
    BY <1>2, <1>9
  <2> HIDE DEF o, c, midday, continuous, told
  <2>2. told = Published[3][2]
    BY <1>5, <2>1
  <2>3. Phase(time) = Published[3][2]
    BY <1>9, Phases
  <2> QED
    BY <2>2, <2>3 DEF told, p
<1>10. CASE 41401 <= time /\ time < 46800
  <2>1. ~o /\ ~c /\ midday
    BY <1>2, <1>10
  <2> HIDE DEF o, c, midday, continuous, told
  <2>2. told = Published[4][2]
    BY <1>5, <2>1
  <2>3. Phase(time) = Published[4][2]
    BY <1>10, Phases
  <2> QED
    BY <2>2, <2>3 DEF told, p
<1>11. CASE 46800 <= time /\ time < 53820
  <2>1. ~o /\ ~c /\ ~midday /\ continuous
    BY <1>2, <1>11
  <2> HIDE DEF o, c, midday, continuous, told
  <2>2. told = Published[5][2]
    BY <1>5, <2>1
  <2>3. Phase(time) = Published[5][2]
    BY <1>11, Phases
  <2> QED
    BY <2>2, <2>3 DEF told, p
<1>12. CASE 53820 <= time /\ time < 54001
  <2>1. ~o /\ c
    BY <1>2, <1>12
  <2> HIDE DEF o, c, midday, continuous, told
  <2>2. told = Published[6][2]
    BY <1>5, <2>1
  <2>3. Phase(time) = Published[6][2]
    BY <1>12, Phases
  <2> QED
    BY <2>2, <2>3 DEF told, p
<1>13. CASE 54001 <= time
  <2>1. ~o /\ ~c /\ ~midday /\ ~continuous
    BY <1>2, <1>13
  <2> HIDE DEF o, c, midday, continuous, told
  <2>2. told = Published[7][2]
    BY <1>5, <2>1
  <2>3. Phase(time) = Published[7][2]
    BY <1>13, Phases
  <2> QED
    BY <2>2, <2>3 DEF told, p
<1> QED
  BY <1>6, <1>7, <1>8, <1>9, <1>10, <1>11, <1>12, <1>13

\* In every sequence of calls the verdict on a quote of the very second is that
\* of the published clock: no second is left out or claimed twice
\* (execution.rs, session_rejection over the bundled policy).
THEOREM TheClockDecides == []IsCall => []VerdictFollowsTheClock
<1>1. IsCall => VerdictFollowsTheClock
  <2> DEFINE at == request.decision_at
             phase == Phase(TimeOfDay(at))
  <2> SUFFICES ASSUME IsCall, request # None, evidence # None,
                      evidence.quote.observed_at = at, evidence.available_at = at,
                      CalendarDay(market.calendar, DayOf(at)) = "Trading",
                      market.sessions = BundledSessions, Decision.ok
               PROVE  IF phase # "" THEN Decision.value.reason = phase
                      ELSE Decision.value.reason \notin SessionReasons
    BY DEF VerdictFollowsTheClock
  <2>1. at \in Int /\ TimeOfDay(at) \in Int
    BY DEF IsCall, IsRequest, TimeOfDay, DaySeconds
  <2>2. SessionRejection(market.sessions, TimeOfDay(at)) = phase
    BY <2>1, SessionsFollowThePhases
  <2>3. DateRejection(market.calendar, DayOf(at)) = ""
    BY DateChecked
  <2>4. QuoteTimeRejection(at, evidence) = ""
    <3>1. ~TooOld(at, at) /\ ~(at > at)
      BY <2>1 DEF TooOld, MaxQuoteAge
    <3> QED
      BY <3>1, TimeChecked
  <2> DEFINE w4 == QuantityRefusal(market.instruments, request.signal.symbol, evidence.instrument,
                                   DayOf(at))
             w5 == QuoteStatusRejection(request.signal.side, evidence.quote)
             w6 == LevelRejection(request.signal.side, at, evidence.execution)
             rejection == MarketRejection(request, evidence, market)
  <2>5. rejection = IF phase # "" THEN phase
                    ELSE IF w4 # "" THEN w4 ELSE IF w5 # "" THEN w5 ELSE w6
    BY <2>2, <2>3, <2>4, MarketChecked
  <2>6. /\ w4 \in InstrumentReasons \cup {""} /\ w5 \in StatusReasons \cup {""}
        /\ w6 \in LevelReasons \cup {""}
    BY InstrumentChecked, StatusChecked, LevelChecked
  <2> HIDE DEF w4, w5, w6
  <2>7. phase = "" => rejection \notin ClockReasons
    BY <2>5, <2>6 DEF InstrumentReasons, StatusReasons, LevelReasons, ClockReasons
  <2>8. \/ Decision.value.reason
             \in SizeReasons \cup {"quote_evidence_missing", "position_already_open", "filled"}
        \/ rejection # "" /\ Decision.value.reason = rejection
    BY ReasonsChecked DEF Decision
  <2>9. phase # "" => Decision.value.reason = rejection
    <3> SUFFICES ASSUME phase # "" PROVE Decision.value.reason = rejection
      OBVIOUS
    <3>1. rejection # ""
      BY <2>5
    <3> HIDE DEF rejection
    <3>2. Decision = Rejected(book, rejection)
      BY <3>1 DEF Decision, Decide, rejection, Err
    <3> QED
      BY <3>2 DEF Rejected, Ok
  <2>10. phase = "" => Decision.value.reason \notin ClockReasons
    <3> HIDE DEF rejection, phase
    <3> QED
      BY <2>7, <2>8 DEF SizeReasons, ClockReasons
  <2> QED
    BY <2>5, <2>9, <2>10, SessionReasonsAre
<1> QED
  BY <1>1, PTL

(***************************************************************************)
(* The search for the quantity of a purchase.                              *)
(***************************************************************************)
LEMMA Product ==
  ASSUME NEW n \in Nat, NEW m \in Nat, n <= m, NEW c \in Nat
  PROVE  n * c \in Nat /\ n * c <= m * c
<1>1. m - n \in Nat
  OBVIOUS
<1>2. (m - n) * c \in Nat /\ m * c = n * c + (m - n) * c
  BY <1>1
<1> QED
  BY <1>2

LEMMA Quotient ==
  ASSUME NEW a \in Nat, NEW b \in Nat, b > 0
  PROVE  a \div b \in Nat /\ (a \div b) * b <= a
OBVIOUS

\* The budget before the loop, when it is not refused.
LEMMA BudgetIsSmall ==
  ASSUME NEW cash \in 0..MaxInt, ~Overflows(cash * BuyBudgetBps)
  PROVE  BuyBudget(cash) \in Nat /\ 10000 * BuyBudget(cash) <= MaxInt /\ 10 * BuyBudget(cash) <= cash
BY MaxIntAssumption DEF Overflows, BuyBudget, BuyBudgetBps

\* No check fails for an amount within the budget.
LEMMA AmountsFit ==
  ASSUME NEW gross \in Nat, 10000 * gross <= MaxInt
  PROVE  /\ ~Overflows(gross) /\ ~Overflows(gross * CommissionBps)
         /\ ~Overflows(gross * CommissionBps + 9999) /\ ~Overflows(gross + Commission(gross))
         /\ Commission(gross) \in Nat
<1>1. CheckedFee(gross, CommissionBps) \in Nat /\ CheckedFee(gross, CommissionBps) <= gross + 1
  BY DEF CheckedFee, CommissionBps
<1>2. Commission(gross) \in Nat /\ Commission(gross) <= gross + 500
  BY <1>1 DEF Commission, Larger, MinCommission
<1> QED
  BY <1>2, MaxIntAssumption DEF Overflows, CommissionBps

LEMMA TurnsAreInBudget ==
  ASSUME NEW budget \in Nat, NEW price \in Nat, price > 0,
         NEW n \in Nat, n <= budget \div (price * 100)
  PROVE  (n * 100) * price \in Nat /\ (n * 100) * price <= budget
<1> DEFINE c == price * 100
           top == budget \div c
<1>1. c \in Nat /\ c > 0 /\ (n * 100) * price = n * c
  OBVIOUS
<1> HIDE DEF c
<1>2. top \in Nat /\ top * c <= budget
  BY <1>1, Quotient
<1>3. n <= top
  BY DEF c
<1> HIDE DEF top
<1>4. n * c \in Nat /\ n * c <= top * c
  BY <1>1, <1>2, <1>3, Product
<1> QED
  BY <1>1, <1>2, <1>4

\* One turn of the loop, and the loop from the n-th turn down.
Turn(n, rest, cash, price, rule) ==
  LET quantity == n * rule.step
  IN IF quantity < rule.minimum THEN Ok(0)
     ELSE IF LoopCostOverflows(quantity, price) THEN Err("amount_overflow")
     ELSE IF BuyCost(quantity, price) <= BuyBudget(cash) /\ BuyCost(quantity, price) <= cash
       THEN Ok(quantity)
     ELSE rest

IsSearch(f, N, cash, price, rule) == f = [n \in 0..N |-> Turn(n, f[n-1], cash, price, rule)]

LEMMA SearchExists ==
  ASSUME NEW N \in Nat, NEW cash, NEW price, NEW rule, WholeLots(rule)
  PROVE  \E f : IsSearch(f, N, cash, price, rule)
<1> DEFINE T == {n \in Nat : \E f : IsSearch(f, n, cash, price, rule)}
           Go(n, rest) == Turn(n, rest, cash, price, rule)
<1>1. \A rest : Go(0, rest) = Ok(0)
  BY DEF Turn, WholeLots, LotSize
<1> HIDE DEF Go
<1>2. 0 \in T
  <2> DEFINE f == [n \in 0..0 |-> Ok(0)]
  <2>1. f = [n \in 0..0 |-> Go(n, f[n-1])]
    BY <1>1
  <2>2. IsSearch(f, 0, cash, price, rule)
    BY <2>1 DEF IsSearch, Go
  <2> QED
    BY <2>2
<1>3. ASSUME NEW n \in Nat, n \in T PROVE n + 1 \in T
  <2>1. PICK f : IsSearch(f, n, cash, price, rule)
    BY <1>3
  <2>2. f = [k \in 0..n |-> Go(k, f[k-1])]
    BY <2>1 DEF IsSearch, Go
  <2> DEFINE g == [k \in 0..(n + 1) |-> IF k = n + 1 THEN Go(n + 1, f[n]) ELSE f[k]]
  <2>3. ASSUME NEW k \in 0..(n + 1) PROVE g[k] = Go(k, g[k-1])
    <3>1. CASE k = 0
      BY <1>1, <2>2, <3>1
    <3>2. CASE k = n + 1
      BY <3>2
    <3>3. CASE k \in 1..n
      BY <2>2, <3>3
    <3> QED
      BY <3>1, <3>2, <3>3
  <2>4. g = [k \in 0..(n + 1) |-> Go(k, g[k-1])]
    BY <2>3
  <2>5. IsSearch(g, n + 1, cash, price, rule)
    BY <2>4 DEF IsSearch, Go
  <2> QED
    BY <2>5
<1> HIDE DEF T
<1>4. Nat \subseteq T
  BY <1>2, <1>3, Induct
<1> QED
  BY <1>4 DEF T

Top(cash, price, rule) == BuyBudget(cash) \div (price * rule.step)

\* The loop, when it is entered, is such a search from the top.
LEMMA SearchIs ==
  ASSUME NEW cash \in 0..MaxInt, NEW price \in Int, price > 0, NEW rule, WholeLots(rule),
         ~Overflows(cash * BuyBudgetBps), ~Overflows(price * rule.step)
  PROVE  /\ Top(cash, price, rule) \in Nat
         /\ \E f : /\ IsSearch(f, Top(cash, price, rule), cash, price, rule)
                   /\ LoopQuantity(cash, price, rule) = f[Top(cash, price, rule)]
<1> DEFINE f == CHOOSE f : IsSearch(f, Top(cash, price, rule), cash, price, rule)
<1>1. Top(cash, price, rule) \in Nat
  <2>1. BuyBudget(cash) \in Nat
    BY BudgetIsSmall
  <2>2. price * rule.step \in Nat /\ price * rule.step > 0
    BY DEF WholeLots, LotSize
  <2> QED
    BY <2>1, <2>2, Quotient DEF Top
<1>2. IsSearch(f, Top(cash, price, rule), cash, price, rule)
  BY <1>1, SearchExists
<1>3. LoopQuantity(cash, price, rule) = f[Top(cash, price, rule)]
  BY DEF LoopQuantity, IsSearch, Turn, Top
<1> QED
  BY <1>1, <1>2, <1>3

Affordable(q, cash, price) == BuyCost(q, price) <= BuyBudget(cash) /\ BuyCost(q, price) <= cash

\* The most lots of the first n that can be paid, or none.
IsBest(v, n, cash, price) ==
  \/ v = 0 /\ \A m \in 1..n : ~Affordable(m * 100, cash, price)
  \/ \E m \in 1..n : /\ v = m * 100 /\ Affordable(m * 100, cash, price)
                     /\ \A k \in 1..n : Affordable(k * 100, cash, price) => k <= m

\* No turn errs, and each gives the best of the lots below it.
LEMMA SearchIsBest ==
  ASSUME NEW cash \in 0..MaxInt, NEW price \in Int, price > 0, NEW rule, WholeLots(rule),
         ~Overflows(cash * BuyBudgetBps), NEW N \in Nat, N = Top(cash, price, rule),
         NEW f, IsSearch(f, N, cash, price, rule)
  PROVE  \E v \in Nat : f[N] = Ok(v) /\ IsBest(v, N, cash, price)
<1>0. rule.minimum = 100 /\ rule.step = 100
  BY DEF WholeLots, LotSize
<1> DEFINE Good(n) == \E v \in Nat : f[n] = Ok(v) /\ IsBest(v, n, cash, price)
           T == {n \in Nat : n <= N => Good(n)}
<1>1. \A n \in 0..N : f[n] = Turn(n, f[n-1], cash, price, rule)
  BY DEF IsSearch
<1>2. 0 \in T
  <2>1. f[0] = Ok(0)
    BY <1>0, <1>1 DEF Turn
  <2>2. IsBest(0, 0, cash, price)
    BY DEF IsBest
  <2> QED
    BY <2>1, <2>2
<1>3. ASSUME NEW n \in Nat, n \in T PROVE n + 1 \in T
  <2>1. SUFFICES ASSUME n + 1 <= N PROVE Good(n + 1)
    OBVIOUS
  <2>2. PICK v \in Nat : f[n] = Ok(v) /\ IsBest(v, n, cash, price)
    BY <1>3, <2>1
  <2> DEFINE q == (n + 1) * 100
  <2>3. q \in Nat /\ ~(q < 100) /\ (n + 1) * rule.step = q
    <3>1. q \in Nat /\ ~(q < 100)
      OBVIOUS
    <3> QED
      BY <1>0, <3>1, Zenon
  <2>4. ~LoopCostOverflows(q, price)
    <3>1. BuyBudget(cash) \in Nat /\ 10000 * BuyBudget(cash) <= MaxInt
      BY BudgetIsSmall
    <3>2. N = BuyBudget(cash) \div (price * 100)
      BY <1>0 DEF Top
    <3>3. q * price \in Nat /\ q * price <= BuyBudget(cash)
      <4> DEFINE m == n + 1
                 budget == BuyBudget(cash)
      <4>1. m \in Nat /\ m <= budget \div (price * 100)
        BY <2>1, <3>2
      <4>2. price \in Nat /\ price > 0 /\ budget \in Nat
        BY <3>1
      <4> HIDE DEF m, budget
      <4>3. (m * 100) * price \in Nat /\ (m * 100) * price <= budget
        BY <4>1, <4>2, TurnsAreInBudget
      <4> QED
        BY <4>3 DEF m, budget
    <3> DEFINE gross == q * price
    <3>4. gross \in Nat /\ 10000 * gross <= MaxInt
      <4> HIDE DEF gross
      <4>1. gross \in Nat /\ gross <= BuyBudget(cash)
        BY <3>3 DEF gross
      <4> QED
        BY <3>1, <4>1, MaxIntAssumption
    <3>5. /\ ~Overflows(gross) /\ ~Overflows(gross * CommissionBps)
          /\ ~Overflows(gross * CommissionBps + 9999) /\ ~Overflows(gross + Commission(gross))
      <4> HIDE DEF gross
      <4> QED
        BY <3>4, AmountsFit
    <3> QED
      BY <3>5 DEF LoopCostOverflows
  <2>5. f[n + 1] = IF Affordable(q, cash, price) THEN Ok(q) ELSE f[n]
    <3>1. f[n + 1] = Turn(n + 1, f[n], cash, price, rule)
      <4>1. n + 1 \in 0..N /\ (n + 1) - 1 = n
        BY <2>1
      <4>2. f[n + 1] = Turn(n + 1, f[(n + 1) - 1], cash, price, rule)
        BY <1>1, <4>1
      <4> QED
        BY <4>1, <4>2
    <3> HIDE DEF q
    <3> QED
      BY <1>0, <2>3, <2>4, <3>1 DEF Turn, Affordable
  <2>6. CASE Affordable(q, cash, price)
    <3>1. f[n + 1] = Ok(q)
      BY <2>5, <2>6
    <3>2. IsBest(q, n + 1, cash, price)
      <4>1. n + 1 \in 1..(n + 1) /\ \A k \in 1..(n + 1) : k <= n + 1
        OBVIOUS
      <4> QED
        BY <2>6, <4>1 DEF IsBest
    <3> QED
      BY <2>3, <3>1, <3>2
  <2>7. CASE ~Affordable(q, cash, price)
    <3>1. f[n + 1] = Ok(v)
      BY <2>2, <2>5, <2>7
    <3>2. \A k \in 1..(n + 1) : Affordable(k * 100, cash, price) => k \in 1..n
      <4> SUFFICES ASSUME NEW k \in 1..(n + 1), Affordable(k * 100, cash, price) PROVE k \in 1..n
        OBVIOUS
      <4>1. k # n + 1
        BY <2>7
      <4> QED
        BY <4>1
    <3>3. \A k \in 1..n : k \in 1..(n + 1)
      OBVIOUS
    <3>4. IsBest(v, n + 1, cash, price)
      <4>1. CASE v = 0 /\ \A m \in 1..n : ~Affordable(m * 100, cash, price)
        BY <3>2, <4>1 DEF IsBest
      <4>2. CASE \E m \in 1..n : /\ v = m * 100 /\ Affordable(m * 100, cash, price)
                                 /\ \A k \in 1..n : Affordable(k * 100, cash, price) => k <= m
        BY <3>2, <3>3, <4>2 DEF IsBest
      <4> QED
        BY <2>2, <4>1, <4>2 DEF IsBest
    <3> QED
      BY <3>1, <3>4
  <2> QED
    BY <2>6, <2>7
<1> HIDE DEF T
<1>4. Nat \subseteq T
  BY <1>2, <1>3, Induct
<1>5. Good(N)
  BY <1>4 DEF T
<1> QED
  BY <1>5

\* What the loop ends at is the quantity of the order.
LEMMA LoopIsSizing ==
  ASSUME NEW cash \in 0..MaxInt, NEW price \in Int, price > 0, NEW rule, WholeLots(rule),
         ~Overflows(cash * BuyBudgetBps), ~Overflows(price * rule.step)
  PROVE  LoopQuantity(cash, price, rule) = Ok(BuyQuantity(cash, price, rule))
<1> DEFINE N == Top(cash, price, rule)
           budget == BuyBudget(cash)
           fits == {q \in {n * rule.step : n \in 0..N} :
                      /\ q >= rule.minimum
                      /\ BuyCost(q, price) <= budget /\ BuyCost(q, price) <= cash}
<1>0. rule.minimum = 100 /\ rule.step = 100
  BY DEF WholeLots, LotSize
<1>1. N \in Nat /\ \E f : IsSearch(f, N, cash, price, rule) /\ LoopQuantity(cash, price, rule) = f[N]
  BY SearchIs
<1>2. PICK v \in Nat : LoopQuantity(cash, price, rule) = Ok(v) /\ IsBest(v, N, cash, price)
  <2>1. PICK f : IsSearch(f, N, cash, price, rule) /\ LoopQuantity(cash, price, rule) = f[N]
    BY <1>1
  <2> HIDE DEF N
  <2>2. \E v \in Nat : f[N] = Ok(v) /\ IsBest(v, N, cash, price)
    BY <1>1, <2>1, SearchIsBest DEF N
  <2> QED
    BY <2>1, <2>2
<1>3. BuyQuantity(cash, price, rule) = IF fits = {} THEN 0 ELSE Greatest(fits)
  BY DEF BuyQuantity, Top
<1> HIDE DEF N
<1>4. \A q : q \in fits <=> \E m \in 1..N : q = m * 100 /\ Affordable(m * 100, cash, price)
  <2>1. ASSUME NEW q \in fits
        PROVE  \E m \in 1..N : q = m * 100 /\ Affordable(m * 100, cash, price)
    <3>1. PICK n \in 0..N : q = n * rule.step
      OBVIOUS
    <3>2. /\ q >= rule.minimum
          /\ BuyCost(q, price) <= budget /\ BuyCost(q, price) <= cash
      OBVIOUS
    <3> HIDE DEF fits
    <3>3. q = n * 100 /\ n \in 1..N
      BY <1>0, <1>1, <3>1, <3>2
    <3> QED
      BY <3>2, <3>3 DEF Affordable
  <2>2. ASSUME NEW m \in 1..N, Affordable(m * 100, cash, price) PROVE m * 100 \in fits
    <3>1. m \in 0..N /\ m * rule.step = m * 100 /\ m * 100 >= rule.minimum
      BY <1>0, <1>1
    <3> QED
      BY <2>2, <3>1 DEF Affordable
  <2> HIDE DEF fits
  <2> QED
    BY <2>1, <2>2
<1> HIDE DEF fits
<1>5. CASE v = 0 /\ \A m \in 1..N : ~Affordable(m * 100, cash, price)
  <2>1. fits = {}
    BY <1>4, <1>5
  <2> QED
    BY <1>2, <1>3, <1>5, <2>1
<1>6. CASE \E m \in 1..N : /\ v = m * 100 /\ Affordable(m * 100, cash, price)
                           /\ \A k \in 1..N : Affordable(k * 100, cash, price) => k <= m
  <2>1. v \in fits
    BY <1>4, <1>6
  <2>2. fits \subseteq Nat /\ \A q \in fits : q <= v
    <3> SUFFICES ASSUME NEW q \in fits PROVE q \in Nat /\ q <= v
      OBVIOUS
    <3>1. PICK k \in 1..N : q = k * 100 /\ Affordable(k * 100, cash, price)
      BY <1>4
    <3>2. PICK m \in 1..N : v = m * 100 /\ \A j \in 1..N : Affordable(j * 100, cash, price) => j <= m
      BY <1>6
    <3>3. k <= m
      BY <3>1, <3>2
    <3> QED
      BY <1>1, <3>1, <3>2, <3>3
  <2>3. Greatest(fits) \in fits /\ \A q \in fits : q <= Greatest(fits)
    BY <2>1, <2>2, GreatestIs
  <2>4. Greatest(fits) = v
    <3> DEFINE most == Greatest(fits)
    <3>1. most \in Nat /\ most <= v /\ v <= most
      BY <2>1, <2>2, <2>3
    <3> HIDE DEF most
    <3>2. most = v
      BY <3>1
    <3> QED
      BY <3>2 DEF most
  <2> QED
    BY <1>2, <1>3, <2>1, <2>4
<1> QED
  BY <1>2, <1>5, <1>6 DEF IsBest

\* The size of a purchase that is not refused for it.
IsPurchase(state, price, rule, q) ==
  /\ IsPortfolio(state) /\ price \in Int /\ price > 0 /\ WholeLots(rule)
  /\ ~Overflows(state.cash * BuyBudgetBps)
  /\ q = BuyQuantity(state.cash, price, rule) /\ ~(q < rule.minimum) /\ q % rule.step = 0

\* A purchase that is large enough is paid: neither its fees nor its total can
\* overflow, and it costs at most a tenth of the cash.
LEMMA PurchaseIsPaid ==
  ASSUME NEW state, NEW price, NEW rule, NEW q, IsPurchase(state, price, rule, q)
  PROVE  /\ q \in Nat /\ q >= 100 /\ q % 100 = 0
         /\ q * price \in Nat /\ 10000 * (q * price) <= MaxInt
         /\ BuyCost(q, price) \in Nat /\ 10 * BuyCost(q, price) <= state.cash
         /\ 10000 * BuyCost(q, price) <= MaxInt
         /\ ~FeesOverflow("Buy", q * price)
<1> /\ IsPortfolio(state) /\ price \in Int /\ price > 0 /\ WholeLots(rule)
    /\ ~Overflows(state.cash * BuyBudgetBps)
    /\ q = BuyQuantity(state.cash, price, rule) /\ ~(q < rule.minimum) /\ q % rule.step = 0
  BY DEF IsPurchase
<1>0. /\ state.cash \in 0..MaxInt /\ state.cash \in Nat
      /\ rule.minimum = 100 /\ rule.step = 100 /\ MaxInt \in Nat
  BY MaxIntAssumption DEF IsPortfolio, WholeLots, LotSize
<1>1. q \in Nat /\ q >= 100 /\ BuyCost(q, price) <= BuyBudget(state.cash)
  BY <1>0, Sizing
<1>2. /\ BuyBudget(state.cash) \in Nat /\ 10000 * BuyBudget(state.cash) <= MaxInt
      /\ 10 * BuyBudget(state.cash) <= state.cash
  BY <1>0, BudgetIsSmall
<1> DEFINE gross == q * price
<1>3. gross \in Nat /\ gross > 0
  BY <1>1
<1> HIDE DEF gross
<1>4. Commission(gross) \in Nat
  BY <1>3, FeesAreNatural
<1>5. BuyCost(q, price) = gross + Commission(gross)
  BY DEF BuyCost, gross
<1>6. 10000 * gross <= MaxInt /\ 10000 * BuyCost(q, price) <= MaxInt
      /\ 10 * BuyCost(q, price) <= state.cash /\ BuyCost(q, price) \in Nat
  BY <1>0, <1>1, <1>2, <1>3, <1>4, <1>5
<1>7. /\ ~Overflows(gross)
      /\ ~Overflows(gross * CommissionBps + 9999) /\ ~Overflows(gross + Commission(gross))
  BY <1>3, <1>6, AmountsFit
<1>8. StampDuty("Buy", gross) = 0
  BY DEF StampDuty
<1>9. ~FeesOverflow("Buy", gross)
  <2>1. Commission(gross) + 0 = Commission(gross)
    BY <1>4
  <2>2. ~Overflows(Commission(gross))
    BY <1>0, <1>3, <1>4, <1>5, <1>6 DEF Overflows
  <2>3. ~("Buy" = "Sell")
    OBVIOUS
  <2>4. ~Overflows(Commission(gross) + StampDuty("Buy", gross))
    BY <1>8, <2>1, <2>2
  <2>5. ~FeeOverflows(gross, CommissionBps)
    BY <1>7 DEF FeeOverflows
  <2> QED
    BY <1>7, <2>3, <2>4, <2>5 DEF FeesOverflow
<1>10. q % 100 = 0
  BY <1>0
<1> QED
  BY <1>1, <1>3, <1>6, <1>9, <1>10 DEF gross

\* The purchase is booked: neither its amounts nor its fee overflow.
LEMMA PurchaseIsApplied ==
  ASSUME NEW state, NEW price, NEW rule, NEW q, IsPurchase(state, price, rule, q), NEW req
  PROVE  req.signal.side = "Buy" =>
           /\ FillOf(req, q, price).fees = Commission(q * price)
           /\ BuyTotal(FillOf(req, q, price)) = BuyCost(q, price)
           /\ Apply(state, FillOf(req, q, price)) = Ok(AfterBuying(state, FillOf(req, q, price)))
<1> DEFINE gross == q * price
           fill == FillOf(req, q, price)
<1>1. /\ q \in Nat /\ q >= 100 /\ q % 100 = 0 /\ gross \in Nat /\ 10000 * gross <= MaxInt
      /\ BuyCost(q, price) \in Nat /\ 10 * BuyCost(q, price) <= state.cash
      /\ 10000 * BuyCost(q, price) <= MaxInt
  BY PurchaseIsPaid
<1>2. state.cash \in Nat /\ MaxInt \in Nat /\ price \in Int /\ price > 0
  BY MaxIntAssumption, PortfolioIsNumbered DEF IsPurchase
<1> HIDE DEF gross
<1>3. Commission(gross) \in Nat
  <2>1. gross \in Nat
    BY <1>1
  <2> QED
    BY <2>1, FeesAreNatural, Zenon
<1>4. BuyCost(q, price) = gross + Commission(gross)
  BY DEF BuyCost, gross
<1> SUFFICES ASSUME req.signal.side = "Buy"
    PROVE /\ fill.fees = Commission(gross)
          /\ BuyTotal(fill) = BuyCost(q, price)
          /\ Apply(state, fill) = Ok(AfterBuying(state, fill))
  BY DEF gross
<1>5. fill.side = "Buy"
  BY DEF FillOf
<1>6. StampDuty("Buy", gross) = 0
  BY DEF StampDuty
<1>7. fill.quantity = q /\ fill.price = price
  BY DEF FillOf
<1>8. fill.fees = Commission(gross)
  <2>1. fill.fees = Commission(gross) + StampDuty("Buy", gross)
    BY DEF FillOf, gross
  <2> HIDE DEF fill
  <2> QED
    BY <1>3, <1>6, <2>1
<1> HIDE DEF fill
<1>9. /\ ~(fill.quantity <= 0) /\ ~(fill.quantity % LotSize # 0) /\ ~(fill.price <= 0)
      /\ ~(fill.fees < 0)
  BY <1>1, <1>2, <1>3, <1>7, <1>8 DEF LotSize
<1>10. fill.quantity * fill.price = gross /\ BuyTotal(fill) = BuyCost(q, price)
  BY <1>3, <1>4, <1>7, <1>8 DEF BuyTotal, gross
<1>11. Apply(state, fill) = ApplyBuy(state, fill)
  <2>1. ~Overflows(fill.quantity * fill.price)
    BY <1>1, <1>2, <1>10 DEF Overflows
  <2> QED
    BY <1>5, <1>9, <2>1 DEF Apply
<1>12. ~Overflows(BuyTotal(fill)) /\ ~(BuyTotal(fill) > state.cash)
  BY <1>1, <1>2, <1>10 DEF Overflows
<1>13. ApplyBuy(state, fill) = Ok(AfterBuying(state, fill))
  BY <1>12, Zenon DEF ApplyBuy, AfterBuying
<1> QED
  BY <1>8, <1>10, <1>11, <1>13

\* In every sequence of calls a purchase errs exactly where one of the checks of
\* the sizing loop fails, and is otherwise for the quantity the loop ends at: the
\* two products checked before the loop are all that can overflow in it
\* (execution.rs, size_buy).
THEOREM TheLoopDecides == []IsCall => []PurchasesErrWhereTheLoopDoes
<1>1. IsCall => PurchasesErrWhereTheLoopDoes
  <2> DEFINE level == evidence.execution
             price == level.price
             rule == TheRule
             cash == book.cash
             loop == LoopQuantity(cash, price, rule)
             q == BuyQuantity(cash, price, rule)
             refusal == QuantityRejection("Buy", q, rule, level)
             fill == FillOf(request, q, price)
             after == Apply(book, fill)
  <2> SUFFICES ASSUME IsCall, BuysUnlessTooLarge
               PROVE  /\ ~loop.ok <=> Decision = Err("amount_overflow")
                      /\ /\ loop.ok /\ loop.value > 0
                         /\ loop.value <= level.available /\ loop.value <= rule.maximum
                         => Decision.value.fill.quantity = loop.value
    BY DEF PurchasesErrWhereTheLoopDoes
  <2>1. /\ IsPortfolio(book) /\ IsEvidence(evidence)
        /\ PackValid(market) /\ RequestError(request) = "" /\ EvidenceError(request, evidence) = ""
        /\ MarketRejection(request, evidence, market) = "" /\ evidence # None
        /\ PositionRejection(request, book) = ""
    BY DEF IsCall, BuysUnlessTooLarge
  <2>2. request.signal.side = "Buy"
    BY DEF BuysUnlessTooLarge
  <2>3. rule = RuleOf(evidence, market)
    BY DEF TheRule, RuleOf
  <2>4. WholeLots(rule) /\ price \in Int /\ price > 0 /\ IsLevel(level)
    <3>1. /\ WholeLots(RuleOf(evidence, market)) /\ IsLevel(evidence.execution)
          /\ evidence.execution.price > 0
      BY <2>1, AcceptedOrder
    <3> QED
      BY <2>3, <3>1 DEF IsLevel
  <2>5. Decision = Execute(book, request, level, rule)
    BY <2>1 DEF Decision, Decide, TheRule
  <2>6. cash \in 0..MaxInt
    BY <2>1 DEF IsPortfolio
  <2>7. OrderQuantity(request, book, price, rule) = q
    BY <2>2 DEF OrderQuantity
  <2>8. SizingOverflows(request, book, price, rule) <=>
          Overflows(cash * BuyBudgetBps) \/ Overflows(price * rule.step)
    BY <2>2 DEF SizingOverflows
  <2>9. \A v : Ok(v).ok /\ Ok(v).value = v
    BY DEF Ok
  <2>10. ~Err("amount_overflow").ok
    BY DEF Err
  <2>11. CASE SizingOverflows(request, book, price, rule)
    <3>1. loop = Err("amount_overflow")
      <4> HIDE DEF price, cash, rule
      <4> QED
        BY <2>8, <2>11 DEF LoopQuantity
    <3>2. Decision = Err("amount_overflow")
      <4> HIDE DEF price, cash, rule
      <4> QED
        BY <2>1, <2>5, <2>11 DEF Execute, price
    <3> QED
      BY <2>10, <3>1, <3>2
  <2>12. CASE ~SizingOverflows(request, book, price, rule)
    <3>1. loop = Ok(q)
      BY <2>4, <2>6, <2>8, <2>12, LoopIsSizing
    <3>2. refusal = "" <=>
            /\ ~(q < rule.minimum) /\ q % rule.step = 0
            /\ ~(q > rule.maximum) /\ ~(q > level.available)
      BY QuantityPasses
    <3>3. CASE refusal # ""
      <4>1. Decision = Rejected(book, refusal)
        <5> HIDE DEF rule, q
        <5> QED
          BY <2>1, <2>2, <2>5, <2>7, <2>12, <3>3 DEF Execute
      <4>2. Decision # Err("amount_overflow")
        BY <2>9, <2>10, <4>1 DEF Rejected
      <4>3. ~(q > 0 /\ q <= level.available /\ q <= rule.maximum)
        <5> SUFFICES ASSUME q > 0, q <= level.available, q <= rule.maximum PROVE FALSE
          OBVIOUS
        <5>1. \E f : /\ IsSearch(f, Top(cash, price, rule), cash, price, rule)
                     /\ LoopQuantity(cash, price, rule) = f[Top(cash, price, rule)]
          BY <2>4, <2>6, <2>8, <2>12, SearchIs
        <5>2. Top(cash, price, rule) \in Nat
          BY <2>4, <2>6, <2>8, <2>12, SearchIs
        <5>3. \E v \in Nat : loop = Ok(v) /\ IsBest(v, Top(cash, price, rule), cash, price)
          BY <2>4, <2>6, <2>8, <2>12, <5>1, <5>2, SearchIsBest
        <5>4. q \in Nat /\ IsBest(q, Top(cash, price, rule), cash, price)
          BY <2>9, <3>1, <5>3
        <5>5. PICK m \in 1..Top(cash, price, rule) : q = m * 100
          BY <5>4 DEF IsBest
        <5> HIDE DEF q, rule
        <5>6. ~(q < rule.minimum) /\ q % rule.step = 0
          <6>1. rule.minimum = 100 /\ rule.step = 100
            BY <2>4 DEF WholeLots, LotSize
          <6> QED
            BY <5>2, <5>5, <6>1
        <5>7. ~(q > rule.maximum) /\ ~(q > level.available)
          <6>1. rule.maximum \in Int /\ level.available \in Int /\ q \in Int
            BY <2>4, <5>4 DEF WholeLots, IsLevel
          <6> QED
            BY <6>1
        <5> QED
          BY <3>2, <3>3, <5>6, <5>7
      <4> QED
        BY <2>9, <3>1, <4>2, <4>3
    <3>4. CASE refusal = ""
      <4>1. ~(q < rule.minimum) /\ q % rule.step = 0
        BY <3>2, <3>4
      <4>2. ~Overflows(book.cash * BuyBudgetBps)
        BY <2>8, <2>12
      <4>3. ~FeesOverflow("Buy", q * price) /\ after.ok
        <5>1. q = BuyQuantity(book.cash, price, rule)
          OBVIOUS
        <5> HIDE DEF q, price, rule, fill, after
        <5>0. IsPurchase(book, price, rule, q)
          BY <2>1, <2>4, <4>1, <4>2, <5>1 DEF IsPurchase
        <5>2. ~FeesOverflow("Buy", q * price)
          BY <5>0, PurchaseIsPaid
        <5>3. \E v : Apply(book, FillOf(request, q, price)) = Ok(v)
          BY <2>2, <5>0, PurchaseIsApplied
        <5>4. after.ok
          BY <2>9, <5>3 DEF after, fill
        <5> QED
          BY <5>2, <5>4
      <4>4. Decision = Filled(fill, after.value.cash)
        <5> HIDE DEF rule, q
        <5> QED
          BY <2>1, <2>2, <2>5, <2>7, <2>12, <3>4, <4>3 DEF Execute
      <4> HIDE DEF q, price, rule, after
      <4>5. fill.quantity = q
        BY DEF FillOf
      <4> HIDE DEF fill
      <4>6. Decision # Err("amount_overflow")
        BY <2>9, <2>10, <4>4 DEF Filled
      <4>7. Decision.value.fill.quantity = q
        BY <2>9, <4>4, <4>5 DEF Filled
      <4> QED
        BY <2>9, <3>1, <4>6, <4>7
    <3> QED
      BY <3>3, <3>4, ZenonT(60)
  <2> QED
    BY <2>11, <2>12
<1> QED
  BY <1>1, PTL

(***************************************************************************)
(* The loop of a sale.                                                     *)
(***************************************************************************)
LEMMA LengthIs ==
  ASSUME NEW f, NEW N \in Nat, f = [k \in 1..N |-> f[k]]
  PROVE  Len(f) = N
<1> DEFINE S == {f[k] : k \in 1..N}
<1>1. f \in [1..N -> S]
  OBVIOUS
<1> HIDE DEF S
<1>2. f \in Seq(S)
  BY <1>1, SeqDef
<1>3. DOMAIN f = 1..Len(f) /\ Len(f) \in Nat
  BY <1>2, LenProperties
<1> QED
  BY <1>1, <1>3

\* The sums along the way are natural numbers.
LEMMA TotalsAreNatural ==
  ASSUME NEW lots, NEW S, Len(lots) \in Nat, NEW f, IsTotal(f, lots, S, Len(lots)),
         \A i \in 1..Len(lots) : lots[i].quantity \in Nat
  PROVE  \A n \in 0..Len(lots) : f[n] \in Nat
<1>0. f = [k \in 0..Len(lots) |->
             IF k = 0 THEN 0 ELSE f[k-1] + IF k \in S THEN lots[k].quantity ELSE 0]
  BY DEF IsTotal
<1> DEFINE T == {n \in Nat : n <= Len(lots) => f[n] \in Nat}
<1>1. 0 \in T
  BY <1>0
<1>2. ASSUME NEW n \in Nat, n \in T PROVE n + 1 \in T
  BY <1>0, <1>2
<1> HIDE DEF T
<1>3. Nat \subseteq T
  BY <1>1, <1>2, Induct
<1> QED
  BY <1>3 DEF T

\* The sums along the way are the sums of what is before.
LEMMA UnitsBefore ==
  ASSUME NEW lots, NEW S, Len(lots) \in Nat, NEW f, IsTotal(f, lots, S, Len(lots)),
         \A i \in 1..Len(lots) : lots[i].quantity \in Nat, NEW n \in 1..Len(lots)
  PROVE  Units(lots, {j \in S : j < n}) = f[n-1]
<1> DEFINE B == {j \in S : j < n}
<1>0. f = [k \in 0..Len(lots) |->
             IF k = 0 THEN 0 ELSE f[k-1] + IF k \in S THEN lots[k].quantity ELSE 0]
  BY DEF IsTotal
<1>1. PICK g : IsTotal(g, lots, B, Len(lots)) /\ Units(lots, B) = g[Len(lots)]
  BY UnitsIs
<1>2. g = [k \in 0..Len(lots) |->
             IF k = 0 THEN 0 ELSE g[k-1] + IF k \in B THEN lots[k].quantity ELSE 0]
  BY <1>1 DEF IsTotal
<1> DEFINE T == {k \in Nat : k <= Len(lots) => g[k] = IF k < n THEN f[k] ELSE f[n-1]}
<1>3. 0 \in T
  BY <1>0, <1>2
<1>4. ASSUME NEW k \in Nat, k \in T PROVE k + 1 \in T
  <2>1. SUFFICES ASSUME k + 1 <= Len(lots)
                 PROVE  g[k + 1] = IF k + 1 < n THEN f[k + 1] ELSE f[n-1]
    OBVIOUS
  <2>2. g[k] = IF k < n THEN f[k] ELSE f[n-1]
    BY <1>4, <2>1
  <2>3. g[k + 1] = g[k] + IF k + 1 \in B THEN lots[k + 1].quantity ELSE 0
    BY <1>2, <2>1
  <2>4. f[k + 1] = f[k] + IF k + 1 \in S THEN lots[k + 1].quantity ELSE 0
    BY <1>0, <2>1
  <2>5. CASE k + 1 < n
    BY <2>2, <2>3, <2>4, <2>5
  <2>6. CASE ~(k + 1 < n)
    <3>1. k + 1 \notin B
      BY <2>6
    <3>2. g[k] = f[n-1] /\ f[n-1] \in Nat
      <4>1. \A i \in 0..Len(lots) : f[i] \in Nat
        BY TotalsAreNatural
      <4> QED
        BY <2>2, <2>6, <4>1
    <3> QED
      BY <2>3, <2>6, <3>1, <3>2
  <2> QED
    BY <2>5, <2>6
<1> HIDE DEF T
<1>5. Nat \subseteq T
  BY <1>3, <1>4, Induct
<1> QED
  BY <1>1, <1>5 DEF T

\* One turn of the loop, and the turns up to any number of lots.
SellTurn(before, lot, fill) ==
  LET consumed == Consumed(before.remaining, lot, fill)
      left == [lot EXCEPT !.quantity = @ - consumed]
  IN [remaining |-> before.remaining - consumed,
      lots |-> IF left.quantity > 0 THEN Append(before.lots, left) ELSE before.lots]

IsSellLoop(f, lots, fill, N) ==
  f = [n \in 0..N |-> IF n = 0 THEN [remaining |-> fill.quantity, lots |-> <<>>]
                      ELSE SellTurn(f[n-1], lots[n], fill)]

LEMMA SellLoopExists ==
  ASSUME NEW lots, NEW fill, NEW N \in Nat
  PROVE  \E f : IsSellLoop(f, lots, fill, N)
<1> DEFINE T == {n \in Nat : \E f : IsSellLoop(f, lots, fill, n)}
           Start == [remaining |-> fill.quantity, lots |-> <<>>]
           Turned(before, n) == SellTurn(before, lots[n], fill)
<1> HIDE DEF Start, Turned
<1>1. 0 \in T
  <2>1. IsSellLoop([n \in 0..0 |-> Start], lots, fill, 0)
    BY DEF IsSellLoop, Start
  <2> QED
    BY <2>1
<1>2. ASSUME NEW n \in Nat, n \in T PROVE n + 1 \in T
  <2>1. PICK f : IsSellLoop(f, lots, fill, n)
    BY <1>2
  <2>2. f = [k \in 0..n |-> IF k = 0 THEN Start ELSE Turned(f[k-1], k)]
    BY <2>1 DEF IsSellLoop, Start, Turned
  <2> DEFINE g == [k \in 0..(n + 1) |-> IF k = n + 1 THEN Turned(f[n], n + 1) ELSE f[k]]
  <2>3. g = [k \in 0..(n + 1) |-> IF k = 0 THEN Start ELSE Turned(g[k-1], k)]
    BY <2>2
  <2>4. IsSellLoop(g, lots, fill, n + 1)
    BY <2>3 DEF IsSellLoop, Start, Turned
  <2> QED
    BY <2>4
<1> HIDE DEF T
<1>3. Nat \subseteq T
  BY <1>1, <1>2, Induct
<1> QED
  BY <1>3 DEF T

\* The loop of a sale is the last of its turns.
LEMMA SellLoopIs ==
  ASSUME NEW lots, NEW fill, Len(lots) \in Nat
  PROVE  \E f : IsSellLoop(f, lots, fill, Len(lots)) /\ LoopSell(lots, fill) = f[Len(lots)].lots
<1> DEFINE f == CHOOSE f : IsSellLoop(f, lots, fill, Len(lots))
<1>1. IsSellLoop(f, lots, fill, Len(lots))
  BY SellLoopExists
<1>2. LoopSell(lots, fill) = f[Len(lots)].lots
  BY DEF LoopSell, IsSellLoop, SellTurn
<1> QED
  BY <1>1, <1>2

\* What a turn takes when `sum' units were eligible before it.
LEMMA TurnTakes ==
  ASSUME NEW q \in Nat, NEW sum \in Nat, NEW a \in Nat
  PROVE  /\ Larger(0, q - sum) \in Nat
         /\ ~(Larger(0, q - sum) > 0) => Smaller(Larger(0, q - sum), a) = 0
         /\ Larger(0, q - sum) - Smaller(Larger(0, q - sum), a) = Larger(0, q - (sum + a))
         /\ Larger(0, q - sum) - 0 = Larger(0, q - (sum + 0))
BY DEF Larger, Smaller

\* The closed form of a sale leaves the lots the loop leaves.
LEMMA SalesAgree ==
  ASSUME NEW state, IsPortfolio(state), NEW fill, fill.quantity \in Nat
  PROVE  AfterSelling(state.lots, Sellable(state, fill.symbol, fill.trade_day), fill.quantity)
           = LoopSell(state.lots, fill)
<1> DEFINE lots == state.lots
           N == Len(lots)
           q == fill.quantity
           E == Sellable(state, fill.symbol, fill.trade_day)
           given(n) == Taken(lots, E, q, n)
           sold == [n \in DOMAIN lots |-> [lots[n] EXCEPT !.quantity = @ - given(n)]]
<1>1. N \in Nat /\ DOMAIN lots = 1..N /\ \A n \in 1..N : lots[n].quantity \in Nat
  BY PortfolioIsNumbered
<1>2. \A n \in 1..N : n \in E <=>
        lots[n].symbol = fill.symbol /\ lots[n].bought_on < fill.trade_day
  BY <1>1 DEF Sellable, LotsOf
<1>3. q \in Nat
  OBVIOUS
<1>4. PICK u : IsTotal(u, lots, E, N)
  BY <1>1, TotalExists
<1>5. PICK f : IsSellLoop(f, lots, fill, N) /\ LoopSell(lots, fill) = f[N].lots
  BY <1>1, SellLoopIs
<1>6. Len(sold) = N
  <2>1. sold = [n \in 1..N |-> sold[n]]
    BY <1>1
  <2> HIDE DEF sold, lots
  <2> QED
    BY <1>1, <2>1, LengthIs
<1> DEFINE kept == CHOOSE kept : IsKept(kept, sold, N)
<1>7. IsKept(kept, sold, N)
  BY <1>1, KeptExists
<1>8. AfterSelling(lots, E, q) = kept[N]
  <2>1. AfterSelling(lots, E, q) = Remaining(sold)
    BY DEF AfterSelling
  <2> HIDE DEF sold
  <2>2. Remaining(sold) = kept[N]
    BY <1>6 DEF Remaining, IsKept
  <2> QED
    BY <2>1, <2>2
<1> HIDE DEF kept
<1>9. \A n \in 1..N : sold[n] = [lots[n] EXCEPT !.quantity = @ - given(n)]
  BY <1>1
<1> HIDE DEF sold, lots, q, E, N
<1>10. \A n \in 0..N : u[n] \in Nat
  BY <1>1, <1>4, TotalsAreNatural DEF N
<1>11. \A n \in 1..N : Demand(lots, E, q, n) = Larger(0, q - u[n-1])
  BY <1>1, <1>4, UnitsBefore DEF Demand, N
<1> DEFINE T == {n \in Nat : n <= N => /\ f[n].remaining = Larger(0, q - u[n])
                                       /\ f[n].lots = kept[n]}
<1>12. 0 \in T
  <2>1. f[0] = [remaining |-> q, lots |-> <<>>]
    BY <1>1, <1>5 DEF IsSellLoop, q
  <2>2. kept[0] = <<>>
    BY <1>1, <1>7 DEF IsKept
  <2>3. u[0] = 0
    BY <1>1, <1>4 DEF IsTotal
  <2>4. Larger(0, q - 0) = q
    BY <1>3 DEF Larger
  <2> QED
    BY <2>1, <2>2, <2>3, <2>4
<1>13. ASSUME NEW n \in Nat, n \in T PROVE n + 1 \in T
  <2>1. SUFFICES ASSUME n + 1 <= N
                 PROVE  /\ f[n + 1].remaining = Larger(0, q - u[n + 1])
                        /\ f[n + 1].lots = kept[n + 1]
    OBVIOUS
  <2>2. f[n].remaining = Larger(0, q - u[n]) /\ f[n].lots = kept[n]
    BY <1>1, <1>13, <2>1
  <2>3. n + 1 \in 1..N /\ n \in 0..N /\ (n + 1) - 1 = n
    BY <1>1, <2>1
  <2> DEFINE lot == lots[n + 1]
             a == lot.quantity
             r == Larger(0, q - u[n])
  <2> HIDE DEF T
  <2>4. u[n] \in Nat /\ a \in Nat
    BY <1>1, <1>10, <2>3
  <2>5. u[n + 1] = u[n] + IF n + 1 \in E THEN a ELSE 0
    BY <1>4, <2>3 DEF IsTotal
  <2>6. given(n + 1) = IF n + 1 \in E THEN Smaller(r, a) ELSE 0
    BY <1>11, <2>3 DEF Taken
  <2>7. /\ r \in Nat
        /\ ~(r > 0) => Smaller(r, a) = 0
        /\ r - Smaller(r, a) = Larger(0, q - (u[n] + a))
        /\ r - 0 = Larger(0, q - (u[n] + 0))
    <3> HIDE DEF a
    <3> QED
      BY <1>3, <2>4, TurnTakes, ZenonT(60)
  <2>8. Consumed(r, lot, fill) = given(n + 1)
    <3>1. n + 1 \in E <=> lot.symbol = fill.symbol /\ lot.bought_on < fill.trade_day
      BY <1>2, <2>3
    <3> HIDE DEF r, lot, a, given
    <3>2. Consumed(r, lot, fill) =
            IF lot.symbol = fill.symbol /\ lot.bought_on < fill.trade_day /\ r > 0
              THEN Smaller(r, a) ELSE 0
      BY DEF Consumed, a
    <3>3. CASE n + 1 \in E /\ r > 0
      BY <2>6, <3>1, <3>2, <3>3
    <3>4. CASE n + 1 \in E /\ ~(r > 0)
      BY <2>6, <2>7, <3>1, <3>2, <3>4
    <3>5. CASE n + 1 \notin E
      BY <2>6, <3>1, <3>2, <3>5
    <3> QED
      BY <3>3, <3>4, <3>5
  <2>9. f[n + 1] = SellTurn(f[n], lot, fill)
    BY <1>5, <2>3 DEF IsSellLoop
  <2>10. kept[n + 1] = Retain(kept[n], sold[n + 1])
    BY <1>7, <2>3 DEF IsKept
  <2>11. sold[n + 1] = [lot EXCEPT !.quantity = @ - given(n + 1)]
    BY <1>9, <2>3
  <2> DEFINE g == given(n + 1)
  <2> HIDE DEF g, lot, r
  <2>12. f[n + 1] = [remaining |-> r - g,
                     lots |-> IF sold[n + 1].quantity > 0 THEN Append(kept[n], sold[n + 1])
                                                          ELSE kept[n]]
    <3>1. /\ f[n].remaining = r /\ f[n].lots = kept[n] /\ Consumed(r, lot, fill) = g
          /\ sold[n + 1] = [lot EXCEPT !.quantity = @ - g]
      BY <2>2, <2>8, <2>11 DEF r, g
    <3> QED
      BY <2>9, <3>1, Zenon DEF SellTurn
  <2>13. f[n + 1].lots = kept[n + 1]
    BY <2>10, <2>12 DEF Retain
  <2>14. f[n + 1].remaining = r - g
    BY <2>12
  <2>15. r - g = Larger(0, q - u[n + 1])
    <3> HIDE DEF a
    <3>1. CASE n + 1 \in E
      <4>1. g = Smaller(r, a) /\ u[n + 1] = u[n] + a
        BY <2>5, <2>6, <3>1 DEF g
      <4> QED
        BY <2>7, <4>1
    <3>2. CASE n + 1 \notin E
      <4>1. g = 0 /\ u[n + 1] = u[n] + 0
        BY <2>5, <2>6, <3>2 DEF g
      <4> QED
        BY <2>7, <4>1
    <3> QED
      BY <3>1, <3>2
  <2> QED
    BY <2>13, <2>14, <2>15
<1> HIDE DEF T
<1>14. Nat \subseteq T
  BY <1>12, <1>13, Induct
<1>15. f[N].lots = kept[N]
  BY <1>1, <1>14 DEF T
<1>16. AfterSelling(lots, E, q) = LoopSell(lots, fill)
  BY <1>5, <1>8, <1>15
<1> QED
  BY <1>16 DEF lots, E, q

\* In every sequence of calls a sale leaves exactly the lots the loop leaves that
\* walks them, however many it takes and of whatever sizes (portfolio.rs, apply).
THEOREM SalesFollowTheLoop == []IsCall => []SellsLikeTheLoop
<1>1. IsCall => SellsLikeTheLoop
  <2> SUFFICES ASSUME IsCall, NEW fill \in Bookings, fill.side = "Sell", Apply(book, fill).ok
               PROVE  Apply(book, fill).value.lots = LoopSell(book.lots, fill)
    BY DEF SellsLikeTheLoop
  <2>1. Apply(book, fill).value = AfterSale(book, fill)
    BY ApplyOfSell
  <2>2. fill.quantity \in Nat
    <3>1. ~(fill.quantity <= 0)
      BY DEF Apply, Err
    <3> QED
      BY <3>1, CasesAssumption
  <2>3. IsPortfolio(book)
    BY DEF IsCall
  <2>4. Apply(book, fill).value.lots
          = AfterSelling(book.lots, Sellable(book, fill.symbol, fill.trade_day), fill.quantity)
    BY <2>1 DEF AfterSale
  <2> QED
    BY <2>2, <2>3, <2>4, SalesAgree
<1> QED
  BY <1>1, PTL

(***************************************************************************)
(* A purchase, sold again.                                                 *)
(***************************************************************************)
\* Selling the last lot leaves the ones before it.
LEMMA SellingTheLast ==
  ASSUME NEW T, NEW lots \in Seq(T), \A k \in 1..Len(lots) : IsLot(lots[k]),
         NEW symbol, NEW q \in Nat, NEW day
  PROVE  LET lot == [symbol |-> symbol, quantity |-> q, bought_on |-> day]
         IN AfterSelling(Append(lots, lot), {Len(lots) + 1}, q) = lots
<1> DEFINE n == Len(lots)
           i == n + 1
           lot == [symbol |-> symbol, quantity |-> q, bought_on |-> day]
           held == Append(lots, lot)
           given(k) == Taken(held, {i}, q, k)
           sold == [k \in DOMAIN held |-> [held[k] EXCEPT !.quantity = @ - given(k)]]
<1>1. n \in Nat /\ DOMAIN lots = 1..n
  BY LenProperties
<1>2. /\ Len(held) = i /\ DOMAIN held = 1..i /\ held[i] = lot
      /\ \A k \in 1..n : held[k] = lots[k]
  <2>1. lots \in Seq(T \cup {lot}) /\ lot \in T \cup {lot}
    <3>1. T \subseteq T \cup {lot}
      OBVIOUS
    <3> HIDE DEF lot
    <3> QED
      BY <3>1, SeqDef
  <2> HIDE DEF lot
  <2>2. /\ Append(lots, lot) \in Seq(T \cup {lot}) /\ Len(Append(lots, lot)) = n + 1
        /\ Append(lots, lot)[n + 1] = lot
        /\ \A k \in 1..n : Append(lots, lot)[k] = lots[k]
    BY <2>1, AppendProperties
  <2>3. DOMAIN held = 1..Len(held)
    BY <2>2, LenProperties
  <2> QED
    BY <2>2, <2>3
<1>3. lot.quantity = q
  OBVIOUS
<1> HIDE DEF held, lot
<1>4. given(i) = q
  <2>1. Units(held, {j \in {i} : j < i}) = 0
    <3>1. {j \in {i} : j < i} = {}
      BY <1>1
    <3> QED
      BY <1>1, <1>2, <3>1, UnitsOfNone
  <2>2. Demand(held, {i}, q, i) = q
    BY <2>1 DEF Demand, Larger
  <2>3. q <= q
    OBVIOUS
  <2> QED
    BY <1>2, <1>3, <2>2, <2>3 DEF Taken, Smaller
<1>5. \A k \in 1..n : given(k) = 0
  BY <1>1 DEF Taken
<1>6. DOMAIN sold = 1..i /\ sold = [k \in 1..i |-> sold[k]]
  BY <1>2
<1>7. sold[i].quantity = 0
  <2>1. sold[i] = [lot EXCEPT !.quantity = @ - q]
    BY <1>1, <1>2, <1>4
  <2>2. q - q = 0
    OBVIOUS
  <2> HIDE DEF sold
  <2> QED
    BY <2>1, <2>2 DEF lot
<1>8. ASSUME NEW k \in 1..n PROVE sold[k] = lots[k] /\ lots[k].quantity > 0
  <2>1. sold[k] = [lots[k] EXCEPT !.quantity = @ - 0]
    BY <1>1, <1>2, <1>5
  <2>2. lots[k].quantity \in Nat \ {0}
    BY DEF IsLot
  <2>3. lots[k].quantity - 0 = lots[k].quantity
    BY <2>2
  <2>4. \E a, b, d : lots[k] = [symbol |-> a, quantity |-> b, bought_on |-> d]
    BY DEF IsLot
  <2>5. sold[k] = lots[k]
    <3> HIDE DEF sold
    <3> QED
      BY <2>1, <2>3, <2>4
  <2> QED
    BY <2>2, <2>5
<1>9. AfterSelling(held, {i}, q) = Remaining(sold)
  BY DEF AfterSelling
<1> HIDE DEF sold, given
<1>10. Len(sold) = i
  BY <1>1, <1>6, LengthIs
<1> DEFINE f == CHOOSE f : IsKept(f, sold, i)
<1>11. IsKept(f, sold, i)
  <2>1. i \in Nat
    BY <1>1
  <2> HIDE DEF i
  <2> QED
    BY <2>1, KeptExists
<1>12. Remaining(sold) = f[i]
  BY <1>10 DEF Remaining, IsKept
<1> HIDE DEF f
<1> DEFINE Same(k) == f[k] \in Seq(T) /\ Len(f[k]) = k /\ \A j \in 1..k : f[k][j] = lots[j]
           S == {k \in Nat : k <= n => Same(k)}
<1>13. 0 \in S
  <2>1. f[0] = <<>>
    BY <1>1, <1>11 DEF IsKept
  <2>2. <<>> \in Seq(T) /\ Len(<<>>) = 0 /\ \A j \in 1..0 : FALSE
    BY EmptySeq
  <2>3. Same(0)
    BY <2>1, <2>2
  <2> HIDE DEF Same
  <2> QED
    BY <2>3
<1>14. ASSUME NEW k \in Nat, k \in S PROVE k + 1 \in S
  <2>1. SUFFICES ASSUME k + 1 <= n PROVE Same(k + 1)
    OBVIOUS
  <2>2. Same(k)
    BY <1>1, <1>14, <2>1
  <2>3. k + 1 \in 1..n /\ k + 1 \in 0..i
    BY <1>1, <2>1
  <2>4. f[k + 1] = Retain(f[k], sold[k + 1])
    BY <1>11, <2>3 DEF IsKept
  <2>5. f[k + 1] = Append(f[k], lots[k + 1])
    BY <1>8, <2>3, <2>4 DEF Retain
  <2>6. lots[k + 1] \in T
    BY <2>3, ElementOfSeq
  <2>7. /\ f[k + 1] \in Seq(T) /\ Len(f[k + 1]) = k + 1
        /\ f[k + 1][k + 1] = lots[k + 1]
        /\ \A j \in 1..k : f[k + 1][j] = f[k][j]
    BY <2>2, <2>5, <2>6, AppendProperties
  <2> QED
    BY <2>2, <2>7
<1> HIDE DEF S
<1>15. Nat \subseteq S
  BY <1>13, <1>14, Induct
<1>16. Same(n)
  BY <1>1, <1>15 DEF S
<1>17. f[n] = lots
  <2>1. DOMAIN f[n] = 1..n /\ f[n] = [j \in 1..n |-> f[n][j]]
    BY <1>16, LenProperties, SeqDef
  <2>2. lots = [j \in 1..n |-> lots[j]]
    BY <1>1, SeqDef
  <2> QED
    BY <1>16, <2>1, <2>2
<1>18. f[i] = Retain(f[n], sold[i])
  <2>1. i \in 0..i /\ i # 0 /\ i - 1 = n
    BY <1>1
  <2> HIDE DEF i
  <2> QED
    BY <1>11, <2>1 DEF IsKept
<1>19. f[i] = lots
  <2>1. ~(sold[i].quantity > 0)
    BY <1>7
  <2> QED
    BY <1>17, <1>18, <2>1 DEF Retain
<1> QED
  BY <1>9, <1>12, <1>19 DEF held, lot

\* A symbol that may be bought is not held.
LEMMA NotHeld ==
  ASSUME NEW state, IsPortfolio(state), NEW req
  PROVE  req.signal.side = "Buy" /\ PositionRejection(req, state) = "" =>
           LotsOf(state, req.signal.symbol) = {}
<1> DEFINE S == LotsOf(state, req.signal.symbol)
<1>1. /\ Len(state.lots) \in Nat /\ DOMAIN state.lots = 1..Len(state.lots)
      /\ \A i \in 1..Len(state.lots) : state.lots[i].quantity \in Nat \ {0}
  BY PortfolioIsNumbered
<1>2. ASSUME NEW i \in S PROVE Quantity(state, req.signal.symbol) > 0
  <2>1. i \in 1..Len(state.lots)
    BY <1>1 DEF LotsOf
  <2>2. Units(state.lots, S) \in Nat /\ state.lots[i].quantity <= Units(state.lots, S)
    BY <1>1, <2>1, UnitsAreNatural
  <2> HIDE DEF S
  <2>3. state.lots[i].quantity \in Nat \ {0}
    BY <1>1, <2>1
  <2>4. Units(state.lots, S) > 0
    BY <2>2, <2>3
  <2> QED
    BY <2>4 DEF Quantity, S
<1>3. req.signal.side = "Buy" /\ PositionRejection(req, state) = "" =>
        ~(Quantity(state, req.signal.symbol) > 0)
  BY DEF PositionRejection
<1> QED
  BY <1>2, <1>3

\* Of a symbol that was not held a later day sells what was bought, all of it
\* in the last lot.
LEMMA BoughtIsSellable ==
  ASSUME NEW state, IsPortfolio(state), NEW symbol, LotsOf(state, symbol) = {},
         NEW q \in Nat, NEW day \in Int, NEW later \in Int, day < later, NEW held,
         held.lots = Append(state.lots, [symbol |-> symbol, quantity |-> q, bought_on |-> day])
  PROVE  /\ Sellable(held, symbol, later) = {Len(state.lots) + 1}
         /\ SellableQuantity(held, symbol, later) = q
<1> DEFINE n == Len(state.lots)
           lot == [symbol |-> symbol, quantity |-> q, bought_on |-> day]
           S == Sellable(held, symbol, later)
<1>1. n \in Nat /\ DOMAIN state.lots = 1..n
  BY PortfolioIsNumbered
<1>2. lot.symbol = symbol /\ lot.quantity = q /\ lot.bought_on = day
  OBVIOUS
<1> HIDE DEF lot
<1>3. /\ Len(held.lots) = n + 1 /\ DOMAIN held.lots = 1..(n + 1) /\ held.lots[n + 1] = lot
      /\ \A k \in 1..n : held.lots[k] = state.lots[k]
  <2> DEFINE T == {state.lots[k] : k \in DOMAIN state.lots}
  <2>1. state.lots \in Seq(T)
    BY DEF IsPortfolio
  <2> HIDE DEF T
  <2>2. state.lots \in Seq(T \cup {lot}) /\ lot \in T \cup {lot}
    <3>1. T \subseteq T \cup {lot}
      OBVIOUS
    <3> QED
      BY <2>1, <3>1, SeqDef
  <2>3. held.lots = Append(state.lots, lot)
    BY DEF lot
  <2>4. /\ held.lots \in Seq(T \cup {lot}) /\ Len(held.lots) = n + 1
        /\ held.lots[n + 1] = lot
        /\ \A k \in 1..n : held.lots[k] = state.lots[k]
    BY <2>2, <2>3, AppendProperties
  <2>5. DOMAIN held.lots = 1..Len(held.lots)
    BY <2>4, LenProperties
  <2> QED
    BY <2>4, <2>5
<1>4. \A k \in 1..n : state.lots[k].symbol # symbol
  BY <1>1 DEF LotsOf
<1>5. S = {n + 1}
  <2>1. \A k \in 1..(n + 1) : k \in 1..n \/ k = n + 1
    BY <1>1
  <2>2. n + 1 \in 1..(n + 1)
    BY <1>1
  <2>3. \A k : k \in S <=> /\ k \in 1..(n + 1) /\ held.lots[k].symbol = symbol
                           /\ held.lots[k].bought_on < later
    BY <1>3 DEF Sellable, LotsOf
  <2>4. n + 1 \in S
    BY <1>2, <1>3, <2>2, <2>3
  <2>5. \A k \in S : k = n + 1
    BY <1>3, <1>4, <2>1, <2>3
  <2> HIDE DEF S
  <2> QED
    BY <2>4, <2>5, Zenon
<1>6. Units(held.lots, S) = q
  <2>1. n + 1 \in 1..(n + 1) /\ \A k \in 1..(n + 1) : k \in S => k = n + 1
    BY <1>1, <1>5
  <2>2. held.lots[n + 1].quantity = q /\ Len(held.lots) \in Nat
    BY <1>1, <1>2, <1>3
  <2> QED
    BY <1>3, <1>5, <2>1, <2>2, UnitsOfOne
<1> QED
  BY <1>5, <1>6 DEF SellableQuantity

\* The fees of a sale that brings in at most 1,900 times the budget.
LEMMA SaleAmounts ==
  ASSUME NEW g \in Nat, 100 * g <= 19 * MaxInt, MaxInt >= 6000000
  PROVE  /\ ~Overflows(g) /\ ~FeesOverflow("Sell", g)
         /\ Commission(g) + StampDuty("Sell", g) \in Nat
<1>1. /\ CheckedFee(g, CommissionBps) \in Nat /\ CheckedFee(g, CommissionBps) <= g + 1
      /\ CheckedFee(g, StampDutyBps) \in Nat /\ CheckedFee(g, StampDutyBps) <= g + 1
  BY DEF CheckedFee, CommissionBps, StampDutyBps
<1>2. Commission(g) \in Nat /\ Commission(g) <= g + 500
  BY <1>1 DEF Commission, Larger, MinCommission
<1>3. StampDuty("Sell", g) = CheckedFee(g, StampDutyBps)
  BY DEF StampDuty
<1> DEFINE fees == Commission(g) + StampDuty("Sell", g)
<1>4. fees \in Nat /\ fees <= g + g + 501
  BY <1>1, <1>2, <1>3
<1> HIDE DEF fees
<1>5. ~Overflows(g) /\ ~Overflows(fees)
  BY <1>4, MaxIntAssumption DEF Overflows
<1>6. ~FeeOverflows(g, CommissionBps) /\ ~FeeOverflows(g, StampDutyBps)
  BY MaxIntAssumption DEF FeeOverflows, Overflows, CommissionBps, StampDutyBps
<1>7. ~FeesOverflow("Sell", g)
  BY <1>5, <1>6 DEF FeesOverflow, fees
<1> QED
  BY <1>4, <1>5, <1>7 DEF fees

\* What the least purchase takes of the integers.
Ample == MaxInt >= 6000000

\* What is held can be sold by order `req', all q of it.
IsPosition(held, req, q, rule) ==
  /\ held.cash \in Nat /\ 1000 * held.cash <= MaxInt /\ Ample
  /\ WholeLots(rule)
  /\ q \in Nat /\ q >= 100 /\ q % 100 = 0 /\ q <= rule.maximum
  /\ req.signal.side = "Sell"
  /\ SellableQuantity(held, req.signal.symbol, DayOf(req.decision_at)) = q

SoldAt(held, req, q, price, fees) ==
  [cash |-> held.cash + q * price - fees,
   lots |-> AfterSelling(held.lots, Sellable(held, req.signal.symbol, DayOf(req.decision_at)), q)]

\* A price that brings in at most 1,900 times the budget.
IsSalePrice(price, q) == price \in Nat /\ price > 0 /\ 100 * (q * price) <= 19 * MaxInt

SaleFees(q, price) == Commission(q * price) + StampDuty("Sell", q * price)

IsBooked(held, req, q, rule, price) ==
  LET fill == FillOf(req, q, price)
      fees == SaleFees(q, price)
      sale == Execute(held, req, [price |-> price, available |-> MaxInt], rule)
      next == SoldAt(held, req, q, price, fees)
  IN IF fees > q * price THEN sale = Err("invalid_t1_sell")
     ELSE Apply(held, fill) = Ok(next) /\ sale = Filled(fill, next.cash)

\* At such a price the sale is booked, or its fees exceed what it brings in.
LEMMA SaleIsBooked ==
  ASSUME NEW held, NEW req, NEW q, NEW rule, IsPosition(held, req, q, rule),
         NEW price, IsSalePrice(price, q)
  PROVE  IsBooked(held, req, q, rule, price)
<1> price \in Nat /\ price > 0 /\ 100 * (q * price) <= 19 * MaxInt
  BY DEF IsSalePrice
<1> DEFINE g == q * price
           fill == FillOf(req, q, price)
           fees == Commission(g) + StampDuty("Sell", g)
           level == [price |-> price, available |-> MaxInt]
           next == SoldAt(held, req, q, price, fees)
           symbol == req.signal.symbol
           day == DayOf(req.decision_at)
<1>1. /\ held.cash \in Nat /\ 1000 * held.cash <= MaxInt /\ MaxInt >= 6000000
      /\ q \in Nat /\ q >= 100 /\ q % 100 = 0 /\ q <= rule.maximum
      /\ SellableQuantity(held, symbol, day) = q /\ WholeLots(rule)
  BY DEF IsPosition, Ample
<1>2. req.signal.side = "Sell"
  BY DEF IsPosition
<1>3. g \in Nat
  BY <1>1
<1>4. ~Overflows(g) /\ ~FeesOverflow("Sell", g) /\ fees \in Nat
  <2> HIDE DEF g
  <2>1. 100 * g <= 19 * MaxInt
    BY DEF g
  <2> QED
    BY <1>1, <1>3, <2>1, SaleAmounts
<1>5. /\ fill.quantity = q /\ fill.price = price /\ fill.fees = fees
      /\ fill.symbol = symbol /\ fill.trade_day = day
  BY <1>2 DEF FillOf
<1>6. fill.side = "Sell"
  BY <1>2 DEF FillOf
<1> HIDE DEF fill, fees
<1>7. Apply(held, fill) = ApplySell(held, fill)
  <2>1. /\ ~(fill.quantity <= 0) /\ ~(fill.quantity % LotSize # 0) /\ ~(fill.price <= 0)
        /\ ~(fill.fees < 0)
    BY <1>1, <1>4, <1>5 DEF LotSize
  <2>2. ~Overflows(fill.quantity * fill.price)
    BY <1>4, <1>5
  <2>3. ~(fill.side = "Buy")
    BY <1>6
  <2> QED
    BY <2>1, <2>2, <2>3 DEF Apply
<1>8. ~(SellableQuantity(held, fill.symbol, fill.trade_day) < fill.quantity)
  BY <1>1, <1>5
<1>9. ~Overflows(held.cash + fill.quantity * fill.price - fill.fees)
  <2>1. fill.quantity * fill.price = g /\ fill.fees = fees
    BY <1>5
  <2>2. 100 * g <= 19 * MaxInt
    BY DEF g
  <2> HIDE DEF g
  <2> QED
    BY <1>1, <1>3, <1>4, <2>1, <2>2, MaxIntAssumption DEF Overflows
<1>10. fees > g => Apply(held, fill) = Err("invalid_t1_sell")
  <2>1. fees > g => fill.fees > fill.quantity * fill.price
    BY <1>5
  <2> QED
    BY <1>7, <2>1 DEF ApplySell
<1>11. ~(fees > g) => Apply(held, fill) = Ok(next)
  <2>1. ~(fees > g) => ~(fill.fees > fill.quantity * fill.price)
    BY <1>5
  <2>2. ~(fees > g) => ApplySell(held, fill) = Ok(AfterSale(held, fill))
    BY <1>8, <1>9, <2>1, Zenon DEF ApplySell, AfterSale
  <2>3. AfterSale(held, fill) = next
    BY <1>5, Zenon DEF AfterSale, SoldAt
  <2> QED
    BY <1>7, <2>2, <2>3
<1> DEFINE sale == Execute(held, req, level, rule)
<1>12. sale = IF ~Apply(held, fill).ok THEN Apply(held, fill)
              ELSE Filled(fill, Apply(held, fill).value.cash)
  <2>1. level.price = price /\ level.available = MaxInt
    OBVIOUS
  <2> HIDE DEF level
  <2>2. ~(req.signal.side = "Buy")
    BY <1>2
  <2>3. OrderQuantity(req, held, price, rule) = q
    BY <1>1, <2>2 DEF OrderQuantity
  <2>4. PositionRejection(req, held) = ""
    BY <2>2 DEF PositionRejection
  <2>5. ~SizingOverflows(req, held, price, rule)
    BY <2>2 DEF SizingOverflows
  <2>6. QuantityRejection(req.signal.side, q, rule, level) = ""
    <3>1. rule.minimum = 100 /\ rule.step = 100 /\ rule.maximum = 1000000
      BY <1>1 DEF WholeLots, LotSize
    <3>2. /\ ~(q < rule.minimum) /\ q % rule.step = 0
          /\ ~(q > rule.maximum) /\ ~(q > level.available)
      BY <1>1, <2>1, <3>1, MaxIntAssumption
    <3> QED
      BY <3>2, QuantityPasses
  <2>7. ~FeesOverflow(req.signal.side, q * price)
    BY <1>2, <1>4
  <2>8. FillOf(req, q, price) = fill
    BY DEF fill
  <2> HIDE DEF g
  <2> QED
    BY <2>1, <2>3, <2>4, <2>5, <2>6, <2>7, <2>8, Zenon DEF Execute
<1>13. \A v : Ok(v).ok /\ Ok(v).value = v
  BY DEF Ok
<1>14. ~Err("invalid_t1_sell").ok
  BY DEF Err
<1> HIDE DEF sale, next
<1>15. fees > g => sale = Err("invalid_t1_sell")
  BY <1>10, <1>12, <1>14
<1>16. ~(fees > g) => Apply(held, fill) = Ok(next) /\ sale = Filled(fill, next.cash)
  BY <1>11, <1>12, <1>13
<1>17. IF fees > g THEN sale = Err("invalid_t1_sell")
       ELSE Apply(held, fill) = Ok(next) /\ sale = Filled(fill, next.cash)
  BY <1>15, <1>16
<1> QED
  BY <1>17, Zenon DEF IsBooked, SaleFees, g, fees, fill, sale, next, level

\* The order that closes a position.
LEMMA ClosingIs ==
  ASSUME IsRequest(request), NEW later
  PROVE  /\ Closing(later).decision_at = later
         /\ Closing(later).signal.symbol = request.signal.symbol
         /\ Closing(later).signal.side = "Sell"
<1>1. /\ \E a, b, c, d, e, f, g :
           request = [schema_version |-> a, cycle_id |-> b, strategy_version_id |-> c,
                      signal_id |-> d, decision_at |-> e, signal |-> f, quote_ref |-> g]
      /\ \E s, t : request.signal = [symbol |-> s, side |-> t]
  BY DEF IsRequest
<1> DEFINE signal == [request.signal EXCEPT !.side = "Sell"]
<1>2. signal.symbol = request.signal.symbol /\ signal.side = "Sell"
  BY <1>1
<1> HIDE DEF signal
<1>3. Closing(later) = [request EXCEPT !.decision_at = later, !.signal = signal]
  BY DEF Closing, signal
<1>4. Closing(later).decision_at = later /\ Closing(later).signal = signal
  BY <1>1, <1>3
<1> QED
  BY <1>2, <1>4

\* What a purchase that fills is, as an order and as a fill.
LEMMA PurchaseIsSized ==
  ASSUME IsCall, request # None, Fills(Decision)
  PROVE  request.signal.side = "Buy" =>
    LET price == evidence.execution.price
        q == BuyQuantity(book.cash, price, TheRule)
    IN /\ Decision.value.fill = FillOf(request, q, price)
       /\ IsPurchase(book, price, TheRule, q) /\ q <= TheRule.maximum /\ WholeLots(TheRule)
       /\ LotsOf(book, request.signal.symbol) = {}
<1> DEFINE price == evidence.execution.price
           q == BuyQuantity(book.cash, price, TheRule)
           fill == SizedFill(book, request, evidence, market)
           level == evidence.execution
<1> SUFFICES ASSUME request.signal.side = "Buy"
             PROVE  /\ Decision.value.fill = FillOf(request, q, price)
                    /\ IsPurchase(book, price, TheRule, q) /\ q <= TheRule.maximum /\ WholeLots(TheRule)
                    /\ LotsOf(book, request.signal.symbol) = {}
  OBVIOUS
<1>1. TheRule = RuleOf(evidence, market)
  BY DEF TheRule, RuleOf
<1>2. Fills(Decide(book, request, evidence, market))
  BY DEF Decision
<1>3. /\ Decision.value.fill = fill
      /\ PackValid(market) /\ evidence # None
      /\ EvidenceError(request, evidence) = "" /\ MarketRejection(request, evidence, market) = ""
      /\ PositionRejection(request, book) = ""
      /\ ~SizingOverflows(request, book, price, TheRule)
      /\ QuantityRejection(request.signal.side, fill.quantity, TheRule, level) = ""
  BY <1>1, <1>2, FilledIsLast DEF Decision
<1>4. IsPortfolio(book) /\ IsEvidence(evidence)
  BY <1>3 DEF IsCall
<1>5. WholeLots(TheRule) /\ price \in Int /\ price > 0
  <2>1. WholeLots(RuleOf(evidence, market)) /\ IsLevel(level) /\ level.price > 0
    BY <1>3, <1>4, AcceptedOrder
  <2> QED
    BY <1>1, <2>1 DEF IsLevel
<1>6. fill = FillOf(request, q, price)
  <2>1. OrderQuantity(request, book, price, TheRule) = q
    BY DEF OrderQuantity
  <2> QED
    BY <1>1, <2>1 DEF SizedFill
<1>7. fill.quantity = q
  BY <1>6 DEF FillOf
<1> HIDE DEF fill, q, price
<1>8. ~(q < TheRule.minimum) /\ q % TheRule.step = 0 /\ ~(q > TheRule.maximum)
  BY <1>3, <1>7, QuantityPasses
<1>9. ~Overflows(book.cash * BuyBudgetBps)
  BY <1>3 DEF SizingOverflows
<1>10. IsPurchase(book, price, TheRule, q)
  BY <1>4, <1>5, <1>8, <1>9 DEF IsPurchase, q
<1>11. q <= TheRule.maximum
  <2>1. q \in Nat
    BY <1>10, PurchaseIsPaid
  <2>2. TheRule.maximum \in Int
    BY <1>5 DEF WholeLots
  <2> QED
    BY <1>8, <2>1, <2>2
<1>12. LotsOf(book, request.signal.symbol) = {}
  BY <1>3, <1>4, NotHeld
<1> QED
  BY <1>3, <1>5, <1>6, <1>10, <1>11, <1>12

LEMMA Reordered ==
  ASSUME NEW a \in Int, NEW b \in Int, NEW c \in Int
  PROVE  a * (b * c) = b * (a * c)
OBVIOUS

LEMMA BothFees ==
  ASSUME NEW cash \in Int, NEW gross \in Int, NEW c \in Int, NEW fees \in Int
  PROVE  (cash - (gross + c)) + gross - fees = cash - c - fees
OBVIOUS

\* The lots are as they were when what was bought is sold.
LEMMA ClosingLeaves ==
  ASSUME NEW state, IsPortfolio(state), NEW symbol, NEW q \in Nat, NEW day, NEW lot,
         lot = [symbol |-> symbol, quantity |-> q, bought_on |-> day]
  PROVE  AfterSelling(Append(state.lots, lot), {Len(state.lots) + 1}, q) = state.lots
<1> DEFINE T == {state.lots[i] : i \in DOMAIN state.lots}
           lots == state.lots
<1>1. lots \in Seq(T)
  BY DEF IsPortfolio
<1>2. \A k \in 1..Len(lots) : IsLot(lots[k])
  BY PortfolioIsNumbered
<1> HIDE DEF T, lots
<1>3. AfterSelling(Append(lots, [symbol |-> symbol, quantity |-> q, bought_on |-> day]),
                   {Len(lots) + 1}, q) = lots
  BY <1>1, <1>2, SellingTheLast
<1> QED
  BY <1>3 DEF lots

\* A purchase of q is held, and `later' is a day on which it may be sold.
IsHolding(held, price, rule, q, later) ==
  /\ IsPurchase(book, price, rule, q) /\ q <= rule.maximum
  /\ LotsOf(book, request.signal.symbol) = {}
  /\ held.cash = book.cash - BuyCost(q, price)
  /\ held.lots = Append(book.lots, [symbol |-> request.signal.symbol, quantity |-> q,
                                    bought_on |-> DayOf(request.decision_at)])
  /\ later \in Instants /\ DayOf(request.decision_at) < DayOf(later)

\* What is bought can be sold, all of it, in the last lot.
LEMMA PositionCloses ==
  ASSUME IsCall, request # None, NEW price, NEW rule, NEW q, NEW held, NEW later,
         IsHolding(held, price, rule, q, later)
  PROVE  /\ SellableQuantity(held, request.signal.symbol, DayOf(later)) = q
         /\ Sellable(held, request.signal.symbol, DayOf(later)) = {Len(book.lots) + 1}
         /\ IsPosition(held, Closing(later), q, rule)
<1> /\ IsPurchase(book, price, rule, q) /\ q <= rule.maximum
    /\ LotsOf(book, request.signal.symbol) = {}
    /\ held.cash = book.cash - BuyCost(q, price)
    /\ held.lots = Append(book.lots, [symbol |-> request.signal.symbol, quantity |-> q,
                                      bought_on |-> DayOf(request.decision_at)])
    /\ later \in Instants /\ DayOf(request.decision_at) < DayOf(later)
  BY DEF IsHolding
<1> DEFINE symbol == request.signal.symbol
           gross == q * price
           cost == BuyCost(q, price)
<1>1. /\ q \in Nat /\ q >= 100 /\ q % 100 = 0 /\ gross \in Nat /\ 10000 * gross <= MaxInt
      /\ cost \in Nat /\ 10 * cost <= book.cash /\ 10000 * cost <= MaxInt
  BY PurchaseIsPaid
<1>2. /\ IsPortfolio(book) /\ book.cash \in Nat /\ price \in Nat /\ price > 0 /\ MaxInt \in Nat
      /\ ~Overflows(book.cash * BuyBudgetBps)
      /\ WholeLots(rule)
  BY MaxIntAssumption, PortfolioIsNumbered DEF IsPurchase
<1>3. IsRequest(request)
  BY DEF IsCall
<1>4. DayOf(request.decision_at) \in Int /\ DayOf(later) \in Int
  <2>1. request.decision_at \in Int /\ later \in Int
    BY <1>3, CasesAssumption DEF IsRequest
  <2> QED
    BY <2>1 DEF DayOf, DaySeconds
<1>5. /\ Sellable(held, symbol, DayOf(later)) = {Len(book.lots) + 1}
      /\ SellableQuantity(held, symbol, DayOf(later)) = q
  <2> DEFINE day == DayOf(request.decision_at)
             after == DayOf(later)
  <2>1. /\ IsPortfolio(book) /\ LotsOf(book, symbol) = {} /\ q \in Nat
        /\ day \in Int /\ after \in Int /\ day < after
        /\ held.lots = Append(book.lots, [symbol |-> symbol, quantity |-> q, bought_on |-> day])
    BY <1>1, <1>2, <1>4
  <2> HIDE DEF day, after, symbol
  <2>2. /\ Sellable(held, symbol, after) = {Len(book.lots) + 1}
        /\ SellableQuantity(held, symbol, after) = q
    BY <2>1, BoughtIsSellable
  <2> QED
    BY <2>2 DEF after
<1>6. Ample
  <2>1. cost = gross + Commission(gross)
    BY DEF BuyCost
  <2>2. Commission(gross) \in Nat /\ Commission(gross) >= 500
    <3> HIDE DEF gross
    <3>1. CheckedFee(gross, CommissionBps) \in Nat
      BY <1>1 DEF CheckedFee, CommissionBps
    <3> QED
      BY <3>1 DEF Commission, Larger, MinCommission
  <2>3. gross >= 100
    <3>1. q \in Nat /\ q >= 100 /\ price \in Nat /\ price > 0
      BY <1>1, <1>2
    <3>2. 1 * q <= price * q
      BY <3>1, Product
    <3>3. gross = price * q
      BY <3>1
    <3> HIDE DEF gross
    <3>4. gross >= q
      BY <3>1, <3>2, <3>3
    <3> QED
      BY <1>1, <3>1, <3>4
  <2> HIDE DEF cost, gross
  <2> QED
    BY <1>1, <1>2, <2>1, <2>2, <2>3 DEF Ample
<1>7. held.cash \in Nat /\ 1000 * held.cash <= MaxInt
  <2>1. held.cash = book.cash - cost
    OBVIOUS
  <2> HIDE DEF cost
  <2> QED
    BY <1>1, <1>2, <2>1 DEF Overflows, BuyBudgetBps
<1>8. /\ Closing(later).decision_at = later /\ Closing(later).signal.symbol = symbol
      /\ Closing(later).signal.side = "Sell"
  BY <1>3, ClosingIs
<1>9. IsPosition(held, Closing(later), q, rule)
  <2>1. SellableQuantity(held, Closing(later).signal.symbol, DayOf(Closing(later).decision_at)) = q
    BY <1>5, <1>8
  <2>2. q \in Nat /\ q >= 100 /\ q % 100 = 0
    BY <1>1
  <2> QED
    BY <1>2, <1>6, <1>7, <1>8, <2>1, <2>2, Zenon DEF IsPosition
<1> QED
  BY <1>1, <1>2, <1>5, <1>9 DEF symbol, gross

\* Nor is 1,900 times the price out of reach.
IsMultiple(p, price) == \E times \in 1..1900 : p = times * price

LEMMA MultiplesFit ==
  ASSUME NEW state, NEW price, NEW rule, NEW q, IsPurchase(state, price, rule, q),
         NEW p, IsMultiple(p, price)
  PROVE  IsSalePrice(p, q)
<1>0. /\ price \in Nat /\ price > 0 /\ q \in Nat /\ q * price \in Nat
      /\ 10000 * (q * price) <= MaxInt
  <2>1. price \in Int /\ price > 0
    BY DEF IsPurchase
  <2> QED
    BY <2>1, PurchaseIsPaid
<1>9. PICK times \in 1..1900 : p = times * price
  BY DEF IsMultiple
<1> DEFINE gross == q * price
           g == times * gross
<1>1. times * price \in Nat /\ 1 * price <= times * price
  BY <1>0, Product
<1>2. p \in Nat /\ p > 0
  BY <1>0, <1>1, <1>9
<1>3. q * p = g
  <2>1. q * (times * price) = times * (q * price)
    BY <1>0, Reordered
  <2> QED
    BY <1>9, <2>1
<1>4. gross \in Nat /\ 10000 * gross <= MaxInt
  BY <1>0
<1> HIDE DEF gross
<1>5. g \in Nat /\ g <= 1900 * gross
  BY <1>4, Product
<1> HIDE DEF g
<1>6. 100 * g <= 19 * MaxInt
  BY <1>4, <1>5, MaxIntAssumption
<1> QED
  BY <1>2, <1>3, <1>6 DEF IsSalePrice

\* Whatever the multiple of its price.
LEMMA PositionIsSold ==
  ASSUME IsCall, request # None, NEW price, NEW rule, NEW q, NEW held, NEW later,
         IsHolding(held, price, rule, q, later), NEW p, IsMultiple(p, price)
  PROVE  IsBooked(held, Closing(later), q, rule, p)
<1>1. IsPosition(held, Closing(later), q, rule)
  BY PositionCloses
<1>2. IsPurchase(book, price, rule, q)
  BY DEF IsHolding
<1>3. IsSalePrice(p, q)
  BY <1>2, MultiplesFit
<1> QED
  BY <1>1, <1>3, SaleIsBooked

\* In every sequence of calls the position a purchase opens can be sold whole on
\* any later day at the price it was bought at and at any up to 1,900 times it,
\* unless the fees exceed what it brings in: no overflow can lock it in.  Bought
\* and sold at one price, it leaves the lots as they were and costs both fees
\* (execution.rs, portfolio.rs).
THEOREM PositionsClose == []IsCall => []PositionsCanBeClosed
<1>1. IsCall => PositionsCanBeClosed
  <2> SUFFICES ASSUME IsCall, request # None, request.signal.side = "Buy", Fills(Decision)
      PROVE LET bought == Decision.value.fill
                gross == bought.quantity * bought.price
                held == Apply(book, bought).value
                fees == Commission(gross) + StampDuty("Sell", gross)
            IN /\ 10 * (book.cash - held.cash) <= book.cash
               /\ \A later \in Instants : bought.trade_day < DayOf(later) =>
                    /\ SellableQuantity(held, bought.symbol, DayOf(later)) = bought.quantity
                    /\ fees <= gross =>
                         Apply(held, SaleOf(held, later, bought.price).value.fill)
                           = Ok([cash |-> book.cash - bought.fees - fees, lots |-> book.lots])
                    /\ \A times \in Multiples :
                         LET sale == SaleOf(held, later, times * bought.price) IN
                         Fills(sale) \/ sale = Err("invalid_t1_sell")
    BY DEF PositionsCanBeClosed
  <2> DEFINE price == evidence.execution.price
             rule == TheRule
             q == BuyQuantity(book.cash, price, rule)
             gross == q * price
             fees == Commission(gross) + StampDuty("Sell", gross)
             bought == Decision.value.fill
             held == Apply(book, bought).value
             cost == BuyCost(q, price)
             symbol == request.signal.symbol
             day == DayOf(request.decision_at)
  <2>1. /\ bought = FillOf(request, q, price)
        /\ IsPurchase(book, price, rule, q) /\ q <= rule.maximum /\ WholeLots(rule)
        /\ LotsOf(book, symbol) = {}
    BY PurchaseIsSized
  <2> HIDE DEF q, price, rule
  <2>2. /\ bought.fees = Commission(gross)
        /\ BuyTotal(bought) = cost
        /\ Apply(book, bought) = Ok(AfterBuying(book, bought))
    BY <2>1, PurchaseIsApplied
  <2>3. bought.quantity = q /\ bought.price = price /\ bought.symbol = symbol /\ bought.trade_day = day
    BY <2>1 DEF FillOf
  <2>4. \A v : Ok(v).ok /\ Ok(v).value = v
    BY DEF Ok
  <2>5. held = AfterBuying(book, bought)
    BY <2>2, <2>4
  <2> HIDE DEF bought, held
  <2>6. /\ held.cash = book.cash - cost
        /\ held.lots = Append(book.lots, [symbol |-> symbol, quantity |-> q, bought_on |-> day])
    BY <2>2, <2>3, <2>5 DEF AfterBuying
  <2>7. /\ q \in Nat /\ gross \in Nat /\ cost \in Nat /\ 10 * cost <= book.cash
        /\ book.cash \in Nat /\ price \in Nat /\ IsPortfolio(book)
        /\ fees \in Nat /\ Commission(gross) \in Nat /\ cost = gross + Commission(gross)
    <3>1. /\ q \in Nat /\ gross \in Nat /\ cost \in Nat /\ 10 * cost <= book.cash
      BY <2>1, PurchaseIsPaid
    <3>2. book.cash \in Nat /\ price \in Nat /\ IsPortfolio(book)
      BY <2>1, PortfolioIsNumbered DEF IsPurchase
    <3>3. fees \in Nat /\ Commission(gross) \in Nat
      <4> HIDE DEF gross
      <4> QED
        BY <3>1, FeesAreNatural
    <3> QED
      BY <3>1, <3>2, <3>3 DEF BuyCost
  <2>8. 10 * (book.cash - held.cash) <= book.cash
    <3> HIDE DEF cost
    <3> QED
      BY <2>6, <2>7
  <2>9. ASSUME NEW later \in Instants, day < DayOf(later)
        PROVE  /\ SellableQuantity(held, symbol, DayOf(later)) = q
               /\ fees <= gross =>
                    Apply(held, SaleOf(held, later, price).value.fill)
                      = Ok([cash |-> book.cash - bought.fees - fees, lots |-> book.lots])
               /\ \A times \in Multiples :
                    LET sale == SaleOf(held, later, times * price) IN
                    Fills(sale) \/ sale = Err("invalid_t1_sell")
    <3>0. IsHolding(held, price, rule, q, later)
      BY <2>1, <2>6, <2>9 DEF IsHolding
    <3>1. /\ SellableQuantity(held, symbol, DayOf(later)) = q
          /\ Sellable(held, symbol, DayOf(later)) = {Len(book.lots) + 1}
      BY <3>0, PositionCloses
    <3>2. IsBooked(held, Closing(later), q, rule, price)
      <4>1. IsMultiple(price, price)
        <5>1. 1 \in 1..1900 /\ price = 1 * price
          BY <2>7
        <5> QED
          BY <5>1 DEF IsMultiple
      <4> QED
        BY <3>0, <4>1, PositionIsSold
    <3> DEFINE Sold == SoldAt(held, Closing(later), q, price, fees)
               Final == FillOf(Closing(later), q, price)
    <3>3. \A fill, cash : Fills(Filled(fill, cash)) /\ Filled(fill, cash).value.fill = fill
      BY DEF Fills, Filled, Ok
    <3>4. ASSUME NEW times \in Multiples
          PROVE  Fills(SaleOf(held, later, times * price))
                 \/ SaleOf(held, later, times * price) = Err("invalid_t1_sell")
      <4>0. times \in 1..1900
        BY CasesAssumption
      <4> DEFINE p == times * price
      <4>2. p = times * price
        OBVIOUS
      <4>1. IsMultiple(p, price)
        <5>1. price \in Nat
          BY <2>7
        <5> HIDE DEF p
        <5> QED
          BY <4>0, <4>2, <5>1 DEF IsMultiple
      <4> HIDE DEF p
      <4>6. IsBooked(held, Closing(later), q, rule, p)
        BY <3>0, <4>1, PositionIsSold
      <4>3. SaleOf(held, later, p) = Execute(held, Closing(later),
                                             [price |-> p, available |-> MaxInt], rule)
        BY DEF SaleOf, rule
      <4>4. \/ SaleOf(held, later, p) = Err("invalid_t1_sell")
            \/ \E fill, cash : SaleOf(held, later, p) = Filled(fill, cash)
        BY <4>3, <4>6, Zenon DEF IsBooked
      <4>5. Fills(SaleOf(held, later, p)) \/ SaleOf(held, later, p) = Err("invalid_t1_sell")
        BY <3>3, <4>4
      <4> QED
        BY <4>2, <4>5
    <3>5. ASSUME fees <= gross
          PROVE  Apply(held, SaleOf(held, later, price).value.fill)
                   = Ok([cash |-> book.cash - bought.fees - fees, lots |-> book.lots])
      <4>3. ~(fees > gross)
        BY <2>7, <3>5
      <4>4. Apply(held, Final) = Ok(Sold) /\ SaleOf(held, later, price) = Filled(Final, Sold.cash)
        <5>1. SaleOf(held, later, price) = Execute(held, Closing(later),
                                             [price |-> price, available |-> MaxInt], rule)
          BY DEF SaleOf, rule
        <5>2. fees = SaleFees(q, price) /\ gross = q * price
          BY DEF SaleFees
        <5> HIDE DEF fees, gross
        <5>3. /\ Apply(held, Final) = Ok(SoldAt(held, Closing(later), q, price, SaleFees(q, price)))
              /\ SaleOf(held, later, price)
                   = Filled(Final, SoldAt(held, Closing(later), q, price, SaleFees(q, price)).cash)
          BY <3>2, <4>3, <5>1, <5>2, Zenon DEF IsBooked
        <5> QED
          BY <5>2, <5>3
      <4>5. SaleOf(held, later, price).value.fill = Final
        BY <3>3, <4>4
      <4>6. Sold = [cash |-> book.cash - bought.fees - fees, lots |-> book.lots]
        <5>1. AfterSelling(held.lots, {Len(book.lots) + 1}, q) = book.lots
          <6> DEFINE lot == [symbol |-> symbol, quantity |-> q, bought_on |-> day]
          <6>1. held.lots = Append(book.lots, lot)
            BY <2>6
          <6>2. AfterSelling(Append(book.lots, lot), {Len(book.lots) + 1}, q) = book.lots
            BY <2>7, ClosingLeaves
          <6> HIDE DEF lot
          <6> QED
            BY <6>1, <6>2
        <5>2. Sellable(held, Closing(later).signal.symbol, DayOf(Closing(later).decision_at))
                = {Len(book.lots) + 1}
          <6>1. IsRequest(request)
            BY DEF IsCall
          <6>2. Closing(later).decision_at = later /\ Closing(later).signal.symbol = symbol
            BY <6>1, ClosingIs
          <6> HIDE DEF symbol
          <6> QED
            BY <3>1, <6>2
        <5>3. held.cash + q * price - fees = book.cash - bought.fees - fees
          <6>1. bought.fees = Commission(gross) /\ q * price = gross
            BY <2>2
          <6>2. held.cash = book.cash - cost /\ cost = gross + Commission(gross)
            BY <2>6, <2>7
          <6> DEFINE commission == Commission(gross)
          <6>3. /\ book.cash \in Int /\ gross \in Int /\ commission \in Int /\ fees \in Int
                /\ bought.fees = commission /\ held.cash = book.cash - (gross + commission)
            BY <2>7, <6>1, <6>2
          <6> HIDE DEF fees, gross, cost, commission
          <6> QED
            BY <6>1, <6>3, BothFees
        <5>4. Sold = [cash |-> held.cash + q * price - fees,
                             lots |-> AfterSelling(held.lots, {Len(book.lots) + 1}, q)]
          BY <5>2 DEF SoldAt
        <5> HIDE DEF Sold
        <5> QED
          BY <5>1, <5>3, <5>4
      <4> QED
        BY <4>4, <4>5, <4>6
    <3> QED
      BY <3>1, <3>4, <3>5
  <2> HIDE DEF symbol, day
  <2>10. bought.quantity * bought.price = gross
    BY <2>3
  <2> QED
    BY <2>3, <2>8, <2>9, <2>10, Zenon DEF fees, bought, held
<1> QED
  BY <1>1, PTL
=============================================================================
