--------------------------- MODULE Account_proofs ---------------------------
(***************************************************************************)
(* The promises of Account for every value of its constants.               *)
(*                                                                         *)
(* OneTradePerQuote is not inductive: what keeps a quote from a second     *)
(* trade is not a counter but the clock and the position together.  The    *)
(* clock never passes backwards over the quote's day, and while that day   *)
(* lasts a purchase leaves a lot that cannot be sold and a sale leaves no  *)
(* lot that could be.  UsedQuoteIsSpent says so; IInv adds what it needs.  *)
(***************************************************************************)
EXTENDS Account, TLAPS

USE DaysAssumption, AmountsAssumption

\* The accounts start absent, with nothing published.
LEMMA InitIInv == Init => IInv
BY DEF Init, IInv, TypeOK, Solvent, LotsArePast, UsedQuoteIsSpent, OneTradePerQuote

\* The type of the state after every step.
LEMMA NextTypeOK == TypeOK /\ Solvent /\ [Next]_vars => TypeOK'
<1> SUFFICES ASSUME TypeOK, Solvent, [Next]_vars PROVE TypeOK'
  OBVIOUS
<1>1. ASSUME NEW q \in Quotes, NEW f \in Facts, Publish(q, f) PROVE TypeOK'
  BY <1>1 DEF Publish, TypeOK
<1>2. ASSUME NEW c \in Cycles, NEW amount \in Amounts, Open(c, amount) PROVE TypeOK'
  BY <1>2 DEF Open, TypeOK
<1>3. ASSUME NEW c \in Cycles, Complete(c) PROVE TypeOK'
  BY <1>3 DEF Complete, TypeOK
<1>4. ASSUME NEW c \in Cycles, NEW day \in Days, Decided(c, day), Refuse PROVE TypeOK'
  BY <1>4 DEF Decided, Refuse, TypeOK
<1>5. ASSUME NEW c \in Cycles, NEW day \in Days, NEW q \in Quotes, Decided(c, day), Buy(c, q, day)
      PROVE TypeOK'
  <2>1. facts[q] \in Facts /\ facts[q].symbol \in Symbols
    BY <1>5 DEF Buy, Supports, TypeOK, Facts
  <2>2. PICK cost \in Amounts : Affordable(c, cost) /\ cash' = [cash EXCEPT ![c] = @ - cost]
    BY <1>5 DEF Buy
  <2>3. cash[c] - cost \in Nat
    BY <2>2 DEF Affordable, TypeOK
  <2>4. cash' \in [Cycles -> Nat]
    BY <2>2, <2>3 DEF TypeOK
  <2>5. bought' \in [Cycles -> [Symbols -> Nat]]
    BY <1>5, <2>1 DEF Buy, TypeOK
  <2>6. uses' \in [Cycles -> [Quotes -> Nat]] /\ today' \in [Cycles -> Nat]
    BY <1>5 DEF Buy, Decided, TypeOK
  <2> QED
    BY <1>5, <2>4, <2>5, <2>6 DEF Decided, TypeOK
<1>6. ASSUME NEW c \in Cycles, NEW day \in Days, NEW q \in Quotes, Decided(c, day), Sell(c, q, day)
      PROVE TypeOK'
  <2>1. facts[q].symbol \in Symbols
    BY <1>6 DEF Sell, Supports, TypeOK, Facts
  <2>2. bought' \in [Cycles -> [Symbols -> Nat]]
    BY <1>6, <2>1 DEF Sell, TypeOK
  <2>3. cash' \in [Cycles -> Nat]
    BY <1>6 DEF Sell, TypeOK
  <2>4. uses' \in [Cycles -> [Quotes -> Nat]] /\ today' \in [Cycles -> Nat]
    BY <1>6 DEF Sell, Decided, TypeOK
  <2> QED
    BY <1>6, <2>2, <2>3, <2>4 DEF Decided, TypeOK
<1>7. CASE UNCHANGED vars
  BY <1>7 DEF vars, TypeOK
<1> QED
  BY <1>1, <1>2, <1>3, <1>4, <1>5, <1>6, <1>7 DEF Next

\* Steps that trade nothing: they leave positions and uses alone, move no clock
\* back, and publish facts without changing those that are there.
Quiet ==
  /\ UNCHANGED <<bought, uses>>
  /\ \A c \in Cycles : today[c] <= today'[c]
  /\ \A q \in DOMAIN facts : q \in DOMAIN facts' /\ facts'[q] = facts[q]
  /\ \A c \in Cycles : status'[c] # "absent" =>
       (cash'[c] = cash[c] /\ status[c] # "absent") \/ cash'[c] > 0

\* Steps that trade nothing keep the invariant.
LEMMA QuietKeeps == IInv /\ TypeOK' /\ Quiet => IInv'
<1> SUFFICES ASSUME IInv, TypeOK', Quiet PROVE IInv'
  OBVIOUS
<1>1. Solvent'
  BY DEF IInv, Quiet, Solvent
<1>2. LotsArePast'
  BY DEF IInv, Quiet, LotsArePast, TypeOK
<1>3. OneTradePerQuote'
  BY DEF IInv, Quiet, OneTradePerQuote
<1>4. UsedQuoteIsSpent'
  <2> SUFFICES ASSUME NEW c \in Cycles, NEW q \in Quotes, uses'[c][q] # 0
               PROVE /\ q \in DOMAIN facts'
                     /\ facts'[q].day <= today'[c]
                     /\ facts'[q].day = today'[c] =>
                          \/ bought'[c][facts'[q].symbol] = today'[c]
                          \/ facts'[q].side = "Sell" /\ bought'[c][facts'[q].symbol] = 0
    BY DEF UsedQuoteIsSpent
  <2>1. /\ q \in DOMAIN facts
        /\ facts[q].day <= today[c]
        /\ facts[q].day = today[c] =>
             \/ bought[c][facts[q].symbol] = today[c]
             \/ facts[q].side = "Sell" /\ bought[c][facts[q].symbol] = 0
    BY DEF IInv, UsedQuoteIsSpent, Quiet
  <2>2. facts'[q] = facts[q] /\ q \in DOMAIN facts' /\ today[c] <= today'[c]
    BY <2>1 DEF Quiet
  <2>3. facts[q].day \in Nat /\ today[c] \in Nat /\ today'[c] \in Nat
    BY <2>1 DEF IInv, TypeOK, Facts
  <2>4. facts[q].day = today'[c] => today[c] = today'[c]
    BY <2>1, <2>2, <2>3
  <2> QED
    BY <2>1, <2>2, <2>3, <2>4 DEF Quiet
<1> QED
  BY <1>1, <1>2, <1>3, <1>4 DEF IInv

\* What a trade finds when the quote it rests on has been used before: the
\* position of that quote's symbol, on the quote's day.
LEMMA UsedToday ==
  ASSUME IInv, NEW c \in Cycles, NEW q \in Quotes, NEW day \in Days,
         Decided(c, day), uses[c][q] # 0, facts[q].day = day
  PROVE  /\ today[c] = day
         /\ \/ bought[c][facts[q].symbol] = day
            \/ facts[q].side = "Sell" /\ bought[c][facts[q].symbol] = 0
<1>1. q \in DOMAIN facts /\ facts[q].day <= today[c]
  BY DEF IInv, UsedQuoteIsSpent
<1>2. today[c] \in Nat /\ day \in Nat /\ today[c] <= day
  BY DEF IInv, TypeOK, Decided
<1>3. day <= today[c]
  BY <1>1
<1>4. today[c] = day
  BY <1>2, <1>3
<1> QED
  BY <1>1, <1>4 DEF IInv, UsedQuoteIsSpent

\* The decision day of a trade is the clock after it, and no clock goes back.
LEMMA ClockAfter ==
  ASSUME TypeOK, NEW c \in Cycles, NEW day \in Days, Decided(c, day)
  PROVE  /\ today'[c] = day
         /\ \A d \in Cycles : today[d] <= today'[d] /\ (d # c => today'[d] = today[d])
BY DEF TypeOK, Decided

\* A purchase spends a quote not spent before, on a symbol not held.
LEMMA BuyKeeps ==
  ASSUME IInv, TypeOK', NEW c \in Cycles, NEW q \in Quotes, NEW day \in Days,
         Decided(c, day), Buy(c, q, day)
  PROVE  IInv'
<1> DEFINE s == facts[q].symbol
<1>0. /\ q \in DOMAIN facts /\ facts[q].side = "Buy" /\ facts[q].day = day /\ s \in Symbols
      /\ bought[c][s] = 0
      /\ bought' = [bought EXCEPT ![c][s] = day]
      /\ uses' = [uses EXCEPT ![c][q] = @ + 1]
      /\ UNCHANGED <<status, facts>>
  BY DEF Buy, Supports, MayBuy, Decided, IInv, TypeOK, Facts
<1>1. Solvent'
  <2>1. PICK cost \in Amounts : Affordable(c, cost) /\ cash' = [cash EXCEPT ![c] = @ - cost]
    BY DEF Buy
  <2>2. status[c] # "absent"
    BY DEF Decided
  <2>3. cash[c] > 0 /\ cash[c] \in Nat
    BY <2>2 DEF IInv, Solvent, TypeOK
  <2>4. cash[c] - cost > 0
    BY <2>1, <2>3 DEF Affordable
  <2>5. \A d \in Cycles : cash'[d] = IF d = c THEN cash[c] - cost ELSE cash[d]
    BY <2>1 DEF IInv, TypeOK
  <2> QED
    BY <1>0, <2>4, <2>5 DEF Solvent, IInv
<1>2. LotsArePast'
  <2> SUFFICES ASSUME NEW d \in Cycles, NEW r \in Symbols PROVE bought'[d][r] <= today'[d]
    BY DEF LotsArePast
  <2>1. bought[d][r] <= today[d] /\ bought[d][r] \in Nat /\ today[d] \in Nat /\ today'[d] \in Nat
    BY DEF IInv, LotsArePast, TypeOK
  <2>2. bought'[d][r] = IF d = c /\ r = s THEN day ELSE bought[d][r]
    BY <1>0 DEF IInv, TypeOK
  <2> QED
    BY <2>1, <2>2, ClockAfter DEF IInv
<1>3. uses[c][q] = 0
  <2>1. SUFFICES ASSUME uses[c][q] # 0 PROVE FALSE
    OBVIOUS
  <2> QED
    BY <1>0, <2>1, UsedToday
<1>4. \A d \in Cycles, p \in Quotes :
        uses'[d][p] = IF d = c /\ p = q THEN 1 ELSE uses[d][p]
  BY <1>0, <1>3 DEF IInv, TypeOK
<1>5. OneTradePerQuote'
  BY <1>4 DEF OneTradePerQuote, IInv
<1>6. UsedQuoteIsSpent'
  <2> SUFFICES ASSUME NEW d \in Cycles, NEW p \in Quotes, uses'[d][p] # 0
               PROVE /\ p \in DOMAIN facts
                     /\ facts[p].day <= today'[d]
                     /\ facts[p].day = today'[d] =>
                          \/ bought'[d][facts[p].symbol] = today'[d]
                          \/ facts[p].side = "Sell" /\ bought'[d][facts[p].symbol] = 0
    BY <1>0 DEF UsedQuoteIsSpent
  <2>1. today'[c] = day /\ (d # c => today'[d] = today[d]) /\ today[d] <= today'[d]
    BY ClockAfter DEF IInv
  <2>2. CASE d = c /\ p = q
    BY <1>0, <2>1, <2>2 DEF IInv, TypeOK
  <2>3. CASE ~(d = c /\ p = q)
    <3>1. uses[d][p] # 0
      BY <1>4, <2>3
    <3>2. /\ p \in DOMAIN facts /\ facts[p].day <= today[d]
          /\ facts[p].day = today[d] =>
               \/ bought[d][facts[p].symbol] = today[d]
               \/ facts[p].side = "Sell" /\ bought[d][facts[p].symbol] = 0
      BY <3>1 DEF IInv, UsedQuoteIsSpent
    <3>3. /\ facts[p].day \in Nat /\ facts[p].symbol \in Symbols
          /\ today[d] \in Nat /\ today'[d] \in Nat
      BY <3>2 DEF IInv, TypeOK, Facts
    <3>4. facts[p].day = today'[d] => today[d] = today'[d]
      BY <2>1, <3>2, <3>3
    <3>5. bought'[d][facts[p].symbol] =
            IF d = c /\ facts[p].symbol = s THEN day ELSE bought[d][facts[p].symbol]
      BY <1>0, <3>3 DEF IInv, TypeOK
    <3> QED
      BY <2>1, <3>2, <3>3, <3>4, <3>5
  <2> QED
    BY <2>2, <2>3
<1> QED
  BY <1>1, <1>2, <1>5, <1>6 DEF IInv

\* A sale clears a lot older than the quote that supports it.
LEMMA SellKeeps ==
  ASSUME IInv, TypeOK', NEW c \in Cycles, NEW q \in Quotes, NEW day \in Days,
         Decided(c, day), Sell(c, q, day)
  PROVE  IInv'
<1> DEFINE s == facts[q].symbol
<1>0. /\ q \in DOMAIN facts /\ facts[q].side = "Sell" /\ facts[q].day = day /\ s \in Symbols
      /\ bought[c][s] # 0 /\ bought[c][s] < day
      /\ bought' = [bought EXCEPT ![c][s] = 0]
      /\ uses' = [uses EXCEPT ![c][q] = @ + 1]
      /\ UNCHANGED <<status, facts>>
  BY DEF Sell, Supports, MaySell, Decided, IInv, TypeOK, Facts
<1>1. Solvent'
  <2>1. PICK proceeds \in Amounts : cash' = [cash EXCEPT ![c] = @ + proceeds]
    BY DEF Sell
  <2>2. \A d \in Cycles : cash[d] \in Nat /\ (status[d] # "absent" => cash[d] > 0)
    BY DEF IInv, Solvent, TypeOK
  <2>3. \A d \in Cycles : cash'[d] = IF d = c THEN cash[c] + proceeds ELSE cash[d]
    BY <2>1 DEF IInv, TypeOK
  <2>4. proceeds \in Nat
    OBVIOUS
  <2> QED
    BY <1>0, <2>2, <2>3, <2>4 DEF Solvent
<1>2. LotsArePast'
  <2> SUFFICES ASSUME NEW d \in Cycles, NEW r \in Symbols PROVE bought'[d][r] <= today'[d]
    BY DEF LotsArePast
  <2>1. bought[d][r] <= today[d] /\ bought[d][r] \in Nat /\ today[d] \in Nat /\ today'[d] \in Nat
    BY DEF IInv, LotsArePast, TypeOK
  <2>2. bought'[d][r] = IF d = c /\ r = s THEN 0 ELSE bought[d][r]
    BY <1>0 DEF IInv, TypeOK
  <2> QED
    BY <2>1, <2>2, ClockAfter DEF IInv
<1>3. uses[c][q] = 0
  <2>1. SUFFICES ASSUME uses[c][q] # 0 PROVE FALSE
    OBVIOUS
  <2>2. bought[c][s] = day \/ bought[c][s] = 0
    BY <1>0, <2>1, UsedToday
  <2> QED
    BY <1>0, <2>2
<1>4. \A d \in Cycles, p \in Quotes :
        uses'[d][p] = IF d = c /\ p = q THEN 1 ELSE uses[d][p]
  BY <1>0, <1>3 DEF IInv, TypeOK
<1>5. OneTradePerQuote'
  BY <1>4 DEF OneTradePerQuote, IInv
<1>6. UsedQuoteIsSpent'
  <2> SUFFICES ASSUME NEW d \in Cycles, NEW p \in Quotes, uses'[d][p] # 0
               PROVE /\ p \in DOMAIN facts
                     /\ facts[p].day <= today'[d]
                     /\ facts[p].day = today'[d] =>
                          \/ bought'[d][facts[p].symbol] = today'[d]
                          \/ facts[p].side = "Sell" /\ bought'[d][facts[p].symbol] = 0
    BY <1>0 DEF UsedQuoteIsSpent
  <2>1. today'[c] = day /\ (d # c => today'[d] = today[d]) /\ today[d] <= today'[d]
    BY ClockAfter DEF IInv
  <2>2. CASE d = c /\ p = q
    BY <1>0, <2>1, <2>2 DEF IInv, TypeOK
  <2>3. CASE ~(d = c /\ p = q)
    <3>1. uses[d][p] # 0
      BY <1>4, <2>3
    <3>2. /\ p \in DOMAIN facts /\ facts[p].day <= today[d]
          /\ facts[p].day = today[d] =>
               \/ bought[d][facts[p].symbol] = today[d]
               \/ facts[p].side = "Sell" /\ bought[d][facts[p].symbol] = 0
      BY <3>1 DEF IInv, UsedQuoteIsSpent
    <3>3. /\ facts[p].day \in Nat /\ facts[p].symbol \in Symbols
          /\ today[d] \in Nat /\ today'[d] \in Nat
      BY <3>2 DEF IInv, TypeOK, Facts
    <3>4. facts[p].day = today'[d] => today[d] = today'[d]
      BY <2>1, <3>2, <3>3
    <3>5. bought'[d][facts[p].symbol] =
            IF d = c /\ facts[p].symbol = s THEN 0 ELSE bought[d][facts[p].symbol]
      BY <1>0, <3>3 DEF IInv, TypeOK
    <3>6. CASE d = c /\ facts[p].symbol = s /\ facts[p].day = day
      BY <1>0, <2>1, <3>2, <3>4, <3>6
    <3>7. CASE ~(d = c /\ facts[p].symbol = s /\ facts[p].day = day)
      BY <2>1, <3>2, <3>3, <3>4, <3>5, <3>7
    <3> QED
      BY <3>6, <3>7
  <2> QED
    BY <2>2, <2>3
<1> QED
  BY <1>1, <1>2, <1>5, <1>6 DEF IInv

\* The invariant is inductive.
LEMMA NextIInv == IInv /\ [Next]_vars => IInv'
<1> SUFFICES ASSUME IInv, [Next]_vars PROVE IInv'
  OBVIOUS
<1>0. TypeOK /\ TypeOK'
  BY NextTypeOK DEF IInv
<1>1. ASSUME NEW q \in Quotes, NEW f \in Facts, Publish(q, f) PROVE Quiet
  BY <1>0, <1>1 DEF Publish, Quiet, TypeOK
<1>2. ASSUME NEW c \in Cycles, NEW amount \in Amounts, Open(c, amount) PROVE Quiet
  BY <1>0, <1>2 DEF Open, Quiet, TypeOK
<1>3. ASSUME NEW c \in Cycles, Complete(c) PROVE Quiet
  BY <1>0, <1>3 DEF Complete, Quiet, TypeOK
<1>4. ASSUME NEW c \in Cycles, NEW day \in Days, Decided(c, day), Refuse PROVE Quiet
  BY <1>0, <1>4, ClockAfter DEF Decided, Refuse, Quiet, TypeOK
<1>5. ASSUME UNCHANGED vars PROVE Quiet
  <2>1. UNCHANGED <<status, cash, bought, today, facts, uses>>
    BY <1>5 DEF vars
  <2>2. \A c \in Cycles : today[c] <= today'[c]
    BY <1>0, <2>1 DEF TypeOK
  <2> QED
    BY <2>1, <2>2 DEF Quiet
<1>6. ASSUME NEW c \in Cycles, NEW day \in Days, NEW q \in Quotes, Decided(c, day), Buy(c, q, day)
      PROVE IInv'
  BY <1>0, <1>6, BuyKeeps
<1>7. ASSUME NEW c \in Cycles, NEW day \in Days, NEW q \in Quotes, Decided(c, day), Sell(c, q, day)
      PROVE IInv'
  BY <1>0, <1>7, SellKeeps
<1> QED
  BY <1>0, <1>1, <1>2, <1>3, <1>4, <1>5, <1>6, <1>7, QuietKeeps DEF Next

\* The inductive invariant holds of every behaviour of the account.
THEOREM AccountInvariant == Spec => []IInv
<1>1. IInv /\ [Next]_vars => IInv'
  BY NextIInv
<1> QED
  BY InitIInv, <1>1, PTL DEF Spec

\* Every variable keeps its type.
THEOREM AccountTypeOK == Spec => []TypeOK
<1>1. IInv => TypeOK
  BY DEF IInv
<1> QED
  BY AccountInvariant, <1>1, PTL

\* No quote supports two trades of an account (the argument execution evidence
\* rests on, in place of a table of consumed quantities).
THEOREM QuotesAreNotReused == Spec => []OneTradePerQuote
<1>1. IInv => OneTradePerQuote
  BY DEF IInv
<1> QED
  BY AccountInvariant, <1>1, PTL

\* An opened account always has cash: a tenth at a time never empties it.
THEOREM AccountsStaySolvent == Spec => []Solvent
<1>1. IInv => Solvent
  BY DEF IInv
<1> QED
  BY AccountInvariant, <1>1, PTL

\* No step sells a lot on the day it was bought, nor moves an account back.
THEOREM LotsWaitADay == Spec => NoDayTrade
<1>1. IInv /\ [Next]_vars => [WaitsADay]_vars
  <2> SUFFICES ASSUME IInv, Next PROVE WaitsADay
    OBVIOUS
  <2>0. TypeOK
    BY DEF IInv
  <2>1. ASSUME NEW q \in Quotes, NEW f \in Facts, Publish(q, f) PROVE WaitsADay
    BY <2>0, <2>1 DEF Publish, TypeOK, WaitsADay
  <2>2. ASSUME NEW c \in Cycles, NEW amount \in Amounts, Open(c, amount) PROVE WaitsADay
    BY <2>0, <2>2 DEF Open, TypeOK, WaitsADay
  <2>3. ASSUME NEW c \in Cycles, Complete(c) PROVE WaitsADay
    BY <2>0, <2>3 DEF Complete, TypeOK, WaitsADay
  <2>4. ASSUME NEW c \in Cycles, NEW day \in Days, Decided(c, day), Refuse PROVE WaitsADay
    BY <2>0, <2>4, ClockAfter DEF Refuse, WaitsADay
  <2>5. ASSUME NEW c \in Cycles, NEW day \in Days, NEW q \in Quotes,
               Decided(c, day), Buy(c, q, day)
        PROVE WaitsADay
    <3>1. bought' = [bought EXCEPT ![c][facts[q].symbol] = day] /\ bought[c][facts[q].symbol] = 0
      BY <2>5 DEF Buy, MayBuy
    <3>2. status[c] = "active"
      BY <2>5 DEF Decided
    <3>3. facts[q].symbol \in Symbols
      BY <2>0, <2>5 DEF Buy, Supports, TypeOK, Facts
    <3>4. \A d \in Cycles, r \in Symbols :
            bought'[d][r] = IF d = c /\ r = facts[q].symbol THEN day ELSE bought[d][r]
      BY <2>0, <3>1, <3>3 DEF TypeOK
    <3> QED
      BY <2>0, <2>5, <3>1, <3>2, <3>4, ClockAfter DEF WaitsADay
  <2>6. ASSUME NEW c \in Cycles, NEW day \in Days, NEW q \in Quotes,
               Decided(c, day), Sell(c, q, day)
        PROVE WaitsADay
    <3>1. /\ bought' = [bought EXCEPT ![c][facts[q].symbol] = 0]
          /\ bought[c][facts[q].symbol] # 0 /\ bought[c][facts[q].symbol] < day
      BY <2>6 DEF Sell, MaySell
    <3>2. status[c] = "active"
      BY <2>6 DEF Decided
    <3>3. facts[q].symbol \in Symbols
      BY <2>0, <2>6 DEF Sell, Supports, TypeOK, Facts
    <3>4. \A d \in Cycles, r \in Symbols :
            bought'[d][r] = IF d = c /\ r = facts[q].symbol THEN 0 ELSE bought[d][r]
      BY <2>0, <3>1, <3>3 DEF TypeOK
    <3> QED
      BY <2>0, <2>6, <3>1, <3>2, <3>4, ClockAfter DEF WaitsADay
  <2> QED
    BY <2>1, <2>2, <2>3, <2>4, <2>5, <2>6 DEF Next
<1> QED
  BY AccountInvariant, <1>1, PTL DEF Spec, NoDayTrade
=============================================================================
