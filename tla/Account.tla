------------------------------ MODULE Account ------------------------------
(***************************************************************************)
(* What the ledger promises of every experiment, without the ledger: an    *)
(* account with cash, at most one lot per symbol, and a clock that only    *)
(* moves forward; published quotes whose facts never change; trades that   *)
(* each rest on one quote of their own side and day.                       *)
(*                                                                         *)
(* This is the abstract specification Ledger is checked to implement, and  *)
(* the one whose safety is proved in Account_proofs.  It keeps of a trade  *)
(* only what the promises need: a purchase costs at most a tenth of the    *)
(* cash, a sale clears the lot and never costs money, and a lot is not     *)
(* sold on the day it was bought.                                          *)
(***************************************************************************)
EXTENDS Integers

CONSTANTS Cycles,   \* experiments
          Symbols,
          Quotes,   \* quote identities
          Days,     \* decision days
          Amounts   \* amounts of cash that can change hands

ASSUME DaysAssumption == Days \subseteq Nat \ {0}
ASSUME AmountsAssumption == Amounts \subseteq Nat

VARIABLES
  status,   \* "absent", "active" or "completed"
  cash,     \* cash of the account
  bought,   \* the day its lot of a symbol was bought, 0 when it holds none
  today,    \* the day of its latest decision, 0 before the first
  facts,    \* published quote -> [side, symbol, day]
  uses      \* how many trades of the account rest on a quote

vars == <<status, cash, bought, today, facts, uses>>

\* A quote without an execution level supports neither side.
Facts == [side : {"Buy", "Sell", "Neither"}, symbol : Symbols, day : Days]

Init ==
  /\ status = [c \in Cycles |-> "absent"]
  /\ cash = [c \in Cycles |-> 0]
  /\ bought = [c \in Cycles |-> [s \in Symbols |-> 0]]
  /\ today = [c \in Cycles |-> 0]
  /\ facts = [q \in {} |-> 0]
  /\ uses = [c \in Cycles |-> [q \in Quotes |-> 0]]

Open(c, amount) ==
  /\ status[c] = "absent"
  /\ amount > 0
  /\ status' = [status EXCEPT ![c] = "active"]
  /\ cash' = [cash EXCEPT ![c] = amount]
  /\ UNCHANGED <<bought, today, facts, uses>>

Complete(c) ==
  /\ status[c] = "active"
  /\ status' = [status EXCEPT ![c] = "completed"]
  /\ UNCHANGED <<cash, bought, today, facts, uses>>

Publish(q, f) ==
  /\ q \notin DOMAIN facts
  /\ facts' = [p \in DOMAIN facts \cup {q} |-> IF p = q THEN f ELSE facts[p]]
  /\ UNCHANGED <<status, cash, bought, today, uses>>

\* Every decision, traded or refused, moves the account's clock.
Decided(c, day) ==
  /\ UNCHANGED <<status, facts>>
  /\ status[c] = "active"
  /\ today[c] <= day
  /\ today' = [today EXCEPT ![c] = day]

Refuse == UNCHANGED <<cash, bought, uses>>

\* A trade rests on a quote observed for its side on its very day.
Supports(q, side, day) ==
  q \in DOMAIN facts /\ facts[q].side = side /\ facts[q].day = day

Affordable(c, cost) == cost > 0 /\ 10 * cost <= cash[c]

\* Mutant of MayBuy: a position may be added to.
MayAlwaysBuy(c, s) == TRUE

MayBuy(c, s) == bought[c][s] = 0

MaySell(c, s, day) == bought[c][s] # 0 /\ bought[c][s] < day

Buy(c, q, day) ==
  LET s == facts[q].symbol IN
  /\ Supports(q, "Buy", day)
  /\ MayBuy(c, s)
  /\ bought' = [bought EXCEPT ![c][s] = day]
  /\ uses' = [uses EXCEPT ![c][q] = @ + 1]
  /\ \E cost \in Amounts :
       /\ Affordable(c, cost)
       /\ cash' = [cash EXCEPT ![c] = @ - cost]

Sell(c, q, day) ==
  LET s == facts[q].symbol IN
  /\ Supports(q, "Sell", day)
  /\ MaySell(c, s, day)
  /\ bought' = [bought EXCEPT ![c][s] = 0]
  /\ uses' = [uses EXCEPT ![c][q] = @ + 1]
  /\ \E proceeds \in Amounts : cash' = [cash EXCEPT ![c] = @ + proceeds]

Next ==
  \/ \E q \in Quotes, f \in Facts : Publish(q, f)
  \/ \E c \in Cycles, amount \in Amounts : Open(c, amount)
  \/ \E c \in Cycles : Complete(c)
  \/ \E c \in Cycles, day \in Days :
       /\ Decided(c, day)
       /\ Refuse \/ \E q \in Quotes : Buy(c, q, day) \/ Sell(c, q, day)

Spec == Init /\ [][Next]_vars

(***************************************************************************)
(* Promises.                                                               *)
(***************************************************************************)
TypeOK ==
  /\ status \in [Cycles -> {"absent", "active", "completed"}]
  /\ cash \in [Cycles -> Nat]
  /\ bought \in [Cycles -> [Symbols -> Nat]]
  /\ today \in [Cycles -> Nat]
  /\ DOMAIN facts \subseteq Quotes
  /\ \A q \in DOMAIN facts : facts[q] \in Facts
  /\ uses \in [Cycles -> [Quotes -> Nat]]

\* No quote ever supports two trades of one account, on whatever days and in
\* whatever order the requests naming it arrive (EXECUTION_EVIDENCE.md: an
\* execution quantity is not used twice).
OneTradePerQuote == \A c \in Cycles, q \in Quotes : uses[c][q] <= 1

\* An opened account never runs out of cash: purchases spend at most a tenth
\* of what is left and sales never cost money.
Solvent == \A c \in Cycles : status[c] # "absent" => cash[c] > 0

\* T+1 as a rule about steps: a lot that leaves the account was bought on a
\* day before the clock the account had reached, and the clock never goes back.
WaitsADay ==
  \A c \in Cycles :
    /\ today[c] <= today'[c]
    /\ \A s \in Symbols :
         bought'[c][s] # bought[c][s] =>
           /\ status[c] = "active"
           /\ IF bought[c][s] = 0 THEN bought'[c][s] = today'[c]
              ELSE bought'[c][s] = 0 /\ bought[c][s] < today'[c]

NoDayTrade == [][WaitsADay]_vars

\* Inductive strengthening of OneTradePerQuote: a quote already used is not
\* from a later day than the account's clock, and while its day lasts the
\* account is in a position that refuses another trade on that side.
UsedQuoteIsSpent ==
  \A c \in Cycles, q \in Quotes :
    uses[c][q] # 0 =>
      /\ q \in DOMAIN facts
      /\ facts[q].day <= today[c]
      /\ facts[q].day = today[c] =>
           \/ bought[c][facts[q].symbol] = today[c]
           \/ facts[q].side = "Sell" /\ bought[c][facts[q].symbol] = 0

LotsArePast == \A c \in Cycles, s \in Symbols : bought[c][s] <= today[c]

IInv == TypeOK /\ Solvent /\ LotsArePast /\ UsedQuoteIsSpent /\ OneTradePerQuote
=============================================================================
