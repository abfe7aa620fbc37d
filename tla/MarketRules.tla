---------------------------- MODULE MarketRules ----------------------------
(***************************************************************************)
(* The pinned market facts a decision is judged against: the scheduled     *)
(* calendar, the session policy and the instrument snapshot of one market  *)
(* data pack (v2/src/domain/calendar.rs, execution.rs, instrument.rs).     *)
(*                                                                         *)
(* Time is the +08:00 wall clock in seconds.  Day 0 is Monday 2025-12-29,  *)
(* so the weekday of a day is its residue modulo 7.  Dates the code keeps  *)
(* as canonical YYYY-MM-DD strings compare like the day numbers used here. *)
(***************************************************************************)
EXTENDS Integers, Sequences

CONSTANT None          \* an absent Option<_>

DaySeconds == 86400
DayOf(t) == t \div DaySeconds
TimeOfDay(t) == t % DaySeconds
Clock(h, m) == h * 3600 + m * 60

\* [first, last] are inclusive day bounds of a calendar, holiday or rule.
Covers(range, day) == range.first <= day /\ day <= range.last

(***************************************************************************)
(* An ordered list of early returns: the first one that gives a reason     *)
(* decides; "" means that none does.                                       *)
(***************************************************************************)
When(condition, reason) == IF condition THEN reason ELSE ""

FirstReason(reasons) ==
  LET given == {i \in DOMAIN reasons : reasons[i] # ""} IN
  IF given = {} THEN "" ELSE reasons[CHOOSE i \in given : \A j \in given : i <= j]

(***************************************************************************)
(* Calendar.                                                               *)
(***************************************************************************)
CalendarValid(cal) ==
  /\ cal.first <= cal.last
  /\ cal.holidays # <<>>
  /\ \A i \in DOMAIN cal.holidays :
       LET h == cal.holidays[i] IN
       /\ h.first <= h.last
       /\ cal.first <= h.first /\ h.last <= cal.last
       /\ i > 1 => cal.holidays[i-1].last < h.first

IsWeekend(day) == day % 7 \in {5, 6}

\* A holiday written into the file wins over nothing but a plain weekday: the
\* code tests coverage, then the weekend, then the holiday ranges.
CalendarDay(cal, day) ==
  IF ~Covers(cal, day) THEN "Unknown"
  ELSE IF IsWeekend(day) THEN "Weekend"
  ELSE IF \E i \in DOMAIN cal.holidays : Covers(cal.holidays[i], day) THEN "Holiday"
  ELSE "Trading"

(***************************************************************************)
(* Session policy: two continuous windows between two auctions.            *)
(***************************************************************************)
\* Mutant of Contains: no window includes its last instant.
ContainsBeforeEnd(w, time) == time >= w.start /\ time < w.end

Contains(w, time) ==
  time >= w.start /\ (time < w.end \/ (w.end_inclusive /\ time = w.end))

SessionsValid(p) ==
  /\ \A w \in {p.opening, p.morning, p.afternoon, p.closing} : w.start < w.end
  /\ p.opening.end < p.morning.start
  /\ p.morning.end < p.afternoon.start
  /\ p.afternoon.end = p.closing.start
  /\ ~p.afternoon.end_inclusive

\* "" inside a continuous window, the reason of the refusal elsewhere.
SessionRejection(p, time) ==
  LET continuous == Contains(p.morning, time) \/ Contains(p.afternoon, time) IN
  FirstReason(<<
    When(Contains(p.opening, time), "opening_auction_not_supported"),
    When(Contains(p.closing, time), "closing_auction_not_supported"),
    When(~continuous /\ time > p.morning.end /\ time < p.afternoon.start, "midday_break"),
    When(~continuous, "outside_trading_session") >>)

(***************************************************************************)
(* Instrument snapshot: explicitly classified codes and quantity rules.    *)
(***************************************************************************)
QuantityRuleVersion == "sse-main-board-whole-lot-2026-v1"

InstrumentsValid(snap) ==
  /\ snap.first <= snap.last
  /\ snap.instruments # {}
  /\ \A a, b \in snap.instruments : a.symbol = b.symbol => a = b
  /\ \A i \in snap.instruments :
       /\ i.evidence_version = snap.version
       /\ snap.first <= i.first /\ i.first <= i.last /\ i.last <= snap.last
       /\ i.board = "Star" => i.exchange = "Sse"
       /\ i.board = "ChiNext" => i.exchange = "Szse"
  /\ \A a, b \in snap.rules : a.version = b.version => a = b
  /\ \A r \in snap.rules :
       /\ r.first <= r.last
       /\ r.minimum > 0 /\ r.step > 0 /\ r.maximum >= r.minimum
       /\ r.minimum % r.step = 0 /\ r.maximum % r.step = 0
       /\ r.version = QuantityRuleVersion =>
            <<r.minimum, r.step, r.maximum>> = <<100, 100, 1000000>>

\* Exact code lookup; an unknown code has no identity.
Identity(snap, symbol) ==
  IF \E i \in snap.instruments : i.symbol = symbol
    THEN CHOOSE i \in snap.instruments : i.symbol = symbol
    ELSE None

\* Why the identity pinned in the evidence gives no quantity rule on `day'.
QuantityRefusal(snap, symbol, pinned, day) ==
  IF pinned = None THEN "instrument_identity_missing"
  ELSE FirstReason(<<
    When(Identity(snap, symbol) # pinned, "instrument_identity_conflict"),
    When(~Covers(pinned, day), "instrument_date_not_covered"),
    When(pinned.security_type # "OrdinaryAShare", "unsupported_security_type"),
    When(pinned.board # "MainBoard", "unsupported_instrument_board"),
    When(pinned.exchange # "Sse", "unsupported_instrument_exchange"),
    When(pinned.rule_version = None, "instrument_rule_missing"),
    When(pinned.rule_version # QuantityRuleVersion, "unsupported_instrument_rule"),
    When(~\E r \in snap.rules : r.version = pinned.rule_version, "instrument_rule_missing"),
    When(~\E r \in snap.rules : r.version = pinned.rule_version /\ Covers(r, day),
      "instrument_rule_date_not_covered") >>)

QuantityRule(snap, pinned) ==
  CHOOSE r \in snap.rules : r.version = pinned.rule_version
=============================================================================
