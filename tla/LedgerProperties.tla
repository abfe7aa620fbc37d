-------------------------- MODULE LedgerProperties --------------------------
(***************************************************************************)
(* What the ledger must keep true, and the account it implements.          *)
(***************************************************************************)
EXTENDS Ledger

CONSTANTS Cycles, Symbols, Days, Amounts   \* of the account, see Account
ASSUME DaysAreNumbered == Days \subseteq Nat \ {0}

FilledRuns(c) == {i \in OwnRuns(c) : runs[i].outcome.fill # None}

LastDay(c) ==
  IF OwnRuns(c) = {} THEN 0 ELSE DayOf(runs[Greatest(OwnRuns(c))].request.decision_at)

\* Every row has the type its table declares and is filed under its own key;
\* tables with a row number have no gaps.
Numbered(table) == table \in Seq({table[i] : i \in DOMAIN table})

TypeOK ==
  /\ \A c \in DOMAIN experiments :
       experiments[c] \in [spec : Specs, status : {"active", "completed"},
                           manifest : {Catalogue[id].pack_id : id \in DOMAIN Catalogue}]
  /\ \A ref \in DOMAIN evidence :
       ref = QuoteRef(evidence[ref].pack, evidence[ref].quote) /\ EvidenceValid(evidence[ref])
  /\ Numbered(runs) /\ Numbered(fills)
  /\ \A i \in DOMAIN runs :
       runs[i].request \in Requests /\ runs[i].outcome.status \in {"Filled", "Rejected"}

\* The keys of v2_fills: each fill is the fill of its run's outcome, in run
\* order, and no run with a fill lacks its row, whatever was decided between.
FillsMirrorRuns ==
  /\ \A f \in DOMAIN fills :
       fills[f].run \in DOMAIN runs /\ fills[f].fill = runs[fills[f].run].outcome.fill
  /\ \A f, g \in DOMAIN fills : f < g => fills[f].run < fills[g].run
  /\ \A i \in DOMAIN runs :
       runs[i].outcome.fill # None => \E f \in DOMAIN fills : fills[f].run = i

\* The checks load_experiment makes on every read never fail on a file only
\* this program has written: what an experiment refers to stays registered.
EveryExperimentLoads == \A c \in DOMAIN experiments : ExperimentError(c) = ""

\* Replay verifies every experiment at any moment, whatever was imported,
\* registered or completed since its decisions (query.rs verify_replay).
ReplayAlwaysVerifies == \A c \in DOMAIN experiments : VerifyReplay(c)

\* One immutable one-sided quote supports at most one fill of an experiment
\* (EXECUTION_EVIDENCE.md): no counter of consumed quantity exists, so the
\* position, T+1, freshness and decision-order rules must add up to it.
OneFillPerEvidence ==
  \A c \in DOMAIN experiments : \A i, j \in FilledRuns(c) :
    runs[i].request.quote_ref = runs[j].request.quote_ref => i = j

\* No other trade of its symbol lies between trade i of an experiment and the
\* later trade j.
Follows(c, i, j) ==
  LET symbol == runs[j].request.signal.symbol IN
  /\ i < j /\ runs[i].request.signal.symbol = symbol
  /\ \A k \in FilledRuns(c) :
       i < k /\ k < j => runs[k].request.signal.symbol # symbol

\* The trades of a symbol are round trips: a sale follows a purchase made on an
\* earlier day, of the quantity it sells, and a purchase follows no purchase
\* (EXECUTION_EVIDENCE.md: T+1, a sale of all that is sellable, no purchase of
\* what is held).  Sizing, the position rule and T+1, when deciding and again
\* when the fill is applied, must agree for that.
RoundTrip(c, j) ==
  IF runs[j].request.signal.side = "Buy"
    THEN \A i \in FilledRuns(c) :
           Follows(c, i, j) => runs[i].request.signal.side = "Sell"
    ELSE \E i \in FilledRuns(c) :
           /\ Follows(c, i, j)
           /\ runs[i].request.signal.side = "Buy"
           /\ runs[i].outcome.fill.quantity = runs[j].outcome.fill.quantity
           /\ DayOf(runs[i].request.decision_at) < DayOf(runs[j].request.decision_at)

RoundTrips == \A c \in DOMAIN experiments : \A j \in FilledRuns(c) : RoundTrip(c, j)

\* A repeated request is answered with the recorded run for ever: after later
\* decisions, after evidence it lacked has arrived, after completion.
RetryAlwaysAnswered ==
  \A i \in DOMAIN runs :
    SubmitReply(runs[i].request) = Ok([id |-> i, run |-> runs[i], duplicate |-> TRUE])

\* Decisions of an experiment are recorded in the order of their instants, so
\* the end of a day cuts the record in two (HISTORICAL_STATE.md).
DecisionsInOrder ==
  \A i, j \in DOMAIN runs :
    i < j /\ runs[i].request.cycle_id = runs[j].request.cycle_id
      => runs[i].request.decision_at <= runs[j].request.decision_at

(***************************************************************************)
(* Inductive strengthening of EveryExperimentLoads, RetryAlwaysAnswered    *)
(* and DecisionsInOrder: what the record holds still agrees with what it   *)
(* refers to.                                                              *)
(***************************************************************************)
ReferencesIntact ==
  \A c \in DOMAIN experiments :
    LET spec == experiments[c].spec
        input == spec.strategy.research_input_id
    IN /\ SpecValid(spec) /\ spec.cycle_id = c
       /\ experiments[c].manifest = Catalogue[spec.pack].pack_id
       /\ Holds(packs, spec.pack, Catalogue[spec.pack])
       /\ Holds(artifacts, spec.strategy.strategy_version_id, spec.strategy)
       /\ Holds(inputs, input, ReviewedInputs[input])

CatalogueIntact == \A id \in DOMAIN packs : Holds(packs, id, Catalogue[id])

EvidenceHasPack ==
  \A ref \in DOMAIN evidence :
    /\ ref.pack \in DOMAIN packs /\ ref.pack \in DOMAIN Catalogue
    /\ InstrumentPinned(packs[ref.pack], evidence[ref])

RunStillOwned(i) ==
  LET req == runs[i].request IN
  /\ req.cycle_id \in DOMAIN experiments
  /\ OwnershipError(req) = ""
  /\ runs[i].versions = VersionsOf(PackOf(req.cycle_id))
  /\ PinnedIntact(runs[i], PackOf(req.cycle_id))

RunsStillOwned == \A i \in DOMAIN runs : RunStillOwned(i)

OneRunPerSignal ==
  \A i, j \in DOMAIN runs : SameSignal(runs[i], runs[j].request) => i = j

LastRunExists ==
  \A c \in DOMAIN experiments :
    OwnRuns(c) # {} => \E i \in OwnRuns(c) : \A j \in OwnRuns(c) : j <= i

IInv ==
  /\ TypeOK /\ FillsMirrorRuns
  /\ CatalogueIntact /\ ReferencesIntact /\ EvidenceHasPack
  /\ RunsStillOwned /\ OneRunPerSignal
  /\ LastRunExists /\ DecisionsInOrder

(***************************************************************************)
(* Inductive strengthening of ReplayAlwaysVerifies and OneFillPerEvidence: *)
(* the fills, applied, and the record, decided again, give one book.       *)
(***************************************************************************)
EvidenceIsImported ==
  \A ref \in DOMAIN evidence : \E input \in Imports :
    /\ ImportValid(input) /\ ref = QuoteRef(input.pack, input.quote)
    /\ SameImport(evidence[ref], input)

BookAgrees(c) ==
  LET replayed == Replayed(c) IN
  /\ EndsAsRecorded(c, replayed)
  /\ IsBook(replayed.state)
  /\ replayed.previous_at \in {0} \cup {runs[i].request.decision_at : i \in OwnRuns(c)}

BooksAgree == \A c \in DOMAIN experiments : BookAgrees(c)

FillsRestOnEvidence ==
  \A i \in DOMAIN runs :
    LET ev == runs[i].evidence
        req == runs[i].request
    IN runs[i].outcome.fill # None =>
         /\ ev # None /\ ev.execution # None
         /\ ev.quote.symbol = req.signal.symbol
         /\ ev.execution.side = req.signal.side
         /\ DayOf(ev.quote.observed_at) = DayOf(req.decision_at)

\* While the day of a fill lasts, the book refuses another of its side: it
\* holds a lot of that day, or after a sale none.
Spent(c, i) ==
  LET state == Replayed(c).state
      symbol == runs[i].request.signal.symbol
      day == DayOf(runs[i].request.decision_at)
  IN \/ \E j \in OwnRuns(c) : day < DayOf(runs[j].request.decision_at)
     \/ \E k \in LotsOf(state, symbol) : state.lots[k].bought_on = day
     \/ runs[i].request.signal.side = "Sell" /\ LotsOf(state, symbol) = {}

FilledIsSpent == \A c \in DOMAIN experiments : \A i \in FilledRuns(c) : Spent(c, i)

BooksIInv ==
  /\ IInv
  /\ EvidenceIsImported /\ BooksAgree /\ FillsRestOnEvidence
  /\ FilledIsSpent /\ OneFillPerEvidence

\* The view of a day that an experiment's decisions have passed never changes
\* again (HISTORICAL_STATE.md: the past of an append-only ledger is fixed).
HistoryNeverChanges ==
  [][\A c \in DOMAIN experiments, day \in Days :
       day < LastDay(c) => AsOfView(c, day)' = AsOfView(c, day)]_vars

\* A completed experiment stays completed and decides nothing more.
CompletedIsFinal ==
  [][\A c \in DOMAIN experiments :
       experiments[c].status = "completed" =>
         /\ experiments'[c] = experiments[c]
         /\ OwnRuns(c)' = OwnRuns(c)
         /\ LoadState(c)' = LoadState(c)]_vars

\* The place of a number in a set, and the number in a place.
Rank(S, i) == Cardinality({j \in S : j <= i})
Nth(S, n) == CHOOSE i \in S : Rank(S, i) = n

\* The ledger as one experiment sees it: its own row, its own runs and fills,
\* renumbered, and the evidence of its own pack.  Nothing else is kept.
OwnFills(c) == {f \in DOMAIN fills : runs[fills[f].run].request.cycle_id = c}
OwnPack(c) == {experiments[c].spec.pack}

Alone(c) == INSTANCE Ledger WITH
  packs       <- [id \in OwnPack(c) |-> packs[id]],
  experiments <- [k \in {c} |-> experiments[k]],
  evidence    <- [ref \in {r \in DOMAIN evidence : r.pack \in OwnPack(c)} |-> evidence[ref]],
  runs        <- [n \in 1..Cardinality(OwnRuns(c)) |-> runs[Nth(OwnRuns(c), n)]],
  fills       <- [n \in 1..Cardinality(OwnFills(c)) |->
                    [run  |-> Rank(OwnRuns(c), fills[Nth(OwnFills(c), n)].run),
                     fill |-> fills[Nth(OwnFills(c), n)].fill]]

\* A reply without the row number, which counts the runs of all experiments.
ReplyBody(reply) ==
  IF reply.ok THEN Ok([run |-> reply.value.run, duplicate |-> reply.value.duplicate]) ELSE reply

\* Experiments and packs are isolated (ADR-001, ADR-002): every request, fresh
\* or repeated, is answered as if no other experiment and no other pack's
\* evidence were in the file, equal quote and signal names included.
RepliesAreIsolated ==
  \A req \in Requests :
    req.cycle_id \in DOMAIN experiments =>
      ReplyBody(SubmitReply(req)) = ReplyBody(Alone(req.cycle_id)!SubmitReply(req))

\* Once a quote identity is stored, the answer to any import naming it, equal
\* or conflicting, at whatever later clock reading, never changes: the first
\* payload and its receipt time stand (SOURCE_TRUST.md).
ImportAnswersAreFinal ==
  [][\A input \in Imports, now \in Receipts :
       QuoteRef(input.pack, input.quote) \in DOMAIN evidence
         => IngestReply(input, now)' = IngestReply(input, now)]_vars

\* EXECUTION_EVIDENCE.md: "a refusal is recorded too".  An in-order request to
\* a live experiment, well formed and agreeing with its evidence, is recorded
\* as a fill or as a rejection.
EveryDecisionIsRecorded ==
  \A req \in Requests :
    LET ev == StoredEvidence(req.quote_ref) IN
    /\ ExperimentError(req.cycle_id) = "" /\ OwnershipError(req) = ""
    /\ experiments[req.cycle_id].status = "active" /\ InOrder(req)
    /\ RequestError(req) = "" /\ (ev # None => EvidenceError(req, ev) = "")
    => PriorRuns(req) # {} \/ SubmitReply(req).ok

(***************************************************************************)
(* The account each experiment implements.                                 *)
(***************************************************************************)
QuoteRefs == {QuoteRef(i.pack, i.quote) : i \in Imports}

FactsOf(ev) ==
  [side |-> IF ev.execution = None THEN "Neither" ELSE ev.execution.side,
   symbol |-> ev.quote.symbol, day |-> DayOf(ev.quote.observed_at)]

LotDay(c, s) ==
  LET state == LoadState(c).value IN
  IF LotsOf(state, s) = {} THEN 0
  ELSE Greatest({state.lots[i].bought_on : i \in LotsOf(state, s)})

Opened(c) == c \in DOMAIN experiments

ImplementedAccount == INSTANCE Account WITH
  Quotes <- QuoteRefs,
  status <- [c \in Cycles |-> IF Opened(c) THEN experiments[c].status ELSE "absent"],
  cash   <- [c \in Cycles |-> IF Opened(c) THEN LoadState(c).value.cash ELSE 0],
  bought <- [c \in Cycles |-> [s \in Symbols |-> IF Opened(c) THEN LotDay(c, s) ELSE 0]],
  today  <- [c \in Cycles |-> LastDay(c)],
  facts  <- [q \in DOMAIN evidence |-> FactsOf(evidence[q])],
  uses   <- [c \in Cycles |-> [q \in QuoteRefs |->
               Cardinality({i \in FilledRuns(c) : runs[i].request.quote_ref = q})]]

\* Every step of the ledger is a step of the account, or none.
ImplementsAccount == ImplementedAccount!Spec
=============================================================================
