------------------------------ MODULE Gateway ------------------------------
(***************************************************************************)
(* The HTTP gateway (v2/src/main.rs) between its clients and the store.    *)
(* A call travels to the process, waits there for the mutex around the     *)
(* store, is executed as one store operation, and its answer travels back. *)
(* A client repeats a call until it hears an answer other than a storage   *)
(* failure, then makes its next one.  Meanwhile clients time out and leave *)
(* copies of their calls behind, the storage fails, and the process dies   *)
(* with everything in flight and is started again on its file.             *)
(***************************************************************************)
EXTENDS Handlers

CONSTANT MaxFaults   \* timeouts, storage failures and deaths of a behaviour

ASSUME MaxFaultsAssumption == MaxFaults \in Nat

VARIABLES
  up,       \* the process is running
  sent,     \* copies of calls on their way to a handler
  waiting,  \* copies waiting for the mutex, first in first out
  answers,  \* client -> the answer to its latest copy, None before it exists
  copies,   \* client -> how often it has sent its current call
  pending,  \* client -> it is waiting for an answer
  known,    \* client -> runs anybody knew of when it sent its latest copy
  heard,    \* client -> [reply, known] of each call answered, in order
  faults

transport == <<up, sent, waiting, answers, copies, pending, known, heard, faults>>
gatewayVars == <<vars, transport>>

Turn(cl) == Len(heard[cl]) + 1
Copy(cl) == [client |-> cl, call |-> Turn(cl), copy |-> copies[cl]]
CallOf(a) == Program[a.client][a.call]

\* Its client no longer waits for this copy.
Abandoned(a) == ~pending[a.client] \/ a # Copy(a.client)

\* Runs some client has been told of.
Announced ==
  {heard[e[1]][e[2]].reply.value.id : e \in
    {e \in UNION {{cl} \X DOMAIN heard[cl] : cl \in Clients} :
       /\ Program[e[1]][e[2]].op = "submit"
       /\ heard[e[1]][e[2]].reply.ok}}

GatewayInit ==
  /\ Init
  /\ up = TRUE /\ sent = {} /\ waiting = <<>> /\ faults = 0
  /\ answers = [cl \in Clients |-> None]
  /\ copies = [cl \in Clients |-> 0]
  /\ pending = [cl \in Clients |-> FALSE]
  /\ known = [cl \in Clients |-> {}]
  /\ heard = [cl \in Clients |-> <<>>]

(***************************************************************************)
(* Clients.                                                                *)
(***************************************************************************)
Send(cl) ==
  /\ up /\ ~pending[cl] /\ Turn(cl) \in DOMAIN Program[cl]
  /\ copies' = [copies EXCEPT ![cl] = @ + 1]
  /\ pending' = [pending EXCEPT ![cl] = TRUE]
  /\ known' = [known EXCEPT ![cl] = Announced]
  /\ sent' = sent \cup {[Copy(cl) EXCEPT !.copy = @ + 1]}
  /\ UNCHANGED <<vars, up, waiting, answers, heard, faults>>

\* Any answer but a storage failure is taken as final.
Hear(cl) ==
  /\ answers[cl] # None
  /\ answers' = [answers EXCEPT ![cl] = None]
  /\ pending' = [pending EXCEPT ![cl] = FALSE]
  /\ IF answers[cl] = Err("storage_error") THEN UNCHANGED <<heard, copies>>
     ELSE /\ heard' = [heard EXCEPT ![cl] =
                         Append(@, [reply |-> answers[cl], known |-> known[cl]])]
          /\ copies' = [copies EXCEPT ![cl] = 0]
  /\ UNCHANGED <<vars, up, sent, waiting, known, faults>>

\* The client's own timeout, however far the copy or its answer has come.
TimeOut(cl) ==
  /\ pending[cl] /\ faults < MaxFaults
  /\ pending' = [pending EXCEPT ![cl] = FALSE]
  /\ answers' = [answers EXCEPT ![cl] = None]
  /\ faults' = faults + 1
  /\ UNCHANGED <<vars, up, sent, waiting, copies, known, heard>>

\* The connection was reset: the process died with the copy.
NoticeLoss(cl) ==
  /\ pending[cl] /\ answers[cl] = None
  /\ Copy(cl) \notin sent
  /\ \A i \in DOMAIN waiting : waiting[i] # Copy(cl)
  /\ pending' = [pending EXCEPT ![cl] = FALSE]
  /\ UNCHANGED <<vars, up, sent, waiting, answers, copies, known, heard, faults>>

(***************************************************************************)
(* The process.                                                            *)
(***************************************************************************)

\* The handler has parsed its input and asks for the mutex.
Arrive(a) ==
  /\ up /\ a \in sent
  /\ sent' = sent \ {a}
  /\ waiting' = Append(waiting, a)
  /\ UNCHANGED <<vars, up, answers, copies, pending, known, heard, faults>>

\* The connection of an abandoned copy is seen to be closed: its handler is
\* dropped where it waits.  A handler that holds the mutex runs to its end.
Cancel(a) ==
  /\ Abandoned(a)
  /\ \/ /\ a \in sent
        /\ sent' = sent \ {a}
        /\ UNCHANGED waiting
     \/ /\ \E i \in DOMAIN waiting :
             /\ waiting[i] = a
             /\ waiting' = SubSeq(waiting, 1, i - 1) \o SubSeq(waiting, i + 1, Len(waiting))
        /\ UNCHANGED sent
  /\ UNCHANGED <<vars, up, answers, copies, pending, known, heard, faults>>

Deliver(a, reply) ==
  answers' = IF Abandoned(a) THEN answers ELSE [answers EXCEPT ![a.client] = reply]

Serve ==
  /\ up /\ waiting # <<>>
  /\ \E now \in Receipts :
       LET a == Head(waiting) IN
       /\ StoreStep(CallOf(a), now)
       /\ Deliver(a, Reply(CallOf(a), now))
  /\ waiting' = Tail(waiting)
  /\ UNCHANGED <<up, sent, copies, pending, known, heard, faults>>

\* Mutant of StorageFails: the answer was made up before the commit failed.
AnsweredBeforeCommit ==
  /\ up /\ waiting # <<>> /\ faults < MaxFaults
  /\ \E now \in Receipts : Deliver(Head(waiting), Reply(CallOf(Head(waiting)), now))
  /\ waiting' = Tail(waiting)
  /\ faults' = faults + 1
  /\ UNCHANGED <<vars, up, sent, copies, pending, known, heard>>

\* The transaction cannot begin, write or commit: it is rolled back, and the
\* mutex is released by the error path too.
StorageFails ==
  /\ up /\ waiting # <<>> /\ faults < MaxFaults
  /\ Deliver(Head(waiting), Err("storage_error"))
  /\ waiting' = Tail(waiting)
  /\ faults' = faults + 1
  /\ UNCHANGED <<vars, up, sent, copies, pending, known, heard>>

\* What was committed stays; calls and answers in flight are gone.
Die ==
  /\ up /\ faults < MaxFaults
  /\ up' = FALSE
  /\ sent' = {} /\ waiting' = <<>>
  /\ answers' = [cl \in Clients |-> None]
  /\ faults' = faults + 1
  /\ UNCHANGED <<vars, copies, pending, known, heard>>

\* Mutant of Restart: a completed experiment is not recognised.
RestartUnlessCompleted ==
  /\ ~up
  /\ \A c \in DOMAIN experiments : experiments[c].status = "active"
  /\ up' = TRUE
  /\ UNCHANGED <<vars, sent, waiting, answers, copies, pending, known, heard, faults>>

\* The file is opened only if all that is in it loads.
Restart ==
  /\ ~up
  /\ FileLoads
  /\ up' = TRUE
  /\ UNCHANGED <<vars, sent, waiting, answers, copies, pending, known, heard, faults>>

GatewayNext ==
  \/ \E cl \in Clients : Send(cl) \/ Hear(cl) \/ TimeOut(cl) \/ NoticeLoss(cl)
  \/ \E a \in sent : Arrive(a) \/ Cancel(a)
  \/ \E i \in DOMAIN waiting : Cancel(waiting[i])
  \/ Serve \/ StorageFails \/ Die \/ Restart

GatewaySpec == GatewayInit /\ [][GatewayNext]_gatewayVars

\* The handler at the head of the queue gets the mutex and is done with it.
HandOver == up /\ waiting # <<>> /\ waiting' = Tail(waiting)

\* Clients repeat, connections deliver or break, ready handlers are scheduled,
\* the mutex is handed over, and a dead process is started again.
Fairness ==
  /\ \A cl \in Clients :
       WF_gatewayVars(Send(cl)) /\ WF_gatewayVars(Hear(cl)) /\ WF_gatewayVars(NoticeLoss(cl))
  /\ WF_gatewayVars(\E a \in sent : Arrive(a))
  /\ WF_waiting(HandOver)
  /\ WF_gatewayVars(Restart)

FairSpec == GatewaySpec /\ Fairness

(***************************************************************************)
(* Properties.                                                             *)
(***************************************************************************)
Answered == UNION {{cl} \X DOMAIN heard[cl] : cl \in Clients}
ReplyTo(e) == heard[e[1]][e[2]].reply
CallAt(e) == Program[e[1]][e[2]]

\* What the record holds of an answer that was a success.
Backed(call, value) ==
  \/ /\ call.op = "create"
     /\ value.spec.cycle_id \in DOMAIN experiments
     /\ experiments[value.spec.cycle_id].spec = call.arg
  \/ /\ call.op = "quote"
     /\ Holds(evidence, QuoteRef(call.arg.pack, call.arg.quote), value.evidence)
  \/ /\ call.op = "submit"
     /\ value.id \in DOMAIN runs /\ runs[value.id] = value.run
     /\ value.run.request = call.arg
  \/ /\ call.op = "complete"
     /\ call.arg \in DOMAIN experiments /\ experiments[call.arg].status = "completed"
  \/ call.op = "view" /\ call.arg \in DOMAIN experiments

\* An answer of success, heard or on its way, is in the record and stays there
\* as it was told, whatever died, failed or was repeated since (README.md: the
\* same payload returns the original result).
AcknowledgedIsRecorded ==
  /\ \A e \in Answered : ReplyTo(e).ok => Backed(CallAt(e), ReplyTo(e).value)
  /\ \A cl \in Clients :
       answers[cl] # None /\ answers[cl].ok =>
         Backed(Program[cl][Turn(cl)], answers[cl].value)

\* However often a request is sent and by whomever, at most one answer ever
\* calls its decision fresh (README.md: without a second fill).
FreshOnce ==
  \A e, f \in {g \in Answered : CallAt(g).op = "submit" /\ ReplyTo(g).ok} :
    /\ CallAt(e).arg = CallAt(f).arg
    /\ ~ReplyTo(e).value.duplicate /\ ~ReplyTo(f).value.duplicate
    => e = f

\* A view that was heard is the record at one moment: its cash and lots are
\* what the fills of its first runs_total decisions add up to; and that moment
\* is not before the view was asked for: no decision a client had been told of
\* by then is missing.
FirstRuns(c, n) == {i \in OwnRuns(c) : Cardinality({j \in OwnRuns(c) : j <= i}) <= n}

ViewsAreCurrent ==
  \A e \in Answered :
    CallAt(e).op = "view" /\ ReplyTo(e).ok =>
      LET c == CallAt(e).arg
          view == ReplyTo(e).value
          seen == FirstRuns(c, view.runs_total)
      IN /\ view.runs_total <= Cardinality(OwnRuns(c))
         /\ StateAfter(c, seen) = Ok(view.state)
         /\ heard[e[1]][e[2]].known \cap OwnRuns(c) \subseteq seen

\* README.md: a changed payload fails with 409.  A well-formed request, import
\* or specification that reuses a recorded identity for something else gets
\* 409 at any time, after completion and after restarts; the recorded one 200.
ChangedPayloadConflicts ==
  /\ \A i \in DOMAIN runs, req \in Requests :
       SameSignal(runs[i], req) /\ req.schema_version = 4 =>
         Status(SubmitReply(req)) = IF req = runs[i].request THEN 200 ELSE 409
  /\ \A input \in Imports, now \in Receipts :
       QuoteRef(input.pack, input.quote) \in DOMAIN evidence /\ ImportValid(input) =>
         Status(IngestReply(input, now)) =
           IF SameImport(StoredEvidence(QuoteRef(input.pack, input.quote)), input) THEN 200 ELSE 409
  /\ \A spec \in Specs :
       spec.cycle_id \in DOMAIN experiments /\ (SpecValid(spec) \/ ArtifactEdited(spec)) =>
         Status(CreateReply(spec)) =
           IF spec = experiments[spec.cycle_id].spec THEN 200 ELSE 409

\* The gateway keeps the promise of Session: faults, copies and delays are
\* invisible in the record.
Calls == UNION {{Program[cl][n] : n \in DOMAIN Program[cl]} : cl \in Clients}

Promised == INSTANCE Session WITH
  record  <- vars,
  held    <- {call \in Calls : InRecord(call)},
  turn    <- [cl \in Clients |-> Turn(cl)],
  refused <- [cl \in Clients |-> {n \in DOMAIN heard[cl] : ~heard[cl][n].reply.ok}]

ImplementsSession == Promised!SessionSpec

\* Every client hears an answer to every call of its program: no fault leaves
\* the mutex held, a file that cannot be opened or a client waiting for ever.
EveryCallAnswered == <>(\A cl \in Clients : Len(heard[cl]) = Len(Program[cl]))
=============================================================================
