--------------------------- MODULE Service_proofs ---------------------------
(***************************************************************************)
(* What those outside the store are told, for records of any length: the   *)
(* clients of the gateway, and processes that read the file beside it.     *)
(*                                                                         *)
(* Part I.  The transport is one more layer on Ledger_proofs: every step   *)
(* of the gateway is a step of the ledger or leaves it alone, so what a    *)
(* success told is there when it is told and stays there, because steps    *)
(* only add.  A copy of a call that comes late finds its effect in the     *)
(* record, and then it writes nothing.                                     *)
(*                                                                         *)
(* Part II.  A replay through a connection of its own reads the runs and   *)
(* then the fills, so a decision between the two can make it report a      *)
(* sound record as broken: that is the only reason it ever does, and what  *)
(* a reader is answered was so at some moment of its read.  The verdict of *)
(* a reproduction only moves on with the record, and two experiments that  *)
(* reproduce one strategy have decided the same.                           *)
(***************************************************************************)
EXTENDS Gateway, Research, Readers, Ledger_proofs

(***************************************************************************)
(* Part I.  Clients of the gateway, for every program of calls, any number *)
(* of clients and of faults.                                               *)
(***************************************************************************)

\* What ProgramAssumption says of one call.
IsCall(call) ==
  /\ call.op \in Ops
  /\ call.op = "create" => call.arg \in Specs
  /\ call.op = "quote"  => call.arg \in Imports
  /\ call.op = "submit" => call.arg \in Requests

Recorded(call, value) == Backed(call, value) /\ InRecord(call)

(***************************************************************************)
(* One call at the store.                                                  *)
(***************************************************************************)

\* A handler changes the record by one operation of the ledger, or not at all.
LEMMA StoreStepIsNext ==
  ASSUME NEW call, IsCall(call), NEW now \in Receipts, StoreStep(call, now)
  PROVE  [Next]_vars
<1>1. CASE UNCHANGED vars
  BY <1>1
<1>2. CASE Effect(call, now)
  BY <1>2 DEF Effect, Next, IsCall, CompleteExperiment
<1> QED
  BY <1>1, <1>2 DEF StoreStep

\* A completed experiment is never opened again.
LEMMA StaysCompleted ==
  ASSUME [Next]_vars, NEW c \in DOMAIN experiments, experiments[c].status = "completed"
  PROVE  c \in DOMAIN experiments' /\ experiments'[c].status = "completed"
<1>1. ASSUME NEW spec \in Specs, CreateExperiment(spec)
      PROVE  c \in DOMAIN experiments' /\ experiments'[c].status = "completed"
  BY <1>1, PutRow DEF CreateExperiment, Extends
<1>2. ASSUME NEW k \in DOMAIN experiments, CompleteExperiment(k)
      PROVE  c \in DOMAIN experiments' /\ experiments'[c].status = "completed"
  BY <1>2 DEF CompleteExperiment
<1>3. CASE experiments' = experiments
  BY <1>3
<1> QED
  BY <1>1, <1>2, <1>3 DEF Next, vars, RegisterReviewedPack, IngestQuote, Submit

\* What a call left in the record stays there.
LEMMA RecordedStays ==
  ASSUME IInv, [Next]_vars, NEW call, call.op \in Ops
  PROVE  /\ InRecord(call) => InRecord(call)'
         /\ \A value : Recorded(call, value) => Recorded(call, value)'
<1>1. OnlyAdds
  BY StepOnlyAdds
<1>2. /\ call.op = "create" => (InRecord(call) => InRecord(call)')
      /\ call.op = "quote" => (InRecord(call) => InRecord(call)')
      /\ call.op = "submit" => (InRecord(call) => InRecord(call)')
      /\ call.op = "view" => (InRecord(call) => InRecord(call)')
  BY <1>1 DEF InRecord, OnlyAdds, Extends
<1>3. call.op = "complete" => (InRecord(call) => InRecord(call)')
  BY StaysCompleted DEF InRecord
<1>4. ASSUME NEW value, Backed(call, value) PROVE Backed(call, value)'
  <2>1. CASE call.op = "create"
    BY <1>1, <1>4, <2>1 DEF Backed, OnlyAdds
  <2>2. CASE call.op = "quote"
    BY <1>1, <1>4, <2>2 DEF Backed, OnlyAdds, Extends, Holds
  <2>3. CASE call.op = "submit"
    BY <1>1, <1>4, <2>3 DEF Backed, OnlyAdds, Extends
  <2>4. CASE call.op = "complete"
    BY <1>4, <2>4, StaysCompleted DEF Backed
  <2>5. CASE call.op = "view"
    BY <1>1, <1>4, <2>5 DEF Backed, OnlyAdds
  <2> QED
    BY <2>1, <2>2, <2>3, <2>4, <2>5 DEF Ops
<1> QED
  BY <1>2, <1>3, <1>4 DEF Recorded, Ops

\* A call whose effect is on record writes nothing, whoever sends it again.
LEMMA HeldIsNotWritten ==
  ASSUME NEW call, call.op \in Ops, NEW now, InRecord(call)
  PROVE  ~Writes(call, now)
<1>1. CASE call.op = "create"
  BY <1>1 DEF Writes, InRecord
<1>2. CASE call.op = "quote"
  <2>1. QuoteRef(call.arg.pack, call.arg.quote) \in DOMAIN evidence
    BY <1>2 DEF InRecord
  <2>2. ~(IngestReply(call.arg, now).ok /\ IngestReply(call.arg, now).value.new)
    BY <2>1, FreshImport
  <2> QED
    BY <1>2, <2>2 DEF Writes, Reply
<1>3. CASE call.op = "submit"
  <2>1. PriorRuns(call.arg) # {}
    BY <1>3 DEF InRecord, PriorRuns, SameSignal
  <2>2. ~(SubmitReply(call.arg).ok /\ ~SubmitReply(call.arg).value.duplicate)
    BY <2>1, FreshSubmit
  <2> QED
    BY <1>3, <2>2 DEF Writes, Reply
<1>4. CASE call.op = "complete"
  BY <1>4 DEF Writes, InRecord
<1>5. CASE call.op = "view"
  BY <1>5 DEF Writes
<1> QED
  BY <1>1, <1>2, <1>3, <1>4, <1>5 DEF Ops

\* The answer of each route.
LEMMA Replies ==
  ASSUME NEW call, NEW now
  PROVE  /\ call.op = "create"   => Reply(call, now) = CreateReply(call.arg)
         /\ call.op = "quote"    => Reply(call, now) = IngestReply(call.arg, now)
         /\ call.op = "submit"   => Reply(call, now) = SubmitReply(call.arg)
         /\ call.op = "complete" => Reply(call, now) = CompleteReply(call.arg)
         /\ call.op = "view"     => Reply(call, now) = ViewReply(call.arg)
BY DEF Reply

\* A creation that succeeds finds or leaves the experiment it asked for.
LEMMA CreateIsRecorded ==
  ASSUME NEW call, call.op = "create", NEW now, StoreStep(call, now), Reply(call, now).ok,
         NEW value, value = Reply(call, now).value
  PROVE  Recorded(call, value)'
<1> DEFINE c == call.arg.cycle_id
<1>1. /\ \E status : CreateReply(call.arg) = Ok([spec |-> call.arg, status |-> status])
      /\ c \in DOMAIN experiments => experiments[c].spec = call.arg
  <2>1. CreateReply(call.arg).ok
    BY Replies
  <2>2. ~ArtifactEdited(call.arg) /\ SpecValid(call.arg)
    BY <2>1, Results DEF CreateReply
  <2>3. CASE c \in DOMAIN experiments
    <3>1. experiments[c].spec = call.arg /\ ExperimentError(c) = ""
      BY <2>1, <2>2, <2>3, Results DEF CreateReply
    <3> QED
      BY <2>2, <2>3, <3>1 DEF CreateReply
  <2>4. CASE c \notin DOMAIN experiments
    BY <2>1, <2>2, <2>4, Results DEF CreateReply
  <2> QED
    BY <2>3, <2>4
<1>2. value.spec = call.arg
  <2>1. PICK status : value = Ok([spec |-> call.arg, status |-> status]).value
    BY <1>1, Replies
  <2> QED
    BY <2>1 DEF Ok
<1>3. c \in DOMAIN experiments' /\ experiments'[c].spec = call.arg
  <2>1. CASE c \in DOMAIN experiments
    BY <1>1, <2>1 DEF StoreStep, Writes, vars
  <2>2. CASE c \notin DOMAIN experiments
    <3>1. CreateExperiment(call.arg)
      BY <2>2 DEF StoreStep, Writes, Effect
    <3> QED
      BY <3>1, PutRow DEF CreateExperiment, Holds
  <2> QED
    BY <2>1, <2>2
<1> QED
  BY <1>2, <1>3 DEF Recorded, Backed, InRecord

\* An import that succeeds returns the evidence that is stored for its quote.
LEMMA QuoteIsRecorded ==
  ASSUME NEW call, call.op = "quote", NEW now, StoreStep(call, now), Reply(call, now).ok,
         NEW value, value = Reply(call, now).value
  PROVE  Recorded(call, value)'
<1> DEFINE ref == QuoteRef(call.arg.pack, call.arg.quote)
<1>1. Reply(call, now) = IngestReply(call.arg, now)
  BY Replies
<1>2. ref \in DOMAIN evidence' /\ evidence'[ref] = value.evidence /\ SameImport(value.evidence, call.arg)
  <2>1. CASE value.new
    <3>1. value.evidence = EvidenceFrom(call.arg, now) /\ IngestQuote(call.arg, now)
      BY <1>1, <2>1, FreshImport DEF StoreStep, Writes, Effect
    <3>2. evidence' = Put(evidence, ref, value.evidence)
      BY <1>1, <3>1 DEF IngestQuote
    <3> QED
      BY <3>1, <3>2, PutRow DEF Holds, SameImport, EvidenceFrom
  <2>2. CASE ~value.new
    <3>1. /\ ref \in DOMAIN evidence /\ value.evidence = evidence[ref]
          /\ SameImport(evidence[ref], call.arg)
      <4>1. \A name : ~Err(name).ok
        BY DEF Err
      <4>2. \A v : Ok(v).value = v
        BY DEF Ok
      <4>3. value = IngestReply(call.arg, now).value /\ IngestReply(call.arg, now).ok
        BY <1>1
      <4>4. \/ value = [evidence |-> EvidenceFrom(call.arg, now), new |-> TRUE]
            \/ /\ ref \in DOMAIN evidence /\ SameImport(StoredEvidence(ref), call.arg)
               /\ value = [evidence |-> StoredEvidence(ref), new |-> FALSE]
        BY <4>1, <4>2, <4>3, Zenon DEF IngestReply
      <4> QED
        BY <2>2, <4>4 DEF StoredEvidence
    <3>2. evidence' = evidence
      BY <2>2 DEF StoreStep, Writes, vars
    <3> QED
      BY <3>1, <3>2
  <2> QED
    BY <2>1, <2>2
<1> QED
  BY <1>2 DEF Recorded, Backed, InRecord, Holds

\* A request that succeeds is answered with the run that is recorded for it.
LEMMA SubmitIsRecorded ==
  ASSUME TypeOK, NEW call, call.op = "submit", NEW now, StoreStep(call, now), Reply(call, now).ok,
         NEW value, value = Reply(call, now).value
  PROVE  Recorded(call, value)'
<1> DEFINE req == call.arg
<1>1. Reply(call, now) = SubmitReply(req)
  BY Replies
<1>2. value.id \in DOMAIN runs' /\ runs'[value.id] = value.run /\ value.run.request = req
  <2>1. CASE ~value.duplicate
    <3>1. Writes(call, now)
      BY <2>1 DEF Writes
    <3>2. Submit(req) /\ value.id = NextRun /\ value.run.request = req
      <4>1. Submit(req)
        BY <3>1 DEF StoreStep, Effect
      <4>2. SubmitReply(req).ok /\ ~SubmitReply(req).value.duplicate
        BY <1>1, <2>1
      <4>3. SubmitReply(req).value.id = NextRun /\ SubmitReply(req).value.run.request = req
        BY <4>2, FreshSubmit
      <4> QED
        BY <1>1, <4>1, <4>3
    <3> QED
      BY <1>1, <3>2, SubmitAppends
  <2>2. CASE value.duplicate
    <3> DEFINE i == CHOOSE j \in PriorRuns(req) : TRUE
    <3>1. ASSUME SubmitReply(req) = FreshReply(req, PackOf(req.cycle_id)) PROVE FALSE
      BY <1>1, <2>2, <3>1, Results DEF FreshReply, DecidedReply
    <3>2. PriorRuns(req) # {} /\ SubmitReply(req) = DuplicateReply(req, i, PackOf(req.cycle_id))
      BY <1>1, <3>1, Results DEF SubmitReply
    <3>3. value.id = i /\ value.run = runs[i] /\ runs[i].request = req
      BY <1>1, <3>2 DEF DuplicateReply, Ok, Err
    <3>4. i \in DOMAIN runs
      BY <3>2 DEF PriorRuns
    <3>5. runs' = runs
      BY <2>2 DEF StoreStep, Writes, vars
    <3> QED
      BY <3>3, <3>4, <3>5
  <2> QED
    BY <2>1, <2>2
<1> QED
  BY <1>2 DEF Recorded, Backed, InRecord

\* A completion that succeeds leaves a completed experiment, and a view that
\* succeeds is of an experiment there is.
LEMMA OthersAreRecorded ==
  ASSUME TypeOK, NEW call, call.op \in {"complete", "view"}, NEW now, StoreStep(call, now),
         Reply(call, now).ok, NEW value
  PROVE  Recorded(call, value)'
<1>1. call.arg \in DOMAIN experiments
  <2>1. CASE call.op = "complete"
    <3>1. CompleteReply(call.arg).ok
      BY <2>1, Replies
    <3> QED
      BY <3>1, Results DEF CompleteReply, ExperimentError
  <2>2. CASE call.op = "view"
    <3>1. ViewReply(call.arg).ok
      BY <2>2, Replies
    <3>2. ExperimentError(call.arg) = ""
      BY <3>1, Results DEF ViewReply
    <3> QED
      BY <3>2 DEF ExperimentError
  <2> QED
    BY <2>1, <2>2
<1>2. CASE call.op = "complete" /\ experiments[call.arg].status # "completed"
  <2>1. CompleteExperiment(call.arg)
    BY <1>2 DEF StoreStep, Writes, Effect
  <2>2. call.arg \in DOMAIN experiments' /\ experiments'[call.arg].status = "completed"
    BY <1>1, <2>1 DEF CompleteExperiment, TypeOK
  <2> QED
    BY <1>2, <2>2 DEF Recorded, Backed, InRecord
<1>3. CASE ~(call.op = "complete" /\ experiments[call.arg].status # "completed")
  <2>1. experiments' = experiments
    BY <1>3 DEF StoreStep, Writes, vars
  <2> QED
    BY <1>1, <1>3, <2>1 DEF Recorded, Backed, InRecord
<1> QED
  BY <1>2, <1>3

\* A success is told only of what is on record when it is told.
LEMMA SuccessIsRecorded ==
  ASSUME TypeOK, NEW call, call.op \in Ops, NEW now, StoreStep(call, now), Reply(call, now).ok,
         NEW value, value = Reply(call, now).value
  PROVE  Recorded(call, value)'
BY CreateIsRecorded, QuoteIsRecorded, SubmitIsRecorded, OthersAreRecorded DEF Ops

(***************************************************************************)
(* The inductive invariant.  Copies in flight are of calls their clients   *)
(* have come to; a client waits only for a call of its program; successes, *)
(* heard or on their way, are on record.                                   *)
(***************************************************************************)
InFlight ==
  {a \in [client : Clients, call : Nat, copy : Nat] :
     a.call \in DOMAIN Program[a.client] /\ a.call <= Turn(a.client)}

ClientsOK ==
  /\ copies \in [Clients -> Nat] /\ pending \in [Clients -> BOOLEAN]
  /\ answers = [cl \in Clients |-> answers[cl]]
  /\ heard = [cl \in Clients |-> heard[cl]]
  /\ \A cl \in Clients :
       /\ Numbered(heard[cl])
       /\ pending[cl] => Turn(cl) \in DOMAIN Program[cl]
       /\ answers[cl] # None => pending[cl]

FlightOK == sent \subseteq InFlight /\ waiting \in Seq(InFlight)

HeardRecorded ==
  \A cl \in Clients : \A n \in DOMAIN heard[cl] :
    /\ n \in DOMAIN Program[cl]
    /\ heard[cl][n].reply.ok => Recorded(Program[cl][n], heard[cl][n].reply.value)

ComingRecorded ==
  \A cl \in Clients :
    answers[cl] # None /\ answers[cl].ok => Recorded(Program[cl][Turn(cl)], answers[cl].value)

GatewayIInv == IInv /\ ClientsOK /\ FlightOK /\ HeardRecorded /\ ComingRecorded

\* A new gateway has an empty record and nobody waiting.
LEMMA InitGatewayIInv == GatewayInit => GatewayIInv
<1> SUFFICES ASSUME GatewayInit PROVE GatewayIInv
  OBVIOUS
<1>1. IInv
  BY InitIInv DEF GatewayInit
<1>2. \A cl \in Clients : heard[cl] = <<>> /\ answers[cl] = None /\ pending[cl] = FALSE
  BY DEF GatewayInit
<1>3. ClientsOK
  <2>1. Numbered(<<>>)
    BY DEF Numbered
  <2> QED
    BY <1>2, <2>1 DEF GatewayInit, ClientsOK
<1>4. FlightOK
  BY DEF GatewayInit, FlightOK
<1>5. HeardRecorded /\ ComingRecorded
  BY <1>2 DEF HeardRecorded, ComingRecorded
<1> QED
  BY <1>1, <1>3, <1>4, <1>5 DEF GatewayIInv

\* The copy at the head of the queue is of a call of its client's program.
LEMMA HeadIsCall ==
  ASSUME FlightOK, waiting # <<>>
  PROVE  /\ Head(waiting) \in InFlight
         /\ IsCall(CallOf(Head(waiting)))
         /\ Tail(waiting) \in Seq(InFlight)
<1>1. Head(waiting) \in InFlight /\ Tail(waiting) \in Seq(InFlight)
  BY HeadTailProperties DEF FlightOK
<1>2. IsCall(CallOf(Head(waiting)))
  BY <1>1, ProgramAssumption DEF InFlight, CallOf, IsCall
<1> QED
  BY <1>1, <1>2

\* Of all steps of the gateway only Serve touches the record, by one operation
\* of the ledger.
LEMMA GatewayStepIsNext ==
  ASSUME FlightOK, [GatewayNext]_gatewayVars
  PROVE  [Next]_vars
<1>1. CASE Serve
  <2>1. PICK now \in Receipts : StoreStep(CallOf(Head(waiting)), now)
    BY <1>1 DEF Serve
  <2>2. IsCall(CallOf(Head(waiting)))
    BY <1>1, HeadIsCall DEF Serve
  <2> QED
    BY <2>1, <2>2, StoreStepIsNext
<1>2. CASE ~Serve
  BY <1>2 DEF GatewayNext, gatewayVars, Send, Hear, TimeOut, NoticeLoss, Arrive, Cancel,
     StorageFails, Die, Restart
<1> QED
  BY <1>1, <1>2

\* A client hears one more answer, or none.
LEMMA HeardStep ==
  ASSUME ClientsOK, [GatewayNext]_gatewayVars
  PROVE  \/ heard' = heard
         \/ \E cl \in Clients :
              /\ Hear(cl)
              /\ heard' = [heard EXCEPT ![cl] =
                             Append(@, [reply |-> answers[cl], known |-> known[cl]])]
BY DEF GatewayNext, gatewayVars, transport, Send, Hear, TimeOut, NoticeLoss, Arrive, Cancel,
   Serve, StorageFails, Die, Restart

\* What Append does to the answers a client has heard.
LEMMA HearAppends ==
  ASSUME ClientsOK, NEW cl \in Clients, NEW row,
         heard' = [heard EXCEPT ![cl] = Append(@, row)]
  PROVE  /\ heard' = [k \in Clients |-> heard'[k]]
         /\ \A k \in Clients : k # cl => heard'[k] = heard[k]
         /\ Numbered(heard'[cl])
         /\ Len(heard[cl]) \in Nat /\ DOMAIN heard[cl] = 1..Len(heard[cl])
         /\ DOMAIN heard'[cl] = 1..Turn(cl)
         /\ Turn(cl)' = Turn(cl) + 1
         /\ \A n \in DOMAIN heard[cl] : heard'[cl][n] = heard[cl][n]
         /\ heard'[cl][Turn(cl)] = row
<1>1. heard'[cl] = Append(heard[cl], row) /\ Numbered(heard[cl])
  BY DEF ClientsOK
<1>2. /\ Numbered(heard'[cl])
      /\ Len(heard[cl]) \in Nat /\ DOMAIN heard[cl] = 1..Len(heard[cl])
      /\ DOMAIN heard'[cl] = 1..(Len(heard[cl]) + 1)
      /\ \A n \in DOMAIN heard[cl] : heard'[cl][n] = heard[cl][n]
      /\ heard'[cl][Len(heard[cl]) + 1] = row
  BY <1>1, AppendRow
<1>3. Len(heard'[cl]) = Len(heard[cl]) + 1
  BY <1>2, AppendRow
<1> QED
  BY <1>2, <1>3 DEF ClientsOK, Turn

\* An answer reaches only a client that waits for that copy.
LEMMA DeliverStep ==
  ASSUME ClientsOK, NEW a, NEW reply, Deliver(a, reply)
  PROVE  /\ answers' = [cl \in Clients |-> answers'[cl]]
         /\ \A cl \in Clients :
              \/ answers'[cl] = answers[cl]
              \/ pending[cl] /\ a.client = cl /\ a.call = Turn(cl) /\ answers'[cl] = reply
<1>1. CASE Abandoned(a)
  BY <1>1 DEF Deliver, ClientsOK
<1>2. CASE ~Abandoned(a)
  <2>1. pending[a.client] /\ a = Copy(a.client) /\ answers' = [answers EXCEPT ![a.client] = reply]
    BY <1>2 DEF Deliver, Abandoned
  <2>2. a.call = Turn(a.client)
    <3>1. Copy(a.client).call = Turn(a.client)
      BY DEF Copy
    <3> QED
      BY <2>1, <3>1
  <2> QED
    BY <2>1, <2>2 DEF ClientsOK
<1> QED
  BY <1>1, <1>2

\* Every step that is not of one client leaves what clients know alone, but
\* for an answer to one that waits.
LEMMA ClientsKeep ==
  ASSUME ClientsOK, [GatewayNext]_gatewayVars
  PROVE  ClientsOK'
<1>1. CASE UNCHANGED gatewayVars
  BY <1>1 DEF gatewayVars, transport, ClientsOK, Turn
<1>2. ASSUME NEW cl \in Clients, Send(cl) PROVE ClientsOK'
  BY <1>2 DEF Send, ClientsOK, Turn
<1>3. ASSUME NEW cl \in Clients, Hear(cl) PROVE ClientsOK'
  <2>1. /\ copies' \in [Clients -> Nat] /\ pending' \in [Clients -> BOOLEAN]
        /\ answers' = [k \in Clients |-> answers'[k]]
        /\ ~pending'[cl] /\ answers'[cl] = None
        /\ \A k \in Clients : k # cl => pending'[k] = pending[k] /\ answers'[k] = answers[k]
    <3>1. /\ answers' = [answers EXCEPT ![cl] = None]
          /\ pending' = [pending EXCEPT ![cl] = FALSE]
          /\ copies' = copies \/ copies' = [copies EXCEPT ![cl] = 0]
      BY <1>3 DEF Hear
    <3> QED
      BY <3>1 DEF ClientsOK
  <2>2. /\ heard' = [k \in Clients |-> heard'[k]]
        /\ Numbered(heard'[cl])
        /\ \A k \in Clients : k # cl => heard'[k] = heard[k]
    <3>1. CASE heard' = heard
      BY <3>1 DEF ClientsOK
    <3>2. CASE heard' # heard
      <4>1. heard' = [heard EXCEPT ![cl] = Append(@, [reply |-> answers[cl], known |-> known[cl]])]
        BY <1>3, <3>2 DEF Hear
      <4> QED
        BY <4>1, HearAppends
    <3> QED
      BY <3>1, <3>2
  <2>3. \A k \in Clients : k # cl => Turn(k)' = Turn(k)
    BY <2>2 DEF Turn
  <2> QED
    BY <2>1, <2>2, <2>3 DEF ClientsOK
<1>4. ASSUME NEW cl \in Clients, TimeOut(cl) \/ NoticeLoss(cl) PROVE ClientsOK'
  BY <1>4 DEF TimeOut, NoticeLoss, ClientsOK, Turn
<1>5. ASSUME NEW a, Arrive(a) \/ Cancel(a) PROVE ClientsOK'
  BY <1>5 DEF Arrive, Cancel, ClientsOK, Turn
<1>6. ASSUME NEW a, NEW reply, Deliver(a, reply), UNCHANGED <<copies, pending, heard>>
      PROVE  ClientsOK'
  BY <1>6, DeliverStep DEF ClientsOK, Turn
<1>7. CASE Serve \/ StorageFails
  BY <1>6, <1>7 DEF Serve, StorageFails
<1>8. CASE Die \/ Restart
  BY <1>8 DEF Die, Restart, ClientsOK, Turn
<1> QED
  BY <1>1, <1>2, <1>3, <1>4, <1>5, <1>7, <1>8 DEF GatewayNext

\* Turns only come: a copy in flight stays one of a call its client has come to.
LEMMA FlightGrows ==
  ASSUME ClientsOK, [GatewayNext]_gatewayVars
  PROVE  /\ \A cl \in Clients : Turn(cl) \in Nat /\ Turn(cl)' \in Nat /\ Turn(cl) <= Turn(cl)'
         /\ InFlight \subseteq InFlight'
<1>1. \A cl \in Clients : Turn(cl) \in Nat /\ Turn(cl)' \in Nat /\ Turn(cl) <= Turn(cl)'
  <2>1. \A cl \in Clients : Len(heard[cl]) \in Nat
    BY AppendRow DEF ClientsOK
  <2>2. CASE heard' = heard
    BY <2>1, <2>2 DEF Turn
  <2>3. ASSUME NEW k \in Clients, NEW row, heard' = [heard EXCEPT ![k] = Append(@, row)],
               NEW cl \in Clients
        PROVE  Turn(cl) \in Nat /\ Turn(cl)' \in Nat /\ Turn(cl) <= Turn(cl)'
    <3>1. Turn(k)' = Turn(k) + 1 /\ (cl # k => Turn(cl)' = Turn(cl))
      BY <2>3, HearAppends DEF Turn
    <3> QED
      BY <2>1, <3>1 DEF Turn
  <2> QED
    BY <2>2, <2>3, HeardStep
<1>2. InFlight \subseteq InFlight'
  BY <1>1 DEF InFlight
<1> QED
  BY <1>1, <1>2

\* Copies are made by Send alone; queueing, serving and dropping keep the rest.
LEMMA FlightKeeps ==
  ASSUME ClientsOK, FlightOK, [GatewayNext]_gatewayVars
  PROVE  FlightOK'
<1>1. InFlight \subseteq InFlight'
  BY FlightGrows
<1>2. SUFFICES sent' \subseteq InFlight /\ waiting' \in Seq(InFlight)
  BY <1>1, SeqMonotonic DEF FlightOK
<1>3. CASE UNCHANGED gatewayVars
  BY <1>3 DEF gatewayVars, transport, FlightOK
<1>4. ASSUME NEW cl \in Clients, Send(cl) PROVE sent' \subseteq InFlight /\ waiting' = waiting
  <2> DEFINE a == [Copy(cl) EXCEPT !.copy = @ + 1]
  <2>1. a = [client |-> cl, call |-> Turn(cl), copy |-> copies[cl] + 1]
    BY DEF Copy
  <2>2. copies[cl] + 1 \in Nat /\ Turn(cl) \in Nat /\ Turn(cl) \in DOMAIN Program[cl]
    BY <1>4, FlightGrows DEF ClientsOK, Send
  <2>3. a \in InFlight
    BY <2>1, <2>2 DEF InFlight
  <2> QED
    BY <1>4, <2>3 DEF Send, FlightOK
<1>5. ASSUME NEW cl \in Clients, Hear(cl) \/ TimeOut(cl) \/ NoticeLoss(cl)
      PROVE  sent' = sent /\ waiting' = waiting
  BY <1>5 DEF Hear, TimeOut, NoticeLoss
<1>6. ASSUME NEW a, Arrive(a) PROVE sent' \subseteq InFlight /\ waiting' \in Seq(InFlight)
  BY <1>6, AppendProperties DEF Arrive, FlightOK
<1>7. ASSUME NEW a, Cancel(a) PROVE sent' \subseteq InFlight /\ waiting' \in Seq(InFlight)
  <2>1. CASE waiting' = waiting
    BY <1>7, <2>1 DEF Cancel, FlightOK
  <2>2. ASSUME NEW i \in DOMAIN waiting,
               waiting' = SubSeq(waiting, 1, i - 1) \o SubSeq(waiting, i + 1, Len(waiting))
        PROVE  waiting' \in Seq(InFlight)
    <3>1. Len(waiting) \in Nat /\ DOMAIN waiting = 1..Len(waiting)
      BY LenProperties DEF FlightOK
    <3>2. /\ SubSeq(waiting, 1, i - 1) \in Seq(InFlight)
          /\ SubSeq(waiting, i + 1, Len(waiting)) \in Seq(InFlight)
      BY <3>1, SubSeqProperties DEF FlightOK
    <3> QED
      BY <2>2, <3>2, ConcatProperties
  <2> QED
    BY <1>7, <2>1, <2>2 DEF Cancel, FlightOK
<1>8. CASE Serve \/ StorageFails
  BY <1>8, HeadIsCall DEF Serve, StorageFails, FlightOK
<1>9. CASE Die \/ Restart
  BY <1>9, EmptySeq DEF Die, Restart, FlightOK
<1> QED
  BY <1>3, <1>4, <1>5, <1>6, <1>7, <1>8, <1>9 DEF GatewayNext, FlightOK

\* A call of a program is a call.
LEMMA ProgramCalls ==
  ASSUME NEW cl \in Clients, NEW n \in DOMAIN Program[cl]
  PROVE  IsCall(Program[cl][n])
BY ProgramAssumption DEF IsCall

\* Where an answer on its way comes from.
LEMMA AnswersStep ==
  ASSUME ClientsOK, FlightOK, [GatewayNext]_gatewayVars,
         NEW cl \in Clients, answers'[cl] # None, answers'[cl].ok
  PROVE  /\ Turn(cl)' = Turn(cl)
         /\ Turn(cl) \in DOMAIN Program[cl]
         /\ \/ answers'[cl] = answers[cl]
            \/ /\ Serve /\ Head(waiting).client = cl
               /\ \E now \in Receipts :
                    /\ StoreStep(Program[cl][Turn(cl)], now)
                    /\ answers'[cl] = Reply(Program[cl][Turn(cl)], now)
<1>1. heard'[cl] = heard[cl]
  <2>1. ASSUME NEW k \in Clients, Hear(k), k = cl PROVE FALSE
    BY <2>1 DEF Hear, ClientsOK
  <2>2. ASSUME NEW k \in Clients, NEW row, heard' = [heard EXCEPT ![k] = Append(@, row)], k # cl
        PROVE  heard'[cl] = heard[cl]
    BY <2>2, HearAppends
  <2> QED
    BY <2>1, <2>2, HeardStep
<1>2. Turn(cl)' = Turn(cl)
  BY <1>1 DEF Turn
<1>3. \/ answers'[cl] = answers[cl]
      \/ pending[cl] /\ Serve /\ Head(waiting).client = cl /\
           \E now \in Receipts :
             /\ StoreStep(Program[cl][Turn(cl)], now)
             /\ answers'[cl] = Reply(Program[cl][Turn(cl)], now)
  <2>1. CASE Serve
    <3>1. PICK now \in Receipts : /\ StoreStep(CallOf(Head(waiting)), now)
                                  /\ Deliver(Head(waiting), Reply(CallOf(Head(waiting)), now))
      BY <2>1 DEF Serve
    <3>2. \/ answers'[cl] = answers[cl]
          \/ /\ pending[cl]
             /\ Head(waiting).client = cl /\ Head(waiting).call = Turn(cl)
             /\ answers'[cl] = Reply(CallOf(Head(waiting)), now)
      BY <3>1, DeliverStep
    <3> QED
      BY <2>1, <3>1, <3>2 DEF CallOf
  <2>2. CASE StorageFails
    BY <2>2, DeliverStep, Results DEF StorageFails
  <2>3. ASSUME NEW k \in Clients, Hear(k) \/ TimeOut(k) PROVE answers'[cl] = answers[cl]
    BY <2>3 DEF Hear, TimeOut, ClientsOK
  <2>4. CASE Die
    BY <2>4 DEF Die
  <2> QED
    BY <2>1, <2>2, <2>3, <2>4 DEF GatewayNext, gatewayVars, transport, Send, NoticeLoss, Arrive,
       Cancel, Restart
<1>4. pending[cl] => Turn(cl) \in DOMAIN Program[cl]
  BY DEF ClientsOK
<1> QED
  BY <1>2, <1>3, <1>4 DEF ClientsOK

\* A success on its way is on record when it is made up, and stays there.
LEMMA ComingKeeps ==
  ASSUME GatewayIInv, [GatewayNext]_gatewayVars
  PROVE  ComingRecorded'
<1> SUFFICES ASSUME NEW cl \in Clients, answers'[cl] # None, answers'[cl].ok
             PROVE  Recorded(Program[cl][Turn(cl)], answers[cl].value)'
  BY DEF ComingRecorded
<1>1. ClientsOK /\ FlightOK /\ IInv /\ ComingRecorded /\ [Next]_vars
  BY GatewayStepIsNext DEF GatewayIInv
<1>2. PICK n \in DOMAIN Program[cl] : n = Turn(cl) /\ n = Turn(cl)'
  BY <1>1, AnswersStep
<1>3. PICK value : value = answers'[cl].value
  OBVIOUS
<1>4. Program[cl][n].op \in Ops
  BY ProgramCalls DEF IsCall
<1>5. Recorded(Program[cl][n], value)'
  <2>1. CASE answers'[cl] = answers[cl]
    <3>1. Recorded(Program[cl][n], value)
      BY <1>1, <1>2, <1>3, <2>1 DEF ComingRecorded
    <3> QED
      BY <1>1, <1>4, <3>1, RecordedStays
  <2>2. CASE answers'[cl] # answers[cl]
    <3>1. PICK now \in Receipts : /\ StoreStep(Program[cl][n], now)
                                  /\ answers'[cl] = Reply(Program[cl][n], now)
      BY <1>1, <1>2, <2>2, AnswersStep
    <3>2. Reply(Program[cl][n], now).ok /\ value = Reply(Program[cl][n], now).value
      BY <1>3, <3>1
    <3> QED
      BY <1>1, <1>4, <3>1, <3>2, SuccessIsRecorded DEF IInv
  <2> QED
    BY <2>1, <2>2
<1> QED
  BY <1>2, <1>3, <1>5 DEF Recorded, Backed, InRecord

\* An answer is heard as it came.
LEMMA HeardKeeps ==
  ASSUME GatewayIInv, [GatewayNext]_gatewayVars
  PROVE  HeardRecorded'
<1>1. ClientsOK /\ FlightOK /\ IInv /\ HeardRecorded /\ ComingRecorded /\ [Next]_vars
  BY GatewayStepIsNext DEF GatewayIInv
<1> SUFFICES ASSUME NEW cl \in Clients, NEW n \in DOMAIN heard'[cl]
             PROVE  /\ n \in DOMAIN Program[cl]
                    /\ heard'[cl][n].reply.ok =>
                         \A value : value = heard'[cl][n].reply.value
                           => Recorded(Program[cl][n], value)'
  BY ZenonT(40) DEF HeardRecorded, Recorded, Backed, InRecord
<1>2. ASSUME n \in DOMAIN heard[cl], heard'[cl][n] = heard[cl][n]
      PROVE  /\ n \in DOMAIN Program[cl]
             /\ heard'[cl][n].reply.ok =>
                  \A value : value = heard'[cl][n].reply.value
                    => Recorded(Program[cl][n], value)'
  <2>1. n \in DOMAIN Program[cl]
    BY <1>1, <1>2 DEF HeardRecorded
  <2>2. Program[cl][n].op \in Ops
    BY <2>1, ProgramCalls DEF IsCall
  <2>3. ASSUME heard'[cl][n].reply.ok, NEW value, value = heard'[cl][n].reply.value
        PROVE  Recorded(Program[cl][n], value)'
    <3>1. Recorded(Program[cl][n], value)
      BY <1>1, <1>2, <2>3 DEF HeardRecorded
    <3> QED
      BY <1>1, <2>2, <3>1, RecordedStays
  <2> QED
    BY <2>1, <2>3
<1>3. CASE heard'[cl] = heard[cl]
  BY <1>2, <1>3
<1>4. CASE heard'[cl] # heard[cl]
  <2>1. PICK k \in Clients : /\ Hear(k)
                             /\ heard' = [heard EXCEPT ![k] =
                                  Append(@, [reply |-> answers[k], known |-> known[k]])]
    BY <1>1, <1>4, HeardStep
  <2>2. k = cl
    BY <1>1, <1>4, <2>1, HearAppends
  <2>3. /\ DOMAIN heard[cl] = 1..Len(heard[cl]) /\ Len(heard[cl]) \in Nat
        /\ DOMAIN heard'[cl] = 1..Turn(cl)
        /\ \A m \in DOMAIN heard[cl] : heard'[cl][m] = heard[cl][m]
        /\ heard'[cl][Turn(cl)] = [reply |-> answers[cl], known |-> known[cl]]
    BY <1>1, <2>1, <2>2, HearAppends
  <2>4. CASE n \in DOMAIN heard[cl]
    BY <1>2, <2>3, <2>4
  <2>5. CASE n \notin DOMAIN heard[cl]
    <3>1. n = Turn(cl)
      BY <2>3, <2>5 DEF Turn
    <3>2. answers[cl] # None /\ vars' = vars /\ n \in DOMAIN Program[cl]
      BY <1>1, <2>1, <2>2, <3>1 DEF Hear, ClientsOK
    <3>3. heard'[cl][n].reply = answers[cl]
      BY <2>3, <3>1
    <3>4. ASSUME answers[cl].ok, NEW value, value = answers[cl].value
          PROVE  Recorded(Program[cl][n], value)'
      <4>1. Recorded(Program[cl][n], value)
        BY <1>1, <3>1, <3>2, <3>4 DEF ComingRecorded
      <4>2. Program[cl][n].op \in Ops
        BY <3>2, ProgramCalls DEF IsCall
      <4> QED
        BY <1>1, <4>1, <4>2, RecordedStays
    <3> QED
      BY <3>2, <3>3, <3>4
  <2> QED
    BY <2>4, <2>5
<1> QED
  BY <1>3, <1>4

\* The invariant of the gateway is inductive.
LEMMA GatewayKeeps == GatewayIInv /\ [GatewayNext]_gatewayVars => GatewayIInv'
<1> SUFFICES ASSUME GatewayIInv, [GatewayNext]_gatewayVars PROVE GatewayIInv'
  OBVIOUS
<1>1. IInv /\ ClientsOK /\ FlightOK /\ [Next]_vars
  BY GatewayStepIsNext DEF GatewayIInv
<1>2. IInv'
  BY <1>1, NextIInv
<1> QED
  BY <1>1, <1>2, ClientsKeep, FlightKeeps, ComingKeeps, HeardKeeps DEF GatewayIInv

(***************************************************************************)
(* The theorems.                                                           *)
(***************************************************************************)

\* Every reachable state of the gateway has the inductive invariant.
THEOREM GatewayInvariant == GatewaySpec => []GatewayIInv
<1>1. GatewayInit => GatewayIInv
  BY InitGatewayIInv
<1>2. GatewayIInv /\ [GatewayNext]_gatewayVars => GatewayIInv'
  BY GatewayKeeps
<1> QED
  BY <1>1, <1>2, PTL DEF GatewaySpec

\* The record behind the gateway is a ledger: whatever clients, network, storage
\* and process do, it moves by the operations of the store, so every theorem of
\* Ledger_proofs holds of it.
THEOREM GatewayKeepsALedger == GatewaySpec => Spec
<1>1. GatewayInit => Init
  BY DEF GatewayInit
<1>2. GatewayIInv /\ [GatewayNext]_gatewayVars => [Next]_vars
  BY GatewayStepIsNext DEF GatewayIInv
<1> QED
  BY <1>1, <1>2, GatewayInvariant, PTL DEF GatewaySpec, Spec

\* A success that was heard or is on its way is in the record, and stays there.
THEOREM SuccessesAreRecorded == GatewaySpec => []AcknowledgedIsRecorded
<1>1. GatewayIInv => AcknowledgedIsRecorded
  <2> SUFFICES ASSUME GatewayIInv PROVE AcknowledgedIsRecorded
    OBVIOUS
  <2>1. ASSUME NEW e \in Answered, ReplyTo(e).ok PROVE Backed(CallAt(e), ReplyTo(e).value)
    <3>1. e[1] \in Clients /\ e[2] \in DOMAIN heard[e[1]]
      BY <2>1 DEF Answered
    <3> QED
      BY <2>1, <3>1 DEF GatewayIInv, HeardRecorded, Recorded, ReplyTo, CallAt
  <2>2. \A cl \in Clients :
          answers[cl] # None /\ answers[cl].ok =>
            Backed(Program[cl][Turn(cl)], answers[cl].value)
    BY DEF GatewayIInv, ComingRecorded, Recorded
  <2> QED
    BY <2>1, <2>2 DEF AcknowledgedIsRecorded
<1> QED
  BY <1>1, GatewayInvariant, PTL

(***************************************************************************)
(* At most one answer calls a decision fresh.  Answers on their way count  *)
(* as well as answers heard: a fresh answer is made up only for a request  *)
(* that no run is recorded for, and every fresh answer there is by then    *)
(* has its run on record.                                                  *)
(***************************************************************************)
Fresh(reply) == reply.ok /\ ~reply.value.duplicate

ToldFresh(cl, n) ==
  /\ n \in DOMAIN Program[cl] /\ Program[cl][n].op = "submit"
  /\ \/ n \in DOMAIN heard[cl] /\ Fresh(heard[cl][n].reply)
     \/ n = Turn(cl) /\ answers[cl] # None /\ Fresh(answers[cl])

FreshIInv ==
  \A cl, k \in Clients : \A n \in DOMAIN Program[cl], m \in DOMAIN Program[k] :
    /\ ToldFresh(cl, n) /\ ToldFresh(k, m)
    /\ Program[cl][n].arg = Program[k][m].arg
    => cl = k /\ n = m

\* The run of a fresh answer is on record.
LEMMA FreshIsRecorded ==
  ASSUME GatewayIInv, NEW cl \in Clients, NEW n, ToldFresh(cl, n)
  PROVE  \E i \in DOMAIN runs : runs[i].request = Program[cl][n].arg
<1>1. Program[cl][n].op = "submit" /\ InRecord(Program[cl][n])
  BY DEF GatewayIInv, HeardRecorded, ComingRecorded, Recorded, ToldFresh, Fresh
<1> QED
  BY <1>1 DEF InRecord

\* A fresh answer was there before, or it is made up now, for a request that no
\* run is recorded for.
LEMMA FreshStep ==
  ASSUME GatewayIInv, [GatewayNext]_gatewayVars, NEW cl \in Clients, NEW n, ToldFresh(cl, n)'
  PROVE  \/ ToldFresh(cl, n)
         \/ /\ cl = Head(waiting).client /\ n = Turn(cl)
            /\ ~\E i \in DOMAIN runs : runs[i].request = Program[cl][n].arg
<1>1. ClientsOK /\ FlightOK
  BY DEF GatewayIInv
<1>2. n \in DOMAIN Program[cl] /\ Program[cl][n].op = "submit"
  BY DEF ToldFresh
<1>3. CASE n \in DOMAIN heard'[cl] /\ Fresh(heard'[cl][n].reply)
  <2>1. CASE heard'[cl] = heard[cl]
    BY <1>2, <1>3, <2>1 DEF ToldFresh
  <2>2. CASE heard'[cl] # heard[cl]
    <3>1. PICK k \in Clients : /\ Hear(k)
                               /\ heard' = [heard EXCEPT ![k] =
                                    Append(@, [reply |-> answers[k], known |-> known[k]])]
      BY <1>1, <2>2, HeardStep
    <3>2. k = cl
      BY <1>1, <2>2, <3>1, HearAppends
    <3>3. /\ DOMAIN heard[cl] = 1..Len(heard[cl]) /\ Len(heard[cl]) \in Nat
          /\ DOMAIN heard'[cl] = 1..Turn(cl)
          /\ \A m \in DOMAIN heard[cl] : heard'[cl][m] = heard[cl][m]
          /\ heard'[cl][Turn(cl)] = [reply |-> answers[cl], known |-> known[cl]]
      BY <1>1, <3>1, <3>2, HearAppends
    <3>4. CASE n \in DOMAIN heard[cl]
      BY <1>2, <1>3, <3>3, <3>4 DEF ToldFresh
    <3>5. CASE n \notin DOMAIN heard[cl]
      <4>1. n = Turn(cl)
        BY <1>3, <3>3, <3>5 DEF Turn
      <4>2. answers[cl] # None
        BY <3>1, <3>2 DEF Hear
      <4>3. heard'[cl][n].reply = answers[cl]
        BY <3>3, <4>1
      <4> QED
        BY <1>2, <1>3, <4>1, <4>2, <4>3 DEF ToldFresh
    <3> QED
      BY <3>4, <3>5
  <2> QED
    BY <2>1, <2>2
<1>4. CASE n = Turn(cl)' /\ answers'[cl] # None /\ Fresh(answers'[cl])
  <2>1. /\ Turn(cl)' = Turn(cl)
        /\ \/ answers'[cl] = answers[cl]
           \/ /\ Head(waiting).client = cl
              /\ \E now : answers'[cl] = Reply(Program[cl][Turn(cl)], now)
    BY <1>1, <1>4, AnswersStep DEF Fresh
  <2>2. CASE answers'[cl] = answers[cl]
    BY <1>2, <1>4, <2>1, <2>2 DEF ToldFresh
  <2>3. CASE /\ Head(waiting).client = cl
             /\ \E now : answers'[cl] = Reply(Program[cl][Turn(cl)], now)
    <3>1. answers'[cl] = SubmitReply(Program[cl][n].arg)
      BY <1>2, <1>4, <2>1, <2>3, Replies
    <3>2. PriorRuns(Program[cl][n].arg) = {}
      BY <1>4, <3>1, FreshSubmit DEF Fresh
    <3>3. ~\E i \in DOMAIN runs : runs[i].request = Program[cl][n].arg
      BY <3>2 DEF PriorRuns, SameSignal
    <3> QED
      BY <1>4, <2>1, <2>3, <3>3
  <2> QED
    BY <2>1, <2>2, <2>3
<1> QED
  BY <1>3, <1>4 DEF ToldFresh

\* Two fresh answers are never for one request.
LEMMA FreshKeeps == GatewayIInv /\ FreshIInv /\ [GatewayNext]_gatewayVars => FreshIInv'
<1> SUFFICES ASSUME GatewayIInv, FreshIInv, [GatewayNext]_gatewayVars,
                    NEW cl \in Clients, NEW k \in Clients,
                    NEW n \in DOMAIN Program[cl], NEW m \in DOMAIN Program[k],
                    ToldFresh(cl, n)', ToldFresh(k, m)',
                    Program[cl][n].arg = Program[k][m].arg
             PROVE  cl = k /\ n = m
  BY DEF FreshIInv
<1>1. CASE ToldFresh(cl, n) /\ ToldFresh(k, m)
  BY <1>1 DEF FreshIInv
<1>2. CASE ToldFresh(cl, n) /\ ~ToldFresh(k, m)
  BY <1>2, FreshIsRecorded, FreshStep
<1>3. CASE ~ToldFresh(cl, n) /\ ToldFresh(k, m)
  BY <1>3, FreshIsRecorded, FreshStep
<1>4. CASE ~ToldFresh(cl, n) /\ ~ToldFresh(k, m)
  BY <1>4, FreshStep
<1> QED
  BY <1>1, <1>2, <1>3, <1>4

\* However often a request is sent, and by whomever, at most one client is ever
\* told that its decision is new; all others hear of the original.
THEOREM FreshAnswersAreUnique == GatewaySpec => []FreshOnce
<1>1. GatewayInit => FreshIInv
  BY DEF GatewayInit, FreshIInv, ToldFresh
<1>2. GatewayIInv /\ FreshIInv => FreshOnce
  <2> SUFFICES ASSUME GatewayIInv, FreshIInv,
                      NEW e \in Answered, CallAt(e).op = "submit", Fresh(ReplyTo(e)),
                      NEW f \in Answered, CallAt(f).op = "submit", Fresh(ReplyTo(f)),
                      CallAt(e).arg = CallAt(f).arg
               PROVE  e = f
    BY DEF FreshOnce, Fresh
  <2>1. PICK cl \in Clients : e \in {cl} \X DOMAIN heard[cl]
    BY DEF Answered
  <2>2. PICK k \in Clients : f \in {k} \X DOMAIN heard[k]
    BY DEF Answered
  <2>3. /\ e = <<cl, e[2]>> /\ e[2] \in DOMAIN heard[cl] /\ e[2] \in DOMAIN Program[cl]
        /\ f = <<k, f[2]>> /\ f[2] \in DOMAIN heard[k] /\ f[2] \in DOMAIN Program[k]
    BY <2>1, <2>2 DEF GatewayIInv, HeardRecorded
  <2>4. ToldFresh(cl, e[2]) /\ ToldFresh(k, f[2]) /\ Program[cl][e[2]].arg = Program[k][f[2]].arg
    BY <2>3 DEF ToldFresh, CallAt, ReplyTo
  <2>5. cl = k /\ e[2] = f[2]
    BY <2>3, <2>4 DEF FreshIInv
  <2> QED
    BY <2>3, <2>5
<1> QED
  BY <1>1, <1>2, FreshKeeps, GatewayInvariant, PTL DEF GatewaySpec

(***************************************************************************)
(* The gateway implements Session.                                         *)
(***************************************************************************)
Held == {call \in Calls : InRecord(call)}
Turns == [cl \in Clients |-> Turn(cl)]
Refused == [cl \in Clients |-> {n \in DOMAIN heard[cl] : ~heard[cl][n].reply.ok}]

\* The record changes only for a call whose turn it is, or that was refused
\* before, and whose effect is not on record yet.
LEMMA PerformStep ==
  ASSUME GatewayIInv, [GatewayNext]_gatewayVars, vars' # vars
  PROVE  \E cl \in Clients : \E n \in DOMAIN Program[cl] :
           /\ n = Turns[cl] \/ n \in Refused[cl]
           /\ Program[cl][n] \notin Held /\ Program[cl][n] \in Held'
           /\ Held \subseteq Held'
           /\ heard' = heard
<1>1. IInv /\ TypeOK /\ ClientsOK /\ FlightOK /\ HeardRecorded /\ [Next]_vars
  BY GatewayStepIsNext DEF GatewayIInv, IInv
<1>2. Serve
  BY DEF GatewayNext, gatewayVars, Send, Hear, TimeOut, NoticeLoss, Arrive, Cancel,
     StorageFails, Die, Restart
<1> DEFINE a == Head(waiting)
<1>3. PICK now \in Receipts : StoreStep(CallOf(a), now)
  BY <1>2 DEF Serve
<1>4. a \in InFlight /\ IsCall(CallOf(a))
  BY <1>1, <1>2, HeadIsCall DEF Serve
<1>5. PICK cl \in Clients : cl = a.client
  BY <1>4 DEF InFlight
<1>6. PICK n \in DOMAIN Program[cl] : n = a.call /\ n \in Nat /\ n <= Turn(cl)
  BY <1>4, <1>5 DEF InFlight
<1>7. PICK call \in Calls : call = CallOf(a) /\ call = Program[cl][n]
  BY <1>5, <1>6 DEF CallOf, Calls
<1>8. Writes(call, now)
  BY <1>3, <1>7 DEF StoreStep
<1>9. call.op \in Ops
  BY <1>4, <1>7 DEF IsCall
<1>10. ~InRecord(call)
  BY <1>8, <1>9, HeldIsNotWritten
<1>11. InRecord(call)'
  <2>1. Reply(call, now).ok
    BY <1>8 DEF Writes
  <2>2. PICK value : value = Reply(call, now).value
    OBVIOUS
  <2>3. Recorded(call, value)'
    BY <1>1, <1>3, <1>7, <1>9, <2>1, <2>2, SuccessIsRecorded
  <2> QED
    BY <2>3 DEF Recorded
<1>12. n = Turn(cl) \/ n \in Refused[cl]
  <2> SUFFICES ASSUME n # Turn(cl) PROVE n \in Refused[cl]
    OBVIOUS
  <2>1. Len(heard[cl]) \in Nat /\ DOMAIN heard[cl] = 1..Len(heard[cl])
    BY <1>1, AppendRow DEF ClientsOK
  <2>2. n \in 1..Len(Program[cl])
    BY <1>6, ProgramAssumption
  <2>3. n \in DOMAIN heard[cl]
    BY <1>6, <2>1, <2>2, n # Turn(cl), ProgramAssumption DEF Turn
  <2>4. ~heard[cl][n].reply.ok
    BY <1>1, <1>7, <1>10, <2>3 DEF HeardRecorded, Recorded
  <2> QED
    BY <2>3, <2>4 DEF Refused
<1>13. \A other \in Calls : InRecord(other) => InRecord(other)'
  <2>1. \A other \in Calls : other.op \in Ops
    BY ProgramCalls DEF Calls, IsCall
  <2> QED
    BY <1>1, <2>1, RecordedStays
<1>14. Held \subseteq Held'
  BY <1>13 DEF Held, Calls
<1>15. call \notin Held /\ call \in Held'
  BY <1>10, <1>11 DEF Held, Calls
<1>16. heard' = heard
  BY <1>2 DEF Serve
<1> QED
  BY <1>7, <1>12, <1>14, <1>15, <1>16 DEF Turns

\* An answer that is heard ends a turn: a success because its effect is on
\* record, anything else as a refusal.
LEMMA HearStep ==
  ASSUME GatewayIInv, [GatewayNext]_gatewayVars, heard' # heard
  PROVE  \E cl \in Clients :
           /\ Turns[cl] \in DOMAIN Program[cl]
           /\ Turns' = [Turns EXCEPT ![cl] = @ + 1]
           /\ \/ Program[cl][Turns[cl]] \in Held /\ Refused' = Refused
              \/ Refused' = [Refused EXCEPT ![cl] = @ \cup {Turns[cl]}]
           /\ vars' = vars
<1>1. ClientsOK /\ FlightOK /\ ComingRecorded
  BY DEF GatewayIInv
<1>2. PICK cl \in Clients :
        /\ Hear(cl)
        /\ heard' = [heard EXCEPT ![cl] = Append(@, [reply |-> answers[cl], known |-> known[cl]])]
  BY <1>1, HeardStep
<1>3. answers[cl] # None /\ vars' = vars
  BY <1>2 DEF Hear
<1>4. Turn(cl) \in DOMAIN Program[cl]
  BY <1>1, <1>3 DEF ClientsOK
<1>5. /\ \A k \in Clients : k # cl => heard'[k] = heard[k]
      /\ Len(heard[cl]) \in Nat /\ DOMAIN heard[cl] = 1..Len(heard[cl])
      /\ DOMAIN heard'[cl] = 1..Turn(cl)
      /\ Turn(cl)' = Turn(cl) + 1
      /\ \A n \in DOMAIN heard[cl] : heard'[cl][n] = heard[cl][n]
      /\ heard'[cl][Turn(cl)] = [reply |-> answers[cl], known |-> known[cl]]
  BY <1>1, <1>2, HearAppends
<1>6. \A k \in Clients : k # cl => Turn(k)' = Turn(k)
  BY <1>5 DEF Turn
<1>7. Turns' = [Turns EXCEPT ![cl] = @ + 1]
  BY <1>5, <1>6 DEF Turns
<1>8. \A k \in Clients : k # cl => Refused'[k] = Refused[k]
  BY <1>5 DEF Refused
<1>9. DOMAIN heard'[cl] = DOMAIN heard[cl] \cup {Turn(cl)}
  BY <1>5 DEF Turn
<1>10. heard'[cl][Turn(cl)].reply = answers[cl]
  BY <1>5
<1>11. Refused'[cl] = IF answers[cl].ok THEN Refused[cl] ELSE Refused[cl] \cup {Turn(cl)}
  BY <1>5, <1>9, <1>10 DEF Refused, Turn
<1>12. CASE answers[cl].ok
  <2>1. InRecord(Program[cl][Turn(cl)])
    BY <1>1, <1>3, <1>12 DEF ComingRecorded, Recorded
  <2>2. Program[cl][Turns[cl]] \in Held
    BY <1>4, <2>1 DEF Held, Turns, Calls
  <2>3. Refused' = Refused
    BY <1>8, <1>11, <1>12 DEF Refused
  <2> QED
    BY <1>3, <1>4, <1>7, <2>2, <2>3 DEF Turns
<1>13. CASE ~answers[cl].ok
  <2>1. Refused' = [Refused EXCEPT ![cl] = @ \cup {Turns[cl]}]
    BY <1>8, <1>11, <1>13 DEF Refused, Turns
  <2> QED
    BY <1>3, <1>4, <1>7, <2>1 DEF Turns
<1> QED
  BY <1>12, <1>13

\* A step that changes neither the record nor what was heard is invisible.
LEMMA InvisibleStep ==
  ASSUME vars' = vars
  PROVE  Held' = Held /\ (heard' = heard => Turns' = Turns /\ Refused' = Refused)
BY DEF Held, Calls, InRecord, vars, Turns, Turn, Refused

\* Faults, copies and delays are invisible in the record: every run of the
\* gateway is one of the session its clients were promised.
THEOREM GatewayImplementsSession == GatewaySpec => ImplementsSession
<1>1. GatewayInit => Promised!SessionInit
  <2> SUFFICES ASSUME GatewayInit PROVE Promised!SessionInit
    OBVIOUS
  <2>1. Held = {}
    BY ProgramCalls DEF Held, Calls, IsCall, Ops, InRecord, GatewayInit, Init
  <2>2. Turns = [cl \in Clients |-> 1] /\ Refused = [cl \in Clients |-> {}]
    BY DEF Turns, Turn, Refused, GatewayInit
  <2> QED
    BY <2>1, <2>2 DEF Promised!SessionInit, Held, Turns, Refused
<1>2. ASSUME GatewayIInv, [GatewayNext]_gatewayVars
      PROVE  [Promised!SessionNext]_(Promised!sessionVars)
  <2>1. CASE vars' # vars
    <3>1. PICK cl \in Clients : \E n \in DOMAIN Program[cl] :
            /\ n = Turns[cl] \/ n \in Refused[cl]
            /\ Program[cl][n] \notin Held /\ Program[cl][n] \in Held'
            /\ Held \subseteq Held'
            /\ heard' = heard
      BY <1>2, <2>1, PerformStep
    <3>2. Turns' = Turns /\ Refused' = Refused
      BY <3>1 DEF Turns, Turn, Refused
    <3>3. \E n \in DOMAIN Program[cl] : Promised!Perform(cl, n)
      BY <3>1, <3>2 DEF Promised!Perform, Held, Turns, Refused
    <3> QED
      BY <3>3 DEF Promised!SessionNext
  <2>2. CASE vars' = vars /\ heard' # heard
    <3>1. Held' = Held
      BY <2>2, InvisibleStep
    <3>2. PICK cl \in Clients :
            /\ Turns[cl] \in DOMAIN Program[cl]
            /\ Turns' = [Turns EXCEPT ![cl] = @ + 1]
            /\ \/ Program[cl][Turns[cl]] \in Held /\ Refused' = Refused
               \/ Refused' = [Refused EXCEPT ![cl] = @ \cup {Turns[cl]}]
            /\ vars' = vars
      BY <1>2, <2>2, HearStep
    <3>3. Promised!Acknowledge(cl) \/ Promised!Refuse(cl)
      BY <3>1, <3>2 DEF Promised!Acknowledge, Promised!Refuse, Held, Turns, Refused
    <3> QED
      BY <3>3 DEF Promised!SessionNext
  <2>3. CASE vars' = vars /\ heard' = heard
    <3>1. Held' = Held /\ Turns' = Turns /\ Refused' = Refused
      BY <2>3, InvisibleStep
    <3> QED
      BY <2>3, <3>1 DEF Promised!sessionVars, Held, Turns, Refused
  <2> QED
    BY <2>1, <2>2, <2>3
<1> QED
  BY <1>1, <1>2, GatewayInvariant, PTL DEF GatewaySpec, ImplementsSession, Promised!SessionSpec

(***************************************************************************)
(* A view that was heard is of one moment after it was asked for.  What it *)
(* told stays true of the record, because the first runs of an experiment  *)
(* stay the first and their fills stay what they were.                     *)
(***************************************************************************)
CurrentView(c, view, told) ==
  /\ c \in DOMAIN experiments
  /\ view.runs_total \in Nat /\ view.runs_total <= Cardinality(OwnRuns(c))
  /\ StateAfter(c, FirstRuns(c, view.runs_total)) = Ok(view.state)
  /\ told \subseteq DOMAIN runs
  /\ told \cap OwnRuns(c) \subseteq FirstRuns(c, view.runs_total)

\* As many first runs as there are, are all of them.
LEMMA AllRunsAreFirst ==
  ASSUME TypeOK, NEW c
  PROVE  FirstRuns(c, Cardinality(OwnRuns(c))) = OwnRuns(c)
<1> DEFINE T == OwnRuns(c)
<1>1. IsFiniteSet(T)
  BY OwnRunsAreFinite
<1> HIDE DEF T
<1>2. \A i \in T : Cardinality({j \in T : j <= i}) <= Cardinality(T)
  <2> SUFFICES ASSUME NEW i \in T PROVE Cardinality({j \in T : j <= i}) <= Cardinality(T)
    OBVIOUS
  <2>1. {j \in T : j <= i} \subseteq T
    OBVIOUS
  <2> QED
    BY <1>1, <2>1, FS_Subset
<1> QED
  BY <1>2 DEF FirstRuns, T

\* The first runs of an experiment stay the first, whatever is recorded next.
LEMMA FirstRunsStay ==
  ASSUME IInv, [Next]_vars, NEW c, NEW n \in Nat, n <= Cardinality(OwnRuns(c))
  PROVE  /\ FirstRuns(c, n)' = FirstRuns(c, n)
         /\ n <= Cardinality(OwnRuns(c))'
         /\ \A told : told \subseteq DOMAIN runs => told \cap OwnRuns(c)' = told \cap OwnRuns(c)
<1>1. CASE runs' = runs
  BY <1>1 DEF FirstRuns, OwnRuns
<1>2. ASSUME NEW req \in Requests, Submit(req)
      PROVE  /\ FirstRuns(c, n)' = FirstRuns(c, n)
             /\ n <= Cardinality(OwnRuns(c))'
             /\ \A told : told \subseteq DOMAIN runs =>
                  told \cap OwnRuns(c)' = told \cap OwnRuns(c)
  <2>a. PICK new : new = NextRun
    OBVIOUS
  <2>b. PICK S : S = OwnRuns(c)
    OBVIOUS
  <2>c. PICK T : T = OwnRuns(c)'
    OBVIOUS
  <2>1. /\ DOMAIN runs = 1..Len(runs) /\ Len(runs) \in Nat /\ new = Len(runs) + 1
        /\ DOMAIN runs' = 1..new
        /\ \A i \in DOMAIN runs : runs'[i] = runs[i] /\ i \in DOMAIN runs' /\ i # new
    BY <1>2, <2>a, NewRun
  <2>2. /\ new \in Nat /\ S \subseteq Nat /\ \A i \in S : i < new
        /\ T = S \/ T = S \cup {new}
    <3>1. DOMAIN runs' = DOMAIN runs \cup {new}
      BY <2>1
    <3>2. S \subseteq DOMAIN runs
      BY <2>b DEF OwnRuns
    <3>3. new \in Nat /\ S \subseteq Nat /\ \A i \in S : i < new
      BY <2>1, <3>2
    <3>4. T = S \/ T = S \cup {new}
      BY <2>1, <2>b, <2>c, <3>1 DEF OwnRuns
    <3> QED
      BY <3>3, <3>4
  <2>3. IsFiniteSet(S) /\ n <= Cardinality(S) /\ Cardinality(S) \in Nat
    BY <2>b, OwnRunsAreFinite DEF IInv
  <2>4. CASE T = S
    <3>1. FirstRuns(c, n)' = {i \in T : Cardinality({j \in T : j <= i}) <= n}
      BY <2>c DEF FirstRuns
    <3>2. FirstRuns(c, n) = {i \in S : Cardinality({j \in S : j <= i}) <= n}
      BY <2>b DEF FirstRuns
    <3> QED
      BY <2>b, <2>c, <2>3, <2>4, <3>1, <3>2
  <2>5. CASE T = S \cup {new}
    <3>1. new \notin S
      BY <2>2
    <3>2. Cardinality(T) = Cardinality(S) + 1
      BY <2>3, <2>5, <3>1, FS_AddElement
    <3>3. {j \in T : j <= new} = T
      <4>1. \A j \in T : j \in S \/ j = new
        BY <2>5
      <4>2. \A j \in S : j <= new
        BY <2>2
      <4>3. new <= new
        BY <2>2
      <4>4. \A j \in T : j <= new
        BY <4>1, <4>2, <4>3
      <4> QED
        BY <4>4
    <3>4. \A i \in S : {j \in T : j <= i} = {j \in S : j <= i}
      BY <2>2, <2>5
    <3>5. ~(Cardinality({j \in T : j <= new}) <= n)
      BY <2>3, <3>2, <3>3
    <3>6. FirstRuns(c, n)' = {i \in T : Cardinality({j \in T : j <= i}) <= n}
      BY <2>c DEF FirstRuns
    <3>7. FirstRuns(c, n) = {i \in S : Cardinality({j \in S : j <= i}) <= n}
      BY <2>b DEF FirstRuns
    <3>8. FirstRuns(c, n)' = FirstRuns(c, n)
      BY <2>5, <3>4, <3>5, <3>6, <3>7
    <3>9. n <= Cardinality(T)
      BY <2>3, <3>2
    <3>10. \A told : told \subseteq DOMAIN runs => told \cap T = told \cap S
      BY <2>1, <2>5
    <3> QED
      BY <2>b, <2>c, <3>8, <3>9, <3>10
  <2> QED
    BY <2>2, <2>4, <2>5
<1> QED
  BY <1>1, <1>2, RunsStep

\* What a view told stays true of the record.
LEMMA CurrentViewStays ==
  ASSUME IInv, [Next]_vars, NEW c, NEW view, NEW told, CurrentView(c, view, told)
  PROVE  CurrentView(c, view, told)'
<1>a. PICK n \in Nat : n = view.runs_total
  BY DEF CurrentView
<1>b. PICK S : S = FirstRuns(c, n)
  OBVIOUS
<1>1. /\ FirstRuns(c, n)' = S /\ n <= Cardinality(OwnRuns(c))'
      /\ told \cap OwnRuns(c)' = told \cap OwnRuns(c)
  BY <1>a, <1>b, FirstRunsStay DEF CurrentView
<1>2. S \subseteq DOMAIN runs
  BY <1>b DEF FirstRuns, OwnRuns
<1>3. StateAfter(c, S)' = StateAfter(c, S)
  BY <1>2, PastState DEF CurrentView
<1>4. StateAfter(c, S)' = Ok(view.state)
  BY <1>3, <1>a, <1>b DEF CurrentView
<1>5. StateAfter(c, FirstRuns(c, n))' = StateAfter(c, S)'
  BY <1>1 DEF StateAfter
<1>6. c \in DOMAIN experiments' /\ DOMAIN runs \subseteq DOMAIN runs'
  BY StepOnlyAdds DEF OnlyAdds, Extends, CurrentView
<1> QED
  BY <1>a, <1>b, <1>1, <1>4, <1>5, <1>6 DEF CurrentView

\* A view is true of the record it is taken from, and knows all its runs.
LEMMA NewViewIsCurrent ==
  ASSUME BooksIInv, LoadsAgree, NEW c, ViewReply(c).ok, NEW view, view = ViewReply(c).value,
         NEW told, told \subseteq DOMAIN runs
  PROVE  CurrentView(c, view, told)
<1>1. ExperimentError(c) = "" /\ LoadState(c).ok
  BY Results DEF ViewReply
<1>2. c \in DOMAIN experiments
  BY <1>1 DEF ExperimentError
<1>3. TypeOK
  BY DEF BooksIInv, IInv
<1>4. view = [state |-> LoadState(c).value, runs_total |-> Cardinality(OwnRuns(c))]
  BY <1>1 DEF ViewReply, Ok
<1>5. view.state = LoadState(c).value /\ view.runs_total = Cardinality(OwnRuns(c))
  BY <1>4
<1>6. LoadState(c) = Ok(view.state)
  BY <1>2, <1>5 DEF BooksIInv, BooksAgree, BookAgrees, EndsAsRecorded, Ok
<1>7. StateAfter(c, OwnRuns(c)) = Ok(view.state)
  BY <1>2, <1>6 DEF LoadsAgree
<1>8. FirstRuns(c, view.runs_total) = OwnRuns(c)
  BY <1>3, <1>5, AllRunsAreFirst
<1>9. view.runs_total \in Nat
  BY <1>3, <1>5, OwnRunsAreFinite
<1> QED
  BY <1>2, <1>5, <1>7, <1>8, <1>9 DEF CurrentView

IsView(cl, n, reply) == Program[cl][n].op = "view" /\ reply.ok

ViewsIInv ==
  /\ known = [cl \in Clients |-> known[cl]]
  /\ \A cl \in Clients :
       /\ known[cl] \subseteq DOMAIN runs
       /\ \A n \in DOMAIN heard[cl] :
            IsView(cl, n, heard[cl][n].reply) =>
              CurrentView(Program[cl][n].arg, heard[cl][n].reply.value, heard[cl][n].known)
       /\ answers[cl] # None /\ IsView(cl, Turn(cl), answers[cl]) =>
            CurrentView(Program[cl][Turn(cl)].arg, answers[cl].value, known[cl])

\* What clients have been told of is on record.
LEMMA AnnouncedRuns ==
  ASSUME GatewayIInv
  PROVE  Announced \subseteq DOMAIN runs
<1> SUFFICES ASSUME NEW e \in Answered, Program[e[1]][e[2]].op = "submit",
                    heard[e[1]][e[2]].reply.ok
             PROVE  heard[e[1]][e[2]].reply.value.id \in DOMAIN runs
  BY DEF Announced, Answered
<1>1. e[1] \in Clients /\ e[2] \in DOMAIN heard[e[1]]
  BY DEF Answered
<1> QED
  BY <1>1 DEF GatewayIInv, HeardRecorded, Recorded, Backed

\* What a client knows changes when it sends, and then nothing is on its way.
LEMMA KnownStep ==
  ASSUME GatewayIInv, ViewsIInv, [GatewayNext]_gatewayVars
  PROVE  /\ known' = [cl \in Clients |-> known'[cl]]
         /\ \A cl \in Clients :
              \/ known'[cl] = known[cl]
              \/ known'[cl] \subseteq DOMAIN runs /\ answers'[cl] = None
<1>1. ASSUME NEW k \in Clients, Send(k)
      PROVE  /\ known' = [cl \in Clients |-> known'[cl]]
             /\ \A cl \in Clients :
                  \/ known'[cl] = known[cl]
                  \/ known'[cl] \subseteq DOMAIN runs /\ answers'[cl] = None
  <2>1. known' = [known EXCEPT ![k] = Announced] /\ answers' = answers /\ ~pending[k]
    BY <1>1 DEF Send
  <2>2. answers[k] = None
    BY <2>1 DEF GatewayIInv, ClientsOK
  <2> QED
    BY <2>1, <2>2, AnnouncedRuns DEF ViewsIInv
<1>2. CASE known' = known
  BY <1>2 DEF ViewsIInv
<1> QED
  BY <1>1, <1>2 DEF GatewayNext, gatewayVars, transport, Hear, TimeOut, NoticeLoss, Arrive, Cancel,
     Serve, StorageFails, Die, Restart

\* A view on its way is true when it is made up, and stays true.
LEMMA ComingViews ==
  ASSUME GatewayIInv, BooksIInv, LoadsAgree, ViewsIInv, [GatewayNext]_gatewayVars,
         NEW cl \in Clients, answers'[cl] # None, IsView(cl, Turn(cl), answers[cl])'
  PROVE  CurrentView(Program[cl][Turn(cl)].arg, answers[cl].value, known[cl])'
<1>1. IInv /\ ClientsOK /\ FlightOK /\ [Next]_vars
  BY GatewayStepIsNext DEF GatewayIInv
<1>2. answers'[cl].ok
  BY DEF IsView
<1>3. PICK n \in DOMAIN Program[cl] : n = Turn(cl) /\ n = Turn(cl)'
  BY <1>1, <1>2, AnswersStep
<1>4. PICK c : c = Program[cl][n].arg
  OBVIOUS
<1>5. PICK view : view = answers'[cl].value
  OBVIOUS
<1>6. PICK told : told = known[cl] /\ told = known'[cl] /\ told \subseteq DOMAIN runs
  BY KnownStep DEF ViewsIInv
<1>7. Program[cl][n].op = "view"
  BY <1>3 DEF IsView
<1>8. CurrentView(c, view, told)
  <2>1. CASE answers'[cl] = answers[cl]
    BY <1>2, <1>3, <1>4, <1>5, <1>6, <1>7, <2>1 DEF ViewsIInv, IsView
  <2>2. CASE answers'[cl] # answers[cl]
    <3>1. \E now : answers'[cl] = Reply(Program[cl][n], now)
      BY <1>1, <1>2, <1>3, <2>2, AnswersStep
    <3>2. answers'[cl] = ViewReply(c)
      BY <1>4, <1>7, <3>1, Replies
    <3> QED
      BY <1>2, <1>5, <1>6, <3>2, NewViewIsCurrent
  <2> QED
    BY <2>1, <2>2
<1>9. CurrentView(c, view, told)'
  BY <1>1, <1>8, CurrentViewStays
<1> QED
  BY <1>3, <1>4, <1>5, <1>6, <1>9 DEF CurrentView, FirstRuns, OwnRuns, StateAfter

\* A view is heard as it came, with what its client knew when it asked.
LEMMA HeardViews ==
  ASSUME GatewayIInv, ViewsIInv, [GatewayNext]_gatewayVars,
         NEW cl \in Clients, NEW n \in DOMAIN heard'[cl], IsView(cl, n, heard[cl][n].reply)'
  PROVE  CurrentView(Program[cl][n].arg, heard[cl][n].reply.value, heard[cl][n].known)'
<1>1. IInv /\ ClientsOK /\ FlightOK /\ [Next]_vars
  BY GatewayStepIsNext DEF GatewayIInv
<1>2. PICK c : c = Program[cl][n].arg
  OBVIOUS
<1>3. PICK view : view = heard'[cl][n].reply.value
  OBVIOUS
<1>4. PICK told : told = heard'[cl][n].known
  OBVIOUS
<1>5. heard'[cl][n].reply.ok /\ Program[cl][n].op = "view"
  BY DEF IsView
<1>6. CurrentView(c, view, told)
  <2>1. CASE n \in DOMAIN heard[cl] /\ heard'[cl][n] = heard[cl][n]
    BY <1>2, <1>3, <1>4, <1>5, <2>1 DEF ViewsIInv, IsView
  <2>2. CASE ~(n \in DOMAIN heard[cl] /\ heard'[cl][n] = heard[cl][n])
    <3>1. PICK k \in Clients : /\ Hear(k)
                               /\ heard' = [heard EXCEPT ![k] =
                                    Append(@, [reply |-> answers[k], known |-> known[k]])]
      BY <1>1, <2>2, HeardStep
    <3>2. k = cl
      BY <1>1, <2>2, <3>1, HearAppends
    <3>3. /\ DOMAIN heard[cl] = 1..Len(heard[cl]) /\ Len(heard[cl]) \in Nat
          /\ DOMAIN heard'[cl] = 1..Turn(cl)
          /\ \A m \in DOMAIN heard[cl] : heard'[cl][m] = heard[cl][m]
          /\ heard'[cl][Turn(cl)] = [reply |-> answers[cl], known |-> known[cl]]
      BY <1>1, <3>1, <3>2, HearAppends
    <3>4. n = Turn(cl) /\ answers[cl] # None
      BY <2>2, <3>1, <3>2, <3>3 DEF Turn, Hear
    <3>5. view = answers[cl].value /\ told = known[cl] /\ answers[cl].ok
      BY <1>3, <1>4, <1>5, <3>3, <3>4
    <3> QED
      BY <1>2, <1>5, <3>4, <3>5 DEF ViewsIInv, IsView
  <2> QED
    BY <2>1, <2>2
<1>7. CurrentView(c, view, told)'
  BY <1>1, <1>6, CurrentViewStays
<1> QED
  BY <1>2, <1>3, <1>4, <1>7 DEF CurrentView, FirstRuns, OwnRuns, StateAfter

\* A view that was heard is the record at one moment after it was asked for,
\* through whatever the gateway went meanwhile.
THEOREM ViewsStayCurrent == GatewaySpec => []ViewsAreCurrent
<1>1. GatewayInit => ViewsIInv
  BY DEF GatewayInit, ViewsIInv
<1>2. GatewayIInv /\ BooksIInv /\ LoadsAgree /\ ViewsIInv /\ [GatewayNext]_gatewayVars => ViewsIInv'
  <2> SUFFICES ASSUME GatewayIInv, BooksIInv, LoadsAgree, ViewsIInv, [GatewayNext]_gatewayVars
               PROVE  ViewsIInv'
    OBVIOUS
  <2>1. known' = [cl \in Clients |-> known'[cl]]
    BY KnownStep
  <2>2. ASSUME NEW cl \in Clients PROVE known'[cl] \subseteq DOMAIN runs'
    <3>1. [Next]_vars
      BY GatewayStepIsNext DEF GatewayIInv
    <3>2. DOMAIN runs \subseteq DOMAIN runs'
      BY <3>1, StepOnlyAdds DEF GatewayIInv, OnlyAdds, Extends
    <3> QED
      BY <3>2, KnownStep DEF ViewsIInv
  <2> QED
    BY <2>1, <2>2, ComingViews, HeardViews DEF ViewsIInv
<1>3. GatewayIInv /\ ViewsIInv => ViewsAreCurrent
  <2> SUFFICES ASSUME GatewayIInv, ViewsIInv,
                      NEW e \in Answered, CallAt(e).op = "view", ReplyTo(e).ok
               PROVE  LET c == CallAt(e).arg
                          view == ReplyTo(e).value
                          seen == FirstRuns(c, view.runs_total)
                      IN /\ view.runs_total <= Cardinality(OwnRuns(c))
                         /\ StateAfter(c, seen) = Ok(view.state)
                         /\ heard[e[1]][e[2]].known \cap OwnRuns(c) \subseteq seen
    BY DEF ViewsAreCurrent
  <2>1. e[1] \in Clients /\ e[2] \in DOMAIN heard[e[1]]
    BY DEF Answered
  <2>2. CurrentView(CallAt(e).arg, ReplyTo(e).value, heard[e[1]][e[2]].known)
    BY <2>1 DEF ViewsIInv, IsView, CallAt, ReplyTo
  <2> QED
    BY <2>2 DEF CurrentView
<1> QED
  BY <1>1, <1>2, <1>3, GatewayInvariant, GatewayKeepsALedger, BooksInvariant,
     ViewsHaveOneMeaning, PTL DEF GatewaySpec

(***************************************************************************)
(* An identity on record answers for what it was recorded with, and with a *)
(* conflict for anything else.                                             *)
(***************************************************************************)

\* A request that names the experiment's strategy can only name another pack.
LEMMA OwnershipFails ==
  ASSUME NEW req, req.schema_version = 4,
         req.strategy_version_id = experiments[req.cycle_id].spec.strategy.strategy_version_id
  PROVE  OwnershipError(req) \in {"", "experiment_quote_data_pack_mismatch"}
<1> DEFINE spec == experiments[req.cycle_id].spec
           w1 == When(req.schema_version # 4, "unsupported_contract_version")
           w2 == When(req.strategy_version_id # spec.strategy.strategy_version_id,
                      "experiment_strategy_mismatch")
           w3 == When(req.quote_ref.pack # spec.pack, "experiment_quote_data_pack_mismatch")
           reasons == <<w1, w2, w3>>
<1>1. OwnershipError(req) = FirstReason(reasons)
  BY DEF OwnershipError
<1>2. /\ w1 = "" /\ w2 = ""
      /\ w3 = "" \/ w3 = "experiment_quote_data_pack_mismatch"
  <2>1. w1 = ""
    BY DEF When
  <2>2. w2 = ""
    BY DEF When
  <2>3. w3 = "" \/ w3 = "experiment_quote_data_pack_mismatch"
    BY DEF When
  <2> QED
    BY <2>1, <2>2, <2>3
<1> HIDE DEF w1, w2, w3
<1>3. DOMAIN reasons = 1..3 /\ reasons[1] = w1 /\ reasons[2] = w2 /\ reasons[3] = w3
  OBVIOUS
<1> HIDE DEF reasons
<1>4. FirstReason(reasons) # "" => \E i \in 1..3 : FirstReason(reasons) = reasons[i]
  BY <1>3, NoReason
<1>5. \A i \in 1..3 : i = 1 \/ i = 2 \/ i = 3
  OBVIOUS
<1>6. FirstReason(reasons) # "" => FirstReason(reasons) = w1 \/ FirstReason(reasons) = w2
                                     \/ FirstReason(reasons) = w3
  BY <1>3, <1>4, <1>5
<1> QED
  BY <1>1, <1>2, <1>6

\* A repeated signal gets its run, a changed one a conflict.
LEMMA SignalsConflict ==
  ASSUME IInv, NEW i \in DOMAIN runs, NEW req, SameSignal(runs[i], req), req.schema_version = 4
  PROVE  Status(SubmitReply(req)) = IF req = runs[i].request THEN 200 ELSE 409
<1> DEFINE c == req.cycle_id
           run == runs[i]
<1>1. /\ c = run.request.cycle_id /\ c \in DOMAIN experiments
      /\ OwnershipError(run.request) = ""
      /\ run.versions = VersionsOf(PackOf(c)) /\ PinnedIntact(run, PackOf(c))
  BY DEF IInv, RunsStillOwned, RunStillOwned, SameSignal
<1>2. ExperimentError(c) = ""
  BY <1>1, References DEF EveryExperimentLoads
<1>3. req.strategy_version_id = experiments[c].spec.strategy.strategy_version_id
  BY <1>1, OwnershipIs DEF SameSignal
<1>4. CASE OwnershipError(req) # ""
  <2>1. OwnershipError(req) = "experiment_quote_data_pack_mismatch"
    BY <1>3, <1>4, OwnershipFails
  <2>2. SubmitReply(req) = Err("experiment_quote_data_pack_mismatch")
    BY <1>2, <2>1 DEF SubmitReply
  <2>3. req # run.request
    BY <1>1, <1>4
  <2> QED
    BY <2>2, <2>3 DEF Status, Err, Conflicts
<1>5. CASE OwnershipError(req) = ""
  <2>1. PriorRuns(req) = {i}
    <3>1. \A j \in DOMAIN runs : SameSignal(runs[j], req) => SameSignal(runs[j], run.request)
      BY DEF SameSignal
    <3> QED
      BY <3>1 DEF PriorRuns, IInv, OneRunPerSignal
  <2>2. PriorRuns(req) # {} /\ (CHOOSE j \in PriorRuns(req) : TRUE) = i
    BY <2>1
  <2>3. SubmitReply(req) = DuplicateReply(req, i, PackOf(c))
    BY <1>2, <1>5, <2>2 DEF SubmitReply
  <2>4. CASE req = run.request
    <3>1. SubmitReply(req) = Ok([id |-> i, run |-> run, duplicate |-> TRUE])
      BY <1>1, <2>3, <2>4 DEF DuplicateReply
    <3>2. SubmitReply(req).ok
      BY <3>1, Results
    <3> QED
      BY <2>4, <3>2 DEF Status
  <2>5. CASE req # run.request
    <3>1. SubmitReply(req) = Err("same_signal_identity_with_different_request")
      BY <1>1, <2>3, <2>5 DEF DuplicateReply
    <3> QED
      BY <2>5, <3>1 DEF Status, Err, Conflicts
  <2> QED
    BY <2>4, <2>5
<1> QED
  BY <1>4, <1>5

\* A repeated import gets the stored evidence, a changed one a conflict.
LEMMA ImportsConflict ==
  ASSUME IInv, NEW input, NEW now, ImportValid(input),
         NEW ref, ref = QuoteRef(input.pack, input.quote), ref \in DOMAIN evidence
  PROVE  Status(IngestReply(input, now)) =
           IF SameImport(StoredEvidence(ref), input) THEN 200 ELSE 409
<1>1. ref.pack = input.pack
  BY DEF QuoteRef
<1>2. input.pack \in DOMAIN packs /\ InstrumentPinned(packs[input.pack], evidence[ref])
  BY <1>1 DEF IInv, EvidenceHasPack
<1>3. PackError(input.pack) = ""
  <2>1. input.pack \in DOMAIN Catalogue
    BY <1>1 DEF IInv, EvidenceHasPack
  <2>2. Holds(packs, input.pack, Catalogue[input.pack])
    BY <1>2 DEF IInv, CatalogueIntact
  <2> QED
    BY <2>1, <2>2, PackLoads
<1>4. StoredEvidence(ref) = evidence[ref]
  BY DEF StoredEvidence
<1>5. CASE SameImport(evidence[ref], input)
  <2>1. IngestReply(input, now) = Ok([evidence |-> evidence[ref], new |-> FALSE])
    BY <1>2, <1>3, <1>4, <1>5 DEF IngestReply
  <2> QED
    BY <1>4, <1>5, <2>1 DEF Status, Ok
<1>6. CASE ~SameImport(evidence[ref], input)
  <2>1. IngestReply(input, now) = Err("quote_identity_payload_conflict")
    BY <1>3, <1>4, <1>6 DEF IngestReply
  <2> QED
    BY <1>4, <1>6, <2>1 DEF Status, Err, Conflicts
<1> QED
  BY <1>5, <1>6

\* A repeated creation gets the experiment, a changed one a conflict.
LEMMA CreationsConflict ==
  ASSUME IInv, NEW spec, spec.cycle_id \in DOMAIN experiments, SpecValid(spec) \/ ArtifactEdited(spec)
  PROVE  Status(CreateReply(spec)) = IF spec = experiments[spec.cycle_id].spec THEN 200 ELSE 409
<1> DEFINE c == spec.cycle_id
<1>1. SpecValid(experiments[c].spec)
  BY DEF IInv, ReferencesIntact
<1>2. ~(SpecValid(spec) /\ ArtifactEdited(spec))
  BY DEF SpecValid, ArtifactEdited
<1>3. CASE ArtifactEdited(spec)
  <2>1. CreateReply(spec) = Err("strategy_artifact_content_mismatch")
    BY <1>3 DEF CreateReply
  <2>2. spec # experiments[c].spec
    BY <1>1, <1>2, <1>3
  <2> QED
    BY <2>1, <2>2 DEF Status, Err, Conflicts
<1>4. CASE SpecValid(spec) /\ spec # experiments[c].spec
  <2>1. CreateReply(spec) = Err("experiment_identity_payload_conflict")
    BY <1>2, <1>4 DEF CreateReply
  <2> QED
    BY <1>4, <2>1 DEF Status, Err, Conflicts
<1>5. CASE SpecValid(spec) /\ spec = experiments[c].spec
  <2>1. ExperimentError(c) = ""
    BY References DEF EveryExperimentLoads
  <2>2. CreateReply(spec) = Ok([spec |-> spec, status |-> experiments[c].status])
    BY <1>2, <1>5, <2>1 DEF CreateReply
  <2>3. CreateReply(spec).ok
    BY <2>2, Results
  <2> QED
    BY <1>5, <2>3 DEF Status
<1> QED
  BY <1>3, <1>4, <1>5

\* A client can tell by the status alone whether what it sent is what is on
\* record under that identity: 200 if it is, 409 if it is something else, at
\* any time.
THEOREM ChangedPayloadsConflict == GatewaySpec => []ChangedPayloadConflicts
<1>1. IInv => ChangedPayloadConflicts
  BY SignalsConflict, ImportsConflict, CreationsConflict DEF ChangedPayloadConflicts
<1> QED
  BY <1>1, LedgerInvariant, GatewayKeepsALedger, PTL

(***************************************************************************)
(* Part II.  Readers of the file, in any number, and reproductions.        *)
(***************************************************************************)

(***************************************************************************)
(* Replays of another connection.                                          *)
(***************************************************************************)
\* A fill of the experiment was committed with one of the runs after m, up to n.
FillSince(c, m, n) ==
  \E f \in DOMAIN fills :
    fills[f].run \in (m + 1)..n /\ runs[fills[f].run].request.cycle_id = c

Statements == {"idle", "load", "view", "count", "dated", "replay", "compare", "done"}
Mismatches == {Err("replay_mismatch"), Err("replay_portfolio_mismatch")}

Shapes ==
  /\ at \in [Readers -> Statements]
  /\ began \in [Readers -> Nat] /\ ended \in [Readers -> Nat]
  /\ task = [r \in Readers |-> task[r]] /\ got = [r \in Readers |-> got[r]]

\* What a replay under way still knows: its experiment exists, and the fills
\* are those it decided again, or there are new ones.
ReaderOK(r) ==
  LET c == task[r].cycle IN
  /\ began[r] <= Len(runs)
  /\ at[r] # "idle" => task[r] \in Tasks
  /\ at[r] \in {"replay", "compare"} => c \in DOMAIN experiments
  /\ at[r] \in {"compare"} =>
       LoadState(c) = Ok(got[r].state) \/ FillSince(c, began[r], Len(runs))
  /\ at[r] \in {"done"} /\ got[r] \in Mismatches => FillSince(c, began[r], ended[r])

ReadersIInv == BooksIInv /\ Shapes /\ \A r \in Readers : ReaderOK(r)

\* The record does not get shorter.
LEMMA RecordGrows ==
  ASSUME IInv, [Next]_vars
  PROVE  /\ Len(runs) \in Nat /\ Len(runs') \in Nat /\ Len(runs) <= Len(runs')
         /\ DOMAIN runs = 1..Len(runs)
<1>1. Len(runs) \in Nat /\ DOMAIN runs = 1..Len(runs)
  BY RowsAreNumbered DEF IInv, RowsNumbered
<1>2. ASSUME NEW req \in Requests, Submit(req) PROVE runs' = Append(runs, SubmitReply(req).value.run)
  BY <1>2 DEF Submit
<1>3. Numbered(runs)
  BY DEF IInv, TypeOK
<1>4. CASE runs' = runs
  BY <1>1, <1>4
<1>5. ASSUME NEW row, runs' = Append(runs, row)
      PROVE  Len(runs') \in Nat /\ Len(runs) <= Len(runs')
  BY <1>1, <1>3, <1>5 DEF Numbered
<1> QED
  BY <1>1, <1>2, <1>4, <1>5, RunsStep

\* A fill that was committed stays committed.
LEMMA CommittedStays ==
  ASSUME IInv, [Next]_vars, NEW c, NEW m \in Nat, NEW n \in Nat, NEW k \in Nat, n <= k,
         FillSince(c, m, n)
  PROVE  FillSince(c, m, k)'
<1>1. PICK f \in DOMAIN fills :
        fills[f].run \in (m + 1)..n /\ runs[fills[f].run].request.cycle_id = c
  BY DEF FillSince
<1>2. fills[f].run \in DOMAIN runs
  BY <1>1 DEF IInv, FillsMirrorRuns
<1>3. /\ f \in DOMAIN fills' /\ fills'[f] = fills[f]
      /\ runs'[fills[f].run] = runs[fills[f].run]
  BY <1>1, <1>2, StepOnlyAdds DEF OnlyAdds, Extends
<1>4. fills[f].run \in (m + 1)..k
  BY <1>1
<1> QED
  BY <1>1, <1>3, <1>4 DEF FillSince

\* Between the two statements of a replay: what the fills give stays, or there
\* is a new fill.
LEMMA FillsMoveOn ==
  ASSUME BooksIInv, [Next]_vars, NEW c \in DOMAIN experiments,
         NEW m \in Nat, m <= Len(runs)
  PROVE  LoadState(c)' = LoadState(c) \/ FillSince(c, m, Len(runs))'
<1>0. IInv
  BY DEF BooksIInv
<1>1. CASE runs' = runs /\ fills' = fills
  BY <1>0, <1>1, LoadStays
<1>2. ASSUME NEW req \in Requests, Submit(req)
      PROVE  LoadState(c)' = LoadState(c) \/ FillSince(c, m, Len(runs))'
  <2> DEFINE fill == SubmitReply(req).value.run.outcome.fill
             n == NextRun
  <2>1. LoadState(c)' = Entry(LoadState(c), IF req.cycle_id = c THEN fill ELSE None)
    BY <1>0, <1>2, LoadAfterSubmit
  <2>2. CASE req.cycle_id # c \/ fill = None
    BY <2>1, <2>2 DEF Entry
  <2>3. CASE req.cycle_id = c /\ fill # None
    <3>1. /\ Len(runs) \in Nat /\ n = Len(runs) + 1 /\ DOMAIN runs' = 1..n
          /\ runs'[n].request = req
      BY <1>0, <1>2, NewRun
    <3>2. fills' = Append(fills, [run |-> n, fill |-> fill])
      <4>1. SubmitReply(req).value.id = n
        BY <1>2, FreshSubmit DEF Submit
      <4> QED
        BY <1>2, <2>3, <4>1 DEF Submit
    <3> DEFINE row == [run |-> n, fill |-> fill]
    <3>3. Len(fills) + 1 \in DOMAIN fills' /\ fills'[Len(fills) + 1] = row
      <4>1. Numbered(fills)
        BY <1>0 DEF IInv, TypeOK
      <4> HIDE DEF row
      <4> QED
        BY <3>2, <4>1 DEF Numbered, row
    <3>4. Len(runs') = n
      <4>1. Numbered(runs')
        BY <1>0, <1>2, SubmitAppends DEF IInv
      <4> QED
        BY <3>1, <4>1 DEF Numbered
    <3>5. n \in (m + 1)..Len(runs')
      BY <3>1, <3>4
    <3> HIDE DEF n, fill
    <3> QED
      BY <2>3, <3>1, <3>3, <3>5 DEF FillSince
  <2> QED
    BY <2>2, <2>3
<1> QED
  BY <1>1, <1>2, RunsStep

\* A reader that does not move stays as it should be, whatever is written.
LEMMA ReaderStays ==
  ASSUME BooksIInv, [Next]_vars, Shapes, NEW r \in Readers, ReaderOK(r),
         task'[r] = task[r], at'[r] = at[r], got'[r] = got[r],
         began'[r] = began[r], ended'[r] = ended[r]
  PROVE  ReaderOK(r)'
<1>0. IInv
  BY DEF BooksIInv
<1>1. /\ Len(runs) \in Nat /\ Len(runs') \in Nat /\ Len(runs) <= Len(runs')
  BY <1>0, RecordGrows
<1>2. began[r] \in Nat /\ ended[r] \in Nat
  BY DEF Shapes
<1>3. PICK c : c = task[r].cycle
  OBVIOUS
<1>4. c \in DOMAIN experiments => c \in DOMAIN experiments'
  BY <1>0, StepOnlyAdds DEF OnlyAdds
<1>5. began'[r] <= Len(runs') /\ (at'[r] # "idle" => task'[r] \in Tasks)
  BY <1>1, <1>2 DEF ReaderOK
<1>6. ASSUME at[r] \in {"compare"}
      PROVE  LoadState(c)' = Ok(got[r].state) \/ FillSince(c, began[r], Len(runs))'
  <2>1. LoadState(c) = Ok(got[r].state) \/ FillSince(c, began[r], Len(runs))
    BY <1>3, <1>6 DEF ReaderOK
  <2>2. c \in DOMAIN experiments /\ began[r] <= Len(runs)
    BY <1>3, <1>6 DEF ReaderOK
  <2>3. CASE FillSince(c, began[r], Len(runs))
    <3>1. PICK k : k = Len(runs')
      OBVIOUS
    <3>2. FillSince(c, began[r], k)'
      BY <1>0, <1>1, <1>2, <2>3, <3>1, CommittedStays
    <3> QED
      BY <3>1, <3>2 DEF FillSince
  <2>4. CASE LoadState(c) = Ok(got[r].state)
    <3>1. PICK m : m = began[r]
      OBVIOUS
    <3>2. LoadState(c)' = LoadState(c) \/ FillSince(c, m, Len(runs))'
      BY <1>2, <2>2, <3>1, FillsMoveOn
    <3> QED
      BY <2>4, <3>1, <3>2 DEF FillSince
  <2> QED
    BY <2>1, <2>3, <2>4
<1>7. ASSUME at[r] \in {"done"}, got[r] \in Mismatches
      PROVE  FillSince(c, began[r], ended[r])'
  <2>1. FillSince(c, began[r], ended[r])
    BY <1>3, <1>7 DEF ReaderOK
  <2>2. PICK m, n : m = began[r] /\ n = ended[r]
    OBVIOUS
  <2>3. FillSince(c, m, n)'
    BY <1>0, <1>2, <2>1, <2>2, CommittedStays
  <2> QED
    BY <2>2, <2>3 DEF FillSince
<1> QED
  BY <1>3, <1>4, <1>5, <1>6, <1>7 DEF ReaderOK

\* A sound record is found intact by the replay, and every experiment loads.
LEMMA ReplayIsFound ==
  ASSUME BooksIInv, NEW c
  PROVE  /\ c \in DOMAIN experiments =>
              Replayed(c).ok /\ LoadState(c) = Ok(Replayed(c).state)
         /\ ExperimentError(c) \in {"", "experiment_not_found"}
         /\ ExperimentError(c) \in {""} => c \in DOMAIN experiments
<1>1. c \in DOMAIN experiments =>
        Replayed(c).ok /\ LoadState(c) = Ok(Replayed(c).state)
  BY DEF BooksIInv, BooksAgree, BookAgrees, EndsAsRecorded
<1>2. c \in DOMAIN experiments => ExperimentError(c) \in {""}
  BY References DEF BooksIInv, EveryExperimentLoads
<1>3. c \notin DOMAIN experiments => ExperimentError(c) \in {"experiment_not_found"}
  BY DEF ExperimentError
<1> QED
  BY <1>1, <1>2, <1>3

\* Refusing to read an experiment that does not exist is no mismatch.
LEMMA NoMismatch ==
  /\ \A value : Ok(value) \notin Mismatches
  /\ \A reason \in {"experiment_not_found"} : Err(reason) \notin Mismatches
BY DEF Ok, Err, Mismatches

\* Only one reader moves at a time.
Moves(r) ==
  \/ \E asked \in Tasks : Begin(r, asked)
  \/ LoadExperiment(r) \/ ReadFills(r) \/ CountRuns(r) \/ ReadDated(r)
  \/ ReplayRuns(r) \/ CompareFills(r)

\* A reader writes nothing but its own rows.
OwnRows(r) ==
  /\ UNCHANGED vars /\ Shapes'
  /\ \A q \in Readers : q # r =>
       /\ task'[q] = task[q] /\ at'[q] = at[q] /\ got'[q] = got[q]
       /\ began'[q] = began[q] /\ ended'[q] = ended[q]

LEMMA MoveIsOwn ==
  ASSUME Shapes, NEW r \in Readers, Len(runs) \in Nat, ReaderOK(r), Moves(r)
  PROVE  OwnRows(r)
<1>1. ASSUME NEW asked \in Tasks, Begin(r, asked) PROVE OwnRows(r)
  <2>1. /\ at' = [at EXCEPT ![r] = "load"] /\ began' = [began EXCEPT ![r] = Len(runs)]
        /\ task' = [task EXCEPT ![r] = asked]
        /\ UNCHANGED <<vars, got, ended>>
    BY <1>1 DEF Begin, Goto
  <2>2. at' \in [Readers -> Statements] /\ began' \in [Readers -> Nat]
    BY <2>1 DEF Shapes, Statements
  <2>3. /\ task' = [q \in Readers |-> task'[q]]
        /\ ended' \in [Readers -> Nat] /\ got' = [q \in Readers |-> got'[q]]
    BY <2>1 DEF Shapes
  <2>4. \A q \in Readers : q # r =>
          /\ task'[q] = task[q] /\ at'[q] = at[q] /\ got'[q] = got[q]
          /\ began'[q] = began[q] /\ ended'[q] = ended[q]
    BY <2>1 DEF Shapes
  <2> QED
    BY <2>1, <2>2, <2>3, <2>4 DEF OwnRows, Shapes
<1>2. CASE LoadExperiment(r)
  <2>1. at[r] # "idle" /\ task[r] \in Tasks
    BY <1>2 DEF LoadExperiment, ReaderOK
  <2>2. task[r].kind \in Statements
    BY <2>1 DEF Tasks, Statements
  <2> QED
    BY <1>2, <2>2, ZenonT(40) DEF LoadExperiment, Done, Goto, Keep, Statements, Shapes, OwnRows, vars
<1>3. CASE ReadFills(r) \/ CountRuns(r)
  BY <1>3, ZenonT(40) DEF ReadFills, CountRuns, Done, Goto, Keep, Statements, Shapes, OwnRows, vars
<1>4. CASE ReadDated(r)
  BY <1>4 DEF ReadDated, Done, Goto, Keep, Statements, Shapes, OwnRows, vars
<1>5. CASE ReplayRuns(r)
  BY <1>5 DEF ReplayRuns, Done, Goto, Keep, Statements, Shapes, OwnRows, vars
<1>6. CASE CompareFills(r)
  BY <1>6 DEF CompareFills, Done, Goto, Keep, Statements, Shapes, OwnRows, vars
<1> QED
  BY <1>1, <1>2, <1>3, <1>4, <1>5, <1>6 DEF Moves

\* A read that ends with an answer, or with the error that the experiment does
\* not exist, is as it should be.
LEMMA AnswerIsOK ==
  ASSUME BooksIInv, Shapes, NEW r \in Readers, ReaderOK(r), at[r] # "idle",
         UNCHANGED <<vars, task, began>>, NEW answer, Done(r, answer), answer \notin Mismatches
  PROVE  ReaderOK(r)'
<1>1. /\ at'[r] = "done" /\ got'[r] = answer
  BY DEF Done, Goto, Keep, Shapes
<1>2. began'[r] <= Len(runs)' /\ task'[r] \in Tasks
  BY DEF ReaderOK, vars
<1> QED
  BY <1>1, <1>2 DEF ReaderOK

\* A reader that moves stays as it should be.
LEMMA MoverIsOK ==
  ASSUME BooksIInv, Shapes, NEW r \in Readers, ReaderOK(r), Moves(r)
  PROVE  ReaderOK(r)'
<1>0. IInv /\ Len(runs) \in Nat
  BY RowsAreNumbered DEF BooksIInv, IInv, RowsNumbered
<1>a. PICK c : c = task[r].cycle
  OBVIOUS
<1>1. CASE \E asked \in Tasks : Begin(r, asked)
  BY <1>0, <1>1 DEF Begin, Goto, Shapes, ReaderOK, vars
<1>2. CASE LoadExperiment(r)
  <2>1. at[r] # "idle" /\ UNCHANGED <<vars, task, began>>
    BY <1>2 DEF LoadExperiment
  <2>2. ASSUME ExperimentError(c) # "", Done(r, Err(ExperimentError(c)))
        PROVE  ReaderOK(r)'
    <3>1. Err(ExperimentError(c)) \notin Mismatches
      BY <2>2, ReplayIsFound, NoMismatch
    <3> QED
      BY <2>1, <2>2, <3>1, AnswerIsOK
  <2>3. ASSUME ExperimentError(c) = "", Goto(r, task[r].kind), UNCHANGED <<got, ended>>
        PROVE  ReaderOK(r)'
    <3>1. at'[r] = task[r].kind /\ task[r] \in Tasks
      BY <2>1, <2>3 DEF Goto, Shapes, ReaderOK
    <3>2. at'[r] \in {"view", "replay", "dated"}
      BY <3>1 DEF Tasks
    <3>3. c \in DOMAIN experiments
      BY <2>3, ReplayIsFound
    <3>4. began'[r] <= Len(runs)' /\ task'[r] = task[r] /\ c \in DOMAIN experiments'
      BY <2>1, <3>3 DEF ReaderOK, vars
    <3> QED
      BY <1>a, <3>1, <3>2, <3>4 DEF ReaderOK
  <2> QED
    BY <1>2, <1>a, <2>2, <2>3 DEF LoadExperiment
<1>3. CASE ReadFills(r)
  BY <1>3 DEF ReadFills, Goto, Shapes, ReaderOK, vars
<1>4. CASE CountRuns(r)
  <2>1. at[r] # "idle" /\ UNCHANGED <<vars, task, began>>
    BY <1>4 DEF CountRuns
  <2>2. \E value : Done(r, Ok(value))
    BY <1>4 DEF CountRuns
  <2> QED
    BY <2>1, <2>2, NoMismatch, AnswerIsOK
<1>5. CASE ReadDated(r)
  <2>1. at[r] # "idle" /\ UNCHANGED <<vars, task, began>>
    BY <1>5 DEF ReadDated
  <2>2. \E value : Done(r, Ok(value))
    BY <1>5 DEF ReadDated
  <2> QED
    BY <2>1, <2>2, NoMismatch, AnswerIsOK
<1>6. CASE ReplayRuns(r)
  <2>1. at[r] \in {"replay"} /\ UNCHANGED <<vars, task, began>>
    BY <1>6 DEF ReplayRuns
  <2>2. c \in DOMAIN experiments
    BY <1>a, <2>1 DEF ReaderOK
  <2>3. Replayed(c).ok /\ LoadState(c) = Ok(Replayed(c).state)
    BY <2>2, ReplayIsFound
  <2>4. /\ at'[r] = "compare"
        /\ got'[r] = [state |-> Replayed(c).state, runs_verified |-> Cardinality(OwnRuns(c))]
    BY <1>6, <1>a, <2>3 DEF ReplayRuns, Goto, Keep, Shapes
  <2>5. LoadState(c)' = LoadState(c)
    BY <1>0, <2>1, <2>2, LoadStays DEF vars
  <2>6. LoadState(c)' = Ok(got'[r].state)
    BY <2>3, <2>4, <2>5
  <2>7. /\ began'[r] <= Len(runs)' /\ task'[r] \in Tasks
        /\ task'[r].cycle = c /\ c \in DOMAIN experiments'
    BY <1>a, <2>1, <2>2 DEF ReaderOK, vars
  <2> QED
    BY <2>4, <2>6, <2>7 DEF ReaderOK
<1>7. CASE CompareFills(r)
  <2>1. at[r] \in {"compare"} /\ at[r] # "idle" /\ UNCHANGED <<vars, task, began>>
    BY <1>7 DEF CompareFills
  <2>2. CASE LoadState(c) = Ok(got[r].state)
    <3>1. \E value : Done(r, Ok(value))
      BY <1>7, <1>a, <2>2 DEF CompareFills
    <3> QED
      BY <2>1, <3>1, NoMismatch, AnswerIsOK
  <2>3. CASE LoadState(c) # Ok(got[r].state)
    <3>1. FillSince(c, began[r], Len(runs))
      BY <1>a, <2>1, <2>3 DEF ReaderOK
    <3>2. at'[r] = "done" /\ ended'[r] = Len(runs)
      BY <1>7, <1>a, <2>3 DEF CompareFills, Done, Goto, Shapes
    <3>3. FillSince(c, began[r], ended[r])'
      BY <2>1, <3>1, <3>2 DEF FillSince, vars
    <3>4. began'[r] <= Len(runs)' /\ task'[r] \in Tasks /\ task'[r].cycle = c
      BY <1>a, <2>1 DEF ReaderOK, vars
    <3> QED
      BY <3>2, <3>3, <3>4 DEF ReaderOK
  <2> QED
    BY <2>2, <2>3
<1> QED
  BY <1>1, <1>2, <1>3, <1>4, <1>5, <1>6, <1>7 DEF Moves

\* The invariant is inductive.
LEMMA NextReaders == ReadersIInv /\ [ReadersNext]_allVars => ReadersIInv'
<1> SUFFICES ASSUME ReadersIInv, [ReadersNext]_allVars PROVE ReadersIInv'
  OBVIOUS
<1>1. BooksIInv /\ Shapes /\ IInv /\ Len(runs) \in Nat
  BY RowsAreNumbered DEF ReadersIInv, BooksIInv, IInv, RowsNumbered
<1>2. CASE [Next]_vars /\ UNCHANGED readerVars
  <2>1. Shapes'
    BY <1>1, <1>2 DEF Shapes, readerVars
  <2>2. \A r \in Readers : ReaderOK(r)'
    BY <1>1, <1>2, ReaderStays DEF ReadersIInv, readerVars
  <2> QED
    BY <1>1, <1>2, <2>1, <2>2, NextBooks DEF ReadersIInv
<1>3. ASSUME NEW r \in Readers, Moves(r) PROVE ReadersIInv'
  <2>1. ReaderOK(r) /\ OwnRows(r)
    BY <1>1, <1>3, MoveIsOwn DEF ReadersIInv
  <2>2. [Next]_vars /\ Shapes'
    BY <2>1 DEF OwnRows
  <2>3. ASSUME NEW q \in Readers PROVE ReaderOK(q)'
    <3>1. CASE q = r
      BY <1>1, <1>3, <2>1, <3>1, MoverIsOK
    <3>2. CASE q # r
      BY <1>1, <2>1, <2>2, <3>2, ReaderStays DEF OwnRows, ReadersIInv
    <3> QED
      BY <3>1, <3>2
  <2> QED
    BY <1>1, <2>2, <2>3, NextBooks DEF ReadersIInv
<1>4. \/ [Next]_vars /\ UNCHANGED readerVars
      \/ \E r \in Readers : Moves(r)
  BY DEF ReadersNext, Moves, allVars
<1> QED
  BY <1>2, <1>3, <1>4

\* The invariant holds at the start.
LEMMA InitReaders == ReadersInit => ReadersIInv
<1> SUFFICES ASSUME ReadersInit PROVE ReadersIInv
  OBVIOUS
<1>1. BooksIInv
  BY InitBooks DEF ReadersInit
<1>2. Shapes /\ \A r \in Readers : at[r] = "idle" /\ began[r] = 0
  BY DEF ReadersInit, Shapes, Statements
<1>3. Len(runs) \in Nat
  BY DEF ReadersInit, Init
<1>4. \A r \in Readers : ReaderOK(r)
  BY <1>2, <1>3 DEF ReaderOK
<1> QED
  BY <1>1, <1>2, <1>4 DEF ReadersIInv

\* The replay of a connection of its own, which no lock of the gateway keeps
\* from a writer, calls a record broken only if a fill of the experiment was
\* committed between its two reads (verify_replay).
THEOREM FailuresAreOnlyRaces == ReadersSpec => []FailuresAreRaces
<1>1. ReadersIInv => FailuresAreRaces
  <2> SUFFICES ASSUME ReadersIInv, NEW r \in Readers, at[r] \in {"done"}, got[r] \in Mismatches
               PROVE  FillSince(task[r].cycle, began[r], ended[r])
    BY DEF FailuresAreRaces, Mismatches, FillSince
  <2> QED
    BY DEF ReadersIInv, ReaderOK
<1> QED
  BY <1>1, InitReaders, NextReaders, PTL DEF ReadersSpec

(***************************************************************************)
(* The record as it was.                                                   *)
(***************************************************************************)
\* What an experiment had when n runs were recorded: its runs, its portfolio
\* and the view of a day.
OwnAt(c, n) == {i \in 1..n : runs[i].request.cycle_id = c}
UpToAt(c, day, n) == {i \in OwnAt(c, n) : DayOf(runs[i].request.decision_at) <= day}
FillsAt(c, n) ==
  [f \in {g \in DOMAIN fills : fills[g].run <= n} |->
     IF runs[fills[f].run].request.cycle_id = c THEN fills[f].fill ELSE None]
RowsAt(c, day, n) ==
  [i \in 1..n |-> IF i \in UpToAt(c, day, n) THEN runs[i].outcome.fill ELSE None]
LoadAt(c, n) == Project(experiments[c].spec.initial_cash, FillsAt(c, n))
DatedAt(c, day, n) ==
  [state |-> Project(experiments[c].spec.initial_cash, RowsAt(c, day, n)),
   runs_total |-> Cardinality(UpToAt(c, day, n))]

\* The record cut short has the rules of the whole one.
LEMMA AtProject ==
  ASSUME NEW n, NEW cash, NEW rows
  PROVE  At(n)!Project(cash, rows) = Project(cash, rows)
BY DEF At!Project, Project, At!ApplyNext, ApplyNext, At!NewPortfolio, NewPortfolio,
   At!Apply, Apply, At!ApplyBuy, ApplyBuy, At!ApplySell, ApplySell, At!Err, Err, At!Ok, Ok,
   At!Overflows, Overflows, At!BuyTotal, BuyTotal, At!LotSize, LotSize,
   At!Sellable, Sellable, At!LotsOf, LotsOf, At!SellableQuantity, SellableQuantity,
   At!Units, Units, At!AfterSelling, AfterSelling, At!Remaining, Remaining,
   At!Retain, Retain, At!Taken, Taken, At!Demand, Demand, At!Larger, Larger, At!Smaller, Smaller

\* The record cut short at n tells what is written above.
LEMMA AtIs ==
  ASSUME IInv, NEW n \in 0..Len(runs), NEW c
  PROVE  /\ At(n)!OwnRuns(c) = OwnAt(c, n)
         /\ At(n)!LoadState(c) = LoadAt(c, n)
         /\ \A day : At(n)!AsOfView(c, day) = DatedAt(c, day, n)
<1>1. /\ Len(runs) \in Nat /\ DOMAIN runs = 1..Len(runs) /\ 1..n \subseteq DOMAIN runs
  BY RowsAreNumbered DEF IInv, RowsNumbered
<1> DEFINE kept == {g \in DOMAIN fills : fills[g].run <= n}
           cut == [i \in 1..n |-> runs[i]]
           left == [f \in kept |-> fills[f]]
<1>2. \A f \in kept : fills[f].run \in 1..n /\ cut[fills[f].run] = runs[fills[f].run]
  BY <1>1 DEF IInv, FillsMirrorRuns
<1>3. At(n)!OwnRuns(c) = OwnAt(c, n)
  BY DEF At!OwnRuns, OwnAt
<1>4. At(n)!LoadState(c) = LoadAt(c, n)
  <2>1. [f \in DOMAIN left |-> IF cut[left[f].run].request.cycle_id = c
                                 THEN left[f].fill ELSE None] = FillsAt(c, n)
    BY <1>2 DEF FillsAt
  <2>2. At(n)!LoadState(c)
          = At(n)!Project(experiments[c].spec.initial_cash,
              [f \in DOMAIN left |-> IF cut[left[f].run].request.cycle_id = c
                                       THEN left[f].fill ELSE None])
    BY DEF At!LoadState
  <2> QED
    BY <2>1, <2>2, AtProject DEF LoadAt
<1>5. ASSUME NEW i \in 1..n PROVE At(n)!StoredFill(i) = runs[i].outcome.fill
  <2>1. CASE \E f \in DOMAIN left : left[f].run = i
    <3> DEFINE f == CHOOSE f \in DOMAIN left : left[f].run = i
    <3>1. f \in DOMAIN left /\ left[f].run = i
      BY <2>1
    <3>2. At(n)!StoredFill(i) = left[f].fill
      BY <2>1 DEF At!StoredFill
    <3>3. f \in DOMAIN fills /\ fills[f].run = i /\ left[f].fill = fills[f].fill
      BY <3>1
    <3> HIDE DEF f
    <3> QED
      BY <3>2, <3>3 DEF IInv, FillsMirrorRuns
  <2>2. CASE ~\E f \in DOMAIN left : left[f].run = i
    <3>1. At(n)!StoredFill(i) = None
      BY <2>2 DEF At!StoredFill
    <3>2. ~\E f \in DOMAIN fills : fills[f].run = i
      BY <1>1, <2>2
    <3>3. i \in DOMAIN runs
      BY <1>1
    <3> QED
      BY <3>1, <3>2, <3>3 DEF IInv, FillsMirrorRuns
  <2> QED
    BY <2>1, <2>2
<1>6. ASSUME NEW day PROVE At(n)!AsOfView(c, day) = DatedAt(c, day, n)
  <2>1. At(n)!RunsUpTo(c, day) = UpToAt(c, day, n)
    <3>1. \A t : At(n)!DayOf(t) = DayOf(t)
      BY DEF At!DayOf, DayOf, At!DaySeconds, DaySeconds
    <3>2. At(n)!RunsUpTo(c, day)
            = {i \in At(n)!OwnRuns(c) : At(n)!DayOf(cut[i].request.decision_at) <= day}
      BY DEF At!RunsUpTo
    <3>3. \A i \in OwnAt(c, n) : cut[i] = runs[i]
      BY DEF OwnAt
    <3> QED
      BY <1>3, <3>1, <3>2, <3>3 DEF UpToAt
  <2>2. At(n)!StateAfter(c, UpToAt(c, day, n))
          = At(n)!Project(experiments[c].spec.initial_cash,
              [i \in DOMAIN cut |->
                 IF i \in UpToAt(c, day, n) THEN At(n)!StoredFill(i) ELSE None])
    BY DEF At!StateAfter
  <2>3. [i \in DOMAIN cut |->
           IF i \in UpToAt(c, day, n) THEN At(n)!StoredFill(i) ELSE None] = RowsAt(c, day, n)
    BY <1>5 DEF RowsAt
  <2>4. At(n)!StateAfter(c, UpToAt(c, day, n))
          = Project(experiments[c].spec.initial_cash, RowsAt(c, day, n))
    BY <2>2, <2>3, AtProject
  <2>5. At(n)!Cardinality(UpToAt(c, day, n)) = Cardinality(UpToAt(c, day, n))
    BY DEF At!Cardinality, Cardinality
  <2> QED
    BY <2>1, <2>4, <2>5 DEF At!AsOfView, DatedAt
<1> QED
  BY <1>3, <1>4, <1>6

\* Cut nowhere, it is the record.
LEMMA AtNow ==
  ASSUME IInv, NEW c, NEW n, n = Len(runs)
  PROVE  /\ OwnAt(c, n) = OwnRuns(c) /\ LoadAt(c, n) = LoadState(c)
         /\ \A day : DatedAt(c, day, n) = AsOfView(c, day)
<1>1. /\ n \in Nat /\ DOMAIN runs = 1..n
      /\ \A f \in DOMAIN fills : fills[f].run \in DOMAIN runs
  BY RowsAreNumbered DEF IInv, RowsNumbered, FillsMirrorRuns
<1>2. OwnAt(c, n) = OwnRuns(c)
  BY <1>1 DEF OwnAt, OwnRuns
<1>3. LoadAt(c, n) = LoadState(c)
  <2>0. \A f \in DOMAIN fills : fills[f].run <= n
    BY <1>1
  <2>1. {g \in DOMAIN fills : fills[g].run <= n} = DOMAIN fills
    BY <2>0
  <2>2. FillsAt(c, n) = FillRows(c)
    BY <2>1 DEF FillsAt, FillRows
  <2>3. LoadState(c) = Project(experiments[c].spec.initial_cash, FillRows(c))
    BY DEF LoadState, FillRows
  <2> QED
    BY <2>2, <2>3 DEF LoadAt
<1>4. ASSUME NEW day PROVE DatedAt(c, day, n) = AsOfView(c, day)
  <2>1. UpToAt(c, day, n) = RunsUpTo(c, day)
    BY <1>2 DEF UpToAt, RunsUpTo
  <2>2. RowsAt(c, day, n)
          = [i \in DOMAIN runs |-> IF i \in RunsUpTo(c, day) THEN StoredFill(i) ELSE None]
    BY <1>1, <2>1, StoredFillIs DEF RowsAt, IInv
  <2> QED
    BY <2>1, <2>2 DEF DatedAt, AsOfView, StateAfter
<1> QED
  BY <1>2, <1>3, <1>4

\* What was written is not written again.
LEMMA AtStays ==
  ASSUME IInv, [Next]_vars, NEW c \in DOMAIN experiments, NEW n \in 0..Len(runs)
  PROVE  /\ OwnAt(c, n)' = OwnAt(c, n) /\ LoadAt(c, n)' = LoadAt(c, n)
         /\ \A day : DatedAt(c, day, n)' = DatedAt(c, day, n)
<1>1. /\ Len(runs) \in Nat /\ DOMAIN runs = 1..Len(runs)
      /\ \A i \in DOMAIN runs : runs'[i] = runs[i]
      /\ experiments'[c].spec = experiments[c].spec
  BY RecordGrows, StepOnlyAdds DEF OnlyAdds, Extends
<1>2. \A i \in 1..n : i \in DOMAIN runs /\ runs'[i] = runs[i]
  BY <1>1
<1>3. OwnAt(c, n)' = OwnAt(c, n)
  BY <1>2 DEF OwnAt
<1>4. /\ \A f \in DOMAIN fills : f \in DOMAIN fills' /\ fills'[f] = fills[f]
                                /\ fills[f].run \in DOMAIN runs
      /\ \A f \in DOMAIN fills' : fills'[f].run <= n => f \in DOMAIN fills
  <2>1. \A f \in DOMAIN fills : f \in DOMAIN fills' /\ fills'[f] = fills[f]
                                /\ fills[f].run \in DOMAIN runs
    BY StepOnlyAdds DEF OnlyAdds, Extends, IInv, FillsMirrorRuns
  <2>2. CASE fills' = fills
    BY <2>1, <2>2
  <2>3. ASSUME NEW row, fills' = Append(fills, row), row.run = Len(runs) + 1
        PROVE  \A f \in DOMAIN fills' : fills'[f].run <= n => f \in DOMAIN fills
    <3>1. Numbered(fills)
      BY DEF IInv, TypeOK
    <3>2. /\ Len(fills) \in Nat /\ DOMAIN fills = 1..Len(fills)
          /\ DOMAIN fills' = 1..(Len(fills) + 1) /\ fills'[Len(fills) + 1] = row
      BY <2>3, <3>1, AppendRow
    <3> QED
      BY <1>1, <2>3, <3>2
  <2>4. \/ fills' = fills
        \/ \E row : fills' = Append(fills, row) /\ row.run = Len(runs) + 1
    <3>1. CASE runs' = runs /\ fills' = fills
      BY <3>1
    <3>2. ASSUME NEW req \in Requests, Submit(req)
          PROVE  \/ fills' = fills
                 \/ \E row : fills' = Append(fills, row) /\ row.run = Len(runs) + 1
      <4>1. SubmitReply(req).value.id = NextRun
        BY <3>2, FreshSubmit DEF Submit
      <4> QED
        BY <3>2, <4>1 DEF Submit, NextRun
    <3> QED
      BY <3>1, <3>2, RunsStep
  <2> QED
    BY <2>1, <2>2, <2>3, <2>4
<1>5. FillsAt(c, n)' = FillsAt(c, n)
  <2>1. {g \in DOMAIN fills' : fills'[g].run <= n} = {g \in DOMAIN fills : fills[g].run <= n}
    BY <1>4
  <2>2. \A f \in {g \in DOMAIN fills : fills[g].run <= n} :
          fills'[f] = fills[f] /\ runs'[fills[f].run] = runs[fills[f].run]
    BY <1>1, <1>4
  <2> QED
    BY <2>1, <2>2 DEF FillsAt
<1>6. ASSUME NEW day
      PROVE  UpToAt(c, day, n)' = UpToAt(c, day, n) /\ RowsAt(c, day, n)' = RowsAt(c, day, n)
  <2>1. UpToAt(c, day, n)' = UpToAt(c, day, n)
    BY <1>2, <1>3 DEF UpToAt, OwnAt
  <2> QED
    BY <1>2, <2>1 DEF RowsAt
<1> QED
  BY <1>1, <1>3, <1>5, <1>6 DEF LoadAt, DatedAt

(***************************************************************************)
(* Answers of another connection.                                          *)
(***************************************************************************)
\* What a reader holds was so while it read, m being the moment.
DatedSince(answer, c, day, b, e) == \E m \in b..e : answer = DatedAt(c, day, m)
LoadedSince(answer, c, b, e) == \E m \in b..e : answer = LoadAt(c, m)
ViewedSince(answer, c, b, e) ==
  \E m, n \in b..e : /\ m <= n /\ answer.state = LoadAt(c, m)
                     /\ answer.runs_total = Cardinality(OwnAt(c, n))
ReplayedSince(held, c, b, e) ==
  \E m \in b..e : /\ held.runs_verified = Cardinality(OwnAt(c, m))
                  /\ LoadAt(c, m) = Ok(held.state)
ReportedSince(answer, c, b, e) ==
  \E m \in b..e : /\ answer.runs_verified = Cardinality(OwnAt(c, m))
                  /\ answer.cash = LoadAt(c, m).value.cash

AnswersSince(kind, c, day, answer, b, e) ==
  /\ kind = "dated" => DatedSince(answer, c, day, b, e)
  /\ kind = "view" => ViewedSince(answer, c, b, e)
  /\ kind = "replay" => ReportedSince(answer, c, b, e)

\* What a reader under way still knows.
ReaderTells(r) ==
  LET c == task[r].cycle IN
  /\ at[r] \in {"view", "count", "dated", "replay", "compare"} => c \in DOMAIN experiments
  /\ at[r] \in {"view", "count"} => task[r].kind = "view"
  /\ at[r] \in {"dated"} => task[r].kind = "dated"
  /\ at[r] \in {"replay", "compare"} => task[r].kind = "replay"
  /\ at[r] \in {"count"} => LoadedSince(got[r], c, began[r], Len(runs))
  /\ at[r] \in {"compare"} => ReplayedSince(got[r], c, began[r], Len(runs))
  /\ at[r] \in {"done"} /\ got[r].ok =>
       /\ c \in DOMAIN experiments /\ ended[r] <= Len(runs)
       /\ AnswersSince(task[r].kind, c, task[r].day, got[r].value, began[r], ended[r])

\* What was so then, was so then.
LEMMA SinceStays ==
  ASSUME IInv, [Next]_vars, NEW c \in DOMAIN experiments,
         NEW b \in Nat, NEW e \in Nat, e <= Len(runs), NEW k \in Nat, e <= k,
         NEW answer, NEW day
  PROVE  /\ DatedSince(answer, c, day, b, e) => DatedSince(answer, c, day, b, e)'
         /\ LoadedSince(answer, c, b, e) => LoadedSince(answer, c, b, k)'
         /\ ViewedSince(answer, c, b, e) => ViewedSince(answer, c, b, e)'
         /\ ReplayedSince(answer, c, b, e) => ReplayedSince(answer, c, b, k)'
         /\ ReportedSince(answer, c, b, e) => ReportedSince(answer, c, b, e)'
<1>1. Len(runs) \in Nat
  BY RecordGrows
<1>2. ASSUME NEW n \in b..e
      PROVE  /\ n \in b..k
             /\ OwnAt(c, n)' = OwnAt(c, n) /\ LoadAt(c, n)' = LoadAt(c, n)
             /\ DatedAt(c, day, n)' = DatedAt(c, day, n)
  <2>1. n \in 0..Len(runs) /\ n \in b..k
    BY <1>1
  <2> QED
    BY <2>1, AtStays
<1>3. DatedSince(answer, c, day, b, e) => DatedSince(answer, c, day, b, e)'
  BY <1>2 DEF DatedSince
<1>4. LoadedSince(answer, c, b, e) => LoadedSince(answer, c, b, k)'
  BY <1>2 DEF LoadedSince
<1>5. ViewedSince(answer, c, b, e) => ViewedSince(answer, c, b, e)'
  BY <1>2 DEF ViewedSince
<1>6. ReplayedSince(answer, c, b, e) => ReplayedSince(answer, c, b, k)'
  BY <1>2 DEF ReplayedSince
<1>7. ReportedSince(answer, c, b, e) => ReportedSince(answer, c, b, e)'
  BY <1>2 DEF ReportedSince
<1> QED
  BY <1>3, <1>4, <1>5, <1>6, <1>7

\* A reader that does not move still tells what was so, whatever is written.
LEMMA TellerStays ==
  ASSUME IInv, [Next]_vars, Shapes, NEW r \in Readers, ReaderTells(r),
         task'[r] = task[r], at'[r] = at[r], got'[r] = got[r],
         began'[r] = began[r], ended'[r] = ended[r]
  PROVE  ReaderTells(r)'
<1>1. /\ Len(runs) \in Nat /\ Len(runs') \in Nat /\ Len(runs) <= Len(runs')
      /\ began[r] \in Nat /\ ended[r] \in Nat
  BY RecordGrows DEF Shapes
<1>2. PICK c, b, e, answer, asked :
        c = task[r].cycle /\ b = began[r] /\ e = ended[r] /\ answer = got[r] /\ asked = task[r]
  OBVIOUS
<1>3. PICK old, new : old = Len(runs) /\ new = Len(runs')
  OBVIOUS
<1>a. old \in Nat /\ new \in Nat /\ old <= Len(runs) /\ old <= new /\ b \in Nat
  BY <1>1, <1>2, <1>3
<1>4. c \in DOMAIN experiments => c \in DOMAIN experiments'
  BY StepOnlyAdds DEF OnlyAdds
<1>5. ASSUME at[r] \in {"count"} PROVE LoadedSince(answer, c, b, Len(runs))'
  <2>1. LoadedSince(answer, c, b, old) /\ c \in DOMAIN experiments
    BY <1>2, <1>3, <1>5 DEF ReaderTells
  <2>2. LoadedSince(answer, c, b, new)'
    BY <1>a, <2>1, SinceStays
  <2> QED
    BY <1>3, <2>2 DEF LoadedSince
<1>6. ASSUME at[r] \in {"compare"} PROVE ReplayedSince(answer, c, b, Len(runs))'
  <2>1. ReplayedSince(answer, c, b, old) /\ c \in DOMAIN experiments
    BY <1>2, <1>3, <1>6 DEF ReaderTells
  <2>2. ReplayedSince(answer, c, b, new)'
    BY <1>a, <2>1, SinceStays
  <2> QED
    BY <1>3, <2>2 DEF ReplayedSince
<1>7. ASSUME at[r] \in {"done"}, answer.ok
      PROVE  /\ c \in DOMAIN experiments' /\ e <= Len(runs')
             /\ AnswersSince(asked.kind, c, asked.day, answer.value, b, e)'
  <2>1. /\ c \in DOMAIN experiments /\ e <= Len(runs)
        /\ AnswersSince(asked.kind, c, asked.day, answer.value, b, e)
    BY <1>2, <1>7 DEF ReaderTells
  <2>2. PICK value, day : value = answer.value /\ day = asked.day
    OBVIOUS
  <2>3. /\ DatedSince(value, c, day, b, e) => DatedSince(value, c, day, b, e)'
        /\ ViewedSince(value, c, b, e) => ViewedSince(value, c, b, e)'
        /\ ReportedSince(value, c, b, e) => ReportedSince(value, c, b, e)'
    BY <1>1, <1>2, <2>1, SinceStays
  <2>4. AnswersSince(asked.kind, c, day, value, b, e)'
    BY <2>1, <2>2, <2>3 DEF AnswersSince
  <2> QED
    BY <1>1, <1>2, <1>4, <2>1, <2>2, <2>4
<1>8. /\ task'[r] = asked /\ asked.cycle = c /\ at'[r] = at[r] /\ got'[r] = answer
      /\ began'[r] = b /\ ended'[r] = e
  BY <1>2
<1>9. /\ at[r] \in {"view", "count", "dated", "replay", "compare"} => c \in DOMAIN experiments'
      /\ at[r] \in {"view", "count"} => asked.kind = "view"
      /\ at[r] \in {"dated"} => asked.kind = "dated"
      /\ at[r] \in {"replay", "compare"} => asked.kind = "replay"
  BY <1>2, <1>4 DEF ReaderTells
<1> QED
  BY <1>5, <1>6, <1>7, <1>8, <1>9 DEF ReaderTells

\* A read that ends with an error tells nothing.
LEMMA ErrorTells ==
  ASSUME Shapes, NEW r \in Readers, NEW reason, Done(r, Err(reason))
  PROVE  ReaderTells(r)'
<1>1. at'[r] = "done" /\ got'[r] = Err(reason) /\ ~got'[r].ok
  BY DEF Done, Goto, Keep, Shapes, Err
<1> QED
  BY <1>1 DEF ReaderTells

\* A read that ends with an answer must tell what was so.
LEMMA AnswerTells ==
  ASSUME IInv, Shapes, NEW r \in Readers, NEW value, Done(r, Ok(value)),
         UNCHANGED <<vars, task, began>>, task[r].cycle \in DOMAIN experiments,
         AnswersSince(task[r].kind, task[r].cycle, task[r].day, value, began[r], Len(runs))
  PROVE  ReaderTells(r)'
<1>1. /\ at'[r] = "done" /\ got'[r].ok /\ got'[r].value = value /\ ended'[r] = Len(runs)
  BY DEF Done, Goto, Keep, Shapes, Ok
<1>2. Len(runs) \in Nat
  BY RowsAreNumbered DEF IInv, RowsNumbered
<1>3. PICK c, day, kind, b, e :
        /\ c = task[r].cycle /\ day = task[r].day /\ kind = task[r].kind
        /\ b = began[r] /\ e = Len(runs)
  OBVIOUS
<1>4. AnswersSince(kind, c, day, value, b, e)
  BY <1>3
<1>5. AnswersSince(kind, c, day, value, b, e)'
  <2>1. [Next]_vars /\ b \in Nat /\ e \in Nat /\ e <= Len(runs) /\ c \in DOMAIN experiments
    BY <1>2, <1>3 DEF Shapes
  <2>2. /\ DatedSince(value, c, day, b, e) => DatedSince(value, c, day, b, e)'
        /\ ViewedSince(value, c, b, e) => ViewedSince(value, c, b, e)'
        /\ ReportedSince(value, c, b, e) => ReportedSince(value, c, b, e)'
    BY <2>1, SinceStays
  <2> QED
    BY <1>4, <2>2 DEF AnswersSince
<1>6. /\ task'[r].cycle = c /\ task'[r].day = day /\ task'[r].kind = kind
      /\ began'[r] = b /\ ended'[r] = e /\ runs' = runs /\ experiments' = experiments
  BY <1>1, <1>3 DEF vars
<1> QED
  BY <1>1, <1>2, <1>3, <1>5, <1>6 DEF ReaderTells

\* A reader that moves tells what was so.
LEMMA MoverTells ==
  ASSUME BooksIInv, Shapes, NEW r \in Readers, ReaderOK(r), ReaderTells(r), Moves(r)
  PROVE  ReaderTells(r)'
<1>0. IInv /\ Len(runs) \in Nat /\ began[r] \in Nat /\ began[r] <= Len(runs)
  BY RowsAreNumbered DEF BooksIInv, IInv, RowsNumbered, Shapes, ReaderOK
<1>a. PICK c, b, N : c = task[r].cycle /\ b = began[r] /\ N = Len(runs)
  OBVIOUS
<1>b. N \in b..N
  BY <1>0, <1>a
<1>1. CASE \E asked \in Tasks : Begin(r, asked)
  <2>1. at'[r] = "load"
    BY <1>1 DEF Begin, Goto, Shapes
  <2> QED
    BY <2>1 DEF ReaderTells
<1>2. CASE LoadExperiment(r)
  <2>1. CASE \E reason : Done(r, Err(reason))
    BY <2>1, ErrorTells
  <2>2. ASSUME ExperimentError(c) = "", Goto(r, task[r].kind)
        PROVE  ReaderTells(r)'
    <3>1. at'[r] = task[r].kind /\ task[r] \in Tasks /\ UNCHANGED <<vars, task>>
      BY <1>2, <2>2 DEF LoadExperiment, Goto, Shapes, ReaderOK
    <3>2. at'[r] \in {"view", "replay", "dated"}
      BY <3>1 DEF Tasks
    <3>3. c \in DOMAIN experiments
      BY <2>2, ReplayIsFound
    <3>4. task'[r] = task[r] /\ task'[r].kind = at'[r] /\ task'[r].cycle \in DOMAIN experiments'
      BY <1>a, <3>1, <3>3 DEF vars
    <3> QED
      BY <3>2, <3>4 DEF ReaderTells
  <2> QED
    BY <1>2, <1>a, <2>1, <2>2 DEF LoadExperiment
<1>3. CASE ReadFills(r)
  <2>1. /\ at[r] \in {"view"} /\ at'[r] = "count" /\ got'[r] = LoadState(c)
        /\ UNCHANGED <<vars, task, began>>
    BY <1>3, <1>a DEF ReadFills, Goto, Keep, Shapes
  <2>2. c \in DOMAIN experiments /\ task[r].kind = "view"
    BY <1>a, <2>1 DEF ReaderTells
  <2>3. got'[r] = LoadAt(c, N)
    BY <1>0, <1>a, <2>1, AtNow
  <2>4. LoadAt(c, N)' = LoadAt(c, N)
    BY <2>1 DEF LoadAt, FillsAt, vars
  <2>5. LoadedSince(got[r], c, b, N)'
    BY <1>b, <2>3, <2>4 DEF LoadedSince
  <2>6. /\ task'[r].cycle = c /\ task'[r].kind = "view" /\ c \in DOMAIN experiments'
        /\ began'[r] = b /\ Len(runs') = N
    BY <1>a, <2>1, <2>2 DEF vars
  <2> QED
    BY <2>1, <2>5, <2>6 DEF ReaderTells
<1>4. CASE CountRuns(r)
  <2>1. /\ at[r] \in {"count"} /\ UNCHANGED <<vars, task, began>>
        /\ Done(r, Ok([state |-> got[r], runs_total |-> Cardinality(OwnRuns(c))]))
    BY <1>4, <1>a DEF CountRuns
  <2>2. /\ c \in DOMAIN experiments /\ task[r].kind = "view"
        /\ LoadedSince(got[r], c, b, N)
    BY <1>a, <2>1 DEF ReaderTells
  <2>3. PICK value : value = [state |-> got[r], runs_total |-> Cardinality(OwnRuns(c))]
    OBVIOUS
  <2>4. PICK m \in b..N : value.state = LoadAt(c, m)
    BY <2>2, <2>3 DEF LoadedSince
  <2>5. value.runs_total = Cardinality(OwnAt(c, N)) /\ m <= N
    BY <1>0, <1>a, <2>3, <2>4, AtNow
  <2>6. ViewedSince(value, c, b, N)
    BY <1>b, <2>4, <2>5 DEF ViewedSince
  <2>7. AnswersSince(task[r].kind, c, task[r].day, value, b, N)
    BY <2>2, <2>6 DEF AnswersSince
  <2> QED
    BY <1>0, <1>a, <2>1, <2>2, <2>3, <2>7, AnswerTells
<1>5. CASE ReadDated(r)
  <2>1. /\ at[r] \in {"dated"} /\ UNCHANGED <<vars, task, began>>
        /\ Done(r, Ok(AsOfView(c, task[r].day)))
    BY <1>5, <1>a DEF ReadDated
  <2>2. c \in DOMAIN experiments /\ task[r].kind = "dated"
    BY <1>a, <2>1 DEF ReaderTells
  <2>3. PICK value : value = AsOfView(c, task[r].day)
    OBVIOUS
  <2>4. value = DatedAt(c, task[r].day, N)
    BY <1>0, <1>a, <2>3, AtNow
  <2>5. DatedSince(value, c, task[r].day, b, N)
    BY <1>b, <2>4 DEF DatedSince
  <2>6. AnswersSince(task[r].kind, c, task[r].day, value, b, N)
    BY <2>2, <2>5 DEF AnswersSince
  <2> QED
    BY <1>0, <1>a, <2>1, <2>2, <2>3, <2>6, AnswerTells
<1>6. CASE ReplayRuns(r)
  <2>1. at[r] \in {"replay"} /\ UNCHANGED <<vars, task, began>>
    BY <1>6 DEF ReplayRuns
  <2>2. c \in DOMAIN experiments /\ task[r].kind = "replay"
    BY <1>a, <2>1 DEF ReaderTells
  <2>3. Replayed(c).ok /\ LoadState(c) = Ok(Replayed(c).state)
    BY <2>2, ReplayIsFound
  <2>4. /\ at'[r] = "compare"
        /\ got'[r] = [state |-> Replayed(c).state, runs_verified |-> Cardinality(OwnRuns(c))]
    BY <1>6, <1>a, <2>3 DEF ReplayRuns, Goto, Keep, Shapes
  <2>5. LoadAt(c, N) = Ok(got'[r].state) /\ got'[r].runs_verified = Cardinality(OwnAt(c, N))
    BY <1>0, <1>a, <2>3, <2>4, AtNow
  <2>6. LoadAt(c, N)' = LoadAt(c, N) /\ OwnAt(c, N)' = OwnAt(c, N)
    BY <2>1 DEF LoadAt, FillsAt, OwnAt, vars
  <2>7. ReplayedSince(got[r], c, b, N)'
    BY <1>b, <2>5, <2>6 DEF ReplayedSince
  <2>8. /\ task'[r].cycle = c /\ task'[r].kind = "replay" /\ c \in DOMAIN experiments'
        /\ began'[r] = b /\ Len(runs') = N
    BY <1>a, <2>1, <2>2 DEF vars
  <2> QED
    BY <2>4, <2>7, <2>8 DEF ReaderTells
<1>7. CASE CompareFills(r)
  <2>1. at[r] \in {"compare"} /\ UNCHANGED <<vars, task, began>>
    BY <1>7 DEF CompareFills
  <2>2. /\ c \in DOMAIN experiments /\ task[r].kind = "replay"
        /\ ReplayedSince(got[r], c, b, N)
    BY <1>a, <2>1 DEF ReaderTells
  <2>3. CASE LoadState(c) = Ok(got[r].state)
    <3>1. PICK value : value = [cash |-> got[r].state.cash, runs_verified |-> got[r].runs_verified]
      OBVIOUS
    <3>2. Done(r, Ok(value))
      BY <1>7, <1>a, <2>3, <3>1 DEF CompareFills
    <3>3. PICK m \in b..N : /\ got[r].runs_verified = Cardinality(OwnAt(c, m))
                            /\ LoadAt(c, m) = Ok(got[r].state)
      BY <2>2 DEF ReplayedSince
    <3>4. LoadAt(c, m).value = got[r].state
      BY <3>3 DEF Ok
    <3>5. ReportedSince(value, c, b, N)
      BY <3>1, <3>3, <3>4 DEF ReportedSince
    <3>6. AnswersSince(task[r].kind, c, task[r].day, value, b, N)
      BY <2>2, <3>5 DEF AnswersSince
    <3> QED
      BY <1>0, <1>a, <2>1, <2>2, <3>2, <3>6, AnswerTells
  <2>4. CASE LoadState(c) # Ok(got[r].state)
    <3>1. Done(r, Err("replay_portfolio_mismatch"))
      BY <1>7, <1>a, <2>4 DEF CompareFills
    <3> QED
      BY <3>1, ErrorTells
  <2> QED
    BY <2>3, <2>4
<1> QED
  BY <1>1, <1>2, <1>3, <1>4, <1>5, <1>6, <1>7 DEF Moves

TellersIInv == ReadersIInv /\ \A r \in Readers : ReaderTells(r)

LEMMA NextTellers == TellersIInv /\ [ReadersNext]_allVars => TellersIInv'
<1> SUFFICES ASSUME TellersIInv, [ReadersNext]_allVars PROVE TellersIInv'
  OBVIOUS
<1>1. ReadersIInv' /\ ReadersIInv
  BY NextReaders DEF TellersIInv
<1>2. BooksIInv /\ Shapes /\ IInv /\ Len(runs) \in Nat
  BY <1>1, RowsAreNumbered DEF ReadersIInv, BooksIInv, IInv, RowsNumbered
<1>3. CASE [Next]_vars /\ UNCHANGED readerVars
  BY <1>1, <1>2, <1>3, TellerStays DEF TellersIInv, readerVars
<1>4. ASSUME NEW r \in Readers, Moves(r), NEW q \in Readers PROVE ReaderTells(q)'
  <2>1. ReaderOK(r) /\ OwnRows(r) /\ ReaderTells(q)
    BY <1>1, <1>2, <1>4, MoveIsOwn DEF ReadersIInv, TellersIInv
  <2>2. CASE q = r
    BY <1>2, <1>4, <2>1, <2>2, MoverTells
  <2>3. CASE q # r
    BY <1>2, <2>1, <2>3, TellerStays DEF OwnRows
  <2> QED
    BY <2>2, <2>3
<1>5. \/ [Next]_vars /\ UNCHANGED readerVars
      \/ \E r \in Readers : Moves(r)
  BY DEF ReadersNext, Moves, allVars
<1> QED
  BY <1>1, <1>3, <1>4, <1>5 DEF TellersIInv

\* Whatever a connection of its own is told was so at some moment of its read:
\* a dated view and a replay report are of one moment, an undated view counts
\* runs no earlier than it sums fills (portfolio, verify_replay).
THEOREM AnswersAreTimely == ReadersSpec => []AnswersAreOfTheirTime
<1>1. ReadersInit => TellersIInv
  <2> SUFFICES ASSUME ReadersInit PROVE TellersIInv
    OBVIOUS
  <2>1. ReadersIInv
    BY InitReaders
  <2>2. \A r \in Readers : at[r] = "idle"
    BY DEF ReadersInit
  <2> QED
    BY <2>1, <2>2 DEF TellersIInv, ReaderTells
<1>2. TellersIInv => AnswersAreOfTheirTime
  <2> SUFFICES ASSUME TellersIInv PROVE AnswersAreOfTheirTime
    OBVIOUS
  <2>1. IInv /\ Shapes /\ Len(runs) \in Nat
    BY RowsAreNumbered DEF TellersIInv, ReadersIInv, BooksIInv, IInv, RowsNumbered
  <2>2. ASSUME NEW r \in Readers, at[r] \in {"done"}, got[r].ok
        PROVE  /\ AnswersSince(task[r].kind, task[r].cycle, task[r].day, got[r].value, began[r], ended[r])
               /\ \A n \in Moments(r) : n \in 0..Len(runs)
    <3>1. ReaderTells(r) /\ began[r] \in Nat /\ ended[r] \in Nat
      BY <2>1 DEF TellersIInv, Shapes
    <3>2. ended[r] <= Len(runs)
      BY <2>2, <3>1 DEF ReaderTells
    <3> QED
      BY <2>1, <2>2, <3>1, <3>2 DEF ReaderTells, Moments
  <2>3. DatedViewsAreOfOneMoment
    <3> SUFFICES ASSUME NEW r \in DoneWith("dated")
                 PROVE  \E n \in Moments(r) :
                          got[r].value = At(n)!AsOfView(task[r].cycle, task[r].day)
      BY DEF DatedViewsAreOfOneMoment
    <3>1. r \in Readers /\ at[r] \in {"done"} /\ got[r].ok /\ task[r].kind = "dated"
      BY DEF DoneWith
    <3>2. DatedSince(got[r].value, task[r].cycle, task[r].day, began[r], ended[r])
      BY <2>2, <3>1 DEF AnswersSince
    <3>3. PICK n \in Moments(r) : got[r].value = DatedAt(task[r].cycle, task[r].day, n)
      BY <3>2 DEF DatedSince, Moments
    <3> QED
      BY <2>1, <2>2, <3>1, <3>3, AtIs
  <2>4. UndatedViewsLagForwards
    <3> SUFFICES ASSUME NEW r \in DoneWith("view")
                 PROVE  \E m, n \in Moments(r) :
                          /\ m <= n
                          /\ got[r].value.state = At(m)!LoadState(task[r].cycle)
                          /\ got[r].value.runs_total = Cardinality(At(n)!OwnRuns(task[r].cycle))
      BY DEF UndatedViewsLagForwards
    <3>1. r \in Readers /\ at[r] \in {"done"} /\ got[r].ok /\ task[r].kind = "view"
      BY DEF DoneWith
    <3>2. ViewedSince(got[r].value, task[r].cycle, began[r], ended[r])
      BY <2>2, <3>1 DEF AnswersSince
    <3>3. PICK m \in Moments(r), n \in Moments(r) :
            /\ m <= n /\ got[r].value.state = LoadAt(task[r].cycle, m)
            /\ got[r].value.runs_total = Cardinality(OwnAt(task[r].cycle, n))
      BY <3>2 DEF ViewedSince, Moments
    <3>4. /\ At(m)!LoadState(task[r].cycle) = LoadAt(task[r].cycle, m)
          /\ At(n)!OwnRuns(task[r].cycle) = OwnAt(task[r].cycle, n)
      BY <2>1, <2>2, <3>1, AtIs
    <3> QED
      BY <3>3, <3>4
  <2>5. ReportsAreTrue
    <3> SUFFICES ASSUME NEW r \in DoneWith("replay"), NEW c, c = task[r].cycle
                 PROVE  \E n \in Moments(r) :
                          /\ got[r].value.runs_verified = Cardinality(At(n)!OwnRuns(c))
                          /\ got[r].value.cash = At(n)!LoadState(c).value.cash
      BY DEF ReportsAreTrue
    <3>1. r \in Readers /\ at[r] \in {"done"} /\ got[r].ok /\ task[r].kind = "replay"
      BY DEF DoneWith
    <3>2. ReportedSince(got[r].value, c, began[r], ended[r])
      BY <2>2, <3>1 DEF AnswersSince
    <3>3. PICK n \in Moments(r) :
            /\ got[r].value.runs_verified = Cardinality(OwnAt(c, n))
            /\ got[r].value.cash = LoadAt(c, n).value.cash
      BY <3>2 DEF ReportedSince, Moments
    <3>4. At(n)!LoadState(c) = LoadAt(c, n) /\ At(n)!OwnRuns(c) = OwnAt(c, n)
      BY <2>1, <2>2, <3>1, AtIs
    <3> QED
      BY <3>3, <3>4
  <2> QED
    BY <2>3, <2>4, <2>5 DEF AnswersAreOfTheirTime
<1> QED
  BY <1>1, <1>2, NextTellers, PTL DEF ReadersSpec

(***************************************************************************)
(* The verdict of a reproduction.                                          *)
(***************************************************************************)
Verdicts(c) == {<<i, RunError(c, i)>> : i \in OwnRuns(c)}

\* The error of the first run that has one.
FirstOf(wrong) == (CHOOSE v \in wrong : \A w \in wrong : v[1] <= w[1])[2]

Frozen(strategy) == ReviewedOutputs[strategy.strategy_version_id].signals

\* The verdict, of the verdicts on the runs.
VerdictOf(strategy, verdicts) ==
  LET wrong == {v \in verdicts : v[2] # ""} IN
  IF ~OutputOfInput(strategy) THEN "reviewed_research_output_mismatch"
  ELSE IF wrong # {} THEN FirstOf(wrong)
  ELSE IF Cardinality(verdicts) # Len(Frozen(strategy)) THEN "research_signal_missing_after_run"
  ELSE ""

\* No two verdicts on one run.
OnePerRun(verdicts) ==
  /\ \A v \in verdicts : v[1] \in Nat
  /\ \A v, w \in verdicts : v[1] = w[1] => v = w

\* What is first stays first when something follows.
LEMMA FirstStays ==
  ASSUME NEW W, W # {}, OnePerRun(W), NEW V, W \subseteq V,
         \A v \in V \ W : v[1] \in Nat /\ \A w \in W : w[1] < v[1]
  PROVE  FirstOf(V) = FirstOf(W)
<1> DEFINE T == {w[1] : w \in W}
<1>1. T \subseteq Nat /\ T # {}
  BY DEF OnePerRun
<1> HIDE DEF T
<1>2. PICK x \in T : \A y \in T : x <= y
  BY <1>1, Least, Zenon
<1> USE DEF T
<1>3. PICK first \in W : \A w \in W : first[1] <= w[1]
  BY <1>2
<1>4. ASSUME NEW v \in W, \A w \in W : v[1] <= w[1] PROVE v = first
  <2>1. v[1] \in Nat /\ first[1] \in Nat
    BY DEF OnePerRun
  <2>2. v[1] = first[1]
    BY <1>3, <1>4, <2>1
  <2> QED
    BY <2>2 DEF OnePerRun
<1>5. first \in V /\ \A w \in V : first[1] <= w[1]
  BY <1>3 DEF OnePerRun
<1>6. ASSUME NEW v \in V, \A w \in V : v[1] <= w[1] PROVE v = first
  <2>1. v \in W
    <3>1. first[1] \in Nat /\ v[1] <= first[1]
      BY <1>5, <1>6 DEF OnePerRun
    <3> QED
      BY <3>1
  <2> QED
    BY <1>4, <1>6, <2>1
<1>7. (CHOOSE v \in W : \A w \in W : v[1] <= w[1]) = first
  BY <1>3, <1>4
<1>8. (CHOOSE v \in V : \A w \in V : v[1] <= w[1]) = first
  BY <1>5, <1>6
<1> QED
  BY <1>7, <1>8 DEF FirstOf

\* What a further run does to a verdict, and what the run too many is told.
Following(before, after) ==
  \/ after = before
  \/ before = "research_signal_missing_after_run"
  \/ before = "" /\ after = "research_output_has_no_signal_for_run"

TooMany(error) == error = "research_output_has_no_signal_for_run"

\* A further verdict ends a reproduction or a record too short, and leaves an
\* error.
LEMMA VerdictGrows ==
  ASSUME NEW strategy, NEW V, OnePerRun(V), IsFiniteSet(V), NEW n \in Nat, NEW e,
         \A v \in V : v[1] < n,
         Cardinality(V) = Len(Frozen(strategy)) => TooMany(e),
         NEW W, W = V \cup {<<n, e>>}
  PROVE  Following(VerdictOf(strategy, V), VerdictOf(strategy, W))
<1> DEFINE old == {v \in V : v[2] # ""}
           new == {v \in W : v[2] # ""}
           row == <<n, e>>
<1>0. row[1] = n /\ row[2] = e
  OBVIOUS
<1>a. W = V \cup {row}
  OBVIOUS
<1> HIDE DEF row
<1>1. CASE ~OutputOfInput(strategy)
  BY <1>1 DEF VerdictOf, Following
<1>2. CASE OutputOfInput(strategy) /\ old # {}
  <2>1. OnePerRun(old) /\ old \subseteq new
    BY DEF OnePerRun
  <2>2. \A v \in new \ old : v[1] \in Nat /\ \A w \in old : w[1] < v[1]
    <3> SUFFICES ASSUME NEW v \in new \ old PROVE v[1] \in Nat /\ \A w \in old : w[1] < v[1]
      OBVIOUS
    <3>1. v = row
      BY <1>a
    <3> QED
      BY <1>0, <3>1
  <2> HIDE DEF old, new
  <2>3. new # {} /\ FirstOf(new) = FirstOf(old)
    BY <1>2, <2>1, <2>2, FirstStays
  <2> QED
    BY <1>2, <2>3 DEF VerdictOf, Following, old, new
<1>3. CASE OutputOfInput(strategy) /\ old = {} /\ Cardinality(V) # Len(Frozen(strategy))
  BY <1>3 DEF VerdictOf, Following
<1>4. CASE OutputOfInput(strategy) /\ old = {} /\ Cardinality(V) = Len(Frozen(strategy))
  <2>1. e = "research_output_has_no_signal_for_run"
    BY <1>4 DEF TooMany
  <2>2. new = {row}
    BY <1>0, <1>a, <1>4, <2>1
  <2> HIDE DEF old, new
  <2>3. FirstOf(new) = e
    <3>1. row[1] <= row[1]
      BY <1>0
    <3>2. (CHOOSE v \in new : \A w \in new : v[1] <= w[1]) = row
      BY <2>2, <3>1
    <3> QED
      BY <1>0, <3>2 DEF FirstOf
  <2>4. VerdictOf(strategy, W) = e
    BY <1>4, <2>2, <2>3 DEF VerdictOf, new
  <2>5. VerdictOf(strategy, V) = ""
    BY <1>4 DEF VerdictOf, old
  <2> QED
    BY <2>1, <2>4, <2>5 DEF Following
<1> QED
  BY <1>1, <1>2, <1>3, <1>4

\* As many verdicts as runs.
LEMMA VerdictsAreFinite ==
  ASSUME TypeOK, NEW c
  PROVE  /\ IsFiniteSet(Verdicts(c)) /\ OnePerRun(Verdicts(c))
         /\ Cardinality(Verdicts(c)) = Cardinality(OwnRuns(c))
<1>1. IsFiniteSet(OwnRuns(c)) /\ OwnRuns(c) \subseteq Nat
  BY OwnRunsAreFinite
<1> DEFINE S == OwnRuns(c)
           T == Verdicts(c)
           f == [i \in S |-> <<i, RunError(c, i)>>]
<1>2. f \in Bijection(S, T)
  BY DEF Bijection, Injection, Surjection, IsInjective, Verdicts
<1>3. ExistsBijection(S, T)
  BY <1>2 DEF ExistsBijection
<1>4. OnePerRun(T)
  BY <1>1 DEF OnePerRun, Verdicts
<1> HIDE DEF S, T, f
<1>5. IsFiniteSet(S)
  BY <1>1 DEF S
<1>6. IsFiniteSet(T) /\ Cardinality(T) = Cardinality(S)
  BY <1>3, <1>5, FS_Bijection
<1> QED
  BY <1>4, <1>6 DEF S, T

\* What verify_research_reproduction reports of an experiment that exists.
ReproductionMeans ==
  \A c \in DOMAIN experiments :
    ReproductionError(c) = VerdictOf(experiments[c].spec.strategy, Verdicts(c))

LEMMA ReproductionIs == IInv => ReproductionMeans
<1> SUFFICES ASSUME IInv, NEW c \in DOMAIN experiments
             PROVE  ReproductionError(c) = VerdictOf(experiments[c].spec.strategy, Verdicts(c))
  BY DEF ReproductionMeans
<1>1. ExperimentError(c) = ""
  BY References DEF EveryExperimentLoads
<1> QED
  BY <1>1 DEF ReproductionError, VerdictOf, Verdicts, FirstOf, Frozen

\* An experiment's record stays or gets one run more, after the others.
LEMMA OwnRunsMoveOn ==
  ASSUME IInv, [Next]_vars, NEW c \in DOMAIN experiments, NEW n, n = NextRun
  PROVE  /\ n \in Nat /\ n \notin OwnRuns(c)
         /\ \A i \in OwnRuns(c) : i \in Nat /\ i < n
         /\ OwnRuns(c)' = OwnRuns(c) \/ OwnRuns(c)' = OwnRuns(c) \cup {n}
<1>1. Len(runs) \in Nat /\ DOMAIN runs = 1..Len(runs) /\ n = Len(runs) + 1
  BY RecordGrows DEF NextRun
<1>2. n \in Nat /\ \A i \in OwnRuns(c) : i \in Nat /\ i < n
  BY <1>1 DEF OwnRuns
<1>3. n \notin OwnRuns(c)
  BY <1>2
<1>4. CASE runs' = runs
  BY <1>2, <1>3, <1>4 DEF OwnRuns
<1>5. ASSUME NEW req \in Requests, Submit(req)
      PROVE  OwnRuns(c)' = OwnRuns(c) \/ OwnRuns(c)' = OwnRuns(c) \cup {n}
  <2>1. /\ DOMAIN runs = 1..Len(runs) /\ Len(runs) \in Nat /\ n = Len(runs) + 1
        /\ DOMAIN runs' = 1..n
        /\ \A i \in DOMAIN runs : runs'[i] = runs[i]
    BY <1>5, NewRun
  <2>2. DOMAIN runs' = DOMAIN runs \cup {n}
    BY <2>1
  <2> QED
    BY <2>1, <2>2 DEF OwnRuns
<1> QED
  BY <1>2, <1>3, <1>4, <1>5, RunsStep

\* The verdict on a run that is there stays: its place is what it was, and what
\* is compared is recorded, pinned or frozen.
LEMMA RunErrorStays ==
  ASSUME IInv, [Next]_vars, NEW c \in DOMAIN experiments, NEW i \in OwnRuns(c)
  PROVE  RunError(c, i)' = RunError(c, i)
<1>1. Place(c, i)' = Place(c, i)
  <2>1. PICK n : n = NextRun
    OBVIOUS
  <2>2. /\ n \in Nat /\ i \in Nat /\ i < n
        /\ OwnRuns(c)' = OwnRuns(c) \/ OwnRuns(c)' = OwnRuns(c) \cup {n}
    BY <2>1, OwnRunsMoveOn
  <2>3. {j \in OwnRuns(c)' : j <= i} = {j \in OwnRuns(c) : j <= i}
    BY <2>2
  <2> QED
    BY <2>3 DEF Place
<1>2. runs'[i] = runs[i] /\ experiments'[c].spec = experiments[c].spec
  BY StepOnlyAdds DEF OnlyAdds, Extends, OwnRuns
<1> QED
  BY <1>1, <1>2 DEF RunError, PinnedEvidence

\* A run too many is the error it is.
LEMMA OneTooMany ==
  ASSUME NEW manifest, NEW signals, NEW c, NEW strategy, NEW n, NEW run, NEW ev,
         n > Len(signals)
  PROVE  TooMany(RunVerdict(manifest, signals, c, strategy, n, run, ev))
BY DEF RunVerdict, TooMany

\* What one step does to the verdict on an experiment.
MovesOn(own, ownNext, before, after) ==
  Following(before, after) /\ (after # before => ownNext # own)

LEMMA VerdictStep ==
  ASSUME IInv, [Next]_vars, NEW c \in DOMAIN experiments
  PROVE  MovesOn(OwnRuns(c), OwnRuns(c)', ReproductionError(c), ReproductionError(c)')
<1>1. PICK n : n = NextRun
  OBVIOUS
<1>2. /\ n \in Nat /\ n \notin OwnRuns(c)
      /\ \A i \in OwnRuns(c) : i \in Nat /\ i < n
      /\ OwnRuns(c)' = OwnRuns(c) \/ OwnRuns(c)' = OwnRuns(c) \cup {n}
  BY <1>1, OwnRunsMoveOn
<1>3. PICK strategy : strategy = experiments[c].spec.strategy
  OBVIOUS
<1>4. c \in DOMAIN experiments' /\ experiments'[c].spec.strategy = strategy
  BY <1>3, StepOnlyAdds DEF OnlyAdds
<1>5. PICK V, W : V = Verdicts(c) /\ W = Verdicts(c)'
  OBVIOUS
<1>6. ReproductionError(c) = VerdictOf(strategy, V)
  BY <1>3, <1>5, ReproductionIs DEF ReproductionMeans
<1>7. ReproductionError(c)' = VerdictOf(strategy, W)
  <2>1. (IInv => ReproductionMeans)'
    BY ReproductionIs, PTL
  <2>2. ReproductionMeans'
    BY <2>1, NextIInv
  <2> QED
    BY <1>4, <1>5, <2>2 DEF ReproductionMeans
<1>8. CASE OwnRuns(c)' = OwnRuns(c)
  <2>1. W = V
    BY <1>5, <1>8, RunErrorStays DEF Verdicts
  <2> QED
    BY <1>6, <1>7, <2>1 DEF MovesOn, Following
<1>9. CASE OwnRuns(c)' = OwnRuns(c) \cup {n}
  <2>1. PICK e : e = RunError(c, n)'
    OBVIOUS
  <2>2. W = V \cup {<<n, e>>}
    <3>1. Verdicts(c)' = {<<i, RunError(c, i)'>> : i \in OwnRuns(c) \cup {n}}
      BY <1>9 DEF Verdicts
    <3>2. V = {<<i, RunError(c, i)'>> : i \in OwnRuns(c)}
      BY <1>5, RunErrorStays DEF Verdicts
    <3> QED
      BY <1>5, <2>1, <3>1, <3>2
  <2>3. /\ IsFiniteSet(V) /\ OnePerRun(V) /\ Cardinality(V) = Cardinality(OwnRuns(c))
        /\ IsFiniteSet(OwnRuns(c)) /\ Cardinality(OwnRuns(c)) \in Nat
    BY <1>5, VerdictsAreFinite, OwnRunsAreFinite DEF IInv
  <2>4. ASSUME Cardinality(V) = Len(Frozen(strategy))
        PROVE  TooMany(e)
    <3>1. Cardinality(OwnRuns(c) \cup {n}) = Cardinality(OwnRuns(c)) + 1
      BY <1>2, <2>3, FS_AddElement
    <3>2. {j \in OwnRuns(c)' : j <= n} = OwnRuns(c) \cup {n}
      BY <1>2, <1>9
    <3>3. Place(c, n)' = Cardinality(OwnRuns(c)) + 1
      BY <3>1, <3>2 DEF Place
    <3>a. PICK k : k = Cardinality(OwnRuns(c))
      OBVIOUS
    <3>4. Place(c, n)' > Len(Frozen(strategy))
      <4>1. k \in Nat /\ Len(Frozen(strategy)) = k
        BY <2>3, <2>4, <3>a
      <4>2. Place(c, n)' = k + 1
        BY <3>3, <3>a
      <4> QED
        BY <4>1, <4>2
    <3> QED
      BY <1>4, <2>1, <3>4, OneTooMany DEF RunError, Frozen
  <2>5. \A v \in V : v[1] < n
    BY <1>2, <1>5 DEF Verdicts
  <2>6. Following(VerdictOf(strategy, V), VerdictOf(strategy, W))
    BY <1>2, <2>2, <2>3, <2>4, <2>5, VerdictGrows
  <2> QED
    BY <1>2, <1>6, <1>7, <1>9, <2>6 DEF MovesOn
<1> QED
  BY <1>2, <1>8, <1>9

\* A reproduction, once found, is only spoilt by a decision that was never
\* frozen; an error stays; what arrives late or happens to other experiments
\* moves nothing (verify_research_reproduction).
THEOREM VerdictsOnlyMoveOn == Spec => VerdictOnlyMovesOn
<1>1. IInv /\ [Next]_vars =>
        [\A c \in DOMAIN experiments :
           \A before \in {ReproductionError(c)}, after \in {ReproductionError(c)'} :
             after # before =>
               /\ OwnRuns(c)' # OwnRuns(c)
               /\ \/ before = "research_signal_missing_after_run"
                  \/ before = "" /\ after = "research_output_has_no_signal_for_run"]_vars
  BY VerdictStep DEF MovesOn, Following
<1> QED
  BY <1>1, LedgerInvariant, PTL DEF Spec, VerdictOnlyMovesOn

(***************************************************************************)
(* Two experiments that reproduce one strategy.                            *)
(***************************************************************************)
\* Requests that differ at most in the experiment they are sent to.
Alike(req, other) ==
  /\ req.strategy_version_id = other.strategy_version_id
  /\ req.signal_id = other.signal_id /\ req.decision_at = other.decision_at
  /\ req.signal = other.signal /\ req.quote_ref = other.quote_ref

\* A decision does not depend on which experiment it is for.
LEMMA AlikeDecisions ==
  ASSUME NEW req, NEW other, Alike(req, other), NEW state, NEW ev, NEW pack,
         Decide(state, req, ev, pack).ok, Decide(state, other, ev, pack).ok
  PROVE  Decide(state, req, ev, pack) = Decide(state, other, ev, pack)
<1>1. RequestError(req) = "" /\ RequestError(other) = ""
  BY DecidedRequests
<1>2. EvidenceError(req, ev) = EvidenceError(other, ev)
  BY DEF Alike, EvidenceError
<1>3. MarketRejection(req, ev, pack) = MarketRejection(other, ev, pack)
  BY DEF Alike, MarketRejection
<1>4. \A level, rule : Execute(state, req, level, rule) = Execute(state, other, level, rule)
  <2> SUFFICES ASSUME NEW level, NEW rule
               PROVE  Execute(state, req, level, rule) = Execute(state, other, level, rule)
    OBVIOUS
  <2>1. OrderQuantity(req, state, level.price, rule) = OrderQuantity(other, state, level.price, rule)
    BY DEF Alike, OrderQuantity
  <2>2. PositionRejection(req, state) = PositionRejection(other, state)
    BY DEF Alike, PositionRejection
  <2>3. SizingOverflows(req, state, level.price, rule) = SizingOverflows(other, state, level.price, rule)
    BY DEF Alike, SizingOverflows
  <2>4. \A quantity : FillOf(req, quantity, level.price) = FillOf(other, quantity, level.price)
    BY DEF Alike, FillOf
  <2>5. req.signal.side = other.signal.side
    BY DEF Alike
  <2> QED
    BY <2>1, <2>2, <2>3, <2>4, <2>5 DEF Execute
<1> QED
  BY <1>1, <1>2, <1>3, <1>4 DEF Decide

\* What each place of a replay that ends well has done.
Replays(f, c, N) ==
  \A i \in 1..N :
    IF i \in OwnRuns(c)
      THEN LET decision == Decide(f[i-1].state, runs[i].request, runs[i].evidence, PackOf(c)) IN
           /\ decision.ok /\ decision.value = runs[i].outcome
           /\ f[i] = ReplayedTo(runs[i].request, Afterwards(f[i-1].state, runs[i].outcome.fill))
      ELSE f[i] = f[i-1]

LEMMA ReplayTells ==
  ASSUME NEW c, NEW N \in Nat, NEW f, IsReplay(f, c, N), f[N].ok
  PROVE  f[0] = Start(c) /\ Replays(f, c, N)
<1>1. f[0] = Start(c) /\ \A i \in 1..N : f[i] = Redone(c, f[i-1], i)
  <2>1. \A n \in 0..N : f[n] = IF n = 0 THEN Start(c) ELSE Redone(c, f[n-1], n)
    BY DEF IsReplay
  <2> QED
    BY <2>1
<1>2. \A i \in 1..N : f[i].ok => f[i-1].ok
  BY <1>1 DEF Redone, ReplayRun
<1> DEFINE R == {k \in Nat : k <= N => "ok" \in DOMAIN f[k]}
<1>a. 0 \in R
  BY <1>1 DEF Start
<1>b. ASSUME NEW k \in Nat, k \in R PROVE k + 1 \in R
  <2>1. SUFFICES ASSUME k + 1 <= N PROVE "ok" \in DOMAIN f[k+1]
    OBVIOUS
  <2>2. k + 1 \in 1..N /\ (k + 1) - 1 = k /\ k <= N
    BY <2>1
  <2>3. "ok" \in DOMAIN f[k] /\ f[k+1] = Redone(c, f[k], k + 1)
    BY <1>1, <1>b, <2>2
  <2>4. \/ f[k+1] = f[k]
        \/ f[k+1] = [f[k] EXCEPT !.ok = FALSE]
        \/ \E decision : f[k+1] = Confirm(f[k], k + 1, decision)
    BY <2>3, Zenon DEF Redone, ReplayRun
  <2>5. \A decision : "ok" \in DOMAIN Confirm(f[k], k + 1, decision)
    BY <2>3 DEF Confirm
  <2> QED
    BY <2>3, <2>4, <2>5
<1> HIDE DEF R
<1>c. Nat \subseteq R
  BY <1>a, <1>b, Induct
<1> DEFINE T == {k \in Nat : k <= N => f[N-k].ok}
<1>3. 0 \in T
  OBVIOUS
<1>4. ASSUME NEW k \in Nat, k \in T PROVE k + 1 \in T
  <2>1. SUFFICES ASSUME k + 1 <= N PROVE f[N-(k+1)].ok
    OBVIOUS
  <2>2. N - k \in 1..N /\ (N - k) - 1 = N - (k + 1) /\ k <= N
    BY <2>1
  <2> QED
    BY <1>2, <1>4, <2>2
<1> HIDE DEF T
<1>5. Nat \subseteq T
  BY <1>3, <1>4, Induct
<1>6. ASSUME NEW i \in 0..N PROVE f[i].ok
  <2>1. N - i \in Nat /\ N - i <= N /\ N - (N - i) = i
    OBVIOUS
  <2> QED
    BY <1>5, <2>1 DEF T
<1>7. ASSUME NEW i \in 1..N, i \in OwnRuns(c)
      PROVE  LET decision == Decide(f[i-1].state, runs[i].request, runs[i].evidence, PackOf(c)) IN
             /\ decision.ok /\ decision.value = runs[i].outcome
             /\ f[i] = ReplayedTo(runs[i].request, Afterwards(f[i-1].state, runs[i].outcome.fill))
  <2>a. PICK decision : decision = Decide(f[i-1].state, runs[i].request, runs[i].evidence, PackOf(c))
    OBVIOUS
  <2>1. f[i].ok /\ f[i-1].ok
    BY <1>6
  <2>2. f[i] = ReplayRun(c, f[i-1], i)
    BY <1>1, <1>7 DEF Redone
  <2>3. f[i] = Confirm(f[i-1], i, decision)
    BY <2>1, <2>2, <2>a DEF ReplayRun, PinnedEvidence
  <2>b. "ok" \in DOMAIN f[i-1]
    <3>1. i - 1 \in Nat /\ i - 1 <= N
      OBVIOUS
    <3> QED
      BY <1>c, <3>1 DEF R
  <2>4. /\ decision.ok /\ decision.value = runs[i].outcome
        /\ f[i] = ReplayedTo(runs[i].request, Afterwards(f[i-1].state, runs[i].outcome.fill))
    BY <2>1, <2>3, <2>b DEF Confirm, ReplayedTo, Afterwards
  <2> QED
    BY <2>a, <2>4
<1>8. \A i \in 1..N : i \notin OwnRuns(c) => f[i] = f[i-1]
  BY <1>1 DEF Redone
<1> QED
  BY <1>1, <1>7, <1>8 DEF Replays

\* The places of an experiment's runs, counted through the record.
LEMMA Places ==
  ASSUME TypeOK, NEW c
  PROVE  /\ Place(c, 0) = 0 /\ Place(c, Len(runs)) = Cardinality(OwnRuns(c))
         /\ \A n \in 0..Len(runs) : Place(c, n) \in Nat
         /\ \A n \in 1..Len(runs) :
              Place(c, n) = IF n \in OwnRuns(c) THEN Place(c, n-1) + 1 ELSE Place(c, n-1)
<1>1. OwnRuns(c) \subseteq 1..Len(runs) /\ Len(runs) \in Nat
  BY OwnRunsAreFinite
<1>2. \A n : Place(c, n) = Rank(OwnRuns(c), n)
  BY DEF Place, Rank
<1>3. PICK S, N : S = OwnRuns(c) /\ N = Len(runs)
  OBVIOUS
<1>4. /\ Rank(S, 0) = 0 /\ Rank(S, N) = Cardinality(S)
      /\ \A n \in 0..N : Rank(S, n) \in Nat
      /\ \A n \in 1..N : Rank(S, n) = IF n \in S THEN Rank(S, n-1) + 1 ELSE Rank(S, n-1)
  BY <1>1, <1>3, Ranks
<1> QED
  BY <1>2, <1>3, <1>4

\* Experiments whose runs are alike, place by place.
AlikeRuns(c, d) ==
  /\ PackOf(c) = PackOf(d)
  /\ experiments[c].spec.initial_cash = experiments[d].spec.initial_cash
  /\ \A i \in OwnRuns(c), j \in OwnRuns(d) :
       Place(c, i) = Place(d, j) =>
         Alike(runs[i].request, runs[j].request) /\ runs[i].evidence = runs[j].evidence

\* One place of each, from equal books.
LEMMA AlikePlaces ==
  ASSUME NEW c, NEW d, AlikeRuns(c, d), NEW N \in Nat, NEW f, NEW g,
         Replays(f, c, N), Replays(g, d, N),
         NEW i \in 1..N, NEW j \in 1..N, i \in OwnRuns(c), j \in OwnRuns(d),
         Place(c, i) = Place(d, j), f[i-1] = g[j-1]
  PROVE  runs[i].outcome = runs[j].outcome /\ f[i] = g[j]
<1>1. Alike(runs[i].request, runs[j].request) /\ runs[i].evidence = runs[j].evidence
      /\ PackOf(c) = PackOf(d)
  BY DEF AlikeRuns
<1>a. PICK x : x = Decide(f[i-1].state, runs[i].request, runs[i].evidence, PackOf(c))
  OBVIOUS
<1>b. PICK y : y = Decide(g[j-1].state, runs[j].request, runs[j].evidence, PackOf(d))
  OBVIOUS
<1>2. /\ x.ok /\ x.value = runs[i].outcome
      /\ f[i] = ReplayedTo(runs[i].request, Afterwards(f[i-1].state, runs[i].outcome.fill))
  BY <1>a DEF Replays
<1>3. /\ y.ok /\ y.value = runs[j].outcome
      /\ g[j] = ReplayedTo(runs[j].request, Afterwards(g[j-1].state, runs[j].outcome.fill))
  BY <1>b DEF Replays
<1>4. x = y
  BY <1>1, <1>2, <1>3, <1>a, <1>b, AlikeDecisions
<1>5. runs[i].request.decision_at = runs[j].request.decision_at
  BY <1>1 DEF Alike
<1> QED
  BY <1>2, <1>3, <1>4, <1>5 DEF ReplayedTo

\* The two replays are in step: equally many runs, equal books.
LEMMA InStep ==
  ASSUME TypeOK, NEW c, NEW d, AlikeRuns(c, d), NEW N, N = Len(runs), NEW f, NEW g,
         f[0] = Start(c), g[0] = Start(d), Replays(f, c, N), Replays(g, d, N)
  PROVE  \A i, j \in 0..N : Place(c, i) = Place(d, j) => f[i] = g[j]
<1>1. /\ N \in Nat /\ Place(c, 0) = 0 /\ Place(d, 0) = 0
      /\ \A n \in 0..N : Place(c, n) \in Nat /\ Place(d, n) \in Nat
      /\ \A n \in 1..N :
           Place(c, n) = IF n \in OwnRuns(c) THEN Place(c, n-1) + 1 ELSE Place(c, n-1)
      /\ \A n \in 1..N :
           Place(d, n) = IF n \in OwnRuns(d) THEN Place(d, n-1) + 1 ELSE Place(d, n-1)
  BY Places, OwnRunsAreFinite
<1>2. f[0] = g[0]
  BY DEF AlikeRuns, Start
<1> DEFINE T == {m \in Nat : \A i, j \in 0..N :
                   i + j <= m /\ Place(c, i) = Place(d, j) => f[i] = g[j]}
<1>3. 0 \in T
  <2> SUFFICES ASSUME NEW i \in 0..N, NEW j \in 0..N, i + j <= 0 PROVE f[i] = g[j]
    OBVIOUS
  <2>1. i = 0 /\ j = 0
    BY <1>1
  <2> QED
    BY <1>2, <2>1
<1>4. ASSUME NEW m \in Nat, m \in T PROVE m + 1 \in T
  <2> SUFFICES ASSUME NEW i \in 0..N, NEW j \in 0..N, i + j <= m + 1, Place(c, i) = Place(d, j)
               PROVE  f[i] = g[j]
    OBVIOUS
  <2>0. \A k, l \in 0..N : k + l <= m /\ Place(c, k) = Place(d, l) => f[k] = g[l]
    BY <1>4
  <2> HIDE DEF T
  <2>1. CASE i > 0 /\ i \notin OwnRuns(c)
    <3>1. i \in 1..N /\ i - 1 \in 0..N /\ (i - 1) + j <= m
      BY <1>1, <2>1
    <3>2. Place(c, i-1) = Place(d, j)
      BY <1>1, <2>1, <3>1
    <3>3. f[i] = f[i-1]
      BY <2>1, <3>1 DEF Replays
    <3> QED
      BY <2>0, <3>1, <3>2, <3>3
  <2>2. CASE j > 0 /\ j \notin OwnRuns(d)
    <3>1. j \in 1..N /\ j - 1 \in 0..N /\ i + (j - 1) <= m
      BY <1>1, <2>2
    <3>2. Place(c, i) = Place(d, j-1)
      BY <1>1, <2>2, <3>1
    <3>3. g[j] = g[j-1]
      BY <2>2, <3>1 DEF Replays
    <3> QED
      BY <2>0, <3>1, <3>2, <3>3
  <2>3. CASE i > 0 /\ j > 0 /\ i \in OwnRuns(c) /\ j \in OwnRuns(d)
    <3>1. /\ i \in 1..N /\ j \in 1..N /\ i - 1 \in 0..N /\ j - 1 \in 0..N
          /\ (i - 1) + (j - 1) <= m
      BY <1>1, <2>3
    <3>2. Place(c, i-1) = Place(d, j-1)
      <4>1. Place(c, i) = Place(c, i-1) + 1 /\ Place(d, j) = Place(d, j-1) + 1
        BY <1>1, <2>3, <3>1
      <4>2. Place(c, i-1) \in Nat /\ Place(d, j-1) \in Nat
        BY <1>1, <3>1
      <4>3. \A a, b \in Nat : a + 1 = b + 1 => a = b
        OBVIOUS
      <4> QED
        BY <4>1, <4>2, <4>3
    <3>3. f[i-1] = g[j-1]
      BY <2>0, <3>1, <3>2
    <3> QED
      BY <1>1, <2>3, <3>1, <3>3, AlikePlaces
  <2>4. CASE i = 0 /\ j > 0 /\ j \in OwnRuns(d)
    <3>1. j \in 1..N /\ j - 1 \in 0..N
      BY <1>1, <2>4
    <3>2. Place(d, j) = Place(d, j-1) + 1 /\ Place(d, j-1) \in Nat /\ Place(d, j) = 0
      BY <1>1, <2>4, <3>1
    <3> QED
      BY <3>2
  <2>5. CASE j = 0 /\ i > 0 /\ i \in OwnRuns(c)
    <3>1. i \in 1..N /\ i - 1 \in 0..N
      BY <1>1, <2>5
    <3>2. Place(c, i) = Place(c, i-1) + 1 /\ Place(c, i-1) \in Nat /\ Place(c, i) = 0
      BY <1>1, <2>5, <3>1
    <3> QED
      BY <3>2
  <2>6. CASE i = 0 /\ j = 0
    BY <1>2, <2>6
  <2> QED
    BY <1>1, <2>1, <2>2, <2>3, <2>4, <2>5, <2>6
<1> HIDE DEF T
<1>5. Nat \subseteq T
  BY <1>3, <1>4, Induct
<1> SUFFICES ASSUME NEW i \in 0..N, NEW j \in 0..N, Place(c, i) = Place(d, j) PROVE f[i] = g[j]
  OBVIOUS
<1>6. i + j \in T /\ i + j <= i + j
  BY <1>1, <1>5
<1> QED
  BY <1>6 DEF T

\* Every place up to the last is that of a run.
LEMMA PlacesFilled ==
  ASSUME TypeOK, NEW c, NEW n \in 1..Cardinality(OwnRuns(c))
  PROVE  \E i \in OwnRuns(c) : i \in 1..Len(runs) /\ Place(c, i) = n
<1>1. /\ Len(runs) \in Nat /\ OwnRuns(c) \subseteq 1..Len(runs)
  BY OwnRunsAreFinite
<1>2. PICK i : i = Nth(OwnRuns(c), n)
  OBVIOUS
<1>3. i \in OwnRuns(c) /\ Rank(OwnRuns(c), i) = n
  BY <1>1, <1>2, RanksCount
<1> QED
  BY <1>1, <1>3 DEF Place, Rank

\* The runs of a reproduced experiment are the frozen signals, place by place.
RunsAsFrozen(c) ==
  LET strategy == experiments[c].spec.strategy IN
  /\ Cardinality(OwnRuns(c)) = Len(Frozen(strategy))
  /\ \A i \in OwnRuns(c) :
       /\ runs[i].request.strategy_version_id = strategy.strategy_version_id
       /\ ~(Place(c, i) > Len(Frozen(strategy)))
       /\ AsFrozen(runs[i], Frozen(strategy)[Place(c, i)])

LEMMA ReproducedRuns ==
  ASSUME IInv, NEW c, Reproduced(c)
  PROVE  RunsAsFrozen(c)
<1>1. PICK strategy : strategy = experiments[c].spec.strategy
  OBVIOUS
<1>2. c \in DOMAIN experiments /\ VerdictOf(strategy, Verdicts(c)) = ""
  BY <1>1, ReproductionIs DEF Reproduced, ReproductionMeans
<1>3. OnePerRun(Verdicts(c)) /\ Cardinality(Verdicts(c)) = Cardinality(OwnRuns(c))
  BY VerdictsAreFinite DEF IInv
<1> DEFINE wrong == {v \in Verdicts(c) : v[2] # ""}
<1>4. wrong = {}
  <2> SUFFICES ASSUME wrong # {} PROVE FALSE
    OBVIOUS
  <2> DEFINE T == {w[1] : w \in wrong}
  <2>1. T \subseteq Nat /\ T # {}
    BY <1>3 DEF OnePerRun
  <2> HIDE DEF T
  <2>2. PICK x \in T : \A y \in T : x <= y
    BY <2>1, Least, Zenon
  <2> USE DEF T
  <2>3. \E v \in wrong : \A w \in wrong : v[1] <= w[1]
    BY <2>2
  <2>4. FirstOf(wrong) # ""
    BY <2>3 DEF FirstOf
  <2> HIDE DEF wrong
  <2>5. VerdictOf(strategy, Verdicts(c)) \in {"reviewed_research_output_mismatch", FirstOf(wrong)}
    BY DEF VerdictOf, wrong
  <2> QED
    BY <1>2, <2>4, <2>5
<1>5. Cardinality(OwnRuns(c)) = Len(Frozen(strategy))
  BY <1>2, <1>3, <1>4 DEF VerdictOf
<1>6. ASSUME NEW i \in OwnRuns(c)
      PROVE  /\ runs[i].request.strategy_version_id = strategy.strategy_version_id
             /\ ~(Place(c, i) > Len(Frozen(strategy)))
             /\ AsFrozen(runs[i], Frozen(strategy)[Place(c, i)])
  <2> DEFINE row == <<i, RunError(c, i)>>
  <2>1. row \in Verdicts(c) /\ row[2] = RunError(c, i)
    BY DEF Verdicts
  <2>2. RunError(c, i) = ""
    BY <1>4, <2>1
  <2>3. PICK n : n = Place(c, i)
    OBVIOUS
  <2>4. RunVerdict(ReviewedInputs[strategy.research_input_id], Frozen(strategy), c,
                   strategy.strategy_version_id, n, runs[i], PinnedEvidence(runs[i])) = ""
    BY <1>1, <2>2, <2>3 DEF RunError, Frozen
  <2>5. ~(n > Len(Frozen(strategy)))
    BY <2>4 DEF RunVerdict
  <2>6. /\ runs[i].request.strategy_version_id = strategy.strategy_version_id
        /\ AsFrozen(runs[i], Frozen(strategy)[n])
    BY <2>4, <2>5 DEF RunVerdict
  <2> QED
    BY <2>3, <2>5, <2>6
<1> QED
  BY <1>1, <1>5, <1>6 DEF RunsAsFrozen

\* The signals come from the pack of the input, so the runs do.
LEMMA ReproducedPack ==
  ASSUME IInv, NEW c, Reproduced(c)
  PROVE  experiments[c].spec.pack
           = ReviewedInputs[experiments[c].spec.strategy.research_input_id].pack
<1>1. c \in DOMAIN experiments /\ RunsAsFrozen(c)
  BY ReproducedRuns DEF Reproduced
<1>2. PICK strategy : strategy = experiments[c].spec.strategy
  OBVIOUS
<1>3. /\ strategy.strategy_version_id \in DOMAIN ReviewedStrategies
      /\ strategy = ReviewedStrategies[strategy.strategy_version_id]
  BY <1>1, <1>2 DEF IInv, ReferencesIntact, SpecValid
<1>4. /\ Len(Frozen(strategy)) \in Nat \ {0}
      /\ \A n \in 1..Len(Frozen(strategy)) :
           Frozen(strategy)[n].pack = ReviewedInputs[strategy.research_input_id].pack
  BY <1>3, OutputsAssumption DEF Frozen
<1>5. Cardinality(OwnRuns(c)) = Len(Frozen(strategy))
  BY <1>1, <1>2 DEF RunsAsFrozen
<1>6. TypeOK
  BY DEF IInv
<1>7. PICK i \in OwnRuns(c) : i \in 1..Len(runs) /\ Place(c, i) = 1
  BY <1>4, <1>5, <1>6, PlacesFilled
<1>8. AsFrozen(runs[i], Frozen(strategy)[1])
  BY <1>1, <1>2, <1>7 DEF RunsAsFrozen
<1>9. runs[i].request.quote_ref.pack = Frozen(strategy)[1].pack
  BY <1>8 DEF AsFrozen
<1>10. runs[i].request.quote_ref.pack = experiments[c].spec.pack
  <2>1. runs[i].request.cycle_id = c /\ OwnershipError(runs[i].request) = ""
    BY <1>7 DEF IInv, RunsStillOwned, RunStillOwned, OwnRuns
  <2> QED
    BY <2>1, OwnershipIs
<1>11. Frozen(strategy)[1].pack = ReviewedInputs[strategy.research_input_id].pack
  BY <1>4
<1> QED
  BY <1>2, <1>9, <1>10, <1>11

\* The evidence a run pinned is what is stored for the quote it names.
LEMMA PinnedIsStored ==
  ASSUME IInv, NEW i \in DOMAIN runs, runs[i].evidence # None
  PROVE  runs[i].evidence = StoredEvidence(runs[i].request.quote_ref)
BY DEF IInv, RunsStillOwned, RunStillOwned, PinnedIntact

\* Two experiments that reproduce one strategy have alike runs.
LEMMA ReproductionsAreAlike ==
  ASSUME IInv, NEW c, NEW d, Reproduced(c), Reproduced(d), AllPinned(c), AllPinned(d),
         experiments[d].spec.strategy = experiments[c].spec.strategy,
         experiments[d].spec.initial_cash = experiments[c].spec.initial_cash
  PROVE  AlikeRuns(c, d) /\ Cardinality(OwnRuns(c)) = Cardinality(OwnRuns(d))
<1>1. RunsAsFrozen(c) /\ RunsAsFrozen(d)
  BY ReproducedRuns
<1>2. PackOf(c) = PackOf(d)
  BY ReproducedPack DEF PackOf
<1>3. PICK strategy : strategy = experiments[c].spec.strategy
  OBVIOUS
<1>4. ASSUME NEW i \in OwnRuns(c), NEW j \in OwnRuns(d), Place(c, i) = Place(d, j)
      PROVE  Alike(runs[i].request, runs[j].request) /\ runs[i].evidence = runs[j].evidence
  <2>1. PICK frozen : frozen = Frozen(strategy)[Place(c, i)]
    OBVIOUS
  <2>2. AsFrozen(runs[i], frozen) /\ AsFrozen(runs[j], frozen)
    BY <1>1, <1>3, <1>4, <2>1 DEF RunsAsFrozen
  <2>3. runs[i].request.strategy_version_id = runs[j].request.strategy_version_id
    BY <1>1 DEF RunsAsFrozen
  <2>4. Alike(runs[i].request, runs[j].request)
    BY <2>2, <2>3 DEF Alike, AsFrozen
  <2>5. /\ i \in DOMAIN runs /\ j \in DOMAIN runs
        /\ runs[i].evidence # None /\ runs[j].evidence # None
    BY DEF OwnRuns, AllPinned
  <2> QED
    BY <2>4, <2>5, PinnedIsStored DEF Alike
<1> QED
  BY <1>1, <1>2, <1>4 DEF AlikeRuns, RunsAsFrozen

\* Alike runs give equal outcomes and an equal portfolio.
LEMMA AlikeRunsAgree ==
  ASSUME BooksIInv, NEW c \in DOMAIN experiments, NEW d \in DOMAIN experiments,
         AlikeRuns(c, d), Cardinality(OwnRuns(c)) = Cardinality(OwnRuns(d))
  PROVE  OutcomesOf(c) = OutcomesOf(d) /\ LoadState(c) = LoadState(d)
<1>0. IInv /\ TypeOK
  BY DEF BooksIInv, IInv
<1>1. PICK N \in Nat : N = Len(runs)
  BY <1>0, OwnRunsAreFinite
<1>2. PICK f : IsReplay(f, c, N) /\ Replayed(c) = f[N]
  BY <1>1, ReplayedIs DEF ReplayEnds
<1>3. PICK g : IsReplay(g, d, N) /\ Replayed(d) = g[N]
  BY <1>1, ReplayedIs DEF ReplayEnds
<1>4. /\ Replayed(c).ok /\ LoadState(c) = Ok(Replayed(c).state)
      /\ Replayed(d).ok /\ LoadState(d) = Ok(Replayed(d).state)
  BY ReplayIsFound
<1>5. f[0] = Start(c) /\ Replays(f, c, N)
  BY <1>2, <1>4, ReplayTells
<1>6. g[0] = Start(d) /\ Replays(g, d, N)
  BY <1>3, <1>4, ReplayTells
<1>7. \A i, j \in 0..N : Place(c, i) = Place(d, j) => f[i] = g[j]
  BY <1>0, <1>1, <1>5, <1>6, InStep
<1>8. LoadState(c) = LoadState(d)
  <2>1. Place(c, N) = Place(d, N)
    BY <1>0, <1>1, Places
  <2> QED
    BY <1>2, <1>3, <1>4, <1>7, <2>1
<1>9. ASSUME NEW n \in 1..Cardinality(OwnRuns(c)),
             NEW i \in OwnRuns(c), Place(c, i) = n, NEW j \in OwnRuns(d), Place(d, j) = n
      PROVE  runs[i].outcome = runs[j].outcome
  <2>1. i \in 1..N /\ j \in 1..N /\ i - 1 \in 0..N /\ j - 1 \in 0..N
    BY <1>0, <1>1, OwnRunsAreFinite
  <2>2. /\ Place(c, i-1) \in Nat /\ Place(c, i) = Place(c, i-1) + 1
        /\ Place(d, j-1) \in Nat /\ Place(d, j) = Place(d, j-1) + 1
    BY <1>0, <1>1, <2>1, Places
  <2>3. Place(c, i-1) = Place(d, j-1)
    BY <1>9, <2>2
  <2>4. f[i-1] = g[j-1]
    BY <1>7, <2>1, <2>3
  <2> QED
    BY <1>5, <1>6, <1>9, <2>1, <2>4, AlikePlaces
<1>10. ASSUME NEW n \in 1..Cardinality(OwnRuns(c))
       PROVE  OutcomesOf(c)[n] = OutcomesOf(d)[n]
  <2>1. PICK i : i = CHOOSE k \in OwnRuns(c) : Place(c, k) = n
    OBVIOUS
  <2>2. PICK j : j = CHOOSE k \in OwnRuns(d) : Place(d, k) = n
    OBVIOUS
  <2>3. i \in OwnRuns(c) /\ Place(c, i) = n
    BY <1>0, <2>1, PlacesFilled
  <2>4. j \in OwnRuns(d) /\ Place(d, j) = n
    BY <1>0, <2>2, PlacesFilled
  <2>5. OutcomesOf(c)[n] = runs[i].outcome /\ OutcomesOf(d)[n] = runs[j].outcome
    BY <2>1, <2>2 DEF OutcomesOf
  <2> QED
    BY <1>9, <2>3, <2>4, <2>5
<1>11. OutcomesOf(c) = OutcomesOf(d)
  BY <1>10 DEF OutcomesOf
<1> QED
  BY <1>8, <1>11

\* The same cash and strategy, whatever the pack they were created on.
LEMMA SameButForThePack ==
  ASSUME TypeOK, NEW c \in DOMAIN experiments, NEW d, NEW pack,
         experiments[d].spec = [experiments[c].spec EXCEPT !.cycle_id = d, !.pack = pack]
  PROVE  /\ experiments[d].spec.strategy = experiments[c].spec.strategy
         /\ experiments[d].spec.initial_cash = experiments[c].spec.initial_cash
<1>1. experiments[c].spec \in Specs
  BY DEF TypeOK
<1>2. {"strategy", "initial_cash"} \subseteq DOMAIN experiments[c].spec
  BY <1>1, SpecsAssumption
<1> QED
  BY <1>2

\* Two experiments that both reproduce one strategy on equal cash are on the
\* pack of its input, and with all evidence at hand they decide the same and end
\* with the same portfolio, however their decisions interleave (query.rs
\* verify_research_reproduction, ADR-003).
THEOREM ReproductionsAlwaysAgree == Spec => []ReproductionsAgree
<1>1. BooksIInv => ReproductionsAgree
  <2> SUFFICES ASSUME BooksIInv, NEW c \in DOMAIN experiments, NEW d \in DOMAIN experiments,
                      Reproduced(c), Reproduced(d),
                      experiments[d].spec = [experiments[c].spec EXCEPT
                                               !.cycle_id = d, !.pack = experiments[d].spec.pack]
               PROVE  /\ experiments[d].spec.pack
                           = ReviewedInputs[experiments[c].spec.strategy.research_input_id].pack
                      /\ AllPinned(c) /\ AllPinned(d) =>
                           OutcomesOf(c) = OutcomesOf(d) /\ LoadState(c) = LoadState(d)
    BY DEF ReproductionsAgree
  <2>1. IInv /\ TypeOK
    BY DEF BooksIInv, IInv
  <2>2. /\ experiments[d].spec.strategy = experiments[c].spec.strategy
        /\ experiments[d].spec.initial_cash = experiments[c].spec.initial_cash
    BY <2>1, SameButForThePack
  <2>3. experiments[d].spec.pack
          = ReviewedInputs[experiments[c].spec.strategy.research_input_id].pack
    BY <2>1, <2>2, ReproducedPack
  <2>4. AllPinned(c) /\ AllPinned(d) =>
          OutcomesOf(c) = OutcomesOf(d) /\ LoadState(c) = LoadState(d)
    BY <2>1, <2>2, ReproductionsAreAlike, AlikeRunsAgree
  <2> QED
    BY <2>3, <2>4
<1> QED
  BY <1>1, BooksInvariant, PTL
=============================================================================
