----------------------------- MODULE MC_Gateway -----------------------------
(***************************************************************************)
(* Two clients of one gateway.  One sets an experiment up and follows the  *)
(* frozen signals of its strategy; the other sends the same decision and   *)
(* one that nobody froze, and completes the experiment under the first.    *)
(* What a changed decision, import or experiment would be answered is      *)
(* asked in every state.                                                   *)
(***************************************************************************)
EXTENDS Gateway, MC_Research

TheClients == {"follower", "rival"}

ExpA == SpecOf("A", "research-momentum-v1", Pack1)
Bought == FrozenImport(Pack1, 3, "Buy")
Signalled(n) == FrozenRequest("A", "research-momentum-v1", n, Pack1)
Changed == [Signalled(1) EXCEPT !.decision_at = @ + 60]
Unfrozen == [Signalled(2) EXCEPT !.signal_id = "post-hoc-signal"]

GatewaySpecs == {ExpA, [ExpA EXCEPT !.initial_cash = 20000]}
GatewayImports == {Bought, [Bought EXCEPT !.execution.available = 500]}
GatewayRequests == {Signalled(1), Signalled(2), Changed, Unfrozen}

Call(op, arg) == [op |-> op, arg |-> arg]

TheProgram == [cl \in TheClients |->
  IF cl = "follower"
    THEN <<Call("create", ExpA), Call("quote", Bought),
           Call("submit", Signalled(1)), Call("submit", Signalled(2)), Call("view", "A")>>
    ELSE <<Call("submit", Signalled(1)), Call("submit", Unfrozen), Call("complete", "A")>>]

\* An experiment whose frozen signals were all acknowledged, to whichever
\* client, reproduces the research as long as no other decision entered its
\* record, whatever was refused, lost, repeated or late; with one that did, it
\* does not (query.rs, ADR-003: no extra runs).
Acknowledged(c) ==
  {CallAt(e).arg : e \in {f \in Answered :
     /\ CallAt(f).op = "submit" /\ CallAt(f).arg.cycle_id = c
     /\ ReplyTo(f).ok}}
FrozenRequests(c) ==
  LET strategy == experiments[c].spec.strategy.strategy_version_id IN
  {FrozenRequest(c, strategy, n, Pack1) : n \in DOMAIN ReviewedOutputs[strategy].signals}
FollowersReproduce ==
  \A c \in DOMAIN experiments :
    FrozenRequests(c) \subseteq Acknowledged(c) =>
      (Reproduced(c) <=> {runs[i].request : i \in OwnRuns(c)} = FrozenRequests(c))
=============================================================================
