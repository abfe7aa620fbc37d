------------------------------ MODULE Session ------------------------------
(***************************************************************************)
(* What the gateway promises its clients, without processes, messages or   *)
(* faults: the record changes only because a client performs a call of its *)
(* program that the record does not hold yet, not before the call's turn;  *)
(* the record keeps what it holds; and a call is acknowledged only when    *)
(* the record holds what it asked for.                                     *)
(*                                                                         *)
(* A refusal is not as final as an acknowledgement: a client that sent a   *)
(* call twice may hear one copy refused while the other is still on its    *)
(* way, and that copy may be performed later.                              *)
(***************************************************************************)
EXTENDS Naturals, Sequences

CONSTANTS
  Clients,   \* programs that call the gateway
  Program    \* client -> the sequence of its calls

VARIABLES
  record,   \* whatever is on record
  held,     \* the calls whose effect the record holds
  turn,     \* client -> the call it is at
  refused   \* client -> its calls that were answered with an error

sessionVars == <<record, held, turn, refused>>

SessionInit ==
  /\ held = {}
  /\ turn = [cl \in Clients |-> 1]
  /\ refused = [cl \in Clients |-> {}]

Perform(cl, n) ==
  /\ n = turn[cl] \/ n \in refused[cl]
  /\ Program[cl][n] \notin held
  /\ Program[cl][n] \in held' /\ held \subseteq held'
  /\ UNCHANGED <<turn, refused>>

Acknowledge(cl) ==
  /\ turn[cl] \in DOMAIN Program[cl]
  /\ Program[cl][turn[cl]] \in held
  /\ turn' = [turn EXCEPT ![cl] = @ + 1]
  /\ UNCHANGED <<record, held, refused>>

Refuse(cl) ==
  /\ turn[cl] \in DOMAIN Program[cl]
  /\ refused' = [refused EXCEPT ![cl] = @ \cup {turn[cl]}]
  /\ turn' = [turn EXCEPT ![cl] = @ + 1]
  /\ UNCHANGED <<record, held>>

SessionNext ==
  \E cl \in Clients :
    \/ \E n \in DOMAIN Program[cl] : Perform(cl, n)
    \/ Acknowledge(cl)
    \/ Refuse(cl)

SessionSpec == SessionInit /\ [][SessionNext]_sessionVars
=============================================================================
