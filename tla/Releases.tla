------------------------------ MODULE Releases ------------------------------
(***************************************************************************)
(* One ledger file under successive builds of the program.  The reviewed   *)
(* packs, strategies and research inputs are compiled in (store/mod.rs,    *)
(* reviewed_market_pack and its siblings), so each release judges the file *)
(* by its own catalogue: it opens a file only if every row that names a    *)
(* reviewed definition holds the one the release carries.  A file outlives *)
(* many releases, and an older one may be put back.                        *)
(***************************************************************************)
EXTENDS Execution

CONSTANTS
  Shipped,   \* release -> [packs, strategies, inputs]
  Specs, Imports, Requests, Receipts

\* The pack a new file is given is among those of every build.
ASSUME DefaultPackShips == \A r \in DOMAIN Shipped : "cn-offline-fixture-pack-1" \in DOMAIN Shipped[r].packs

VARIABLES
  release,   \* the build that was started last
  open,      \* it accepted the file and serves
  packs, inputs, artifacts, experiments, evidence, runs, fills

ledger == <<packs, inputs, artifacts, experiments, evidence, runs, fills>>

\* The store as one release runs it.
As(r) == INSTANCE Ledger WITH
  Catalogue          <- Shipped[r].packs,
  ReviewedStrategies <- Shipped[r].strategies,
  ReviewedInputs     <- Shipped[r].inputs

\* The first start creates the file.
Init ==
  /\ release \in DOMAIN Shipped
  /\ open = TRUE
  /\ \E r \in DOMAIN Shipped : r = release /\ As(r)!Init

\* The process is stopped and a build, the same or another one, is started. A
\* file it does not accept it leaves alone.
Deploy(r) ==
  /\ release' = r
  /\ open' = As(r)!FileLoads
  /\ UNCHANGED ledger

Operate(r) ==
  /\ open /\ release = r
  /\ As(r)!Next
  /\ UNCHANGED <<release, open>>

Next == \E r \in DOMAIN Shipped : Deploy(r) \/ Operate(r)

Spec == Init /\ [][Next]_<<release, open, ledger>>

(***************************************************************************)
(* Properties.                                                             *)
(***************************************************************************)
Opens(r) == As(r)!FileLoads

Within(older, newer) ==
  DOMAIN older \subseteq DOMAIN newer /\ \A id \in DOMAIN older : newer[id] = older[id]

\* A release retains another when it carries all its definitions unchanged, and
\* with each strategy the source and the research output that agree with it
\* (Shipped has the strategies of which they do).
Retains(new, old) ==
  /\ Within(Shipped[old].packs, Shipped[new].packs)
  /\ Within(Shipped[old].strategies, Shipped[new].strategies)
  /\ Within(Shipped[old].inputs, Shipped[new].inputs)

\* ADR-002: a release reads back whatever it wrote, and so does every release
\* that retains its definitions, whatever else that one carries.
RetainingReleasesOpen ==
  \A r, s \in DOMAIN Shipped :
    /\ open /\ r = release => Opens(r)
    /\ Opens(s) /\ Retains(r, s) => Opens(r)

\* Releases that open a file agree on its past: each replays every experiment,
\* and all answer a repeated request with the same run.
ReleasesAgree ==
  \A r, s \in DOMAIN Shipped :
    Opens(r) /\ Opens(s) =>
      /\ \A c \in DOMAIN experiments : As(r)!VerifyReplay(c)
      /\ \A req \in Requests :
           As(r)!PriorRuns(req) # {} => As(r)!SubmitReply(req) = As(s)!SubmitReply(req)
=============================================================================
