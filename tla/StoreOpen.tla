----------------------------- MODULE StoreOpen -----------------------------
(***************************************************************************)
(* Opening a database file (v2/src/store/mod.rs, with_connection).  Above  *)
(* the acceptance boundary everything is a read, but each statement reads  *)
(* on its own: other processes may open, initialise and use the same file  *)
(* in between, and any process may crash between two statements.           *)
(***************************************************************************)
EXTENDS Integers

CONSTANTS Processes,     \* gateways started on the same file
          Experiments,   \* experiments an open store may create
          MaxCrashes     \* bound on crashes, for the runs only

ASSUME MaxCrashesAssumption == MaxCrashes \in Nat

VARIABLES
  file,       \* what is on disk
  pc,         \* how far a process is
  seen,       \* what it has read of the file's identity
  listed,     \* the experiments it has listed
  disturbed,  \* whether another process wrote since it started to open
  origin,     \* what the file was at the start: "foreign", "bare" or "own"
  crashes

vars == <<file, pc, seen, listed, disturbed, origin, crashes>>

ApplicationId == "ASV2"
SchemaVersion == 8

\* Classes of database objects: the eight tables with their columns, whether or
\* not with the index, which no start asks for; some of those tables missing or
\* with other columns; tables of V1; anything else.
Objects == {"tables", "short", "legacy", "unknown"}

\* `pack': the default pack is stored.  `sound': the packs and inputs that are
\* stored are the reviewed ones.  `resolved': experiments whose pack, artifact
\* and input rows are there.
Files == [objects : SUBSET Objects, app : {"", ApplicationId, "other"}, version : {0, 7, 8},
          wal : BOOLEAN, pack : BOOLEAN, sound : BOOLEAN,
          experiments : SUBSET Experiments, resolved : SUBSET Experiments]

Fresh(s) == s.objects = {} /\ s.app = "" /\ s.version = 0

\* Mutant of IdentityKnown: an older schema is let in.
IdentityOfAnyVersion(s) ==
  s.objects \subseteq {"tables", "short"} /\ s.app = ApplicationId

IdentityKnown(s) ==
  /\ s.objects \subseteq {"tables", "short"}
  /\ s.app = ApplicationId /\ s.version = SchemaVersion

\* A file of this schema in which all there is can be loaded.  That a pack is
\* there is not asked for.
Current(f) ==
  /\ f.objects = {"tables"} /\ f.app = ApplicationId /\ f.version = SchemaVersion
  /\ f.sound
  /\ f.experiments \subseteq f.resolved

Foreign(f) == ~Fresh(f) /\ ~Current(f)

Complete(f) == Current(f) /\ f.pack

\* Mutant of Created: the default pack is registered after the commit.
CreatedWithoutPack(f) ==
  [f EXCEPT !.objects = {"tables"}, !.app = ApplicationId, !.version = SchemaVersion]

\* Mutant of Created: the identity is stamped after the commit.
CreatedUnstamped(f) == [f EXCEPT !.objects = {"tables"}, !.pack = TRUE]

\* What the schema transaction commits: tables, identity and default pack.
Created(f) ==
  [f EXCEPT !.objects = {"tables"}, !.app = ApplicationId, !.version = SchemaVersion,
            !.pack = TRUE]

\* Mutant of WithExperiment: the rows it refers to are committed later.
WithExperimentAlone(f, e, default) == [f EXCEPT !.experiments = @ \cup {e}]

\* What create_experiment commits: the experiment and all it refers to, the
\* default pack if it is of that one.
WithExperiment(f, e, default) ==
  [f EXCEPT !.experiments = @ \cup {e}, !.resolved = @ \cup {e}, !.pack = @ \/ default]

Nothing == [objects |-> {}, app |-> "", version |-> 0]

\* Any file, where rows need tables to be in.
Init ==
  /\ file \in {f \in Files :
       /\ f.objects \cap {"tables", "short"} = {} => ~f.pack /\ f.sound /\ f.experiments = {}
       /\ f.resolved \subseteq f.experiments}
  /\ pc = [p \in Processes |-> "down"]
  /\ seen = [p \in Processes |-> Nothing]
  /\ listed = [p \in Processes |-> {}]
  /\ disturbed = [p \in Processes |-> FALSE]
  /\ origin = IF Foreign(file) THEN "foreign"
               ELSE IF Fresh(file) \/ file.pack THEN "own" ELSE "bare"
  /\ crashes = 0

Goes(p, here, next) == pc[p] = here /\ pc' = [pc EXCEPT ![p] = next]
DisturbsOthers(p) == disturbed' = [q \in Processes |-> q # p \/ disturbed[q]]

\* A process that failed to open has exited; starting it again begins anew.
Start(p) ==
  /\ Goes(p, "down", "objects") \/ Goes(p, "refused", "objects")
  /\ seen' = [seen EXCEPT ![p] = Nothing]
  /\ listed' = [listed EXCEPT ![p] = {}]
  /\ disturbed' = [disturbed EXCEPT ![p] = FALSE]
  /\ UNCHANGED <<file, origin, crashes>>

ReadObjects(p) ==
  /\ Goes(p, "objects", "app")
  /\ seen' = [seen EXCEPT ![p].objects = file.objects]
  /\ UNCHANGED <<file, listed, disturbed, origin, crashes>>

ReadApplicationId(p) ==
  /\ Goes(p, "app", "version")
  /\ seen' = [seen EXCEPT ![p].app = file.app]
  /\ UNCHANGED <<file, listed, disturbed, origin, crashes>>

\* The last of the three reads; a known identity is looked into further.
ReadVersion(p) ==
  /\ seen' = [seen EXCEPT ![p].version = file.version]
  /\ Goes(p, "version", IF Fresh(seen'[p]) THEN "accepted"
                        ELSE IF IdentityKnown(seen'[p]) THEN "columns" ELSE "refused")
  /\ UNCHANGED <<file, listed, disturbed, origin, crashes>>

CheckColumns(p) ==
  /\ Goes(p, "columns", IF "tables" \in file.objects /\ "short" \notin file.objects
                        THEN "list" ELSE "refused")
  /\ UNCHANGED <<file, seen, listed, disturbed, origin, crashes>>

ListExperiments(p) ==
  /\ Goes(p, "list", "load")
  /\ listed' = [listed EXCEPT ![p] = file.experiments]
  /\ UNCHANGED <<file, seen, disturbed, origin, crashes>>

LoadExperiments(p) ==
  /\ Goes(p, "load", IF file.sound /\ listed[p] \subseteq file.resolved
                     THEN "accepted" ELSE "refused")
  /\ UNCHANGED <<file, seen, listed, disturbed, origin, crashes>>

\* The first write: journal_mode=WAL, in a statement of its own.
SetJournalMode(p) ==
  /\ Goes(p, "accepted", IF Fresh(seen[p]) THEN "schema" ELSE "open")
  /\ file' = [file EXCEPT !.wal = TRUE]
  /\ UNCHANGED <<seen, listed, disturbed, origin, crashes>>

\* The schema transaction; CREATE TABLE fails when the tables are there.
CreateSchema(p) ==
  /\ \/ /\ file.objects = {}
        /\ Goes(p, "schema", "open")
        /\ file' = Created(file)
        /\ DisturbsOthers(p)
     \/ /\ file.objects # {}
        /\ Goes(p, "schema", "refused")
        /\ UNCHANGED <<file, disturbed>>
  /\ UNCHANGED <<seen, listed, origin, crashes>>

CreateExperiment(p, e) ==
  /\ pc[p] = "open"
  /\ e \notin file.experiments
  /\ \E default \in BOOLEAN : file' = WithExperiment(file, e, default)
  /\ DisturbsOthers(p)
  /\ UNCHANGED <<pc, seen, listed, origin, crashes>>

\* A transaction that has not committed leaves nothing behind.
Crash(p) ==
  /\ crashes < MaxCrashes
  /\ pc[p] # "down"
  /\ pc' = [pc EXCEPT ![p] = "down"]
  /\ crashes' = crashes + 1
  /\ UNCHANGED <<file, seen, listed, disturbed, origin>>

Opens(p) ==
  \/ Start(p)
  \/ ReadObjects(p) \/ ReadApplicationId(p) \/ ReadVersion(p)
  \/ CheckColumns(p) \/ ListExperiments(p) \/ LoadExperiments(p)
  \/ SetJournalMode(p) \/ CreateSchema(p)

Next ==
  \E p \in Processes :
    \/ Opens(p)
    \/ \E e \in Experiments : CreateExperiment(p, e)
    \/ Crash(p)

Spec == Init /\ [][Next]_vars

\* A started process runs on, and one that has exited is started again.
FairSpec == Spec /\ \A p \in Processes : WF_vars(Opens(p))

(***************************************************************************)
(* Properties.                                                             *)
(***************************************************************************)
Steps == {"down", "objects", "app", "version", "columns", "list", "load", "accepted", "schema",
          "open", "refused"}

\* The file is always one of Files: an identity this program stamps is the one
\* it recognises, and a process is at one of the steps of with_connection.
TypeOK ==
  /\ file \in Files
  /\ pc \in [Processes -> Steps]
  /\ seen \in [Processes -> [objects : SUBSET Objects, app : {"", ApplicationId, "other"},
                             version : {0, 7, 8}]]
  /\ listed \in [Processes -> SUBSET Experiments]
  /\ disturbed \in [Processes -> BOOLEAN]
  /\ origin \in {"foreign", "bare", "own"}
  /\ crashes \in Nat

\* A file that is neither empty nor of this schema with all its rows in order
\* is never written to, journal mode included, however often and by however
\* many processes it is opened ("no refused file reaches a write", mod.rs).
ForeignFilesUntouched == [][Foreign(file) => file' = file]_vars

\* A store is open on a file only while everything in it can be loaded, whoever
\* initialised it and wherever others crashed.  Unless the file came here with
\* its tables and without the default pack, that is there too.
OpenIsComplete ==
  \A p \in Processes :
    pc[p] = "open" => Current(file) /\ (origin = "own" => Complete(file))

\* A file that is not foreign is refused only to a process that raced with
\* another's write: no crash, and no history of openings, leaves a file that
\* the next start, alone, would refuse.
RefusalsAreRaces ==
  \A p \in Processes : origin # "foreign" /\ pc[p] = "refused" => disturbed[p]

\* Processes that are started again whenever they fail all end up open on such
\* a file, once crashes stop.
EveryProcessOpens ==
  origin # "foreign" => \A p \in Processes : <>[](pc[p] = "open")

(***************************************************************************)
(* The inductive invariant behind the safety properties.                   *)
(***************************************************************************)
\* Nobody else has written since p started: what it read is what is there.
Undisturbed(p) == Foreign(file) \/ ~disturbed[p]

ReadsHold(p) ==
  /\ pc[p] \in {"app", "version"} => seen[p].objects = file.objects
  /\ pc[p] = "version" => seen[p].app = file.app
  /\ pc[p] \in {"columns", "list", "load"} => IdentityKnown(file) /\ ~Fresh(seen[p])
  /\ pc[p] \in {"list", "load"} => file.objects = {"tables"}
  /\ pc[p] = "load" => listed[p] = file.experiments
  /\ pc[p] \in {"accepted", "schema"} /\ Fresh(seen[p]) => Fresh(file)
  /\ pc[p] = "schema" => Fresh(seen[p])
  /\ pc[p] = "refused" => Foreign(file)

\* Until a file is initialised nobody has read anything else of it.
FreshUnread ==
  Fresh(file) =>
    /\ file.sound /\ file.experiments = {}
    /\ \A p \in Processes :
         Fresh(seen[p]) /\ pc[p] \notin {"columns", "list", "load", "open"}

ForeignRefused ==
  Foreign(file) => \A p \in Processes : pc[p] \notin {"accepted", "schema", "open"}

\* A file never becomes foreign or stops being so, and keeps its default pack.
OriginHolds ==
  /\ origin = "foreign" <=> Foreign(file)
  /\ origin = "own" => Fresh(file) \/ file.pack

IInv ==
  /\ TypeOK
  /\ OriginHolds
  /\ FreshUnread
  /\ ForeignRefused
  /\ \A p \in Processes : Undisturbed(p) => ReadsHold(p)
=============================================================================
