-------------------------- MODULE StoreOpen_proofs --------------------------
(***************************************************************************)
(* Opening a file is safe for any number of processes, experiments and     *)
(* crashes.  The three properties follow from one inductive invariant: a   *)
(* process nobody disturbed has read what is still on disk (ReadsHold), a  *)
(* foreign file lets nobody past the reads (ForeignRefused), and before a  *)
(* file is initialised nobody has read anything of it (FreshUnread).       *)
(***************************************************************************)
EXTENDS StoreOpen, TLAPS

USE MaxCrashesAssumption

\* What a file is does not depend on its journal mode.
LEMMA JournalModeIsNoIdentity ==
  ASSUME NEW f \in Files
  PROVE  LET g == [f EXCEPT !.wal = TRUE]
         IN  /\ g \in Files
             /\ Fresh(g) = Fresh(f) /\ Current(g) = Current(f)
             /\ Foreign(g) = Foreign(f) /\ IdentityKnown(g) = IdentityKnown(f)
BY DEF Files, Fresh, Current, Foreign, IdentityKnown

\* The schema transaction makes a fresh file complete.
LEMMA CreatedIsComplete ==
  ASSUME NEW f \in Files, Fresh(f), f.sound, f.experiments = {}
  PROVE  Created(f) \in Files /\ Complete(Created(f)) /\ ~Fresh(Created(f))
BY DEF Files, Fresh, Current, Complete, Created, Objects, ApplicationId, SchemaVersion

\* An experiment is added with all it refers to, so the file stays current.
LEMMA WithExperimentIsCurrent ==
  ASSUME NEW f \in Files, Current(f), NEW e \in Experiments, NEW default \in BOOLEAN
  PROVE  LET g == WithExperiment(f, e, default)
         IN  g \in Files /\ Current(g) /\ ~Fresh(g) /\ (f.pack => g.pack)
BY DEF Files, Fresh, Current, WithExperiment, ApplicationId, SchemaVersion

\* Before the first step nothing has been read and nobody has been disturbed.
LEMMA InitIInv == Init => IInv
<1> SUFFICES ASSUME Init PROVE IInv
  OBVIOUS
<1>1. Fresh(Nothing) /\ Nothing \in [objects : SUBSET Objects, app : {"", ApplicationId, "other"},
                                     version : {0, 7, 8}]
  BY DEF Fresh, Nothing
<1>2. TypeOK
  BY <1>1 DEF Init, TypeOK, Steps
<1>3. OriginHolds
  BY DEF Init, OriginHolds, Foreign
<1>4. FreshUnread
  BY <1>1 DEF Init, FreshUnread, Fresh
<1>5. ForeignRefused
  BY DEF Init, ForeignRefused
<1>6. \A p \in Processes : ReadsHold(p)
  BY DEF Init, ReadsHold
<1> QED
  BY <1>2, <1>3, <1>4, <1>5, <1>6 DEF IInv

\* A step that reads leaves the file, and what others know of it, alone.
LEMMA ReadPreserves ==
  ASSUME IInv, NEW p \in Processes, TypeOK',
         UNCHANGED <<file, origin>>,
         \A q \in Processes \ {p} : /\ pc'[q] = pc[q] /\ seen'[q] = seen[q]
                                    /\ listed'[q] = listed[q] /\ disturbed'[q] = disturbed[q],
         Fresh(file) => Fresh(seen'[p]) /\ pc'[p] \notin {"columns", "list", "load", "open"},
         Foreign(file) => pc'[p] \notin {"accepted", "schema", "open"},
         Undisturbed(p)' => ReadsHold(p)'
  PROVE  IInv'
<1>1. FreshUnread'
  BY DEF IInv, FreshUnread, Fresh
<1>2. ForeignRefused'
  BY DEF IInv, ForeignRefused, Foreign, Fresh, Current
<1>3. ASSUME NEW q \in Processes \ {p}, Undisturbed(q)' PROVE ReadsHold(q)'
  <2>1. Undisturbed(q)
    BY <1>3 DEF Undisturbed, Foreign, Fresh, Current
  <2>2. ReadsHold(q)
    BY <2>1 DEF IInv
  <2>3. /\ Fresh(file)' = Fresh(file) /\ Foreign(file)' = Foreign(file)
        /\ IdentityKnown(file)' = IdentityKnown(file)
    BY DEF Foreign, Fresh, Current, IdentityKnown
  <2>4. Fresh(seen[q])' = Fresh(seen[q])
    BY DEF Fresh
  <2> QED
    BY <2>2, <2>3, <2>4 DEF ReadsHold
<1>4. OriginHolds'
  BY DEF IInv, OriginHolds, Foreign, Fresh, Current
<1> QED
  BY <1>1, <1>2, <1>3, <1>4 DEF IInv

\* A process that commits leaves a file that is current, and in which the default
\* pack is still there; every other process that is opening is disturbed by it.
LEMMA WritePreserves ==
  ASSUME IInv, NEW p \in Processes, TypeOK', UNCHANGED origin, ~Foreign(file),
         DisturbsOthers(p), Current(file'), ~Fresh(file'), pc'[p] = "open",
         Fresh(file) \/ file.pack => file'.pack
  PROVE  IInv'
<1>1. ~Foreign(file)'
  BY DEF Foreign
<1>2. FreshUnread' /\ ForeignRefused'
  BY <1>1 DEF FreshUnread, ForeignRefused
<1>3. OriginHolds'
  <2>1. origin' # "foreign"
    BY DEF OriginHolds, IInv
  <2>2. origin' = "own" => file'.pack
    BY DEF OriginHolds, IInv
  <2> QED
    BY <1>1, <2>1, <2>2 DEF OriginHolds
<1>4. ASSUME NEW q \in Processes PROVE Undisturbed(q)' => ReadsHold(q)'
  <2>1. CASE q = p
    BY <2>1 DEF ReadsHold
  <2>2. CASE q # p
    BY <2>2, <1>1 DEF DisturbsOthers, Undisturbed
  <2> QED
    BY <2>1, <2>2
<1> QED
  BY <1>2, <1>3, <1>4 DEF IInv

\* The type of the state after every step.
LEMMA NextTypeOK == TypeOK /\ Next => TypeOK'
<1> SUFFICES ASSUME TypeOK, Next PROVE TypeOK'
  OBVIOUS
<1>1. PICK p \in Processes :
        Opens(p) \/ (\E e \in Experiments : CreateExperiment(p, e)) \/ Crash(p)
  BY DEF Next
<1>2. CASE Start(p)
  BY <1>2 DEF Start, Goes, TypeOK, Steps, Nothing
<1>3. CASE ReadObjects(p)
  BY <1>3 DEF ReadObjects, Goes, TypeOK, Steps, Files
<1>4. CASE ReadApplicationId(p)
  BY <1>4 DEF ReadApplicationId, Goes, TypeOK, Steps, Files
<1>5. CASE ReadVersion(p)
  BY <1>5 DEF ReadVersion, Goes, TypeOK, Steps, Files
<1>6. CASE CheckColumns(p)
  BY <1>6 DEF CheckColumns, Goes, TypeOK, Steps
<1>7. CASE ListExperiments(p)
  BY <1>7 DEF ListExperiments, Goes, TypeOK, Steps, Files
<1>8. CASE LoadExperiments(p)
  BY <1>8 DEF LoadExperiments, Goes, TypeOK, Steps
<1>9. CASE SetJournalMode(p)
  BY <1>9 DEF SetJournalMode, Goes, TypeOK, Steps, Files
<1>10. CASE CreateSchema(p)
  <2>0. Created(file) \in Files
    BY DEF Created, TypeOK, Files, Objects, SchemaVersion
  <2>1. file' \in Files
    BY <1>10, <2>0 DEF CreateSchema, TypeOK
  <2>2. disturbed' \in [Processes -> BOOLEAN]
    BY <1>10 DEF CreateSchema, DisturbsOthers, TypeOK
  <2>3. pc' \in [Processes -> Steps]
    BY <1>10 DEF CreateSchema, Goes, TypeOK, Steps
  <2> QED
    BY <1>10, <2>1, <2>2, <2>3 DEF CreateSchema, TypeOK
<1>11. ASSUME NEW e \in Experiments, CreateExperiment(p, e) PROVE TypeOK'
  <2>0. \A default \in BOOLEAN : WithExperiment(file, e, default) \in Files
    BY DEF WithExperiment, TypeOK, Files
  <2>1. file' \in Files
    BY <1>11, <2>0 DEF CreateExperiment
  <2>2. disturbed' \in [Processes -> BOOLEAN]
    BY <1>11 DEF CreateExperiment, DisturbsOthers, TypeOK
  <2> QED
    BY <1>11, <2>1, <2>2 DEF CreateExperiment, TypeOK
<1>12. CASE Crash(p)
  <2>0. crashes \in Nat /\ crashes' = crashes + 1
    BY <1>12 DEF Crash, TypeOK
  <2>1. crashes' \in Nat
    BY <2>0
  <2>2. "down" \in Steps
    BY DEF Steps
  <2>3. pc' \in [Processes -> Steps]
    BY <1>12, <2>2 DEF Crash, TypeOK
  <2> QED
    BY <1>12, <2>1, <2>3 DEF Crash, TypeOK
<1> QED
  BY <1>1, <1>2, <1>3, <1>4, <1>5, <1>6, <1>7, <1>8, <1>9, <1>10, <1>11, <1>12 DEF Opens

\* A step of one process keeps the invariant, reads first, then the writes.
LEMMA StepIInv ==
  ASSUME IInv, TypeOK', NEW p \in Processes,
         Opens(p) \/ (\E e \in Experiments : CreateExperiment(p, e)) \/ Crash(p)
  PROVE  IInv'
<1> USE DEF Goes
<1>0. TypeOK /\ (Fresh(file) => Fresh(seen[p]) /\ pc[p] \notin {"columns", "list", "load", "open"})
  BY DEF IInv, FreshUnread
<1>a. /\ Undisturbed(p) => ReadsHold(p)
      /\ Foreign(file) => pc[p] \notin {"accepted", "schema", "open"}
  BY DEF IInv, ForeignRefused
<1>b. file \in Files /\ pc \in [Processes -> Steps] /\ DOMAIN seen = Processes
  BY <1>0 DEF TypeOK
<1>c. /\ DOMAIN listed = Processes /\ DOMAIN disturbed = Processes
  BY <1>0 DEF TypeOK
<1>d. seen[p] \in [objects : SUBSET Objects, app : {"", ApplicationId, "other"}, version : {0, 7, 8}]
  BY <1>0 DEF TypeOK
<1>1. CASE Start(p)
  <2>1. Fresh(seen'[p]) /\ pc'[p] = "objects"
    BY <1>1, <1>b DEF Start, Fresh, Nothing
  <2>2. ReadsHold(p)'
    BY <2>1 DEF ReadsHold
  <2> QED
    BY <1>1, <1>b, <1>c, <2>1, <2>2, ReadPreserves DEF Start
<1>2. CASE ReadObjects(p)
  <2>1. /\ seen'[p] = [seen[p] EXCEPT !.objects = file.objects] /\ pc'[p] = "app"
        /\ UNCHANGED file
    BY <1>2, <1>b DEF ReadObjects
  <2>2. Fresh(file) => Fresh(seen'[p])
    BY <2>1, <1>0, <1>d DEF Fresh
  <2>3. ReadsHold(p)'
    BY <2>1, <1>d DEF ReadsHold
  <2> QED
    BY <1>2, <1>b, <2>1, <2>2, <2>3, ReadPreserves DEF ReadObjects
<1>3. CASE ReadApplicationId(p)
  <2>1. /\ seen'[p] = [seen[p] EXCEPT !.app = file.app] /\ pc'[p] = "version"
        /\ pc[p] = "app" /\ UNCHANGED <<file, disturbed>>
    BY <1>3, <1>b DEF ReadApplicationId
  <2>2. Fresh(file) => Fresh(seen'[p])
    BY <2>1, <1>0, <1>d DEF Fresh
  <2>3. ASSUME Undisturbed(p)' PROVE ReadsHold(p)'
    <3>1. seen[p].objects = file.objects
      BY <2>3, <2>1, <1>a DEF Undisturbed, ReadsHold, Foreign, Fresh, Current
    <3> QED
      BY <3>1, <2>1, <1>d DEF ReadsHold
  <2> QED
    BY <1>3, <1>b, <2>1, <2>2, <2>3, ReadPreserves DEF ReadApplicationId
<1>4. CASE ReadVersion(p)
  <2>1. /\ seen'[p] = [seen[p] EXCEPT !.version = file.version]
        /\ pc'[p] = IF Fresh(seen'[p]) THEN "accepted"
                    ELSE IF IdentityKnown(seen'[p]) THEN "columns" ELSE "refused"
        /\ pc[p] = "version" /\ UNCHANGED <<file, disturbed>>
    BY <1>4, <1>b DEF ReadVersion
  <2>2. Fresh(file) => Fresh(seen'[p])
    BY <2>1, <1>0, <1>d DEF Fresh
  <2>3. ASSUME Undisturbed(p)'
        PROVE  Fresh(seen'[p]) = Fresh(file) /\ IdentityKnown(seen'[p]) = IdentityKnown(file)
    <3>1. seen[p].objects = file.objects /\ seen[p].app = file.app
      BY <2>3, <2>1, <1>a DEF Undisturbed, ReadsHold, Foreign, Fresh, Current
    <3> QED
      BY <3>1, <2>1, <1>d DEF Fresh, IdentityKnown
  <2>4. Current(file) => IdentityKnown(file)
    BY DEF Current, IdentityKnown
  <2>5. /\ Fresh(file)' = Fresh(file) /\ Foreign(file)' = Foreign(file)
        /\ IdentityKnown(file)' = IdentityKnown(file) /\ Fresh(seen[p])' = Fresh(seen'[p])
    BY <2>1 DEF Foreign, Fresh, Current, IdentityKnown
  <2>6. Undisturbed(p)' => ReadsHold(p)'
    BY <2>1, <2>3, <2>4, <2>5 DEF ReadsHold, Foreign
  <2>7. Foreign(file) => pc'[p] \notin {"accepted", "schema", "open"}
    BY <2>1, <2>3, <2>5 DEF Undisturbed, Foreign
  <2>8. Fresh(file) => pc'[p] \notin {"columns", "list", "load", "open"}
    BY <2>1, <2>2
  <2> QED
    BY <1>4, <1>b, <2>1, <2>2, <2>6, <2>7, <2>8, ReadPreserves DEF ReadVersion
<1>5. CASE CheckColumns(p)
  <2>1. /\ pc'[p] = IF "tables" \in file.objects /\ "short" \notin file.objects
                    THEN "list" ELSE "refused"
        /\ pc[p] = "columns" /\ UNCHANGED <<file, seen, disturbed>>
    BY <1>5, <1>b DEF CheckColumns
  <2>2. ASSUME Undisturbed(p)' PROVE ReadsHold(p)'
    <3>1. IdentityKnown(file) /\ ~Fresh(seen[p])
      BY <2>1, <2>2, <1>a DEF Undisturbed, ReadsHold, Foreign, Fresh, Current
    <3>2. ~Fresh(file) /\ IdentityKnown(file)' /\ ~Fresh(seen[p])'
      BY <3>1, <2>1 DEF IdentityKnown, Fresh, ApplicationId
    <3>3. pc'[p] = "list" => file.objects = {"tables"}
      BY <3>1, <2>1 DEF IdentityKnown
    <3>4. pc'[p] = "refused" => Foreign(file)'
      BY <3>2, <2>1 DEF Foreign, Current, Fresh
    <3> QED
      BY <3>2, <3>3, <3>4, <2>1 DEF ReadsHold
  <2>3. Fresh(seen'[p]) = Fresh(seen[p])
    BY <2>1
  <2> QED
    BY <1>5, <1>b, <1>0, <2>1, <2>2, <2>3, ReadPreserves DEF CheckColumns
<1>6. CASE ListExperiments(p)
  <2>1. /\ pc'[p] = "load" /\ pc[p] = "list" /\ UNCHANGED <<file, seen, disturbed>>
        /\ listed'[p] = file.experiments
    BY <1>6, <1>b, <1>c DEF ListExperiments
  <2>2. ASSUME Undisturbed(p)' PROVE ReadsHold(p)'
    <3>1. IdentityKnown(file) /\ file.objects = {"tables"} /\ ~Fresh(seen[p])
      BY <2>1, <2>2, <1>a DEF Undisturbed, ReadsHold, Foreign, Fresh, Current
    <3>2. IdentityKnown(file)' /\ ~Fresh(seen[p])'
      BY <3>1, <2>1 DEF IdentityKnown, Fresh
    <3> QED
      BY <3>1, <3>2, <2>1 DEF ReadsHold
  <2>3. Fresh(seen'[p]) = Fresh(seen[p])
    BY <2>1
  <2> QED
    BY <1>6, <1>b, <1>0, <2>1, <2>2, <2>3, ReadPreserves DEF ListExperiments
<1>7. CASE LoadExperiments(p)
  <2>1. /\ pc'[p] = IF file.sound /\ listed[p] \subseteq file.resolved
                    THEN "accepted" ELSE "refused"
        /\ pc[p] = "load" /\ UNCHANGED <<file, seen, listed, disturbed>>
    BY <1>7, <1>b DEF LoadExperiments
  <2>2. ASSUME Undisturbed(p)
        PROVE  /\ pc'[p] = "accepted" => Current(file)
               /\ pc'[p] = "refused" => Foreign(file)
    <3>1. /\ IdentityKnown(file) /\ file.objects = {"tables"}
          /\ listed[p] = file.experiments
      BY <2>1, <2>2, <1>a DEF ReadsHold
    <3> QED
      BY <3>1, <2>1 DEF IdentityKnown, Current, Foreign, Fresh, ApplicationId
  <2>3. ~Fresh(file)
    BY <2>1, <1>0
  <2>4. Foreign(file) => pc'[p] \notin {"accepted", "schema", "open"}
    BY <2>1, <2>2 DEF Undisturbed, Foreign
  <2>5. Undisturbed(p)' = Undisturbed(p) /\ Foreign(file)' = Foreign(file)
    BY <2>1 DEF Undisturbed, Foreign, Fresh, Current
  <2>6. Undisturbed(p) => ~Fresh(seen[p])
    BY <2>1, <1>a DEF ReadsHold
  <2>7. Undisturbed(p)' => ReadsHold(p)'
    BY <2>1, <2>2, <2>5, <2>6 DEF ReadsHold
  <2> QED
    BY <1>7, <1>b, <2>1, <2>3, <2>4, <2>7, ReadPreserves DEF LoadExperiments
<1>8. CASE SetJournalMode(p)
  <2> DEFINE g == [file EXCEPT !.wal = TRUE]
  <2>1. /\ pc'[p] = IF Fresh(seen[p]) THEN "schema" ELSE "open"
        /\ pc[p] = "accepted" /\ UNCHANGED <<seen, listed, disturbed, origin>>
        /\ \A q \in Processes \ {p} : pc'[q] = pc[q]
        /\ file' = g
    BY <1>8, <1>b DEF SetJournalMode
  <2>2. /\ g.objects = file.objects /\ g.app = file.app /\ g.pack = file.pack
        /\ g.sound = file.sound /\ g.experiments = file.experiments
    BY <1>b DEF Files
  <2>3. /\ Fresh(g) = Fresh(file) /\ Current(g) = Current(file)
        /\ Foreign(g) = Foreign(file) /\ IdentityKnown(g) = IdentityKnown(file)
    BY <1>b, JournalModeIsNoIdentity
  <2> HIDE DEF g
  <2>4. /\ Fresh(file)' = Fresh(file) /\ Foreign(file)' = Foreign(file)
        /\ IdentityKnown(file)' = IdentityKnown(file)
        /\ \A q \in Processes : Fresh(seen[q])' = Fresh(seen[q])
    <3>1. Fresh(file)' = Fresh(g) /\ Foreign(file)' = Foreign(g) /\ IdentityKnown(file)' = IdentityKnown(g)
      BY <2>1 DEF Fresh, Foreign, Current, IdentityKnown
    <3>2. \A q \in Processes : Fresh(seen[q])' = Fresh(seen[q])
      BY <2>1 DEF Fresh
    <3> QED
      BY <3>1, <3>2, <2>3
  <2>5. FreshUnread'
    BY <2>1, <2>2, <2>4 DEF IInv, FreshUnread
  <2>6. ~Foreign(file)
    BY <2>1, <1>a
  <2>7. ForeignRefused' /\ OriginHolds'
    BY <2>1, <2>2, <2>4, <2>6 DEF IInv, ForeignRefused, OriginHolds
  <2>8. ASSUME NEW q \in Processes, Undisturbed(q)' PROVE ReadsHold(q)'
    <3>1. ReadsHold(q)
      BY <2>8, <2>1, <2>4 DEF IInv, Undisturbed
    <3>2. CASE q # p
      BY <3>1, <3>2, <2>1, <2>2, <2>4 DEF ReadsHold
    <3>3. CASE q = p
      BY <3>1, <3>3, <2>1, <2>4 DEF ReadsHold
    <3> QED
      BY <3>2, <3>3
  <2> QED
    BY <2>5, <2>7, <2>8 DEF IInv
<1>9. CASE CreateSchema(p)
  <2>1. pc[p] = "schema" /\ ~Foreign(file)
    BY <1>9, <1>a DEF CreateSchema
  <2>2. CASE file.objects = {} /\ pc'[p] = "open" /\ file' = Created(file) /\ DisturbsOthers(p)
    <3>1. Fresh(file)
      BY <2>1, <2>2 DEF Foreign, Current
    <3>2. Complete(Created(file)) /\ ~Fresh(Created(file))
      BY <3>1, <1>b, CreatedIsComplete DEF IInv, FreshUnread
    <3>3. UNCHANGED origin
      BY <1>9 DEF CreateSchema
    <3> QED
      BY <2>1, <2>2, <3>2, <3>3, WritePreserves DEF Complete
  <2>3. CASE file.objects # {} /\ pc'[p] = "refused" /\ UNCHANGED <<file, disturbed>>
    <3>1. Current(file) /\ ~Fresh(file)
      BY <2>1, <2>3 DEF Foreign, Fresh
    <3>2. ~Undisturbed(p)
      BY <3>1, <2>1, <1>a DEF ReadsHold
    <3>3. ~Undisturbed(p)'
      BY <3>2, <2>3 DEF Undisturbed, Foreign, Fresh, Current
    <3> QED
      BY <1>9, <1>b, <2>1, <2>3, <3>1, <3>3, ReadPreserves DEF CreateSchema
  <2> QED
    BY <1>9, <1>b, <2>2, <2>3 DEF CreateSchema
<1>10. ASSUME NEW e \in Experiments, CreateExperiment(p, e) PROVE IInv'
  <2>1. PICK default \in BOOLEAN : file' = WithExperiment(file, e, default)
    BY <1>10 DEF CreateExperiment
  <2>2. pc[p] = "open" /\ DisturbsOthers(p) /\ UNCHANGED <<pc, origin>>
    BY <1>10 DEF CreateExperiment
  <2>3. Current(file) /\ ~Foreign(file) /\ ~Fresh(file)
    BY <2>2, <1>0, <1>a DEF Foreign
  <2>4. Current(file') /\ ~Fresh(file') /\ (file.pack => file'.pack)
    BY <2>1, <2>3, <1>b, WithExperimentIsCurrent
  <2> QED
    BY <2>2, <2>3, <2>4, WritePreserves
<1>11. CASE Crash(p)
  <2>1. pc'[p] = "down" /\ UNCHANGED <<file, seen, listed, disturbed, origin>>
    BY <1>11, <1>b DEF Crash
  <2>2. ReadsHold(p)'
    BY <2>1 DEF ReadsHold
  <2>3. Fresh(seen'[p]) = Fresh(seen[p])
    BY <2>1
  <2> QED
    BY <1>11, <1>b, <1>0, <2>1, <2>2, <2>3, ReadPreserves DEF Crash
<1> QED
  BY <1>1, <1>2, <1>3, <1>4, <1>5, <1>6, <1>7, <1>8, <1>9, <1>10, <1>11 DEF Opens

\* A step that changes nothing keeps it too.
LEMMA NextIInv == IInv /\ [Next]_vars => IInv'
<1> SUFFICES ASSUME IInv, [Next]_vars PROVE IInv'
  OBVIOUS
<1>1. CASE Next
  <2>1. TypeOK'
    BY <1>1, NextTypeOK DEF IInv
  <2> QED
    BY <1>1, <2>1, StepIInv DEF Next
<1>2. CASE UNCHANGED vars
  <2>1. /\ Foreign(file)' = Foreign(file) /\ Fresh(file)' = Fresh(file)
        /\ IdentityKnown(file)' = IdentityKnown(file)
        /\ \A p \in Processes : Fresh(seen[p])' = Fresh(seen[p])
    BY <1>2 DEF vars, Foreign, Fresh, Current, IdentityKnown
  <2>2. TypeOK' /\ OriginHolds'
    BY <1>2, <2>1 DEF IInv, TypeOK, OriginHolds, vars
  <2>3. FreshUnread' /\ ForeignRefused'
    BY <1>2, <2>1 DEF IInv, FreshUnread, ForeignRefused, vars
  <2>4. \A p \in Processes : (Undisturbed(p) => ReadsHold(p))'
    BY <1>2, <2>1 DEF IInv, Undisturbed, ReadsHold, vars
  <2> QED
    BY <2>2, <2>3, <2>4 DEF IInv
<1> QED
  BY <1>1, <1>2

\* Only a process past its reads writes, and none gets there on a foreign file.
LEMMA NextForeign == IInv /\ [Next]_vars => (Foreign(file) => file' = file)
<1> SUFFICES ASSUME IInv, [Next]_vars, Foreign(file) PROVE file' = file
  OBVIOUS
<1>1. \A p \in Processes : pc[p] \notin {"accepted", "schema", "open"}
  BY DEF IInv, ForeignRefused
<1> QED
  BY <1>1 DEF vars, Next, Opens, Start, ReadObjects, ReadApplicationId, ReadVersion, CheckColumns,
     ListExperiments, LoadExperiments, SetJournalMode, CreateSchema, CreateExperiment, Crash, Goes

\* The inductive invariant holds in every reachable state.
THEOREM OpeningInvariant == Spec => []IInv
<1> QED
  BY InitIInv, NextIInv, PTL DEF Spec

\* For any number of processes and crashes, a file that is neither empty nor of
\* this schema with all its rows in order is never written to (with_connection).
THEOREM ForeignFilesAreNeverWritten == Spec => ForeignFilesUntouched
<1>1. Spec => []IInv
  BY OpeningInvariant
<1> QED
  BY <1>1, NextForeign, PTL DEF Spec, ForeignFilesUntouched

\* For any number of processes and crashes, a store is open only on a file in
\* which everything can be loaded, and, if it began empty or with the default
\* pack, only where that pack is there.
THEOREM OpenStoresAreComplete == Spec => []OpenIsComplete
<1>1. IInv => OpenIsComplete
  BY DEF IInv, OpenIsComplete, OriginHolds, FreshUnread, ForeignRefused, Foreign, Complete
<1> QED
  BY <1>1, OpeningInvariant, PTL

\* For any number of processes and crashes, a file that was empty or current at
\* the start is refused only to a process another one disturbed while it opened.
THEOREM OnlyRacesAreRefused == Spec => []RefusalsAreRaces
<1>1. IInv => RefusalsAreRaces
  BY DEF IInv, RefusalsAreRaces, OriginHolds, Undisturbed, ReadsHold, TypeOK
<1> QED
  BY <1>1, OpeningInvariant, PTL
=============================================================================
