------------------------------ MODULE Readers ------------------------------
(***************************************************************************)
(* Reads through another connection (v2/src/store/query.rs).  Inside the   *)
(* gateway a read holds the mutex; a second process that opened the same   *)
(* file does not, and SQLite gives each of its statements, or each group   *)
(* of statements nested in an unfinished one, the snapshot of the moment   *)
(* it starts.  Writers of the ledger act between any two of them.          *)
(***************************************************************************)
EXTENDS Ledger

CONSTANTS
  Readers,      \* reading processes
  AskedCycles,  \* experiments they ask for
  AskedDays     \* days they ask about

VARIABLES
  task,      \* reader -> [kind, cycle, day] of its read
  at,        \* reader -> the statement it is at
  got,       \* reader -> what its statements have found, in the end its answer
  began,     \* reader -> how many runs were recorded when it began
  ended      \* reader -> how many when it was done

readerVars == <<task, at, got, began, ended>>
allVars == <<vars, readerVars>>

Tasks ==
  [kind : {"view", "replay"}, cycle : AskedCycles, day : {None}]
  \cup [kind : {"dated"}, cycle : AskedCycles, day : AskedDays]

ReadersInit ==
  /\ Init
  /\ task = [r \in Readers |-> None] /\ got = [r \in Readers |-> None]
  /\ at = [r \in Readers |-> "idle"]
  /\ began = [r \in Readers |-> 0] /\ ended = [r \in Readers |-> 0]

Goto(r, statement) == at' = [at EXCEPT ![r] = statement]
Keep(r, found) == got' = [got EXCEPT ![r] = found]

Done(r, answer) ==
  /\ Goto(r, "done") /\ Keep(r, answer)
  /\ ended' = [ended EXCEPT ![r] = Len(runs)]

Begin(r, asked) ==
  /\ at[r] = "idle"
  /\ task' = [task EXCEPT ![r] = asked]
  /\ began' = [began EXCEPT ![r] = Len(runs)]
  /\ Goto(r, "load")
  /\ UNCHANGED <<vars, got, ended>>

\* load_experiment, and for a replay the market context: rows that never
\* change once they are there, so its statements are one step.
LoadExperiment(r) ==
  LET error == ExperimentError(task[r].cycle) IN
  /\ at[r] = "load"
  /\ \/ error # "" /\ Done(r, Err(error))
     \/ /\ error = ""
        /\ Goto(r, task[r].kind)
        /\ UNCHANGED <<got, ended>>
  /\ UNCHANGED <<vars, task, began>>

\* The undated view: one statement for the fills, one for the count.
ReadFills(r) ==
  /\ at[r] = "view"
  /\ Goto(r, "count") /\ Keep(r, LoadState(task[r].cycle))
  /\ UNCHANGED <<vars, task, began, ended>>

CountRuns(r) ==
  /\ at[r] = "count"
  /\ Done(r, Ok([state |-> got[r], runs_total |-> Cardinality(OwnRuns(task[r].cycle))]))
  /\ UNCHANGED <<vars, task, began>>

\* Mutant of ReadDated: fills and count by two statements, as in the undated view.
ReadDatedFills(r) ==
  /\ at[r] = "dated"
  /\ \/ /\ got[r] = None
        /\ Goto(r, "dated") /\ Keep(r, AsOfView(task[r].cycle, task[r].day).state)
        /\ UNCHANGED <<vars, task, began, ended>>
     \/ /\ got[r] # None
        /\ Done(r, Ok([state |-> got[r],
                       runs_total |-> AsOfView(task[r].cycle, task[r].day).runs_total]))
        /\ UNCHANGED <<vars, task, began>>

\* The dated view: one statement joins decisions and fills.
ReadDated(r) ==
  /\ at[r] = "dated"
  /\ Done(r, Ok(AsOfView(task[r].cycle, task[r].day)))
  /\ UNCHANGED <<vars, task, began>>

\* verify_replay: while the statement over the runs is unfinished, the reads
\* of evidence and fills nested in it share its snapshot.
ReplayRuns(r) ==
  LET c == task[r].cycle IN
  /\ at[r] = "replay"
  /\ \/ ~Replayed(c).ok /\ Done(r, Err("replay_mismatch"))
     \/ /\ Replayed(c).ok
        /\ Goto(r, "compare")
        /\ Keep(r, [state |-> Replayed(c).state, runs_verified |-> Cardinality(OwnRuns(c))])
        /\ UNCHANGED ended
  /\ UNCHANGED <<vars, task, began>>

\* The portfolio the fills give by then must be the one the replay ended with.
CompareFills(r) ==
  /\ at[r] = "compare"
  /\ IF LoadState(task[r].cycle) = Ok(got[r].state)
       THEN Done(r, Ok([cash |-> got[r].state.cash, runs_verified |-> got[r].runs_verified]))
       ELSE Done(r, Err("replay_portfolio_mismatch"))
  /\ UNCHANGED <<vars, task, began>>

ReadersNext ==
  \/ Next /\ UNCHANGED readerVars
  \/ \E r \in Readers :
       \/ \E asked \in Tasks : Begin(r, asked)
       \/ LoadExperiment(r) \/ ReadFills(r) \/ CountRuns(r) \/ ReadDated(r)
       \/ ReplayRuns(r) \/ CompareFills(r)

ReadersSpec == ReadersInit /\ [][ReadersNext]_allVars

(***************************************************************************)
(* Properties of the answers.                                              *)
(***************************************************************************)

\* The record as it was when it had n runs.
At(n) == INSTANCE Ledger WITH
  runs  <- [i \in 1..n |-> runs[i]],
  fills <- [f \in {g \in DOMAIN fills : fills[g].run <= n} |-> fills[f]]

DoneWith(kind) ==
  {r \in Readers : at[r] = "done" /\ task[r].kind = kind /\ got[r].ok}

Moments(r) == began[r]..ended[r]

\* A dated view is the record of one moment of the read (HISTORICAL_STATE.md:
\* cash, lots and runs_total come from one consistent read snapshot).
DatedViewsAreOfOneMoment ==
  \A r \in DoneWith("dated") : \E n \in Moments(r) :
    got[r].value = At(n)!AsOfView(task[r].cycle, task[r].day)

\* An undated view may mix two moments, but only forwards: its count is never
\* older than its cash and lots, and both are from the time of the read.
UndatedViewsLagForwards ==
  \A r \in DoneWith("view") : \E m, n \in Moments(r) :
    /\ m <= n
    /\ got[r].value.state = At(m)!LoadState(task[r].cycle)
    /\ got[r].value.runs_total = Cardinality(At(n)!OwnRuns(task[r].cycle))

\* A replay report is true of one moment: as many decisions as it says, worth
\* the cash it says, although fills were read by two statements.
ReportsAreTrue ==
  \A r \in DoneWith("replay") : \E n \in Moments(r) :
    LET c == task[r].cycle IN
    /\ got[r].value.runs_verified = Cardinality(At(n)!OwnRuns(c))
    /\ got[r].value.cash = At(n)!LoadState(c).value.cash

\* Whatever a reader is told was so at some time of its read.
AnswersAreOfTheirTime ==
  DatedViewsAreOfOneMoment /\ UndatedViewsLagForwards /\ ReportsAreTrue

\* A sound ledger is reported as broken only if a fill of the experiment was
\* committed during the read.
FailuresAreRaces ==
  \A r \in Readers :
    /\ at[r] = "done" /\ task[r].kind = "replay"
    /\ got[r] \in {Err("replay_mismatch"), Err("replay_portfolio_mismatch")}
    => \E f \in DOMAIN fills :
         /\ fills[f].run \in (began[r] + 1)..ended[r]
         /\ runs[fills[f].run].request.cycle_id = task[r].cycle
=============================================================================
