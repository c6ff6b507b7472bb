---------------------------- MODULE JobScheduler ----------------------------
(***************************************************************************)
(* The job scheduler: the loop task of SchedulerService, one supervision   *)
(* task per launched run, the native executor, the job_runs table they     *)
(* share with the HTTP API, and the child processes.                       *)
(*                                                                         *)
(* Every action is one stretch of code between two awaits whose outcome    *)
(* another task, the API process or a child can observe.  A database       *)
(* session runs at READ COMMITTED without row locks (the claim excepted),  *)
(* so a handler that reads a row and later commits a new state writes      *)
(* blindly over whatever was committed in between: CancelRead and          *)
(* CancelCommit, FinalRead and FinalCommit, ReconcileRead and              *)
(* ReconcileCommit are therefore separate actions.                         *)
(***************************************************************************)
EXTENDS Integers, FiniteSets

CONSTANTS
    Runs,            \* the job runs that will ever be queued
    NoRun,           \* "no run", for the loop's current run
    MaxActive,       \* settings.job_max_active_runs
    Rank,            \* Rank[r]: place of r in ORDER BY priority, queued_at, id
    Timed,           \* runs with a timeout_seconds
    KillChildren,    \* the service manager kills the children with the worker
    MaxCancels,      \* bound: cancel requests that find something to cancel
    MaxStops,        \* bound: crashes and graceful stops of the worker
    MaxFaults,       \* bound: database or file errors met by the scheduler
    MaxTrouble       \* bound: cancel requests, stops and errors together

ASSUME RunsAssumption == IsFiniteSet(Runs) /\ NoRun \notin Runs
ASSUME MaxActiveAssumption == MaxActive \in Nat
ASSUME RankAssumption ==
    /\ Rank \in [Runs -> Nat]
    /\ \A r, s \in Runs : Rank[r] = Rank[s] => r = s
ASSUME TimedAssumption == Timed \subseteq Runs
ASSUME KillAssumption == KillChildren \in BOOLEAN
ASSUME BoundsAssumption ==
    /\ MaxCancels \in Nat /\ MaxStops \in Nat /\ MaxFaults \in Nat
    /\ MaxTrouble \in Nat

VARIABLES
    row,        \* row[r]: the committed state column of r, "none" before its INSERT
    pending,    \* pending[r][v]: how many cancel requests of r in flight will commit v
    loop,       \* where the scheduler's loop task is
    cur,        \* the run the loop is cancelling or launching
    todo,       \* runs the loop still has to sweep, or is about to mark lost
    handles,    \* keys of _handles, and of the executor's _processes
    sup,        \* sup[r]: where the supervision task of r is
    result,     \* result[r]: the state the supervision task of r will record
    proc,       \* proc[r]: the child process of r
    stopping,   \* the worker was told to stop
    starts,     \* starts[r]: how often a process was started for r (history)
    stale,      \* runs over whose newer state a cancel was committed (history)
    faulted,    \* runs whose launch or supervision an error cut short (history)
    cancels, stops, faults      \* counters for the bounds

apiVars == <<pending, cancels, stale>>
loopVars == <<loop, cur, todo>>
supVars == <<sup, result>>
childVars == <<proc, starts>>
lifeVars == <<stopping, stops>>
faultVars == <<faulted, faults>>
vars == <<row, pending, loop, cur, todo, handles, sup, result, proc, stopping,
          starts, stale, faulted, cancels, stops, faults>>

-----------------------------------------------------------------------------
(* States of a run, of the tasks and of a child                            *)

Active == {"admitted", "starting", "running", "cancel_requested"}
Terminal == {"succeeded", "failed", "canceled", "timed_out", "lost"}
RowStates == {"none", "queued"} \cup Active \cup Terminal

\* "launch", "spawn", "start_failed" and "mark_running" are _launch_run.
Launching == {"launch", "spawn", "start_failed", "mark_running"}
\* "grace" and "kill_wait" are the two waits inside NativeJobExecutor.cancel.
LoopStates == {"down", "reconcile", "reconcile_commit", "idle", "sweep",
               "grace", "kill_wait", "count", "claim", "dead", "closing"}
              \cup Launching
SupStates == {"none", "init", "wait", "grace", "kill_wait", "drain",
              "final_read", "final_commit"}

\* "killed": sent SIGKILL, exit not yet seen.  "ok" and "failed": exited with
\* code 0 or another one.  "orphan": outlived its worker.  "gone": ended
\* without any worker seeing its exit code.
Live == {"alive", "killed"}
Exited == {"ok", "failed"}
ProcStates == {"none", "orphan", "gone"} \cup Live \cup Exited

\* What a cancel request may commit.
Verdicts == {"canceled", "cancel_requested"}

ActiveRuns == {r \in Runs : row[r] \in Active}
LiveRuns == {r \in Runs : proc[r] \in Live}
Running == loop \notin {"down", "closing"}      \* the worker serves its tasks

InBound == cancels + stops + faults < MaxTrouble

TypeOK ==
    /\ row \in [Runs -> RowStates]
    /\ pending \in [Runs -> [Verdicts -> Nat]]
    /\ loop \in LoopStates
    /\ cur \in Runs \cup {NoRun}
    /\ todo \subseteq Runs
    /\ handles \subseteq Runs
    /\ sup \in [Runs -> SupStates]
    /\ result \in [Runs -> {"none", "succeeded", "failed", "timed_out", "canceled"}]
    /\ proc \in [Runs -> ProcStates]
    /\ stopping \in BOOLEAN
    /\ starts \in [Runs -> Nat]
    /\ stale \subseteq Runs
    /\ faulted \subseteq Runs
    /\ cancels \in Nat /\ stops \in Nat /\ faults \in Nat

Init ==
    /\ row = [r \in Runs |-> "none"]
    /\ pending = [r \in Runs |-> [v \in Verdicts |-> 0]]
    /\ loop = "down"
    /\ cur = NoRun
    /\ todo = {}
    /\ handles = {}
    /\ sup = [r \in Runs |-> "none"]
    /\ result = [r \in Runs |-> "none"]
    /\ proc = [r \in Runs |-> "none"]
    /\ stopping = FALSE
    /\ starts = [r \in Runs |-> 0]
    /\ stale = {} /\ faulted = {}
    /\ cancels = 0 /\ stops = 0 /\ faults = 0

-----------------------------------------------------------------------------
(* The HTTP API                                                            *)

\* create_job_run_record: the INSERT of a queued run.  queued_at was taken
\* before the commit, so runs need not appear in the order of their rank.
Queue(r) ==
    /\ row[r] = "none"
    /\ row' = [row EXCEPT ![r] = "queued"]
    /\ UNCHANGED <<apiVars, loopVars, supVars, handles, childVars, lifeVars,
                   faultVars>>

\* request_cancel_job_run up to its commit: what will be written depends on
\* the state read here.  A run it finds over, or already asked to cancel,
\* keeps its state.  Nothing keeps two requests of one run from overlapping.
CancelRead(r) ==
    /\ cancels < MaxCancels /\ InBound
    /\ row[r] \in {"queued"} \cup (Active \ {"cancel_requested"})
    /\ LET v == IF row[r] = "queued" THEN "canceled" ELSE "cancel_requested"
       IN  pending' = [pending EXCEPT ![r][v] = @ + 1]
    /\ cancels' = cancels + 1
    /\ UNCHANGED <<row, stale, loopVars, supVars, handles, childVars, lifeVars,
                   faultVars>>

\* The request that will write v is finished.
CancelEnds(r, v) ==
    /\ pending[r][v] > 0
    /\ pending' = [pending EXCEPT ![r][v] = @ - 1]

\* What the request saw no longer holds: the run was claimed or has finished.
CancelIsStale(r, v) ==
    \/ v = "canceled" /\ row[r] \notin {"queued", "canceled"}
    \/ v = "cancel_requested" /\ row[r] \notin Active

\* The UPDATE names the run's id only, so it applies to whatever is there.
CancelCommit(r, v) ==
    /\ CancelEnds(r, v)
    /\ row' = [row EXCEPT ![r] = v]
    /\ stale' = IF CancelIsStale(r, v) THEN stale \cup {r} ELSE stale
    /\ UNCHANGED <<cancels, loopVars, supVars, handles, childVars, lifeVars,
                   faultVars>>

\* The database is unavailable: the request is answered with 503.
CancelFails(r, v) ==
    /\ CancelEnds(r, v)
    /\ UNCHANGED <<row, stale, cancels, loopVars, supVars, handles, childVars,
                   lifeVars, faultVars>>

Api ==
    \E r \in Runs :
        \/ Queue(r) \/ CancelRead(r)
        \/ \E v \in Verdicts : CancelCommit(r, v) \/ CancelFails(r, v)

-----------------------------------------------------------------------------
(* Starting the worker                                                     *)

\* SchedulerService.start in a new worker process: the loop task begins with
\* reconcile().
Start ==
    /\ loop = "down"
    /\ loop' = "reconcile"
    /\ UNCHANGED <<row, apiVars, cur, todo, supVars, handles, childVars,
                   lifeVars, faultVars>>

\* A mutant of LostRuns: everything that was ever claimed.
LostRunsAll == {r \in Runs : row[r] \notin {"none", "queued"}}

\* The rows mark_active_runs_lost selects.
LostRuns == ActiveRuns

\* mark_active_runs_lost: the SELECT of the active rows ...
ReconcileRead ==
    /\ loop = "reconcile"
    /\ loop' = "reconcile_commit"
    /\ todo' = LostRuns
    /\ UNCHANGED <<row, apiVars, cur, supVars, handles, childVars, lifeVars,
                   faultVars>>

\* A mutant of ReconcileCommit: runs that were claimed but not yet started are
\* left as they are.
ReconcileCommitStartedOnly ==
    /\ loop = "reconcile_commit"
    /\ row' = [r \in Runs |-> IF r \in todo /\ row[r] # "admitted" THEN "lost" ELSE row[r]]
    /\ todo' = {}
    /\ loop' = "idle"
    /\ UNCHANGED <<apiVars, cur, supVars, handles, childVars, lifeVars, faultVars>>

\* ... and the commit that marks the rows it returned lost.
ReconcileCommit ==
    /\ loop = "reconcile_commit"
    /\ row' = [r \in Runs |-> IF r \in todo THEN "lost" ELSE row[r]]
    /\ todo' = {}
    /\ loop' = "idle"
    /\ UNCHANGED <<apiVars, cur, supVars, handles, childVars, lifeVars,
                   faultVars>>

\* reconcile() runs before the loop's try: its exception ends the loop task,
\* and nothing looks at that task before the worker is told to stop.
ReconcileFails ==
    /\ loop \in {"reconcile", "reconcile_commit"}
    /\ faults < MaxFaults /\ InBound
    /\ faults' = faults + 1
    /\ loop' = "dead"
    /\ todo' = {}
    /\ UNCHANGED <<row, apiVars, cur, supVars, handles, childVars, lifeVars,
                   faulted>>

Restart == Start \/ ReconcileRead \/ ReconcileCommit

-----------------------------------------------------------------------------
(* tick(): the sweep of requested cancels                                  *)

\* The head of the while loop of _run_loop: the interval elapsed and no stop
\* is requested.
TickBegin ==
    /\ loop = "idle" /\ ~stopping
    /\ loop' = "sweep"
    /\ todo' = handles
    /\ UNCHANGED <<row, apiVars, cur, supVars, handles, childVars, lifeVars,
                   faultVars>>

\* One turn of the for loop of _cancel_requested_runs, up to the first wait of
\* NativeJobExecutor.cancel: a child that still runs is sent SIGTERM, which it
\* may obey or ignore; one that exited or was forgotten is left alone.
SweepNext(r) ==
    /\ loop = "sweep" /\ r \in todo
    /\ todo' = todo \ {r}
    /\ IF row[r] = "cancel_requested" /\ r \in handles /\ proc[r] \in Live
       THEN loop' = "grace" /\ cur' = r
       ELSE UNCHANGED <<loop, cur>>
    /\ UNCHANGED <<row, apiVars, supVars, handles, childVars, lifeVars,
                   faultVars>>

\* A mutant of SweepKill: SIGKILL is never sent.
SweepKillForgotten ==
    /\ loop = "grace" /\ proc[cur] \in Live
    /\ loop' = "kill_wait"
    /\ UNCHANGED <<row, apiVars, cur, todo, supVars, handles, childVars, lifeVars,
                   faultVars>>

\* cancel_grace_seconds have passed.
SweepKill ==
    /\ loop = "grace" /\ proc[cur] \in Live
    /\ loop' = "kill_wait"
    /\ proc' = [proc EXCEPT ![cur] = "killed"]
    /\ UNCHANGED <<row, apiVars, cur, todo, supVars, handles, starts, lifeVars,
                   faultVars>>

SweepExitSeen ==
    /\ loop \in {"grace", "kill_wait"} /\ proc[cur] \in Exited
    /\ loop' = "sweep"
    /\ cur' = NoRun
    /\ UNCHANGED <<row, apiVars, todo, supVars, handles, childVars, lifeVars,
                   faultVars>>

SweepDone ==
    /\ loop = "sweep" /\ todo = {}
    /\ loop' = "count"
    /\ UNCHANGED <<row, apiVars, cur, todo, supVars, handles, childVars,
                   lifeVars, faultVars>>

Sweep == (\E r \in Runs : SweepNext(r)) \/ SweepKill \/ SweepExitSeen \/ SweepDone

-----------------------------------------------------------------------------
(* tick(): admission                                                       *)

\* A mutant of SlotAvailable: > where the code has >=.
SlotAvailableOffByOne == Cardinality(ActiveRuns) <= MaxActive

\* count_active_job_runs compared with the bound.
SlotAvailable == Cardinality(ActiveRuns) < MaxActive

Count ==
    /\ loop = "count"
    /\ loop' = IF SlotAvailable THEN "claim" ELSE "idle"
    /\ UNCHANGED <<row, apiVars, cur, todo, supVars, handles, childVars,
                   lifeVars, faultVars>>

\* SKIP LOCKED: the row of a queued run whose cancel is being committed may be
\* locked, and is then passed over.
MayBeLocked(r) == pending[r]["canceled"] > 0

\* A mutant of Claimable: runs lost in a restart are claimed again.
ClaimableAgain(r) == row[r] \in {"queued", "lost"}

Claimable(r) == row[r] = "queued"

\* claim_next_queued_run: SELECT ... FOR UPDATE and the UPDATE are one step.
Claim(r) ==
    /\ loop = "claim"
    /\ Claimable(r)
    /\ \A s \in Runs : Claimable(s) /\ Rank[s] < Rank[r] => MayBeLocked(s)
    /\ row' = [row EXCEPT ![r] = "admitted"]
    /\ cur' = r
    /\ loop' = "launch"
    /\ UNCHANGED <<apiVars, todo, supVars, handles, childVars, lifeVars,
                   faultVars>>

ClaimNothing ==
    /\ loop = "claim"
    /\ \A s \in Runs : Claimable(s) => MayBeLocked(s)
    /\ loop' = "idle"
    /\ UNCHANGED <<row, apiVars, cur, todo, supVars, handles, childVars,
                   lifeVars, faultVars>>

\* An error in the sweep or in admission is swallowed by _run_loop; the rest
\* of the tick is skipped.
TickFails ==
    /\ loop \in {"sweep", "count", "claim"}
    /\ faults < MaxFaults /\ InBound
    /\ faults' = faults + 1
    /\ loop' = "idle"
    /\ todo' = {}
    /\ UNCHANGED <<row, apiVars, cur, supVars, handles, childVars, lifeVars,
                   faulted>>

Admission == Count \/ (\E r \in Runs : Claim(r)) \/ ClaimNothing

-----------------------------------------------------------------------------
(* _launch_run                                                             *)

\* mark_job_run_starting: a blind write, whatever the API made of the row.
MarkStarting ==
    /\ loop = "launch"
    /\ row' = [row EXCEPT ![cur] = "starting"]
    /\ loop' = "spawn"
    /\ UNCHANGED <<apiVars, cur, todo, supVars, handles, childVars, lifeVars,
                   faultVars>>

\* NativeJobExecutor.start returned: the child runs and both maps know it.
Spawn ==
    /\ loop = "spawn"
    /\ proc' = [proc EXCEPT ![cur] = "alive"]
    /\ starts' = [starts EXCEPT ![cur] = @ + 1]
    /\ handles' = handles \cup {cur}
    /\ loop' = "mark_running"
    /\ UNCHANGED <<row, apiVars, cur, todo, supVars, lifeVars, faultVars>>

\* Validation refused the request, or exec failed.
SpawnFails ==
    /\ loop = "spawn"
    /\ loop' = "start_failed"
    /\ UNCHANGED <<row, apiVars, cur, todo, supVars, handles, childVars,
                   lifeVars, faultVars>>

\* The failure is written to the log and the run marked failed, blindly.
RecordStartFailure ==
    /\ loop = "start_failed"
    /\ row' = [row EXCEPT ![cur] = "failed"]
    /\ loop' = "idle"
    /\ cur' = NoRun
    /\ UNCHANGED <<apiVars, todo, supVars, handles, childVars, lifeVars,
                   faultVars>>

\* mark_job_run_running, again blind, and the creation of the supervision task.
MarkRunning ==
    /\ loop = "mark_running"
    /\ row' = [row EXCEPT ![cur] = "running"]
    /\ sup' = [sup EXCEPT ![cur] = "init"]
    /\ loop' = "idle"
    /\ cur' = NoRun
    /\ UNCHANGED <<apiVars, todo, result, handles, childVars, lifeVars,
                   faultVars>>

\* A database error (or an error writing the failure to the log) anywhere in
\* _launch_run is swallowed by _run_loop; nothing else resumes the launch.
LaunchFails ==
    /\ loop \in {"launch", "start_failed", "mark_running"}
    /\ faults < MaxFaults /\ InBound
    /\ faults' = faults + 1
    /\ faulted' = faulted \cup {cur}
    /\ loop' = "idle"
    /\ cur' = NoRun
    /\ UNCHANGED <<row, apiVars, todo, supVars, handles, childVars, lifeVars>>

Launch == MarkStarting \/ Spawn \/ SpawnFails \/ RecordStartFailure \/ MarkRunning

-----------------------------------------------------------------------------
(* _supervise_run                                                          *)

\* The paths and the timeout are read, the two capture tasks are created.
SupInit(r) ==
    /\ sup[r] = "init"
    /\ sup' = [sup EXCEPT ![r] = "wait"]
    /\ UNCHANGED <<row, apiVars, loopVars, result, handles, childVars, lifeVars,
                   faultVars>>

\* A mutant of ExitVerdict: the exit code is ignored.
ExitVerdictIgnoringCode(r) == IF sup[r] # "wait" THEN "timed_out" ELSE "succeeded"

\* What the end of the process tells, before the row is looked at.
ExitVerdict(r) ==
    IF sup[r] # "wait" THEN "timed_out"
    ELSE IF proc[r] = "ok" THEN "succeeded" ELSE "failed"

\* process.wait() returned, directly or inside the executor's cancel.
SupExitSeen(r) ==
    /\ sup[r] \in {"wait", "grace", "kill_wait"} /\ proc[r] \in Exited
    /\ sup' = [sup EXCEPT ![r] = "drain"]
    /\ result' = [result EXCEPT ![r] = ExitVerdict(r)]
    /\ UNCHANGED <<row, apiVars, loopVars, handles, childVars, lifeVars,
                   faultVars>>

\* A mutant of SupTimeout: the run is recorded as timed out, the child is not
\* waited for.
SupTimeoutGivesUp(r) ==
    /\ sup[r] = "wait" /\ r \in Timed
    /\ sup' = [sup EXCEPT ![r] = "final_read"]
    /\ result' = [result EXCEPT ![r] = "timed_out"]
    /\ UNCHANGED <<row, apiVars, loopVars, handles, childVars, lifeVars, faultVars>>

\* timeout_seconds have passed, possibly in the instant the child exits.
SupTimeout(r) ==
    /\ sup[r] = "wait" /\ r \in Timed
    /\ sup' = [sup EXCEPT ![r] = "grace"]
    /\ UNCHANGED <<row, apiVars, loopVars, result, handles, childVars, lifeVars,
                   faultVars>>

\* A mutant of SupKill: SIGKILL is never sent.
SupKillForgotten(r) ==
    /\ sup[r] = "grace" /\ proc[r] \in Live
    /\ sup' = [sup EXCEPT ![r] = "kill_wait"]
    /\ UNCHANGED <<row, apiVars, loopVars, result, handles, childVars, lifeVars,
                   faultVars>>

SupKill(r) ==
    /\ sup[r] = "grace" /\ proc[r] \in Live
    /\ sup' = [sup EXCEPT ![r] = "kill_wait"]
    /\ proc' = [proc EXCEPT ![r] = "killed"]
    /\ UNCHANGED <<row, apiVars, loopVars, result, handles, starts, lifeVars,
                   faultVars>>

\* Both capture tasks are done: the pipes reached end of file, which needs
\* every descendant that inherited them to have closed them.
SupDrained(r) ==
    /\ sup[r] = "drain"
    /\ sup' = [sup EXCEPT ![r] = "final_read"]
    /\ UNCHANGED <<row, apiVars, loopVars, result, handles, childVars, lifeVars,
                   faultVars>>

\* The tail of the finally block: forget the child.
Forget(r) ==
    /\ sup' = [sup EXCEPT ![r] = "none"]
    /\ result' = [result EXCEPT ![r] = "none"]
    /\ handles' = handles \ {r}

\* A mutant of AlreadyFinal: a run being cancelled is taken for a finished one.
AlreadyFinalOrCancelled(r) == row[r] \in Terminal \cup {"cancel_requested"}

AlreadyFinal(r) == row[r] \in Terminal

\* _finalize_run up to its commit.  A row found over is left as it is.
FinalRead(r) ==
    /\ sup[r] = "final_read"
    /\ IF AlreadyFinal(r)
       THEN Forget(r)
       ELSE /\ sup' = [sup EXCEPT ![r] = "final_commit"]
            /\ result' = [result EXCEPT ![r] =
                  IF @ # "timed_out" /\ row[r] = "cancel_requested"
                  THEN "canceled" ELSE @]
            /\ UNCHANGED handles
    /\ UNCHANGED <<row, apiVars, loopVars, childVars, lifeVars, faultVars>>

\* mark_job_run_final: a blind write.
FinalCommit(r) ==
    /\ sup[r] = "final_commit"
    /\ row' = [row EXCEPT ![r] = result[r]]
    /\ Forget(r)
    /\ UNCHANGED <<apiVars, loopVars, childVars, lifeVars, faultVars>>

\* A database error ends the supervision task where it is.  The executor and
\* _handles keep the run, its row keeps its state.
SupFails(r) ==
    /\ sup[r] \in {"init", "final_read", "final_commit"}
    /\ faults < MaxFaults /\ InBound
    /\ faults' = faults + 1
    /\ faulted' = faulted \cup {r}
    /\ sup' = [sup EXCEPT ![r] = "none"]
    /\ result' = [result EXCEPT ![r] = "none"]
    /\ UNCHANGED <<row, apiVars, loopVars, handles, childVars, lifeVars>>

Supervise(r) ==
    SupInit(r) \/ SupExitSeen(r) \/ SupTimeout(r) \/ SupKill(r)
    \/ FinalRead(r) \/ FinalCommit(r)

-----------------------------------------------------------------------------
(* The children                                                            *)

\* A child ends by itself or on a signal.  A job may answer SIGTERM with any
\* exit code; a killed one may have exited just before the signal.
ProcExit(r) ==
    /\ proc[r] \in Live
    /\ \E code \in Exited : proc' = [proc EXCEPT ![r] = code]
    /\ UNCHANGED <<row, apiVars, loopVars, supVars, handles, starts, lifeVars,
                   faultVars>>

OrphanExit(r) ==
    /\ proc[r] = "orphan"
    /\ proc' = [proc EXCEPT ![r] = "gone"]
    /\ UNCHANGED <<row, apiVars, loopVars, supVars, handles, starts, lifeVars,
                   faultVars>>

-----------------------------------------------------------------------------
(* Stopping and crashing                                                   *)

\* SIGTERM or SIGINT: stop() sets the stop event.
RequestStop ==
    /\ Running /\ ~stopping
    /\ stops < MaxStops /\ InBound
    /\ stops' = stops + 1
    /\ stopping' = TRUE
    /\ UNCHANGED <<row, apiVars, loopVars, supVars, handles, childVars,
                   faultVars>>

\* The loop task has ended, main() returns and asyncio.run cancels every other
\* task.  A supervision task still inside its try runs its finally block
\* without an exit code; any other is cut off where it is.
Interrupted == {"wait", "grace", "kill_wait"}

CancelTasks ==
    /\ stopping /\ loop \in {"idle", "dead"}
    /\ loop' = "closing"
    /\ sup' = [r \in Runs |-> IF sup[r] \in Interrupted THEN "final_read" ELSE "none"]
    /\ result' = [r \in Runs |->
                     IF sup[r] \notin Interrupted THEN "none"
                     ELSE IF sup[r] = "wait" THEN "failed" ELSE "timed_out"]
    /\ UNCHANGED <<row, apiVars, cur, todo, handles, childVars, lifeVars,
                   faultVars>>

\* The memory of the worker is gone, and so are its children unless they are
\* left to run on their own.
WorkerEnds ==
    /\ loop' = "down"
    /\ cur' = NoRun
    /\ todo' = {}
    /\ handles' = {}
    /\ stopping' = FALSE
    /\ sup' = [r \in Runs |-> "none"]
    /\ result' = [r \in Runs |-> "none"]
    /\ proc' = [r \in Runs |->
                   IF proc[r] \notin Live THEN proc[r]
                   ELSE IF KillChildren THEN "gone" ELSE "orphan"]
    /\ UNCHANGED <<row, apiVars, starts, faultVars>>

Exit ==
    /\ loop = "closing"
    /\ \A r \in Runs : sup[r] = "none"
    /\ WorkerEnds
    /\ UNCHANGED stops

\* kill -9, a power failure, or the end of the service manager's patience.
Crash ==
    /\ loop # "down"
    /\ stops < MaxStops /\ InBound
    /\ stops' = stops + 1
    /\ WorkerEnds

-----------------------------------------------------------------------------
\* The steps of the loop task that no error disturbs; at most one of them, or
\* of the choices of Spawn and SpawnFails, is possible at a time.
LoopStep == Restart \/ TickBegin \/ Sweep \/ Admission \/ Launch

Fault == ReconcileFails \/ TickFails \/ LaunchFails \/ \E r \in Runs : SupFails(r)

Shutdown == RequestStop \/ CancelTasks \/ Exit \/ Crash

Next ==
    \/ Api
    \/ LoopStep
    \/ \E r \in Runs : Supervise(r) \/ SupDrained(r) \/ ProcExit(r) \/ OrphanExit(r)
    \/ Fault
    \/ Shutdown

Spec == Init /\ [][Next]_vars

\* The event loop runs every task that can go on, the service manager or an
\* operator starts the worker again, the API finishes its requests, a killed
\* child dies.  Nothing makes a job end by itself or close its pipes.
Fairness ==
    /\ WF_vars(LoopStep)
    /\ WF_vars(CancelTasks) /\ WF_vars(Exit)
    /\ \A r \in Runs :
          /\ WF_vars(Supervise(r))
          /\ \A v \in Verdicts : WF_vars(CancelCommit(r, v) \/ CancelFails(r, v))
          /\ WF_vars(proc[r] = "killed" /\ ProcExit(r))

\* Whatever a job started has closed its pipes some time after the job ended.
PipesClose == \A r \in Runs : WF_vars(SupDrained(r))

FairSpec == Spec /\ Fairness /\ PipesClose

-----------------------------------------------------------------------------
(* Safety                                                                  *)

\* No run is executed twice: whatever the crashes, restarts and late cancels,
\* the claim hands a run to one launch and no code path queues it again.
StartedAtMostOnce == \A r \in Runs : starts[r] <= 1

\* Admission (count_active_job_runs, then claim_next_queued_run in another
\* statement) never lets more than job_max_active_runs runs be active, not
\* counting runs that a late cancel request put back into an active state.
AdmissionBound == Cardinality(ActiveRuns \ stale) <= MaxActive

\* While the worker serves its tasks, a child of it that still runs occupies
\* an admission slot and can be reached by the cancel sweep.  The exception
\* is a run that a late cancel request marked canceled after it was claimed.
ChildHoldsSlot ==
    Running => \A r \in LiveRuns : r \in handles /\ (row[r] \in Active \/ r \in stale)

\* An admission slot is never leaked: when the loop works, an active row has
\* a launch in progress or a supervision task that will record its end.  Left
\* out are runs hit by an error of the database and runs reactivated by a
\* late cancel request, which do keep their slot until the next restart.
SlotHasOwner ==
    loop \notin {"down", "reconcile", "reconcile_commit", "dead", "closing"} =>
        \A r \in ActiveRuns \ (stale \cup faulted) :
            sup[r] # "none" \/ (cur = r /\ loop \in Launching)

\* The recorded end of a run is what happened to its process: success means
\* exit code 0, a timeout means that a timeout was set, and a run is declared
\* over only when its process is, or when its worker is going or gone.
OutcomeIsTrue ==
    \A r \in Runs \ stale :
        /\ row[r] = "succeeded" => proc[r] = "ok"
        /\ row[r] = "timed_out" => r \in Timed
        /\ row[r] \in Terminal /\ Running => proc[r] \notin Live
        /\ row[r] = "lost" => stops > 0

\* A run that is over stays as it was recorded, unless a cancel request that
\* read an earlier state commits over it (and a launch then undoes it).
EndIsFinal ==
    [][\A r \in Runs : row[r] \in Terminal => row'[r] = row[r] \/ r \in stale']_vars

-----------------------------------------------------------------------------
(* Liveness                                                                *)

\* A cancel request accepted for a run that is supervised ends its child,
\* even one that ignores SIGTERM, whatever errors, timeouts and stops occur;
\* unless another cancel request, which read the row before the claim, commits
\* canceled over it, so that the sweep no longer sees the run.
CancelEndsChild ==
    \A r \in Runs :
        row[r] = "cancel_requested" /\ sup[r] # "none" /\ proc[r] \in Live
            ~> proc[r] \notin Live \/ row[r] = "canceled"

\* The child of a run with a timeout does not run for ever.
TimeoutEndsChild ==
    \A r \in Timed : sup[r] = "wait" ~> proc[r] \notin Live

\* A child nobody is asked to end: it has no timeout and no cancel request.
RunsOn(r) == r \notin Timed /\ proc[r] \in Live /\ row[r] = "running"

\* The queue moves: a queued run is claimed or canceled, unless jobs that run
\* on hold the slots, or an error or a late cancel request has leaked one.
QueueMoves ==
    \A r \in Runs :
        row[r] = "queued" ~> row[r] # "queued" \/ stale # {} \/ faults > 0
                             \/ \E s \in Runs : RunsOn(s)

\* A run that was claimed gets its final state, even if its job ignores
\* signals and never ends by itself, once it has a timeout or is canceled.
RunsEnd ==
    \A r \in Runs :
        row[r] \in Active ~> row[r] \in Terminal \/ RunsOn(r) \/ r \in stale \/ faults > 0

-----------------------------------------------------------------------------
(* What the documentation says and the code does not do                    *)

\* docs/architecture/README.md: background loops catch loop-level exceptions.
\* reconcile() is outside the loop's try.
LoopSurvives == loop # "dead"

\* README.md: the cancel endpoint cancels queued or active runs.  The blind
\* writes of _launch_run undo a cancel accepted while the run is launched.
CancelIsKept ==
    [][\A r \in Runs : row[r] = "cancel_requested" => row'[r] \notin {"starting", "running"}]_vars

\* docs/DEPLOYMENT.md: one active native job at a time.  A cancel request that
\* read the row before the claim frees the slot of a child that keeps running.
OneJobAtATime == Cardinality(LiveRuns) <= 1

=============================================================================
