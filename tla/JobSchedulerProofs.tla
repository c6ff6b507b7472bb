------------------------- MODULE JobSchedulerProofs -------------------------
(***************************************************************************)
(* Proofs, for any number of runs and any bounds, of what the runs of TLC  *)
(* check of JobScheduler on small instances: that it is well typed, starts *)
(* a run once and admits within the bound; that no admission slot is       *)
(* leaked, and what is recorded at the end of a run is what happened and   *)
(* stays; and that the scheduler implements the contract of JobSlots: its  *)
(* initial states map to initial states, and each of its steps to a step   *)
(* of the contract or to none.                                             *)
(***************************************************************************)
EXTENDS JobSchedulerSlots, FiniteSetTheorems, TLAPS

-----------------------------------------------------------------------------
(* Type correctness                                                        *)

\* The loop names a run whenever it cancels or launches one.
CurIsRun == loop \in Launching \cup {"grace", "kill_wait"} => cur \in Runs

\* The tables and tasks of the scheduler hold what they are declared to hold,
\* and every use of the loop's current run finds one.
TypeInv == TypeOK /\ CurIsRun

LEMMA TypeInit == Init => TypeInv
  <1> SUFFICES ASSUME Init PROVE TypeInv
    OBVIOUS
  <1>1. stopping \in BOOLEAN
    BY DEF Init
  <1> QED
    BY <1>1 DEF Init, TypeInv, TypeOK, CurIsRun, RowStates, LoopStates, Launching,
                SupStates, ProcStates

LEMMA TypeNext == TypeInv /\ [Next]_vars => TypeInv'
  <1> SUFFICES ASSUME TypeInv, [Next]_vars
               PROVE  TypeInv'
    OBVIOUS
  <1> USE RunsAssumption, BoundsAssumption
      DEF TypeInv, TypeOK, CurIsRun, RowStates, Active, Terminal, LoopStates, Launching,
          SupStates, ProcStates, Live, Exited,
          apiVars, loopVars, supVars, childVars, lifeVars, faultVars
  <1>1. CASE Api
    <2>1. ASSUME NEW r \in Runs, Queue(r) PROVE TypeInv'
      BY <2>1 DEF Queue
    <2>2. ASSUME NEW r \in Runs, CancelRead(r) PROVE TypeInv'
      BY <2>2 DEF CancelRead, Verdicts
    <2>3. ASSUME NEW r \in Runs, NEW v \in Verdicts, CancelCommit(r, v) PROVE TypeInv'
      BY <2>3 DEF CancelCommit, CancelEnds, Verdicts
    <2>4. ASSUME NEW r \in Runs, NEW v \in Verdicts, CancelFails(r, v) PROVE TypeInv'
      BY <2>4 DEF CancelFails, CancelEnds, Verdicts
    <2> QED BY <1>1, <2>1, <2>2, <2>3, <2>4 DEF Api
  <1>2. CASE Restart
    BY <1>2 DEF Restart, Start, ReconcileRead, ReconcileCommit, LostRuns, ActiveRuns
  <1>3. CASE TickBegin
    BY <1>3 DEF TickBegin
  <1>4. CASE Sweep
    <2>1. ASSUME NEW r \in Runs, SweepNext(r) PROVE TypeInv'
      BY <2>1 DEF SweepNext
    <2>2. CASE SweepKill
      BY <2>2 DEF SweepKill
    <2>3. CASE SweepExitSeen
      BY <2>3 DEF SweepExitSeen
    <2>4. CASE SweepDone
      BY <2>4 DEF SweepDone
    <2> QED BY <1>4, <2>1, <2>2, <2>3, <2>4 DEF Sweep
  <1>5. CASE Admission
    <2>1. CASE Count
      BY <2>1 DEF Count
    <2>2. ASSUME NEW r \in Runs, Claim(r) PROVE TypeInv'
      BY <2>2 DEF Claim
    <2>3. CASE ClaimNothing
      BY <2>3 DEF ClaimNothing
    <2> QED BY <1>5, <2>1, <2>2, <2>3 DEF Admission
  <1>6. CASE Launch
    <2>1. CASE MarkStarting
      BY <2>1 DEF MarkStarting
    <2>2. CASE Spawn
      BY <2>2 DEF Spawn
    <2>3. CASE SpawnFails
      BY <2>3 DEF SpawnFails
    <2>4. CASE RecordStartFailure
      BY <2>4 DEF RecordStartFailure
    <2>5. CASE MarkRunning
      BY <2>5 DEF MarkRunning
    <2> QED BY <1>6, <2>1, <2>2, <2>3, <2>4, <2>5 DEF Launch
  <1>7. ASSUME NEW r \in Runs, Supervise(r) \/ SupDrained(r) PROVE TypeInv'
    <2>1. CASE SupInit(r)
      BY <2>1 DEF SupInit
    <2>2. CASE SupExitSeen(r)
      BY <2>2 DEF SupExitSeen, ExitVerdict
    <2>3. CASE SupTimeout(r)
      BY <2>3 DEF SupTimeout
    <2>4. CASE SupKill(r)
      BY <2>4 DEF SupKill
    <2>5. CASE SupDrained(r)
      BY <2>5 DEF SupDrained
    <2>6. CASE FinalRead(r)
      BY <2>6 DEF FinalRead, Forget, AlreadyFinal
    <2>7. CASE FinalCommit(r)
      BY <2>7 DEF FinalCommit, Forget
    <2> QED BY <1>7, <2>1, <2>2, <2>3, <2>4, <2>5, <2>6, <2>7 DEF Supervise
  <1>8. ASSUME NEW r \in Runs, ProcExit(r) \/ OrphanExit(r) PROVE TypeInv'
    BY <1>8 DEF ProcExit, OrphanExit
  <1>9. CASE Fault
    <2>1. CASE ReconcileFails
      BY <2>1 DEF ReconcileFails
    <2>2. CASE TickFails
      BY <2>2 DEF TickFails
    <2>3. CASE LaunchFails
      BY <2>3 DEF LaunchFails
    <2>4. ASSUME NEW r \in Runs, SupFails(r) PROVE TypeInv'
      BY <2>4 DEF SupFails
    <2> QED BY <1>9, <2>1, <2>2, <2>3, <2>4 DEF Fault
  <1>10. CASE Shutdown
    <2>1. CASE RequestStop
      BY <2>1 DEF RequestStop
    <2>2. CASE CancelTasks
      BY <2>2 DEF CancelTasks, Interrupted
    <2>3. WorkerEnds /\ stops' \in Nat => TypeInv'
      <3> SUFFICES ASSUME WorkerEnds, stops' \in Nat PROVE TypeInv'
        OBVIOUS
      <3>1. stopping' \in BOOLEAN
        BY DEF WorkerEnds
      <3>2. proc' \in [Runs -> ProcStates]
        BY DEF WorkerEnds
      <3> QED BY <3>1, <3>2 DEF WorkerEnds
    <2>4. CASE Exit
      BY <2>3, <2>4 DEF Exit
    <2>5. CASE Crash
      <3>1. stops' \in Nat
        BY <2>5 DEF Crash
      <3> QED BY ONLY <2>3, <2>5, <3>1 DEF Crash
    <2> QED BY <1>10, <2>1, <2>2, <2>4, <2>5 DEF Shutdown
  <1>11. CASE UNCHANGED vars
    BY <1>11 DEF vars
  <1> QED
    BY <1>1, <1>2, <1>3, <1>4, <1>5, <1>6, <1>7, <1>8, <1>9, <1>10, <1>11
    DEF Next, LoopStep

\* Type correctness of the scheduler, for any set of runs and any bounds.
LEMMA TypeInvariant == Spec => []TypeInv
  BY TypeInit, TypeNext, PTL DEF Spec

THEOREM TypeCorrect == Spec => []TypeOK
  BY TypeInvariant, PTL DEF TypeInv

-----------------------------------------------------------------------------
(* A run is started at most once                                           *)

\* A process is started for a run only between its claim and mark_running: it
\* has none while the run waits, and a supervised run has exactly one.
StartsOnce(r) ==
    /\ starts[r] <= 1
    /\ row[r] \in {"none", "queued"} => starts[r] = 0
    /\ cur = r /\ loop \in Launching => row[r] \notin {"none", "queued"}
    /\ cur = r /\ loop \in {"launch", "spawn", "start_failed"} => starts[r] = 0
    /\ cur = r /\ loop = "mark_running" => starts[r] = 1
    /\ sup[r] # "none" => starts[r] = 1 /\ ~(cur = r /\ loop \in Launching)
    /\ sup[r] \in {"drain", "final_read", "final_commit"} => result[r] # "none"
    /\ starts[r] = 0 => proc[r] = "none"

OnceInv == \A r \in Runs : StartsOnce(r)

LEMMA OnceInit == Init => OnceInv
  BY DEF Init, OnceInv, StartsOnce, Launching

LEMMA OnceNext == TypeInv /\ OnceInv /\ [Next]_vars => OnceInv'
  <1> SUFFICES ASSUME TypeInv, OnceInv, [Next]_vars
               PROVE  OnceInv'
    OBVIOUS
  <1> USE RunsAssumption
      DEF TypeInv, TypeOK, CurIsRun, OnceInv, StartsOnce, Active, Terminal, Launching,
          Live, Exited, SupStates,
          apiVars, loopVars, supVars, childVars, lifeVars, faultVars
  <1>1. CASE Api
    <2>1. ASSUME NEW r \in Runs, Queue(r) PROVE OnceInv'
      BY <2>1 DEF Queue
    <2>2. ASSUME NEW r \in Runs, CancelRead(r) PROVE OnceInv'
      BY <2>2 DEF CancelRead, Verdicts
    <2>3. ASSUME NEW r \in Runs, NEW v \in Verdicts, CancelCommit(r, v) PROVE OnceInv'
      BY <2>3 DEF CancelCommit, CancelEnds, CancelIsStale, Verdicts
    <2>4. ASSUME NEW r \in Runs, NEW v \in Verdicts, CancelFails(r, v) PROVE OnceInv'
      BY <2>4 DEF CancelFails, CancelEnds, Verdicts
    <2> QED BY <1>1, <2>1, <2>2, <2>3, <2>4 DEF Api
  <1>2. CASE Restart
    <2>1. CASE Start
      BY <2>1 DEF Start
    <2>2. CASE ReconcileRead
      BY <2>2 DEF ReconcileRead, LostRuns, ActiveRuns
    <2>3. CASE ReconcileCommit
      BY <2>3 DEF ReconcileCommit
    <2> QED BY <1>2, <2>1, <2>2, <2>3 DEF Restart
  <1>3. CASE TickBegin
    BY <1>3 DEF TickBegin
  <1>4. CASE Sweep
    <2>1. ASSUME NEW r \in Runs, SweepNext(r) PROVE OnceInv'
      BY <2>1 DEF SweepNext
    <2>2. CASE SweepKill
      BY <2>2 DEF SweepKill
    <2>3. CASE SweepExitSeen
      BY <2>3 DEF SweepExitSeen
    <2>4. CASE SweepDone
      BY <2>4 DEF SweepDone
    <2> QED BY <1>4, <2>1, <2>2, <2>3, <2>4 DEF Sweep
  <1>5. CASE Admission
    <2>1. CASE Count
      BY <2>1 DEF Count, SlotAvailable
    <2>2. ASSUME NEW r \in Runs, Claim(r) PROVE OnceInv'
      BY <2>2 DEF Claim, Claimable
    <2>3. CASE ClaimNothing
      BY <2>3 DEF ClaimNothing
    <2> QED BY <1>5, <2>1, <2>2, <2>3 DEF Admission
  <1>6. CASE Launch
    <2>1. CASE MarkStarting
      BY <2>1 DEF MarkStarting
    <2>2. CASE Spawn
      <3>1. /\ loop = "spawn" /\ cur \in Runs /\ starts[cur] = 0
            /\ loop' = "mark_running" /\ cur' = cur
        BY <2>2 DEF Spawn
      <3>2. starts' = [starts EXCEPT ![cur] = 1]
        BY <3>1, <2>2 DEF Spawn
      <3>3. \A r \in Runs : r # cur => starts'[r] = starts[r] /\ proc'[r] = proc[r]
        BY <3>2, <2>2 DEF Spawn
      <3>4. UNCHANGED <<row, sup, result>>
        BY <2>2 DEF Spawn
      <3> SUFFICES ASSUME NEW r \in Runs PROVE StartsOnce(r)'
        OBVIOUS
      <3>5. CASE r = cur
        BY <3>1, <3>2, <3>4, <3>5
      <3>6. CASE r # cur
        BY <3>1, <3>3, <3>4, <3>6
      <3> QED BY <3>5, <3>6
    <2>3. CASE SpawnFails
      BY <2>3 DEF SpawnFails
    <2>4. CASE RecordStartFailure
      BY <2>4 DEF RecordStartFailure
    <2>5. CASE MarkRunning
      BY <2>5 DEF MarkRunning
    <2> QED BY <1>6, <2>1, <2>2, <2>3, <2>4, <2>5 DEF Launch
  <1>7. ASSUME NEW r \in Runs, Supervise(r) \/ SupDrained(r) PROVE OnceInv'
    <2>1. CASE SupInit(r)
      BY <2>1 DEF SupInit
    <2>2. CASE SupExitSeen(r)
      BY <2>2 DEF SupExitSeen, ExitVerdict
    <2>3. CASE SupTimeout(r)
      BY <2>3 DEF SupTimeout
    <2>4. CASE SupKill(r)
      BY <2>4 DEF SupKill
    <2>5. CASE SupDrained(r)
      BY <2>5 DEF SupDrained
    <2>6. CASE FinalRead(r)
      BY <2>6 DEF FinalRead, Forget, AlreadyFinal
    <2>7. CASE FinalCommit(r)
      BY <2>7 DEF FinalCommit, Forget
    <2> QED BY <1>7, <2>1, <2>2, <2>3, <2>4, <2>5, <2>6, <2>7 DEF Supervise
  <1>8. ASSUME NEW r \in Runs, ProcExit(r) \/ OrphanExit(r) PROVE OnceInv'
    <2>1. CASE ProcExit(r)
      BY <2>1 DEF ProcExit
    <2>2. CASE OrphanExit(r)
      BY <2>2 DEF OrphanExit
    <2> QED BY <1>8, <2>1, <2>2
  <1>9. CASE Fault
    <2>1. CASE ReconcileFails
      BY <2>1 DEF ReconcileFails
    <2>2. CASE TickFails
      BY <2>2 DEF TickFails
    <2>3. CASE LaunchFails
      BY <2>3 DEF LaunchFails
    <2>4. ASSUME NEW r \in Runs, SupFails(r) PROVE OnceInv'
      BY <2>4 DEF SupFails
    <2> QED BY <1>9, <2>1, <2>2, <2>3, <2>4 DEF Fault
  <1>10. CASE Shutdown
    <2>1. CASE RequestStop
      BY <2>1 DEF RequestStop
    <2>2. CASE CancelTasks
      BY <2>2 DEF CancelTasks, Interrupted
    <2>3. CASE Exit
      BY <2>3 DEF Exit, WorkerEnds
    <2>4. CASE Crash
      BY <2>4 DEF Crash, WorkerEnds
    <2> QED BY <1>10, <2>1, <2>2, <2>3, <2>4 DEF Shutdown
  <1>11. CASE UNCHANGED vars
    BY <1>11 DEF vars
  <1> QED
    BY <1>1, <1>2, <1>3, <1>4, <1>5, <1>6, <1>7, <1>8, <1>9, <1>10, <1>11
    DEF Next, LoopStep

LEMMA OnceInvariant == Spec => []OnceInv
  BY TypeInvariant, OnceInit, OnceNext, PTL DEF Spec

\* However the worker crashes, restarts or fails, whatever late cancel requests
\* commit: no run ever gets a second process.
THEOREM StartedOnce == Spec => []StartedAtMostOnce
  <1>1. OnceInv => StartedAtMostOnce
    BY DEF OnceInv, StartsOnce, StartedAtMostOnce
  <1> QED BY <1>1, OnceInvariant, PTL

-----------------------------------------------------------------------------
(* The admission bound                                                     *)

SlotsHeld == ActiveRuns \ stale

\* The run being launched keeps the slot it was admitted to.
LaunchHoldsSlot == loop \in Launching => row[cur] \in Active \/ cur \in stale

LEMMA LaunchHoldsInit == Init => LaunchHoldsSlot
  BY DEF Init, LaunchHoldsSlot, Launching

LEMMA LaunchHoldsNext ==
    TypeInv /\ OnceInv /\ LaunchHoldsSlot /\ [Next]_vars => LaunchHoldsSlot'
  <1> SUFFICES ASSUME TypeInv, OnceInv, LaunchHoldsSlot, [Next]_vars
               PROVE  LaunchHoldsSlot'
    OBVIOUS
  <1> USE RunsAssumption
      DEF TypeInv, TypeOK, CurIsRun, OnceInv, StartsOnce, LaunchHoldsSlot, Active,
          Terminal, Launching, SupStates,
          apiVars, loopVars, supVars, childVars, lifeVars, faultVars
  <1>1. CASE Api
    <2>1. ASSUME NEW r \in Runs, Queue(r) PROVE LaunchHoldsSlot'
      BY <2>1 DEF Queue
    <2>2. ASSUME NEW r \in Runs, CancelRead(r) PROVE LaunchHoldsSlot'
      BY <2>2 DEF CancelRead, Verdicts
    <2>3. ASSUME NEW r \in Runs, NEW v \in Verdicts, CancelCommit(r, v) PROVE LaunchHoldsSlot'
      BY <2>3 DEF CancelCommit, CancelEnds, CancelIsStale, Verdicts
    <2>4. ASSUME NEW r \in Runs, NEW v \in Verdicts, CancelFails(r, v) PROVE LaunchHoldsSlot'
      BY <2>4 DEF CancelFails, CancelEnds, Verdicts
    <2> QED BY <1>1, <2>1, <2>2, <2>3, <2>4 DEF Api
  <1>2. CASE Restart
    <2>1. CASE Start
      BY <2>1 DEF Start
    <2>2. CASE ReconcileRead
      BY <2>2 DEF ReconcileRead, LostRuns, ActiveRuns
    <2>3. CASE ReconcileCommit
      BY <2>3 DEF ReconcileCommit
    <2> QED BY <1>2, <2>1, <2>2, <2>3 DEF Restart
  <1>3. CASE TickBegin
    BY <1>3 DEF TickBegin
  <1>4. CASE Sweep
    <2>1. ASSUME NEW r \in Runs, SweepNext(r) PROVE LaunchHoldsSlot'
      BY <2>1 DEF SweepNext
    <2>2. CASE SweepKill
      BY <2>2 DEF SweepKill
    <2>3. CASE SweepExitSeen
      BY <2>3 DEF SweepExitSeen
    <2>4. CASE SweepDone
      BY <2>4 DEF SweepDone
    <2> QED BY <1>4, <2>1, <2>2, <2>3, <2>4 DEF Sweep
  <1>5. CASE Admission
    <2>1. CASE Count
      BY <2>1 DEF Count, SlotAvailable
    <2>2. ASSUME NEW r \in Runs, Claim(r) PROVE LaunchHoldsSlot'
      BY <2>2 DEF Claim, Claimable
    <2>3. CASE ClaimNothing
      BY <2>3 DEF ClaimNothing
    <2> QED BY <1>5, <2>1, <2>2, <2>3 DEF Admission
  <1>6. CASE Launch
    <2>1. CASE MarkStarting
      BY <2>1 DEF MarkStarting
    <2>2. CASE Spawn
      BY <2>2 DEF Spawn
    <2>3. CASE SpawnFails
      BY <2>3 DEF SpawnFails
    <2>4. CASE RecordStartFailure
      BY <2>4 DEF RecordStartFailure
    <2>5. CASE MarkRunning
      BY <2>5 DEF MarkRunning
    <2> QED BY <1>6, <2>1, <2>2, <2>3, <2>4, <2>5 DEF Launch
  <1>7. ASSUME NEW r \in Runs, Supervise(r) \/ SupDrained(r) PROVE LaunchHoldsSlot'
    <2>1. CASE SupInit(r)
      BY <2>1 DEF SupInit
    <2>2. CASE SupExitSeen(r)
      BY <2>2 DEF SupExitSeen, ExitVerdict
    <2>3. CASE SupTimeout(r)
      BY <2>3 DEF SupTimeout
    <2>4. CASE SupKill(r)
      BY <2>4 DEF SupKill
    <2>5. CASE SupDrained(r)
      BY <2>5 DEF SupDrained
    <2>6. CASE FinalRead(r)
      BY <2>6 DEF FinalRead, Forget, AlreadyFinal
    <2>7. CASE FinalCommit(r)
      BY <2>7 DEF FinalCommit, Forget
    <2> QED BY <1>7, <2>1, <2>2, <2>3, <2>4, <2>5, <2>6, <2>7 DEF Supervise
  <1>8. ASSUME NEW r \in Runs, ProcExit(r) \/ OrphanExit(r) PROVE LaunchHoldsSlot'
    <2>1. CASE ProcExit(r)
      BY <2>1 DEF ProcExit
    <2>2. CASE OrphanExit(r)
      BY <2>2 DEF OrphanExit
    <2> QED BY <1>8, <2>1, <2>2
  <1>9. CASE Fault
    <2>1. CASE ReconcileFails
      BY <2>1 DEF ReconcileFails
    <2>2. CASE TickFails
      BY <2>2 DEF TickFails
    <2>3. CASE LaunchFails
      BY <2>3 DEF LaunchFails
    <2>4. ASSUME NEW r \in Runs, SupFails(r) PROVE LaunchHoldsSlot'
      BY <2>4 DEF SupFails
    <2> QED BY <1>9, <2>1, <2>2, <2>3, <2>4 DEF Fault
  <1>10. CASE Shutdown
    <2>1. CASE RequestStop
      BY <2>1 DEF RequestStop
    <2>2. CASE CancelTasks
      BY <2>2 DEF CancelTasks, Interrupted
    <2>3. CASE Exit
      BY <2>3 DEF Exit, WorkerEnds
    <2>4. CASE Crash
      BY <2>4 DEF Crash, WorkerEnds
    <2> QED BY <1>10, <2>1, <2>2, <2>3, <2>4 DEF Shutdown
  <1>11. CASE UNCHANGED vars
    BY <1>11 DEF vars
  <1> QED
    BY <1>1, <1>2, <1>3, <1>4, <1>5, <1>6, <1>7, <1>8, <1>9, <1>10, <1>11
    DEF Next, LoopStep

LEMMA LaunchHoldsInvariant == Spec => []LaunchHoldsSlot
  BY TypeInvariant, OnceInvariant, LaunchHoldsInit, LaunchHoldsNext, PTL DEF Spec

\* Only the claim gives a run a slot.
LEMMA SlotsShrink ==
    ASSUME TypeInv, OnceInv, LaunchHoldsSlot, [Next]_vars,
           ~ \E r \in Runs : Claim(r)
    PROVE  SlotsHeld' \subseteq SlotsHeld
  <1> USE RunsAssumption
      DEF TypeInv, TypeOK, CurIsRun, OnceInv, StartsOnce, LaunchHoldsSlot, Active,
          Terminal, Launching, SupStates, SlotsHeld, ActiveRuns,
          apiVars, loopVars, supVars, childVars, lifeVars, faultVars
  <1>1. CASE Api
    <2>1. ASSUME NEW r \in Runs, Queue(r) PROVE SlotsHeld' \subseteq SlotsHeld
      BY <2>1 DEF Queue
    <2>2. ASSUME NEW r \in Runs, CancelRead(r) PROVE SlotsHeld' \subseteq SlotsHeld
      BY <2>2 DEF CancelRead, Verdicts
    <2>3. ASSUME NEW r \in Runs, NEW v \in Verdicts, CancelCommit(r, v) PROVE SlotsHeld' \subseteq SlotsHeld
      BY <2>3 DEF CancelCommit, CancelEnds, CancelIsStale, Verdicts
    <2>4. ASSUME NEW r \in Runs, NEW v \in Verdicts, CancelFails(r, v) PROVE SlotsHeld' \subseteq SlotsHeld
      BY <2>4 DEF CancelFails, CancelEnds, Verdicts
    <2> QED BY <1>1, <2>1, <2>2, <2>3, <2>4 DEF Api
  <1>2. CASE Restart
    <2>1. CASE Start
      BY <2>1 DEF Start
    <2>2. CASE ReconcileRead
      BY <2>2 DEF ReconcileRead, LostRuns, ActiveRuns
    <2>3. CASE ReconcileCommit
      BY <2>3 DEF ReconcileCommit
    <2> QED BY <1>2, <2>1, <2>2, <2>3 DEF Restart
  <1>3. CASE TickBegin
    BY <1>3 DEF TickBegin
  <1>4. CASE Sweep
    <2>1. ASSUME NEW r \in Runs, SweepNext(r) PROVE SlotsHeld' \subseteq SlotsHeld
      BY <2>1 DEF SweepNext
    <2>2. CASE SweepKill
      BY <2>2 DEF SweepKill
    <2>3. CASE SweepExitSeen
      BY <2>3 DEF SweepExitSeen
    <2>4. CASE SweepDone
      BY <2>4 DEF SweepDone
    <2> QED BY <1>4, <2>1, <2>2, <2>3, <2>4 DEF Sweep
  <1>5. CASE Admission
    <2>1. CASE Count
      BY <2>1 DEF Count, SlotAvailable
    <2>2. ASSUME NEW r \in Runs, Claim(r) PROVE SlotsHeld' \subseteq SlotsHeld
      BY <2>2
    <2>3. CASE ClaimNothing
      BY <2>3 DEF ClaimNothing
    <2> QED BY <1>5, <2>1, <2>2, <2>3 DEF Admission
  <1>6. CASE Launch
    <2>1. CASE MarkStarting
      BY <2>1 DEF MarkStarting
    <2>2. CASE Spawn
      BY <2>2 DEF Spawn
    <2>3. CASE SpawnFails
      BY <2>3 DEF SpawnFails
    <2>4. CASE RecordStartFailure
      BY <2>4 DEF RecordStartFailure
    <2>5. CASE MarkRunning
      BY <2>5 DEF MarkRunning
    <2> QED BY <1>6, <2>1, <2>2, <2>3, <2>4, <2>5 DEF Launch
  <1>7. ASSUME NEW r \in Runs, Supervise(r) \/ SupDrained(r) PROVE SlotsHeld' \subseteq SlotsHeld
    <2>1. CASE SupInit(r)
      BY <2>1 DEF SupInit
    <2>2. CASE SupExitSeen(r)
      BY <2>2 DEF SupExitSeen, ExitVerdict
    <2>3. CASE SupTimeout(r)
      BY <2>3 DEF SupTimeout
    <2>4. CASE SupKill(r)
      BY <2>4 DEF SupKill
    <2>5. CASE SupDrained(r)
      BY <2>5 DEF SupDrained
    <2>6. CASE FinalRead(r)
      BY <2>6 DEF FinalRead, Forget, AlreadyFinal
    <2>7. CASE FinalCommit(r)
      BY <2>7 DEF FinalCommit, Forget
    <2> QED BY <1>7, <2>1, <2>2, <2>3, <2>4, <2>5, <2>6, <2>7 DEF Supervise
  <1>8. ASSUME NEW r \in Runs, ProcExit(r) \/ OrphanExit(r) PROVE SlotsHeld' \subseteq SlotsHeld
    <2>1. CASE ProcExit(r)
      BY <2>1 DEF ProcExit
    <2>2. CASE OrphanExit(r)
      BY <2>2 DEF OrphanExit
    <2> QED BY <1>8, <2>1, <2>2
  <1>9. CASE Fault
    <2>1. CASE ReconcileFails
      BY <2>1 DEF ReconcileFails
    <2>2. CASE TickFails
      BY <2>2 DEF TickFails
    <2>3. CASE LaunchFails
      BY <2>3 DEF LaunchFails
    <2>4. ASSUME NEW r \in Runs, SupFails(r) PROVE SlotsHeld' \subseteq SlotsHeld
      BY <2>4 DEF SupFails
    <2> QED BY <1>9, <2>1, <2>2, <2>3, <2>4 DEF Fault
  <1>10. CASE Shutdown
    <2>1. CASE RequestStop
      BY <2>1 DEF RequestStop
    <2>2. CASE CancelTasks
      BY <2>2 DEF CancelTasks, Interrupted
    <2>3. CASE Exit
      BY <2>3 DEF Exit, WorkerEnds
    <2>4. CASE Crash
      BY <2>4 DEF Crash, WorkerEnds
    <2> QED BY <1>10, <2>1, <2>2, <2>3, <2>4 DEF Shutdown
  <1>11. CASE UNCHANGED vars
    BY <1>11 DEF vars
  <1> QED
    BY <1>1, <1>2, <1>3, <1>4, <1>5, <1>6, <1>7, <1>8, <1>9, <1>10, <1>11
    DEF Next, LoopStep

\* The loop reaches the claim from Count only.
LEMMA ClaimFollowsCount ==
    ASSUME [Next]_vars, loop' = "claim"
    PROVE  Count \/ loop = "claim"
  BY DEF Next, vars, Api, Queue, CancelRead, CancelCommit, CancelEnds, CancelFails, LoopStep, Restart,
     Start, ReconcileRead, ReconcileCommit, TickBegin, Sweep, SweepNext, SweepKill,
     SweepExitSeen, SweepDone, Admission, Claim, ClaimNothing, Launch, MarkStarting,
     Spawn, SpawnFails, RecordStartFailure, MarkRunning, Supervise, SupInit,
     SupExitSeen, SupTimeout, SupKill, SupDrained, FinalRead, FinalCommit, ProcExit,
     OrphanExit, Fault, ReconcileFails, TickFails, LaunchFails, SupFails, Shutdown,
     RequestStop, CancelTasks, Exit, Crash, WorkerEnds, loopVars

\* The bound, and what Count established for the claim that follows it.
AdmissionInv ==
    /\ AdmissionBound
    /\ loop = "claim" => Cardinality(SlotsHeld) < MaxActive

\* No set of runs is larger than a set that includes it.
LEMMA SubsetOfRuns ==
    ASSUME NEW S \in SUBSET Runs, NEW T \in SUBSET S
    PROVE  /\ IsFiniteSet(S)
           /\ Cardinality(S) \in Nat /\ Cardinality(T) \in Nat
           /\ Cardinality(T) <= Cardinality(S)
  BY RunsAssumption, FS_Subset, FS_CardinalityType

LEMMA AdmissionInit == Init => AdmissionInv
  <1> SUFFICES ASSUME Init PROVE AdmissionInv
    OBVIOUS
  <1>1. SlotsHeld = {}
    BY DEF Init, SlotsHeld, ActiveRuns, Active
  <1> QED
    BY <1>1, FS_EmptySet, MaxActiveAssumption
    DEF Init, AdmissionInv, AdmissionBound, SlotsHeld

LEMMA AdmissionNext ==
    /\ TypeInv /\ OnceInv /\ LaunchHoldsSlot
    /\ AdmissionInv /\ [Next]_vars
    => AdmissionInv'
  <1> SUFFICES ASSUME TypeInv, OnceInv, LaunchHoldsSlot, AdmissionInv, [Next]_vars
               PROVE  AdmissionInv'
    OBVIOUS
  <1> DEFINE before == Cardinality(SlotsHeld)
             after == Cardinality(SlotsHeld')
  <1>0. SlotsHeld \subseteq Runs /\ SlotsHeld' \subseteq Runs
    BY DEF SlotsHeld, ActiveRuns
  <1>1. before \in Nat /\ after \in Nat /\ IsFiniteSet(SlotsHeld)
    BY <1>0, SubsetOfRuns
  <1>2. CASE \E r \in Runs : Claim(r)
    <2>1. PICK r \in Runs : Claim(r)
      BY <1>2
    <2>2. SlotsHeld' \subseteq SlotsHeld \cup {r}
      BY <2>1 DEF Claim, SlotsHeld, ActiveRuns, TypeInv, TypeOK, apiVars
    <2>3. Cardinality(SlotsHeld \cup {r}) <= before + 1
      BY <1>1, FS_AddElement
    <2>4. after <= Cardinality(SlotsHeld \cup {r}) /\ Cardinality(SlotsHeld \cup {r}) \in Nat
      BY <1>0, <2>2, SubsetOfRuns
    <2>5. loop = "claim" /\ loop' = "launch"
      BY <2>1 DEF Claim
    <2>6. before < MaxActive
      BY <2>5 DEF AdmissionInv
    <2>7. after <= MaxActive
      BY <1>1, <2>3, <2>4, <2>6, MaxActiveAssumption
    <2> QED BY <2>5, <2>7 DEF AdmissionInv, AdmissionBound, SlotsHeld
  <1>3. CASE ~ \E r \in Runs : Claim(r)
    <2>1. after <= before
      BY <1>0, <1>3, SlotsShrink, SubsetOfRuns
    <2>2. after <= MaxActive
      BY <1>1, <2>1, MaxActiveAssumption DEF AdmissionInv, AdmissionBound, SlotsHeld
    <2>3. ASSUME loop' = "claim" PROVE after < MaxActive
      <3>1. CASE Count
        <4>1. before <= Cardinality(ActiveRuns) /\ Cardinality(ActiveRuns) \in Nat
          BY SubsetOfRuns DEF SlotsHeld, ActiveRuns
        <4>2. Cardinality(ActiveRuns) < MaxActive
          BY <2>3, <3>1 DEF Count, SlotAvailable
        <4> QED BY <1>1, <2>1, <4>1, <4>2, MaxActiveAssumption
      <3>2. CASE loop = "claim"
        BY <1>1, <2>1, <3>2, MaxActiveAssumption DEF AdmissionInv
      <3>3. Count \/ loop = "claim"
        BY <2>3, ClaimFollowsCount
      <3> QED BY <3>1, <3>2, <3>3
    <2> QED BY <2>2, <2>3 DEF AdmissionInv, AdmissionBound, SlotsHeld
  <1> QED BY <1>2, <1>3

LEMMA AdmissionInvariant == Spec => []AdmissionInv
  BY TypeInvariant, OnceInvariant, LaunchHoldsInvariant, AdmissionInit, AdmissionNext,
     PTL DEF Spec

\* At most job_max_active_runs runs hold a slot, whatever the interleaving of
\* claims, cancels, launches, crashes and restarts.
THEOREM AdmissionIsBounded == Spec => []AdmissionBound
  BY AdmissionInvariant, PTL DEF AdmissionInv

-----------------------------------------------------------------------------
(* No slot is leaked                                                       *)

\* When reconcile commits, it has read every run that holds a slot.
ReconcileSeesAll == loop = "reconcile_commit" => ActiveRuns \ stale \subseteq todo

OwnerInv == SlotHasOwner /\ ReconcileSeesAll

LEMMA OwnerInit == Init => OwnerInv
  BY DEF Init, OwnerInv, SlotHasOwner, ReconcileSeesAll

LEMMA OwnerNext ==
    TypeInv /\ OnceInv /\ LaunchHoldsSlot /\ OwnerInv /\ [Next]_vars => OwnerInv'
  <1> SUFFICES ASSUME TypeInv, OnceInv, LaunchHoldsSlot, OwnerInv, [Next]_vars
               PROVE  OwnerInv'
    OBVIOUS
  <1> USE RunsAssumption
      DEF TypeInv, TypeOK, CurIsRun, OnceInv, StartsOnce, LaunchHoldsSlot, OwnerInv,
          SlotHasOwner, ReconcileSeesAll, ActiveRuns, Active, Terminal, Launching,
          SupStates, apiVars, loopVars, supVars, childVars, lifeVars, faultVars
  <1>1. CASE Api
    <2>1. ASSUME NEW r \in Runs, Queue(r) PROVE OwnerInv'
      BY <2>1 DEF Queue
    <2>2. ASSUME NEW r \in Runs, CancelRead(r) PROVE OwnerInv'
      BY <2>2 DEF CancelRead, Verdicts
    <2>3. ASSUME NEW r \in Runs, NEW v \in Verdicts, CancelCommit(r, v) PROVE OwnerInv'
      BY <2>3 DEF CancelCommit, CancelEnds, CancelIsStale, Verdicts
    <2>4. ASSUME NEW r \in Runs, NEW v \in Verdicts, CancelFails(r, v) PROVE OwnerInv'
      BY <2>4 DEF CancelFails, CancelEnds, Verdicts
    <2> QED BY <1>1, <2>1, <2>2, <2>3, <2>4 DEF Api
  <1>2. CASE Restart
    <2>1. CASE Start
      BY <2>1 DEF Start
    <2>2. CASE ReconcileRead
      BY <2>2 DEF ReconcileRead, LostRuns, ActiveRuns
    <2>3. CASE ReconcileCommit
      BY <2>3 DEF ReconcileCommit
    <2> QED BY <1>2, <2>1, <2>2, <2>3 DEF Restart
  <1>3. CASE TickBegin
    BY <1>3 DEF TickBegin
  <1>4. CASE Sweep
    <2>1. ASSUME NEW r \in Runs, SweepNext(r) PROVE OwnerInv'
      BY <2>1 DEF SweepNext
    <2>2. CASE SweepKill
      BY <2>2 DEF SweepKill
    <2>3. CASE SweepExitSeen
      BY <2>3 DEF SweepExitSeen
    <2>4. CASE SweepDone
      BY <2>4 DEF SweepDone
    <2> QED BY <1>4, <2>1, <2>2, <2>3, <2>4 DEF Sweep
  <1>5. CASE Admission
    <2>1. CASE Count
      BY <2>1 DEF Count, SlotAvailable
    <2>2. ASSUME NEW r \in Runs, Claim(r) PROVE OwnerInv'
      BY <2>2 DEF Claim, Claimable
    <2>3. CASE ClaimNothing
      BY <2>3 DEF ClaimNothing
    <2> QED BY <1>5, <2>1, <2>2, <2>3 DEF Admission
  <1>6. CASE Launch
    <2>1. CASE MarkStarting
      BY <2>1 DEF MarkStarting
    <2>2. CASE Spawn
      BY <2>2 DEF Spawn
    <2>3. CASE SpawnFails
      BY <2>3 DEF SpawnFails
    <2>4. CASE RecordStartFailure
      BY <2>4 DEF RecordStartFailure
    <2>5. CASE MarkRunning
      BY <2>5 DEF MarkRunning
    <2> QED BY <1>6, <2>1, <2>2, <2>3, <2>4, <2>5 DEF Launch
  <1>7. ASSUME NEW r \in Runs, Supervise(r) \/ SupDrained(r) PROVE OwnerInv'
    <2>1. CASE SupInit(r)
      BY <2>1 DEF SupInit
    <2>2. CASE SupExitSeen(r)
      BY <2>2 DEF SupExitSeen, ExitVerdict
    <2>3. CASE SupTimeout(r)
      BY <2>3 DEF SupTimeout
    <2>4. CASE SupKill(r)
      BY <2>4 DEF SupKill
    <2>5. CASE SupDrained(r)
      BY <2>5 DEF SupDrained
    <2>6. CASE FinalRead(r)
      BY <2>6 DEF FinalRead, Forget, AlreadyFinal
    <2>7. CASE FinalCommit(r)
      BY <2>7 DEF FinalCommit, Forget
    <2> QED BY <1>7, <2>1, <2>2, <2>3, <2>4, <2>5, <2>6, <2>7 DEF Supervise
  <1>8. ASSUME NEW r \in Runs, ProcExit(r) \/ OrphanExit(r) PROVE OwnerInv'
    <2>1. CASE ProcExit(r)
      BY <2>1 DEF ProcExit
    <2>2. CASE OrphanExit(r)
      BY <2>2 DEF OrphanExit
    <2> QED BY <1>8, <2>1, <2>2
  <1>9. CASE Fault
    <2>1. CASE ReconcileFails
      BY <2>1 DEF ReconcileFails
    <2>2. CASE TickFails
      BY <2>2 DEF TickFails
    <2>3. CASE LaunchFails
      BY <2>3 DEF LaunchFails
    <2>4. ASSUME NEW r \in Runs, SupFails(r) PROVE OwnerInv'
      BY <2>4 DEF SupFails
    <2> QED BY <1>9, <2>1, <2>2, <2>3, <2>4 DEF Fault
  <1>10. CASE Shutdown
    <2>1. CASE RequestStop
      BY <2>1 DEF RequestStop
    <2>2. CASE CancelTasks
      BY <2>2 DEF CancelTasks, Interrupted
    <2>3. CASE Exit
      BY <2>3 DEF Exit, WorkerEnds
    <2>4. CASE Crash
      BY <2>4 DEF Crash, WorkerEnds
    <2> QED BY <1>10, <2>1, <2>2, <2>3, <2>4 DEF Shutdown
  <1>11. CASE UNCHANGED vars
    BY <1>11 DEF vars
  <1> QED
    BY <1>1, <1>2, <1>3, <1>4, <1>5, <1>6, <1>7, <1>8, <1>9, <1>10, <1>11
    DEF Next, LoopStep

\* Unless an error of the database or a late cancel request hit the run, an
\* active row always has a task of the working loop that will record its end.
THEOREM SlotsAreOwned == Spec => []SlotHasOwner
  <1>1. OwnerInv => SlotHasOwner
    BY DEF OwnerInv
  <1> QED
    BY <1>1, TypeInvariant, OnceInvariant, LaunchHoldsInvariant, OwnerInit, OwnerNext,
       PTL DEF Spec

-----------------------------------------------------------------------------
(* The end of a run                                                        *)

Starting == {"down", "reconcile", "reconcile_commit"}
Ending == {"drain", "final_read", "final_commit"}

\* What the row of a run, its supervision task and its process have to do with
\* each other.
EndOf(r) ==
    /\ r \notin stale /\ row[r] = "succeeded" => proc[r] = "ok"
    /\ row[r] = "timed_out" => r \in Timed
    /\ result[r] = "timed_out" => r \in Timed
    /\ sup[r] \in {"grace", "kill_wait"} => r \in Timed
    /\ sup[r] \in Ending /\ result[r] = "succeeded" => proc[r] = "ok"
    /\ sup[r] \in Ending /\ Running => proc[r] \notin Live
    /\ sup[r] = "final_commit" => row[r] \in Active \/ r \in stale
    /\ r \notin stale /\ row[r] \in Terminal /\ Running => proc[r] \notin Live
    /\ Running /\ proc[r] \in Live => r \in handles
    /\ loop \in Starting => sup[r] = "none" /\ proc[r] \notin Live
    /\ loop = "reconcile_commit" /\ r \in todo => row[r] \in Active \/ r \in stale
    /\ row[r] = "lost" => stops > 0

\* Before the first stop of a worker, a worker that starts finds no run claimed.
NothingLost(r) ==
    loop \in Starting /\ stops = 0 =>
        /\ row[r] \in {"none", "queued", "canceled"}
        /\ pending[r]["cancel_requested"] = 0
        /\ r \notin todo

StopIsCounted == stopping \/ loop = "closing" => stops > 0

EndInv == StopIsCounted /\ \A r \in Runs : EndOf(r) /\ NothingLost(r)

LEMMA EndInit == Init => EndInv
  BY DEF Init, EndInv, StopIsCounted, EndOf, NothingLost, Starting, Ending, Terminal, Live,
         Running, Verdicts

LEMMA EndNext ==
    TypeInv /\ OnceInv /\ LaunchHoldsSlot /\ EndInv /\ [Next]_vars => EndInv'
  <1> SUFFICES ASSUME TypeInv, OnceInv, LaunchHoldsSlot, EndInv, [Next]_vars
               PROVE  EndInv'
    OBVIOUS
  <1> USE RunsAssumption
      DEF TypeInv, TypeOK, CurIsRun, OnceInv, StartsOnce, LaunchHoldsSlot, EndInv,
          StopIsCounted, EndOf, NothingLost, Starting, Ending, Running, Active, Terminal,
          Launching, Live, Exited, SupStates,
          apiVars, loopVars, supVars, childVars, lifeVars, faultVars
  <1>1. CASE Api
    <2>1. ASSUME NEW r \in Runs, Queue(r) PROVE EndInv'
      BY <2>1 DEF Queue
    <2>2. ASSUME NEW r \in Runs, CancelRead(r) PROVE EndInv'
      BY <2>2 DEF CancelRead, Verdicts
    <2>3. ASSUME NEW r \in Runs, NEW v \in Verdicts, CancelCommit(r, v) PROVE EndInv'
      BY <2>3 DEF CancelCommit, CancelEnds, CancelIsStale, Verdicts
    <2>4. ASSUME NEW r \in Runs, NEW v \in Verdicts, CancelFails(r, v) PROVE EndInv'
      BY <2>4 DEF CancelFails, CancelEnds, Verdicts
    <2> QED BY <1>1, <2>1, <2>2, <2>3, <2>4 DEF Api
  <1>2. CASE Restart
    <2>1. CASE Start
      BY <2>1 DEF Start
    <2>2. CASE ReconcileRead
      BY <2>2 DEF ReconcileRead, LostRuns, ActiveRuns
    <2>3. CASE ReconcileCommit
      BY <2>3 DEF ReconcileCommit
    <2> QED BY <1>2, <2>1, <2>2, <2>3 DEF Restart
  <1>3. CASE TickBegin
    BY <1>3 DEF TickBegin
  <1>4. CASE Sweep
    <2>1. ASSUME NEW r \in Runs, SweepNext(r) PROVE EndInv'
      BY <2>1 DEF SweepNext
    <2>2. CASE SweepKill
      BY <2>2 DEF SweepKill
    <2>3. CASE SweepExitSeen
      BY <2>3 DEF SweepExitSeen
    <2>4. CASE SweepDone
      BY <2>4 DEF SweepDone
    <2> QED BY <1>4, <2>1, <2>2, <2>3, <2>4 DEF Sweep
  <1>5. CASE Admission
    <2>1. CASE Count
      BY <2>1 DEF Count, SlotAvailable
    <2>2. ASSUME NEW r \in Runs, Claim(r) PROVE EndInv'
      BY <2>2 DEF Claim, Claimable
    <2>3. CASE ClaimNothing
      BY <2>3 DEF ClaimNothing
    <2> QED BY <1>5, <2>1, <2>2, <2>3 DEF Admission
  <1>6. CASE Launch
    <2>1. CASE MarkStarting
      BY <2>1 DEF MarkStarting
    <2>2. CASE Spawn
      BY <2>2 DEF Spawn
    <2>3. CASE SpawnFails
      BY <2>3 DEF SpawnFails
    <2>4. CASE RecordStartFailure
      BY <2>4 DEF RecordStartFailure
    <2>5. CASE MarkRunning
      BY <2>5 DEF MarkRunning
    <2> QED BY <1>6, <2>1, <2>2, <2>3, <2>4, <2>5 DEF Launch
  <1>7. ASSUME NEW r \in Runs, Supervise(r) \/ SupDrained(r) PROVE EndInv'
    <2>1. CASE SupInit(r)
      BY <2>1 DEF SupInit
    <2>2. CASE SupExitSeen(r)
      BY <2>2 DEF SupExitSeen, ExitVerdict
    <2>3. CASE SupTimeout(r)
      BY <2>3 DEF SupTimeout
    <2>4. CASE SupKill(r)
      BY <2>4 DEF SupKill
    <2>5. CASE SupDrained(r)
      BY <2>5 DEF SupDrained
    <2>6. CASE FinalRead(r)
      <3>1. CASE AlreadyFinal(r)
        BY <2>6, <3>1 DEF FinalRead, Forget
      <3>2. CASE ~AlreadyFinal(r)
        <4>1. row[r] \in Active
          BY <2>6, <3>2 DEF FinalRead, AlreadyFinal, RowStates
        <4> QED BY <2>6, <3>2, <4>1 DEF FinalRead
      <3> QED BY <3>1, <3>2
    <2>7. CASE FinalCommit(r)
      BY <2>7 DEF FinalCommit, Forget
    <2> QED BY <1>7, <2>1, <2>2, <2>3, <2>4, <2>5, <2>6, <2>7 DEF Supervise
  <1>8. ASSUME NEW r \in Runs, ProcExit(r) \/ OrphanExit(r) PROVE EndInv'
    <2>1. CASE ProcExit(r)
      BY <2>1 DEF ProcExit
    <2>2. CASE OrphanExit(r)
      BY <2>2 DEF OrphanExit
    <2> QED BY <1>8, <2>1, <2>2
  <1>9. CASE Fault
    <2>1. CASE ReconcileFails
      BY <2>1 DEF ReconcileFails
    <2>2. CASE TickFails
      BY <2>2 DEF TickFails
    <2>3. CASE LaunchFails
      BY <2>3 DEF LaunchFails
    <2>4. ASSUME NEW r \in Runs, SupFails(r) PROVE EndInv'
      BY <2>4 DEF SupFails
    <2> QED BY <1>9, <2>1, <2>2, <2>3, <2>4 DEF Fault
  <1>10. CASE Shutdown
    <2>1. CASE RequestStop
      BY <2>1 DEF RequestStop
    <2>2. CASE CancelTasks
      BY <2>2 DEF CancelTasks, Interrupted
    <2>3. CASE Exit
      BY <2>3 DEF Exit, WorkerEnds
    <2>4. CASE Crash
      BY <2>4 DEF Crash, WorkerEnds
    <2> QED BY <1>10, <2>1, <2>2, <2>3, <2>4 DEF Shutdown
  <1>11. CASE UNCHANGED vars
    BY <1>11 DEF vars
  <1> QED
    BY <1>1, <1>2, <1>3, <1>4, <1>5, <1>6, <1>7, <1>8, <1>9, <1>10, <1>11
    DEF Next, LoopStep

LEMMA EndInvariant == Spec => []EndInv
  BY TypeInvariant, OnceInvariant, LaunchHoldsInvariant, EndInit, EndNext, PTL DEF Spec

\* Success, a timeout and the loss of a run are recorded only where they
\* happened, and no run is declared over while its worker runs its child.
THEOREM OutcomesAreTrue == Spec => []OutcomeIsTrue
  <1>1. EndInv => OutcomeIsTrue
    BY DEF EndInv, EndOf, OutcomeIsTrue
  <1> QED BY <1>1, EndInvariant, PTL

\* A child of a worker that runs is known to it and holds a slot.
THEOREM ChildrenHoldSlots == Spec => []ChildHoldsSlot
  <1>1. TypeInv /\ OnceInv /\ EndInv => ChildHoldsSlot
    BY DEF TypeInv, TypeOK, RowStates, OnceInv, StartsOnce, EndInv, EndOf, ChildHoldsSlot,
           LiveRuns, Live
  <1> QED BY <1>1, TypeInvariant, OnceInvariant, EndInvariant, PTL

-----------------------------------------------------------------------------
(* The end of a run is final                                               *)

\* What EndIsFinal says of one step.
EndsKept == \A r \in Runs : row[r] \in Terminal => row'[r] = row[r] \/ r \in stale'

LEMMA EndsKeptNext ==
    TypeInv /\ OnceInv /\ LaunchHoldsSlot /\ EndInv /\ [Next]_vars => EndsKept
  <1> SUFFICES ASSUME TypeInv, OnceInv, LaunchHoldsSlot, EndInv, [Next]_vars
               PROVE  EndsKept
    OBVIOUS
  <1> USE RunsAssumption
      DEF TypeInv, TypeOK, CurIsRun, OnceInv, StartsOnce, LaunchHoldsSlot, EndInv, EndOf,
          EndsKept, Active, Terminal, Launching,
          apiVars, loopVars, supVars, childVars, lifeVars, faultVars
  <1>1. CASE Api
    <2>1. ASSUME NEW r \in Runs, Queue(r) PROVE EndsKept
      BY <2>1 DEF Queue
    <2>2. ASSUME NEW r \in Runs, CancelRead(r) PROVE EndsKept
      BY <2>2 DEF CancelRead, Verdicts
    <2>3. ASSUME NEW r \in Runs, NEW v \in Verdicts, CancelCommit(r, v) PROVE EndsKept
      BY <2>3 DEF CancelCommit, CancelEnds, CancelIsStale, Verdicts
    <2>4. ASSUME NEW r \in Runs, NEW v \in Verdicts, CancelFails(r, v) PROVE EndsKept
      BY <2>4 DEF CancelFails, CancelEnds, Verdicts
    <2> QED BY <1>1, <2>1, <2>2, <2>3, <2>4 DEF Api
  <1>2. CASE Restart
    <2>1. CASE Start
      BY <2>1 DEF Start
    <2>2. CASE ReconcileRead
      BY <2>2 DEF ReconcileRead, LostRuns, ActiveRuns
    <2>3. CASE ReconcileCommit
      BY <2>3 DEF ReconcileCommit
    <2> QED BY <1>2, <2>1, <2>2, <2>3 DEF Restart
  <1>3. CASE TickBegin
    BY <1>3 DEF TickBegin
  <1>4. CASE Sweep
    <2>1. ASSUME NEW r \in Runs, SweepNext(r) PROVE EndsKept
      BY <2>1 DEF SweepNext
    <2>2. CASE SweepKill
      BY <2>2 DEF SweepKill
    <2>3. CASE SweepExitSeen
      BY <2>3 DEF SweepExitSeen
    <2>4. CASE SweepDone
      BY <2>4 DEF SweepDone
    <2> QED BY <1>4, <2>1, <2>2, <2>3, <2>4 DEF Sweep
  <1>5. CASE Admission
    <2>1. CASE Count
      BY <2>1 DEF Count, SlotAvailable
    <2>2. ASSUME NEW r \in Runs, Claim(r) PROVE EndsKept
      BY <2>2 DEF Claim, Claimable
    <2>3. CASE ClaimNothing
      BY <2>3 DEF ClaimNothing
    <2> QED BY <1>5, <2>1, <2>2, <2>3 DEF Admission
  <1>6. CASE Launch
    <2>1. CASE MarkStarting
      BY <2>1 DEF MarkStarting
    <2>2. CASE Spawn
      BY <2>2 DEF Spawn
    <2>3. CASE SpawnFails
      BY <2>3 DEF SpawnFails
    <2>4. CASE RecordStartFailure
      BY <2>4 DEF RecordStartFailure
    <2>5. CASE MarkRunning
      BY <2>5 DEF MarkRunning
    <2> QED BY <1>6, <2>1, <2>2, <2>3, <2>4, <2>5 DEF Launch
  <1>7. ASSUME NEW r \in Runs, Supervise(r) \/ SupDrained(r) PROVE EndsKept
    <2>1. CASE SupInit(r)
      BY <2>1 DEF SupInit
    <2>2. CASE SupExitSeen(r)
      BY <2>2 DEF SupExitSeen, ExitVerdict
    <2>3. CASE SupTimeout(r)
      BY <2>3 DEF SupTimeout
    <2>4. CASE SupKill(r)
      BY <2>4 DEF SupKill
    <2>5. CASE SupDrained(r)
      BY <2>5 DEF SupDrained
    <2>6. CASE FinalRead(r)
      BY <2>6 DEF FinalRead, Forget, AlreadyFinal
    <2>7. CASE FinalCommit(r)
      BY <2>7 DEF FinalCommit, Forget
    <2> QED BY <1>7, <2>1, <2>2, <2>3, <2>4, <2>5, <2>6, <2>7 DEF Supervise
  <1>8. ASSUME NEW r \in Runs, ProcExit(r) \/ OrphanExit(r) PROVE EndsKept
    <2>1. CASE ProcExit(r)
      BY <2>1 DEF ProcExit
    <2>2. CASE OrphanExit(r)
      BY <2>2 DEF OrphanExit
    <2> QED BY <1>8, <2>1, <2>2
  <1>9. CASE Fault
    <2>1. CASE ReconcileFails
      BY <2>1 DEF ReconcileFails
    <2>2. CASE TickFails
      BY <2>2 DEF TickFails
    <2>3. CASE LaunchFails
      BY <2>3 DEF LaunchFails
    <2>4. ASSUME NEW r \in Runs, SupFails(r) PROVE EndsKept
      BY <2>4 DEF SupFails
    <2> QED BY <1>9, <2>1, <2>2, <2>3, <2>4 DEF Fault
  <1>10. CASE Shutdown
    <2>1. CASE RequestStop
      BY <2>1 DEF RequestStop
    <2>2. CASE CancelTasks
      BY <2>2 DEF CancelTasks, Interrupted
    <2>3. CASE Exit
      BY <2>3 DEF Exit, WorkerEnds
    <2>4. CASE Crash
      BY <2>4 DEF Crash, WorkerEnds
    <2> QED BY <1>10, <2>1, <2>2, <2>3, <2>4 DEF Shutdown
  <1>11. CASE UNCHANGED vars
    BY <1>11 DEF vars
  <1> QED
    BY <1>1, <1>2, <1>3, <1>4, <1>5, <1>6, <1>7, <1>8, <1>9, <1>10, <1>11
    DEF Next, LoopStep

\* A recorded end is never overwritten, except by a cancel request that read an
\* earlier state of the run.
THEOREM EndsAreFinal == Spec => EndIsFinal
  <1>1. TypeInv /\ OnceInv /\ LaunchHoldsSlot /\ EndInv /\ [Next]_vars
            => [\A r \in Runs : row[r] \in Terminal => row'[r] = row[r] \/ r \in stale']_vars
    BY EndsKeptNext DEF EndsKept
  <1> QED
    BY <1>1, TypeInvariant, OnceInvariant, LaunchHoldsInvariant, EndInvariant, PTL
    DEF Spec, EndIsFinal

-----------------------------------------------------------------------------
(* Cancel requests                                                         *)

\* A cancel request under way is about a run that was queued, and claimed if
\* the request found it active.
PendingOf(r) ==
    /\ \A v \in Verdicts : pending[r][v] > 0 => row[r] # "none"
    /\ pending[r]["cancel_requested"] > 0 => row[r] # "queued"

PendingInv == \A r \in Runs : PendingOf(r)

LEMMA PendingInit == Init => PendingInv
  BY DEF Init, PendingInv, PendingOf, Verdicts

LEMMA PendingNext ==
    TypeInv /\ OnceInv /\ PendingInv /\ [Next]_vars => PendingInv'
  <1> SUFFICES ASSUME TypeInv, OnceInv, PendingInv, [Next]_vars
               PROVE  PendingInv'
    OBVIOUS
  <1> USE RunsAssumption
      DEF TypeInv, TypeOK, CurIsRun, OnceInv, StartsOnce, PendingInv, PendingOf, Active,
          Launching, SupStates, apiVars, loopVars, supVars, childVars, lifeVars, faultVars
  <1>1. CASE Api
    <2>1. ASSUME NEW r \in Runs, Queue(r) PROVE PendingInv'
      BY <2>1 DEF Queue, Verdicts
    <2>2. ASSUME NEW r \in Runs, CancelRead(r) PROVE PendingInv'
      BY <2>2 DEF CancelRead, Verdicts
    <2>3. ASSUME NEW r \in Runs, NEW v \in Verdicts, CancelCommit(r, v) PROVE PendingInv'
      BY <2>3 DEF CancelCommit, CancelEnds, CancelIsStale, Verdicts
    <2>4. ASSUME NEW r \in Runs, NEW v \in Verdicts, CancelFails(r, v) PROVE PendingInv'
      BY <2>4 DEF CancelFails, CancelEnds, Verdicts
    <2> QED BY <1>1, <2>1, <2>2, <2>3, <2>4 DEF Api
  <1>2. CASE Restart
    <2>1. CASE Start
      BY <2>1 DEF Start
    <2>2. CASE ReconcileRead
      BY <2>2 DEF ReconcileRead, LostRuns, ActiveRuns
    <2>3. CASE ReconcileCommit
      BY <2>3 DEF ReconcileCommit
    <2> QED BY <1>2, <2>1, <2>2, <2>3 DEF Restart
  <1>3. CASE TickBegin
    BY <1>3 DEF TickBegin
  <1>4. CASE Sweep
    <2>1. ASSUME NEW r \in Runs, SweepNext(r) PROVE PendingInv'
      BY <2>1 DEF SweepNext
    <2>2. CASE SweepKill
      BY <2>2 DEF SweepKill
    <2>3. CASE SweepExitSeen
      BY <2>3 DEF SweepExitSeen
    <2>4. CASE SweepDone
      BY <2>4 DEF SweepDone
    <2> QED BY <1>4, <2>1, <2>2, <2>3, <2>4 DEF Sweep
  <1>5. CASE Admission
    <2>1. CASE Count
      BY <2>1 DEF Count, SlotAvailable
    <2>2. ASSUME NEW r \in Runs, Claim(r) PROVE PendingInv'
      BY <2>2 DEF Claim, Claimable
    <2>3. CASE ClaimNothing
      BY <2>3 DEF ClaimNothing
    <2> QED BY <1>5, <2>1, <2>2, <2>3 DEF Admission
  <1>6. CASE Launch
    <2>1. CASE MarkStarting
      BY <2>1 DEF MarkStarting
    <2>2. CASE Spawn
      BY <2>2 DEF Spawn
    <2>3. CASE SpawnFails
      BY <2>3 DEF SpawnFails
    <2>4. CASE RecordStartFailure
      BY <2>4 DEF RecordStartFailure
    <2>5. CASE MarkRunning
      BY <2>5 DEF MarkRunning
    <2> QED BY <1>6, <2>1, <2>2, <2>3, <2>4, <2>5 DEF Launch
  <1>7. ASSUME NEW r \in Runs, Supervise(r) \/ SupDrained(r) PROVE PendingInv'
    <2>1. CASE SupInit(r)
      BY <2>1 DEF SupInit
    <2>2. CASE SupExitSeen(r)
      BY <2>2 DEF SupExitSeen, ExitVerdict
    <2>3. CASE SupTimeout(r)
      BY <2>3 DEF SupTimeout
    <2>4. CASE SupKill(r)
      BY <2>4 DEF SupKill
    <2>5. CASE SupDrained(r)
      BY <2>5 DEF SupDrained
    <2>6. CASE FinalRead(r)
      BY <2>6 DEF FinalRead, Forget, AlreadyFinal
    <2>7. CASE FinalCommit(r)
      BY <2>7 DEF FinalCommit, Forget
    <2> QED BY <1>7, <2>1, <2>2, <2>3, <2>4, <2>5, <2>6, <2>7 DEF Supervise
  <1>8. ASSUME NEW r \in Runs, ProcExit(r) \/ OrphanExit(r) PROVE PendingInv'
    <2>1. CASE ProcExit(r)
      BY <2>1 DEF ProcExit
    <2>2. CASE OrphanExit(r)
      BY <2>2 DEF OrphanExit
    <2> QED BY <1>8, <2>1, <2>2
  <1>9. CASE Fault
    <2>1. CASE ReconcileFails
      BY <2>1 DEF ReconcileFails
    <2>2. CASE TickFails
      BY <2>2 DEF TickFails
    <2>3. CASE LaunchFails
      BY <2>3 DEF LaunchFails
    <2>4. ASSUME NEW r \in Runs, SupFails(r) PROVE PendingInv'
      BY <2>4 DEF SupFails
    <2> QED BY <1>9, <2>1, <2>2, <2>3, <2>4 DEF Fault
  <1>10. CASE Shutdown
    <2>1. CASE RequestStop
      BY <2>1 DEF RequestStop
    <2>2. CASE CancelTasks
      BY <2>2 DEF CancelTasks, Interrupted
    <2>3. CASE Exit
      BY <2>3 DEF Exit, WorkerEnds
    <2>4. CASE Crash
      BY <2>4 DEF Crash, WorkerEnds
    <2> QED BY <1>10, <2>1, <2>2, <2>3, <2>4 DEF Shutdown
  <1>11. CASE UNCHANGED vars
    BY <1>11 DEF vars
  <1> QED
    BY <1>1, <1>2, <1>3, <1>4, <1>5, <1>6, <1>7, <1>8, <1>9, <1>10, <1>11
    DEF Next, LoopStep

LEMMA PendingInvariant == Spec => []PendingInv
  BY TypeInvariant, OnceInvariant, PendingInit, PendingNext, PTL DEF Spec

-----------------------------------------------------------------------------
(* The steps of the contract                                               *)

SlotsStep == [Slots!SlotsNext]_<<Phase, Job>>

\* Phase and Job only look at these three.
LEMMA Stutters ==
    ASSUME UNCHANGED <<row, stale, proc>>
    PROVE  SlotsStep
  BY DEF SlotsStep, Phase, Job

\* Nor does the contract move if no phase does, or no job.
LEMMA PhasesStutter ==
    ASSUME UNCHANGED proc, \A r \in Runs : Phase'[r] = Phase[r]
    PROVE  SlotsStep
  BY DEF SlotsStep, Phase, Job

LEMMA JobsStutter ==
    ASSUME UNCHANGED <<row, stale>>, \A r \in Runs : Job'[r] = Job[r]
    PROVE  SlotsStep
  BY DEF SlotsStep, Phase, Job

\* Slots are released.
LEMMA Releases ==
    ASSUME UNCHANGED proc, NEW S \in SUBSET Runs,
           \A r \in S : Phase[r] = "holding" /\ Phase'[r] = "over",
           \A r \in Runs \ S : Phase'[r] = Phase[r]
    PROVE  SlotsStep
  <1>1. S \in SUBSET Slots!Holders
    BY DEF Slots!Holders
  <1>2. Phase' = [r \in Runs |-> IF r \in S THEN "over" ELSE Phase[r]]
    BY DEF Phase
  <1>3. Job' = Job
    BY DEF Job
  <1> QED BY <1>1, <1>2, <1>3 DEF SlotsStep, Slots!SlotsNext, Slots!Release

\* Jobs end.
LEMMA JobsEnd ==
    ASSUME UNCHANGED <<row, stale>>, NEW S \in SUBSET Runs,
           \A r \in S : Job[r] = "started" /\ Job'[r] = "ended",
           \A r \in Runs \ S : Job'[r] = Job[r]
    PROVE  SlotsStep
  <1>1. S \in SUBSET {r \in Runs : Job[r] = "started"}
    OBVIOUS
  <1>2. Job' = [r \in Runs |-> IF r \in S THEN "ended" ELSE Job[r]]
    BY DEF Job
  <1>3. Phase' = Phase
    BY DEF Phase
  <1> QED BY <1>1, <1>2, <1>3 DEF SlotsStep, Slots!SlotsNext, Slots!EndJobs

\* A single run that changes its phase.
LEMMA PhaseMoves ==
    ASSUME UNCHANGED proc, NEW r \in Runs, NEW p,
           Phase'[r] = p, \A s \in Runs \ {r} : Phase'[s] = Phase[s]
    PROVE  Phase' = [Phase EXCEPT ![r] = p] /\ Job' = Job
  BY DEF Phase, Job

\* The end of a worker ends the jobs it runs, or orphans them.
LEMMA WorkerEndMaps ==
    ASSUME TypeInv, WorkerEnds
    PROVE  SlotsStep
  <1> DEFINE S == IF KillChildren THEN LiveRuns ELSE {}
  <1>1. S \in SUBSET Runs /\ UNCHANGED <<row, stale>>
    BY DEF WorkerEnds, LiveRuns, apiVars
  <1>2. \A r \in S : Job[r] = "started" /\ Job'[r] = "ended"
    BY DEF WorkerEnds, LiveRuns, Job, Live
  <1>3. \A r \in Runs \ S : Job'[r] = Job[r]
    BY DEF WorkerEnds, LiveRuns, Job, Live
  <1> QED BY ONLY <1>1, <1>2, <1>3, JobsEnd

LEMMA StepMaps ==
    /\ TypeInv /\ OnceInv /\ LaunchHoldsSlot /\ AdmissionInv /\ EndInv /\ PendingInv
    /\ [Next]_vars
    => SlotsStep
  <1> SUFFICES ASSUME TypeInv, OnceInv, LaunchHoldsSlot, AdmissionInv, EndInv, PendingInv,
                      [Next]_vars
               PROVE  SlotsStep
    OBVIOUS
  <1> USE RunsAssumption, Stutters
      DEF TypeInv, TypeOK, CurIsRun, OnceInv, StartsOnce, RowStates, Active, Terminal,
          Launching, apiVars, loopVars, supVars, childVars, lifeVars, faultVars
  <1>1. CASE Api
    <2>1. ASSUME NEW r \in Runs, Queue(r) PROVE SlotsStep
      <3>1. CASE r \in stale
        BY <2>1, <3>1, PhasesStutter DEF Queue, Phase
      <3>2. CASE r \notin stale
        <4>1. Phase[r] = "absent" /\ Phase'[r] = "waiting" /\ UNCHANGED proc
          BY <2>1, <3>2 DEF Queue, Phase
        <4>2. \A s \in Runs \ {r} : Phase'[s] = Phase[s]
          BY <2>1 DEF Queue, Phase
        <4> QED BY <4>1, <4>2, PhaseMoves DEF SlotsStep, Slots!SlotsNext, Slots!Arrive
      <3> QED BY <3>1, <3>2
    <2>2. ASSUME NEW r \in Runs, CancelRead(r) PROVE SlotsStep
      BY <2>2 DEF CancelRead, Verdicts
    <2>3. ASSUME NEW r \in Runs, NEW v \in Verdicts, CancelCommit(r, v) PROVE SlotsStep
      <3> USE DEF CancelCommit, CancelEnds, CancelIsStale, Verdicts
      <3>1. UNCHANGED proc /\ \A s \in Runs \ {r} : Phase'[s] = Phase[s]
        BY <2>3 DEF Phase
      <3>2. CASE r \in stale
        BY <2>3, <3>1, <3>2, PhasesStutter DEF Phase
      <3>3. CASE r \notin stale /\ CancelIsStale(r, v)
        <4>1. Phase[r] \in {"holding", "over"} /\ Phase'[r] = "disowned"
          BY <2>3, <3>3 DEF Phase, PendingInv, PendingOf
        <4> QED BY <3>1, <4>1, PhaseMoves DEF SlotsStep, Slots!SlotsNext, Slots!Disown
      <3>4. CASE r \notin stale /\ v = "canceled" /\ row[r] = "queued"
        <4>1. Phase[r] = "waiting" /\ Phase'[r] = "over"
          BY <2>3, <3>4 DEF Phase
        <4> QED BY <3>1, <4>1, PhaseMoves DEF SlotsStep, Slots!SlotsNext, Slots!Withdraw
      <3>5. CASE r \notin stale /\ v = "canceled" /\ row[r] = "canceled"
        <4>1. Phase'[r] = Phase[r]
          BY <2>3, <3>5 DEF Phase
        <4> QED BY <3>1, <4>1, PhasesStutter
      <3>6. CASE r \notin stale /\ v = "cancel_requested" /\ row[r] \in Active
        <4>1. Phase'[r] = Phase[r]
          BY <2>3, <3>6 DEF Phase
        <4> QED BY <3>1, <4>1, PhasesStutter
      <3> QED BY <3>2, <3>3, <3>4, <3>5, <3>6
    <2>4. ASSUME NEW r \in Runs, NEW v \in Verdicts, CancelFails(r, v) PROVE SlotsStep
      BY <2>4 DEF CancelFails, CancelEnds, Verdicts
    <2> QED BY <1>1, <2>1, <2>2, <2>3, <2>4 DEF Api
  <1>2. CASE Restart
    <2>1. CASE Start
      BY <2>1 DEF Start
    <2>2. CASE ReconcileRead
      BY <2>2 DEF ReconcileRead, LostRuns, ActiveRuns
    <2>3. CASE ReconcileCommit
      <3> DEFINE S == todo \ stale
      <3>1. S \in SUBSET Runs /\ UNCHANGED <<proc, stale>>
        BY <2>3 DEF ReconcileCommit
      <3>2. \A r \in S : Phase[r] = "holding" /\ Phase'[r] = "over"
        BY <2>3 DEF ReconcileCommit, EndInv, EndOf, Phase
      <3>3. \A r \in Runs \ S : Phase'[r] = Phase[r]
        BY <2>3 DEF ReconcileCommit, Phase
      <3> QED BY ONLY <3>1, <3>2, <3>3, Releases
    <2> QED BY <1>2, <2>1, <2>2, <2>3 DEF Restart
  <1>3. CASE TickBegin
    BY <1>3 DEF TickBegin
  <1>4. CASE Sweep
    <2>1. ASSUME NEW r \in Runs, SweepNext(r) PROVE SlotsStep
      BY <2>1 DEF SweepNext
    <2>2. CASE SweepKill
      <3>1. UNCHANGED <<row, stale>> /\ \A s \in Runs : Job'[s] = Job[s]
        BY <2>2 DEF SweepKill, Job, Live
      <3> QED BY ONLY <3>1, JobsStutter
    <2>3. CASE SweepExitSeen
      BY <2>3 DEF SweepExitSeen
    <2>4. CASE SweepDone
      BY <2>4 DEF SweepDone
    <2> QED BY <1>4, <2>1, <2>2, <2>3, <2>4 DEF Sweep
  <1>5. CASE Admission
    <2>1. CASE Count
      BY <2>1 DEF Count, SlotAvailable
    <2>2. ASSUME NEW r \in Runs, Claim(r) PROVE SlotsStep
      <3>1. UNCHANGED proc /\ \A s \in Runs \ {r} : Phase'[s] = Phase[s]
        BY <2>2 DEF Claim, Phase
      <3>2. CASE r \in stale
        BY <2>2, <3>1, <3>2, PhasesStutter DEF Claim, Phase
      <3>3. CASE r \notin stale
        <4>1. Phase[r] = "waiting" /\ Phase'[r] = "holding"
          BY <2>2, <3>3 DEF Claim, Claimable, Phase
        <4>2. Slots!Holders = SlotsHeld
          BY DEF Slots!Holders, Phase, SlotsHeld, ActiveRuns
        <4>3. Cardinality(Slots!Holders) < MaxActive
          BY <2>2, <4>2 DEF Claim, AdmissionInv
        <4>4. Phase' = [Phase EXCEPT ![r] = "holding"] /\ Job' = Job
          BY ONLY <3>1, <4>1, PhaseMoves
        <4>5. Slots!Admit(r)
          <5>1. Slots!Cardinality(Slots!Holders) = Cardinality(Slots!Holders)
            BY ONLY DEF Slots!Cardinality, Cardinality
          <5> QED BY ONLY <4>1, <4>3, <4>4, <5>1 DEF Slots!Admit
        <4> QED BY ONLY <4>5, r \in Runs DEF SlotsStep, Slots!SlotsNext
      <3> QED BY <3>2, <3>3
    <2>3. CASE ClaimNothing
      BY <2>3 DEF ClaimNothing
    <2> QED BY <1>5, <2>1, <2>2, <2>3 DEF Admission
  <1>6. CASE Launch
    <2>1. CASE MarkStarting
      BY <2>1, PhasesStutter DEF MarkStarting, LaunchHoldsSlot, Phase
    <2>2. CASE Spawn
      <3>1. cur \in Runs /\ starts[cur] = 0
        BY <2>2 DEF Spawn
      <3>2. Phase' = Phase /\ Phase[cur] \in {"holding", "disowned"}
        BY <2>2, <3>1 DEF Spawn, LaunchHoldsSlot, Phase
      <3>3. Job[cur] = "unstarted"
        BY <3>1 DEF Job
      <3>4. Job' = [Job EXCEPT ![cur] = "started"]
        BY <2>2, <3>1 DEF Spawn, Job, Live
      <3> QED BY <3>1, <3>2, <3>3, <3>4 DEF SlotsStep, Slots!SlotsNext, Slots!StartJob
    <2>3. CASE SpawnFails
      BY <2>3 DEF SpawnFails
    <2>4. CASE RecordStartFailure
      <3> DEFINE S == {cur} \ stale
      <3>1. S \in SUBSET Runs /\ UNCHANGED <<proc, stale>>
        BY <2>4 DEF RecordStartFailure
      <3>2. \A r \in S : Phase[r] = "holding" /\ Phase'[r] = "over"
        BY <2>4 DEF RecordStartFailure, LaunchHoldsSlot, Phase
      <3>3. \A r \in Runs \ S : Phase'[r] = Phase[r]
        BY <2>4 DEF RecordStartFailure, Phase
      <3> QED BY ONLY <3>1, <3>2, <3>3, Releases
    <2>5. CASE MarkRunning
      BY <2>5, PhasesStutter DEF MarkRunning, LaunchHoldsSlot, Phase
    <2> QED BY <1>6, <2>1, <2>2, <2>3, <2>4, <2>5 DEF Launch
  <1>7. ASSUME NEW r \in Runs, Supervise(r) \/ SupDrained(r) PROVE SlotsStep
    <2>1. CASE SupInit(r)
      BY <2>1 DEF SupInit
    <2>2. CASE SupExitSeen(r)
      BY <2>2 DEF SupExitSeen, ExitVerdict
    <2>3. CASE SupTimeout(r)
      BY <2>3 DEF SupTimeout
    <2>4. CASE SupKill(r)
      <3>1. UNCHANGED <<row, stale>> /\ \A s \in Runs : Job'[s] = Job[s]
        BY <2>4 DEF SupKill, Job, Live
      <3> QED BY ONLY <3>1, JobsStutter
    <2>5. CASE SupDrained(r)
      BY <2>5 DEF SupDrained
    <2>6. CASE FinalRead(r)
      BY <2>6 DEF FinalRead, Forget, AlreadyFinal
    <2>7. CASE FinalCommit(r)
      <3> DEFINE S == {r} \ stale
      <3>1. S \in SUBSET Runs /\ UNCHANGED <<proc, stale>>
        BY <2>7 DEF FinalCommit
      <3>2. \A s \in S : Phase[s] = "holding" /\ Phase'[s] = "over"
        BY <2>7 DEF FinalCommit, EndInv, EndOf, Phase
      <3>3. \A s \in Runs \ S : Phase'[s] = Phase[s]
        BY <2>7 DEF FinalCommit, Phase
      <3> QED BY ONLY <3>1, <3>2, <3>3, Releases
    <2> QED BY <1>7, <2>1, <2>2, <2>3, <2>4, <2>5, <2>6, <2>7 DEF Supervise
  <1>8. ASSUME NEW r \in Runs, ProcExit(r) \/ OrphanExit(r) PROVE SlotsStep
    <2>1. CASE ProcExit(r)
      <3> DEFINE S == {r}
      <3>1. UNCHANGED <<row, stale>> /\ S \in SUBSET Runs
        BY <2>1 DEF ProcExit
      <3>2. \A s \in S : Job[s] = "started" /\ Job'[s] = "ended"
        BY <2>1 DEF ProcExit, Job, Live, Exited
      <3>3. \A s \in Runs \ S : Job'[s] = Job[s]
        BY <2>1 DEF ProcExit, Job
      <3> QED BY ONLY <3>1, <3>2, <3>3, JobsEnd
    <2>2. CASE OrphanExit(r)
      <3> DEFINE S == {r}
      <3>1. UNCHANGED <<row, stale>> /\ S \in SUBSET Runs
        BY <2>2 DEF OrphanExit
      <3>2. \A s \in S : Job[s] = "started" /\ Job'[s] = "ended"
        BY <2>2 DEF OrphanExit, Job, Live
      <3>3. \A s \in Runs \ S : Job'[s] = Job[s]
        BY <2>2 DEF OrphanExit, Job
      <3> QED BY ONLY <3>1, <3>2, <3>3, JobsEnd
    <2> QED BY <1>8, <2>1, <2>2
  <1>9. CASE Fault
    <2>1. CASE ReconcileFails
      BY <2>1 DEF ReconcileFails
    <2>2. CASE TickFails
      BY <2>2 DEF TickFails
    <2>3. CASE LaunchFails
      BY <2>3 DEF LaunchFails
    <2>4. ASSUME NEW r \in Runs, SupFails(r) PROVE SlotsStep
      BY <2>4 DEF SupFails
    <2> QED BY <1>9, <2>1, <2>2, <2>3, <2>4 DEF Fault
  <1>10. CASE Shutdown
    <2>1. CASE RequestStop
      BY <2>1 DEF RequestStop
    <2>2. CASE CancelTasks
      BY <2>2 DEF CancelTasks, Interrupted
    <2>3. CASE Exit
      BY <2>3, WorkerEndMaps DEF Exit
    <2>4. CASE Crash
      BY <2>4, WorkerEndMaps DEF Crash
    <2> QED BY <1>10, <2>1, <2>2, <2>3, <2>4 DEF Shutdown
  <1>11. CASE UNCHANGED vars
    BY <1>11 DEF vars
  <1> QED
    BY <1>1, <1>2, <1>3, <1>4, <1>5, <1>6, <1>7, <1>8, <1>9, <1>10, <1>11
    DEF Next, LoopStep

\* Every behaviour of the scheduler is a behaviour of the contract.
THEOREM SchedulerImplementsSlots == Spec => ImplementsSlots
  <1>1. Init => Slots!SlotsInit
    BY DEF Init, Slots!SlotsInit, Phase, Job
  <1>2. TypeInv /\ OnceInv /\ LaunchHoldsSlot /\ AdmissionInv /\ EndInv /\ PendingInv
        /\ [Next]_vars => [Slots!SlotsNext]_(Slots!slotVars)
    BY StepMaps DEF SlotsStep, Slots!slotVars
  <1> QED
    BY <1>1, <1>2, TypeInvariant, OnceInvariant, LaunchHoldsInvariant, AdmissionInvariant,
       EndInvariant, PendingInvariant, PTL
    DEF Spec, ImplementsSlots, Slots!SlotsSpec

=============================================================================
