-------------------------- MODULE JobSchedulerSlots --------------------------
(***************************************************************************)
(* The scheduler implements the admission contract of JobSlots: the state  *)
(* column and the history of late cancels give the phase of a run, the     *)
(* child process the state of its job.                                     *)
(***************************************************************************)
EXTENDS JobScheduler

Phase == [r \in Runs |->
    IF r \in stale THEN "disowned"
    ELSE IF row[r] = "none" THEN "absent"
    ELSE IF row[r] = "queued" THEN "waiting"
    ELSE IF row[r] \in Active THEN "holding"
    ELSE "over"]

\* An orphan is a job that still runs.
Job == [r \in Runs |->
    IF proc[r] = "none" THEN "unstarted"
    ELSE IF proc[r] \in Live \cup {"orphan"} THEN "started"
    ELSE "ended"]

Slots == INSTANCE JobSlots WITH phase <- Phase, job <- Job

\* Every behaviour of the scheduler is one of the contract: a slot is held for
\* one period, by at most MaxActive runs, and a job is started once, in that
\* period (or after a late cancel request disowned the run).
ImplementsSlots == Slots!SlotsSpec
=============================================================================
