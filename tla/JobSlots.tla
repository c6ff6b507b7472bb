------------------------------ MODULE JobSlots ------------------------------
(***************************************************************************)
(* What the scheduler promises about admission and execution, without its  *)
(* tasks, its database and its restarts: a run waits, holds one of         *)
(* MaxActive slots for one period, and is over; its job is started at most *)
(* once, and never for a run that still waits or never got a slot.         *)
(*                                                                         *)
(* A run is disowned when its record no longer says whether it holds a     *)
(* slot.                                                                   *)
(***************************************************************************)
EXTENDS Integers, FiniteSets

CONSTANTS Runs, MaxActive

VARIABLES
    phase,      \* phase[r]: where run r is
    job         \* job[r]: "unstarted", "started" or "ended"

slotVars == <<phase, job>>

Holders == {r \in Runs : phase[r] = "holding"}

SlotsInit ==
    /\ phase = [r \in Runs |-> "absent"]
    /\ job = [r \in Runs |-> "unstarted"]

Arrive(r) ==
    /\ phase[r] = "absent"
    /\ phase' = [phase EXCEPT ![r] = "waiting"]
    /\ UNCHANGED job

Withdraw(r) ==
    /\ phase[r] = "waiting"
    /\ phase' = [phase EXCEPT ![r] = "over"]
    /\ UNCHANGED job

Admit(r) ==
    /\ phase[r] = "waiting"
    /\ Cardinality(Holders) < MaxActive
    /\ phase' = [phase EXCEPT ![r] = "holding"]
    /\ UNCHANGED job

\* A restart may release many slots at once.
Release ==
    /\ \E S \in SUBSET Holders :
          phase' = [r \in Runs |-> IF r \in S THEN "over" ELSE phase[r]]
    /\ UNCHANGED job

Disown(r) ==
    /\ phase[r] \in {"holding", "over"}
    /\ phase' = [phase EXCEPT ![r] = "disowned"]
    /\ UNCHANGED job

StartJob(r) ==
    /\ phase[r] \in {"holding", "disowned"}
    /\ job[r] = "unstarted"
    /\ job' = [job EXCEPT ![r] = "started"]
    /\ UNCHANGED phase

\* A stop of the worker may end many jobs at once.
EndJobs ==
    /\ \E S \in SUBSET {r \in Runs : job[r] = "started"} :
          job' = [r \in Runs |-> IF r \in S THEN "ended" ELSE job[r]]
    /\ UNCHANGED phase

SlotsNext ==
    \/ \E r \in Runs : Arrive(r) \/ Withdraw(r) \/ Admit(r) \/ Disown(r) \/ StartJob(r)
    \/ Release
    \/ EndJobs

SlotsSpec == SlotsInit /\ [][SlotsNext]_slotVars

=============================================================================
