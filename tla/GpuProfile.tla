----------------------------- MODULE GpuProfile -----------------------------
(***************************************************************************)
(* Applying a GPU profile: the route waits, on the event loop, for the     *)
(* wrapper process; the wrapper sends nvidia-smi commands to the driver    *)
(* one by one, hands clock offsets to LACT and asserts the power controls  *)
(* again.  A command may fail, hang, not even be killable, or take effect  *)
(* although it is reported as timed out; LACT may be absent, lose an answer *)
(* or act late; the route gives up before the wrapper does, and the API    *)
(* may die in between.                                                     *)
(*                                                                         *)
(* nvidia-smi, the driver, sudo and LACT are not part of the repository.   *)
(***************************************************************************)
EXTENDS Integers, FiniteSets

CONSTANTS
    Profiles,       \* the profiles of gpu-profiles.yaml
    Ops,            \* Ops[p]: the operations profile p asks for
    Reset,          \* the request of POST /gpu/reset
    None,
    MaxRequests,    \* bound: requests of the API
    MaxDeaths       \* bound: ends of the API process

\* The operations, in the order in which build_apply_commands emits them.
Rank == [pm |-> 1, pl |-> 2, rgc |-> 3, lgc |-> 4, rmc |-> 5, lmc |-> 6]
Commands == DOMAIN Rank
ClockCommands == {"rgc", "lgc", "rmc", "lmc"}

ASSUME OpsAssumption == Ops \in [Profiles -> SUBSET (Commands \cup {"offsets"})]
ASSUME NamesAssumption == Reset \notin Profiles /\ None \notin Profiles \cup {Reset}
ASSUME BoundsAssumption == MaxRequests \in Nat /\ MaxDeaths \in Nat

VARIABLES
    sudo,       \* the wrapper runs through sudo, as another user
    job,        \* the request being served, or served last
    stage,      \* where the wrapper process is
    left,       \* the commands it still has to run
    warned,     \* it has a warning to report
    hung,       \* whether the command it waits for hangs, and can be killed
    overdue,    \* the route's timeout has passed
    reply,      \* how the last request was answered
    gpu,        \* gpu[s]: the profile setting s was last set by
    pending,    \* what the offsets were before LACT was asked to change them
    orphans,    \* commands and requests to LACT that nobody waits for any more
    old,        \* the settings when the request began (history)
    written,    \* operations of the request that took effect (history)
    late,       \* settings changed since by what was given up, or taken back (history)
    requests, deaths     \* counters for the bounds

callVars == <<job, overdue, reply, requests>>
wrapperVars == <<stage, left, warned, hung>>
gpuVars == <<gpu, pending, orphans, late>>
vars == <<sudo, callVars, wrapperVars, gpuVars, old, written, deaths>>

\* "done" and "failed": the wrapper has exited.
Hangs == {"no", "hangs", "stuck"}    \* "stuck": not to be killed
Stages == {"none", "commands", "lact", "confirm", "settle", "final", "done", "failed"}
Settings == {"pm", "pl", "gc", "mc", "offsets"}
Values == Profiles \cup {"default", "other"}

\* Which setting an operation writes, and what it leaves there.
SettingOf(o) == CASE o \in {"rgc", "lgc"} -> "gc" [] o \in {"rmc", "lmc"} -> "mc" [] OTHER -> o
ValueOf(o, j) == IF o \in {"rgc", "rmc"} THEN "default" ELSE j

OpsOf(j) == IF j = Reset THEN {"rgc", "rmc"} ELSE Ops[j]

TypeOK ==
    /\ sudo \in BOOLEAN /\ overdue \in BOOLEAN /\ warned \in BOOLEAN /\ hung \in Hangs
    /\ job \in Profiles \cup {Reset, None}
    /\ stage \in Stages
    /\ left \subseteq Commands
    /\ reply \in {"none", "applied", "reset", "failed", "error"}
    /\ gpu \in [Settings -> Values] /\ old \in [Settings -> Values]
    /\ pending \in Values \cup {None}
    /\ orphans \subseteq (Commands \cup {"offsets", "confirm"}) \X (Profiles \cup {Reset})
    /\ written \subseteq Commands \cup {"offsets"}
    /\ late \subseteq Settings
    /\ requests \in Nat /\ deaths \in Nat
    /\ stage # "none" => job # None

Init ==
    /\ sudo \in BOOLEAN
    /\ job = None /\ overdue = FALSE /\ reply = "none" /\ requests = 0
    /\ stage = "none" /\ left = {} /\ warned = FALSE /\ hung = "no"
    /\ gpu = [s \in Settings |-> "default"] /\ old = gpu
    /\ pending = None /\ orphans = {} /\ late = {}
    /\ written = {}
    /\ deaths = 0

-----------------------------------------------------------------------------
(* The request and its wrapper                                             *)

\* A mutant of CommandsOf: locked clocks are reset first, asked for or not.
CommandsOfCleared(j) == (OpsOf(j) \cap Commands) \cup {"rgc", "rmc"}

\* build_apply_commands, and the two commands of reset_gpu.
CommandsOf(j) == OpsOf(j) \cap Commands

\* Where a list of commands that is over leads.
After(s, j) == IF s = "commands" /\ "offsets" \in OpsOf(j) THEN "lact" ELSE "done"
Going(s, cs, j) == stage' = (IF cs = {} THEN After(s, j) ELSE s) /\ left' = cs

\* The route calls the wrapper and blocks the event loop: no other request
\* begins before this one is answered.
Call(j) ==
    /\ stage = "none" /\ requests < MaxRequests /\ OpsOf(j) # {}
    /\ requests' = requests + 1
    /\ job' = j
    /\ overdue' = FALSE /\ reply' = "none" /\ warned' = FALSE
    /\ old' = gpu /\ written' = {}
    /\ Going("commands", CommandsOf(j), j)
    /\ UNCHANGED <<sudo, hung, gpuVars, deaths>>

\* The name is not allowed, the wrapper is missing, or it rejects its config or
\* a profile it does not know or that asks for nothing.
CallRefused(j) ==
    /\ stage = "none" /\ requests < MaxRequests
    /\ requests' = requests + 1
    /\ job' = j
    /\ overdue' = FALSE /\ reply' = "failed" /\ warned' = FALSE
    /\ old' = gpu /\ written' = {}
    /\ UNCHANGED <<sudo, stage, left, hung, gpuVars, deaths>>

\* The driver executes o on behalf of request j.
Takes(o, j) ==
    /\ gpu' = [gpu EXCEPT ![SettingOf(o)] = ValueOf(o, j)]
    /\ late' = late \ {SettingOf(o)}
    /\ written' = written \cup {o}

IsNext(o) == o \in left /\ \A q \in left : Rank[o] <= Rank[q]

\* run_commands: one command after the other.
RunCommand ==
    /\ stage \in {"commands", "final"} /\ hung = "no"
    /\ \E o \in left :
          /\ IsNext(o)
          /\ Takes(o, job)
          /\ Going(stage, left \ {o}, job)
    /\ UNCHANGED <<sudo, callVars, warned, hung, pending, orphans, old, deaths>>

\* The driver keeps the command waiting, in a call that a signal ends or in
\* one that none can end before it returns.
CommandHangs ==
    /\ stage \in {"commands", "final"} /\ hung = "no"
    /\ hung' \in {"hangs", "stuck"}
    /\ UNCHANGED <<sudo, callVars, stage, left, warned, gpuVars, old, written, deaths>>

\* The call returns after all: nothing makes it.
DriverReturns ==
    /\ hung = "stuck"
    /\ hung' = "hangs"
    /\ UNCHANGED <<sudo, callVars, stage, left, warned, gpuVars, old, written, deaths>>

\* A mutant of CommandFails: the other commands are run nevertheless.
CommandFailsGoOn ==
    /\ stage \in {"commands", "final"} /\ hung # "stuck"
    /\ hung' = "no"
    /\ \E o \in left : IsNext(o) /\ Going(stage, left \ {o}, job)
    /\ UNCHANGED <<sudo, callVars, warned, gpuVars, old, written, deaths>>

\* A mutant of CommandFails: nvidia-smi is waited for without a timeout.
CommandFailsUnhung ==
    /\ stage \in {"commands", "final"} /\ hung = "no"
    /\ stage' = "failed"
    /\ left' = {}
    /\ UNCHANGED <<sudo, callVars, warned, hung, gpuVars, old, written, deaths>>

\* The command failed, or was killed after 20 seconds, possibly too late.  The
\* end of a killed command is waited for without a limit.
CommandFails ==
    /\ stage \in {"commands", "final"} /\ hung # "stuck"
    /\ stage' = "failed"
    /\ left' = {}
    /\ hung' = "no"
    /\ \/ UNCHANGED <<gpu, late, written>>
       \/ hung = "hangs" /\ \E o \in left : IsNext(o) /\ Takes(o, job)
    /\ UNCHANGED <<sudo, callVars, warned, pending, orphans, old, deaths>>

\* batch_set_clocks_value of request j takes effect, and LACT may set the
\* power limit too.
SetOffsets(j, touched) ==
    /\ gpu' = [s \in Settings |-> IF s = "offsets" THEN j
                                  ELSE IF s \in touched THEN "other" ELSE gpu[s]]
    /\ pending' = IF pending = None THEN gpu["offsets"] ELSE pending

OffsetsTake ==
    /\ \E touched \in SUBSET {"pl"} : SetOffsets(job, touched)
    /\ late' = late \ {"offsets"}
    /\ written' = written \cup {"offsets"}

LactSet ==
    /\ stage = "lact"
    /\ stage' = "confirm"
    /\ OffsetsTake
    /\ UNCHANGED <<sudo, callVars, left, warned, hung, orphans, old, deaths>>

\* A request LACT did not answer may be carried out later.
Unanswered(what) == {orphans, orphans \cup {<<what, job>>}}

\* LACT is absent, refuses, or its answer is lost or late: a warning, no more.
LactFails ==
    /\ stage = "lact"
    /\ stage' = "done"
    /\ warned' = TRUE
    /\ \/ OffsetsTake /\ UNCHANGED orphans
       \/ orphans' \in Unanswered("offsets") /\ UNCHANGED <<gpu, pending, late, written>>
    /\ UNCHANGED <<sudo, callVars, left, hung, old, deaths>>

LactConfirm ==
    /\ stage = "confirm"
    /\ pending' = None
    /\ stage' = "settle"
    /\ UNCHANGED <<sudo, callVars, left, warned, hung, gpu, orphans, late, old,
                   written, deaths>>

ConfirmFails ==
    /\ stage = "confirm"
    /\ stage' = "done"
    /\ warned' = TRUE
    /\ \/ pending' = None /\ UNCHANGED orphans
       \/ orphans' \in Unanswered("confirm") /\ UNCHANGED pending
    /\ UNCHANGED <<sudo, callVars, left, hung, gpu, late, old, written, deaths>>

\* Mutants of Reasserted: nothing, or every command.
ReassertedNothing(j) == {}
ReassertedAll(j) == CommandsOf(j)

\* build_post_lact_reassert_commands: LACT may have changed the power limit,
\* but a locked clock set after the offsets would undo them.
Reasserted(j) == CommandsOf(j) \ ClockCommands

Settled ==
    /\ stage = "settle"
    /\ Going("final", Reasserted(job), job)
    /\ UNCHANGED <<sudo, callVars, warned, hung, gpuVars, old, written, deaths>>

Wrapper ==
    RunCommand \/ CommandFails \/ LactSet \/ LactFails \/ LactConfirm
    \/ ConfirmFails \/ Settled

-----------------------------------------------------------------------------
(* The answer                                                              *)

Ended == {"done", "failed"}

\* What the output of a wrapper that exited says.
Report == IF stage = "failed" THEN "failed" ELSE IF job = Reset THEN "reset" ELSE "applied"

\* The wrapper exited and its output was read.  When the timeout had passed,
\* killing it was refused and the request ends with an error.
Answer ==
    /\ stage \in Ended
    /\ stage' = "none"
    /\ reply' = IF overdue THEN "error" ELSE Report
    /\ UNCHANGED <<sudo, job, overdue, requests, left, warned, hung, gpuVars, old,
                   written, deaths>>

\* What the wrapper was waiting for when it was killed: a command or LACT.
Interrupted ==
    {<<o, job>> : o \in {q \in left : IsNext(q)}}
    \cup (IF stage = "lact" THEN {<<"offsets", job>>} ELSE {})
    \cup (IF stage = "confirm" THEN {<<"confirm", job>>} ELSE {})

\* gpu_profile_timeout_seconds have passed.  Through sudo, the kill is not
\* permitted and subprocess.run waits on; otherwise the wrapper is killed and
\* what it was waiting for is left to itself.
TimesOut ==
    /\ stage \notin {"none"} \cup Ended /\ ~overdue
    /\ IF sudo
       THEN overdue' = TRUE /\ UNCHANGED <<reply, wrapperVars, orphans>>
       ELSE /\ reply' = "failed"
            /\ stage' = "none" /\ left' = {} /\ hung' = "no"
            /\ orphans' = orphans \cup Interrupted
            /\ UNCHANGED <<overdue, warned>>
    /\ UNCHANGED <<sudo, job, requests, gpu, pending, late, old, written, deaths>>

\* The API process ends, and everything it started with it: what the driver
\* was just asked for may still happen.
ApiDies ==
    /\ stage # "none" /\ deaths < MaxDeaths
    /\ deaths' = deaths + 1
    /\ stage' = "none" /\ left' = {} /\ hung' = "no"
    /\ orphans' = orphans \cup Interrupted
    /\ UNCHANGED <<sudo, callVars, warned, gpu, pending, late, old, written>>

\* An orphaned command takes effect after all, or not.
CommandIsLate(o, j) ==
    /\ gpu' = [gpu EXCEPT ![SettingOf(o)] = ValueOf(o, j)]
    /\ late' = late \cup {SettingOf(o)}
    /\ UNCHANGED pending

\* LACT carries out a request that was given up, for another one perhaps.
OffsetsAreLate(j) ==
    \E touched \in SUBSET {"pl"} :
        SetOffsets(j, touched) /\ late' = late \cup {"offsets"} \cup touched

OrphanEnds(c) ==
    /\ c \in orphans
    /\ orphans' = orphans \ {c}
    /\ \/ c[1] \in Commands /\ CommandIsLate(c[1], c[2])
       \/ c[1] = "offsets" /\ OffsetsAreLate(c[2])
       \/ c[1] = "confirm" /\ pending' = None /\ UNCHANGED <<gpu, late>>
       \/ UNCHANGED <<gpu, late, pending>>
    /\ UNCHANGED <<sudo, callVars, wrapperVars, old, written, deaths>>

\* LACT takes back what was not confirmed.
LactReverts ==
    /\ pending # None /\ stage # "confirm"
    /\ gpu' = [gpu EXCEPT !["offsets"] = pending]
    /\ late' = late \cup {"offsets"}
    /\ pending' = None
    /\ UNCHANGED <<sudo, callVars, wrapperVars, orphans, old, written, deaths>>

-----------------------------------------------------------------------------
Requested == \E j \in Profiles \cup {Reset} : Call(j) \/ CallRefused(j)
World ==
    CommandHangs \/ DriverReturns \/ (\E c \in orphans : OrphanEnds(c))
    \/ LactReverts \/ ApiDies

Next == Requested \/ Wrapper \/ Answer \/ TimesOut \/ World

Spec == Init /\ [][Next]_vars

\* The wrapper's process runs, its timeouts fire and the route's do.  Nothing
\* is asked of the driver, of LACT and of what was left to itself.
FairSpec == Spec /\ WF_vars(Wrapper) /\ WF_vars(Answer) /\ WF_vars(TimesOut)

-----------------------------------------------------------------------------
(* Properties                                                              *)

\* A profile reported as applied is in force, all of it: LACT is the last to
\* touch a setting only if the answer has a warning.  Left out is what an
\* orphaned command or LACT changed since, and, with a warning,
\* the offsets and a power limit LACT changed before it failed.
Wanted(j, s) == IF \E o \in OpsOf(j) : SettingOf(o) = s /\ ValueOf(o, j) # "default"
                THEN j ELSE "default"
Named(j) == {SettingOf(o) : o \in OpsOf(j)}
AppliedMeansSet ==
    reply \in {"applied", "reset"} =>
        \A s \in Named(job) \ late :
            \/ gpu[s] = Wanted(job, s)
            \/ warned /\ s = "offsets"
            \/ warned /\ s = "pl" /\ gpu[s] = "other"

\* Whatever became of a request, a setting is as it was or as the profile
\* wants it, and a setting the profile does not name was not written.
NothingElseChanges ==
    \A s \in Settings \ late :
        \/ gpu[s] = old[s]
        \/ s \in Named(job) /\ gpu[s] \in {Wanted(job, s), "default"}
        \/ s = "pl" /\ "offsets" \in Named(job) /\ gpu[s] = "other"

\* A failure leaves a prefix: no command takes effect before an earlier one
\* of the profile, and the offsets only after all of them.
PrefixApplied ==
    job # None =>
        \A o \in written : \A q \in CommandsOf(job) \ written :
            o # "offsets" /\ Rank[o] < Rank[q]

\* A locked clock is never set after the offsets of the same request.
ClocksBeforeOffsets ==
    [][RunCommand /\ "offsets" \in written
           => left' \cap ClockCommands = left \cap ClockCommands]_vars

\* The request is answered, and with it the event loop is free again, also
\* when a command hangs and when the wrapper cannot be killed.  Both together
\* are the exception: through sudo the loop stands still as long as a command
\* is stuck in the driver, for ever if need be.
LoopReturns == stage # "none" ~> stage = "none" \/ [](sudo /\ hung = "stuck")
=============================================================================
