-------------------------- MODULE GpuProfileProofs --------------------------
(***************************************************************************)
(* Proofs, for any profiles and any number of requests and deaths of the   *)
(* API, of the safety properties of GpuProfile.                            *)
(***************************************************************************)
EXTENDS GpuProfile, TLAPS

-----------------------------------------------------------------------------
(* The inductive invariant                                                 *)

\* The commands of the request that have been run, while the wrapper runs the
\* first list of them.
Ran == CommandsOf(job) \ left

\* What is given up is a command of its request, or a step of LACT for one
\* that has offsets.
GivenUp(c) ==
    /\ c[2] \in Profiles \cup {Reset}
    /\ c[1] \in CommandsOf(c[2]) \/ (c[1] \in {"offsets", "confirm"} /\ "offsets" \in OpsOf(c[2]))

\* The wrapper works on commands of the request, and asks LACT only if the
\* profile has offsets.  An answer is given by the step that ends the request.
WrapperInv ==
    /\ IF stage \in {"commands", "final"} THEN left \subseteq CommandsOf(job) ELSE left = {}
    /\ stage = "final" => left \subseteq Reasserted(job)
    /\ stage \in {"lact", "confirm", "settle", "final"} => "offsets" \in OpsOf(job)
    /\ stage # "none" => reply = "none"
    /\ stage \notin {"none", "done"} => ~warned
    /\ reply \in {"applied", "reset"} => job # None
    /\ \A c \in orphans : GivenUp(c)

\* What took effect: in the first list, the commands that were run; after it,
\* all commands.
WrittenInv ==
    /\ written \subseteq Commands \cup {"offsets"}
    /\ stage = "commands" => written = Ran
    /\ stage \in {"lact", "confirm", "settle", "final"} => CommandsOf(job) \subseteq written

\* In the first list, a setting is what the last command that was run for it
\* made of it.
LastCommandCounts ==
    stage = "commands" =>
        \A o \in Ran :
            \/ SettingOf(o) \in late
            \/ gpu[SettingOf(o)] = ValueOf(o, job)
            \/ \E q \in Ran : SettingOf(q) = SettingOf(o) /\ Rank[o] < Rank[q]

\* After it every setting of a command is as wanted; LACT may take the power
\* limit away, which is then set again.
IsSet(s) == gpu[s] = Wanted(job, s)
Upset(s) == s = "pl" /\ gpu[s] = "other"
SettingsFollow ==
    stage # "none" => \A s \in Named(job) \ late :
        /\ stage = "lact" => IsSet(s) \/ s = "offsets"
        /\ stage \in {"confirm", "settle"} => IsSet(s) \/ Upset(s)
        /\ stage = "final" => IsSet(s) \/ (Upset(s) /\ s \in left)
        /\ stage = "done" => \/ IsSet(s)
                             \/ warned /\ (s = "offsets" \/ Upset(s))

-----------------------------------------------------------------------------
(* Commands and settings                                                   *)

LEMMA RankFacts ==
    /\ Commands = {"pm", "pl", "rgc", "lgc", "rmc", "lmc"}
    /\ Rank["pm"] = 1 /\ Rank["pl"] = 2 /\ Rank["rgc"] = 3
    /\ Rank["lgc"] = 4 /\ Rank["rmc"] = 5 /\ Rank["lmc"] = 6
  BY DEF Commands, Rank

\* No two commands have the same place in the list.
LEMMA RankOrders ==
    \A o, q \in Commands :
        /\ Rank[o] \in Int
        /\ Rank[o] <= Rank[q] => o = q \/ Rank[o] < Rank[q]
  BY RankFacts

Names == Profiles \cup {Reset}

LEMMA OpsFacts ==
    ASSUME NEW j \in Names
    PROVE  /\ OpsOf(j) \subseteq Commands \cup {"offsets"}
           /\ CommandsOf(j) \subseteq Commands
           /\ CommandsOf(j) = OpsOf(j) \ {"offsets"}
           /\ "offsets" \in OpsOf(j) => j \in Profiles
           /\ \A o \in OpsOf(j) : ValueOf(o, j) \in Values
  BY OpsAssumption, NamesAssumption, RankFacts
     DEF Names, OpsOf, CommandsOf, ValueOf, Values

LEMMA SettingFacts ==
    \A o \in Commands \cup {"offsets"} :
        /\ SettingOf(o) \in Settings
        /\ SettingOf(o) = "offsets" <=> o = "offsets"
        /\ SettingOf(o) = "pl" <=> o = "pl"
  BY RankFacts DEF SettingOf, Settings

-----------------------------------------------------------------------------
(* Type correctness                                                        *)

TypeInv == TypeOK /\ WrapperInv

LEMMA TypeInit == Init => TypeInv
  <1> SUFFICES ASSUME Init PROVE TypeInv
    OBVIOUS
  <1>1. sudo \in BOOLEAN
    BY DEF Init
  <1> QED
    BY <1>1 DEF Init, TypeInv, TypeOK, WrapperInv, Stages, Hangs, Settings, Values

\* What the driver does for the request leaves the GPU with known settings.
LEMMA TakesTyped ==
    ASSUME TypeInv, NEW o, stage \in {"commands", "final"}, o \in left, Takes(o, job)
    PROVE  /\ gpu' \in [Settings -> Values]
           /\ late' \subseteq Settings
           /\ written' \subseteq Commands \cup {"offsets"}
  <1>1. job \in Names /\ o \in CommandsOf(job)
    BY DEF TypeInv, TypeOK, WrapperInv, Names
  <1>2. o \in Commands /\ ValueOf(o, job) \in Values
    BY <1>1, OpsFacts
  <1> QED
    BY <1>2, SettingFacts DEF Takes, TypeInv, TypeOK

LEMMA OffsetsTyped ==
    ASSUME TypeInv, stage = "lact", OffsetsTake
    PROVE  /\ gpu' \in [Settings -> Values]
           /\ pending' \in Values \cup {None}
           /\ late' \subseteq Settings
           /\ written' \subseteq Commands \cup {"offsets"}
  <1>1. job \in Profiles
    BY OpsFacts DEF TypeInv, TypeOK, WrapperInv, Names
  <1>2. PICK touched \in SUBSET {"pl"} : SetOffsets(job, touched)
    BY DEF OffsetsTake
  <1> QED
    BY <1>1, <1>2 DEF OffsetsTake, SetOffsets, TypeInv, TypeOK, Settings, Values

\* A step of LACT that was given up is one of a profile with offsets.
LEMMA GivenUpTyped ==
    ASSUME TypeInv, stage # "none", job # None
    PROVE  /\ \A c \in Interrupted : GivenUp(c)
           /\ Interrupted \subseteq (Commands \cup {"offsets", "confirm"}) \X Names
           /\ stage \in {"lact", "confirm"} =>
                 \A what \in {"offsets", "confirm"} : GivenUp(<<what, job>>)
  <1>1. job \in Names /\ left \subseteq Commands
    BY DEF TypeInv, TypeOK, Names
  <1>2. left \subseteq CommandsOf(job)
    BY DEF TypeInv, WrapperInv
  <1> QED
    BY <1>1, <1>2 DEF TypeInv, WrapperInv, Interrupted, GivenUp, Names

\* What was given up changes some settings late, and no other one.
LEMMA LateChanges ==
    ASSUME TypeInv, NEW c \in orphans, OrphanEnds(c)
    PROVE  \E S \in SUBSET Settings :
              /\ late' = late \cup S
              /\ \A s \in Settings \ S : gpu'[s] = gpu[s]
              /\ gpu' \in [Settings -> Values] /\ pending' \in Values \cup {None}
  <1>1. GivenUp(c) /\ gpu \in [Settings -> Values] /\ pending \in Values \cup {None}
    BY DEF TypeInv, TypeOK, WrapperInv
  <1>2. CASE c[1] \in Commands /\ CommandIsLate(c[1], c[2])
    <2>1. SettingOf(c[1]) \in Settings /\ ValueOf(c[1], c[2]) \in Values
      BY <1>1, <1>2, OpsFacts, SettingFacts, RankFacts DEF GivenUp, Names, CommandsOf
    <2>2. {SettingOf(c[1])} \in SUBSET Settings
      BY <2>1
    <2> QED
      BY <1>1, <1>2, <2>1, <2>2 DEF CommandIsLate
  <1>3. CASE c[1] = "offsets" /\ OffsetsAreLate(c[2])
    <2>1. c[2] \in Values
      BY <1>1, <1>3, OpsFacts, RankFacts DEF GivenUp, Names, Values, CommandsOf
    <2>2. PICK touched \in SUBSET {"pl"} :
             SetOffsets(c[2], touched) /\ late' = late \cup {"offsets"} \cup touched
      BY <1>3 DEF OffsetsAreLate
    <2>3. {"offsets"} \cup touched \in SUBSET Settings
      BY DEF Settings
    <2>4. gpu' \in [Settings -> Values]
      BY <1>1, <2>1, <2>2 DEF SetOffsets, Values
    <2>5. pending' \in Values \cup {None}
      BY <1>1, <2>2 DEF SetOffsets, Settings
    <2>6. \A s \in Settings \ ({"offsets"} \cup touched) : gpu'[s] = gpu[s]
      BY <2>2 DEF SetOffsets
    <2>7. late' = late \cup ({"offsets"} \cup touched)
      BY <2>2
    <2> QED
      BY <2>3, <2>4, <2>5, <2>6, <2>7
  <1>4. CASE UNCHANGED <<gpu, late>> /\ pending' \in {pending, None}
    <2>1. late' = late \cup {} /\ {} \in SUBSET Settings
      BY <1>4
    <2> QED
      BY <1>1, <1>4, <2>1
  <1> QED
    BY <1>2, <1>3, <1>4 DEF OrphanEnds

LEMMA TypeNext == TypeInv /\ [Next]_vars => TypeInv'
  <1> SUFFICES ASSUME TypeInv, [Next]_vars
               PROVE  TypeInv'
    OBVIOUS
  <1> USE NamesAssumption
      DEF TypeInv, TypeOK, WrapperInv, Stages, Hangs, callVars, wrapperVars, gpuVars
  <1>1. ASSUME NEW j \in Names, Call(j) PROVE TypeInv'
    <2>1. CommandsOf(j) \subseteq Commands /\ OpsOf(j) \subseteq Commands \cup {"offsets"}
      BY OpsFacts
    <2>2. requests' \in Nat
      BY <1>1 DEF Call
    <2>3. /\ stage' \in Stages /\ left' \subseteq CommandsOf(j) /\ job' = j
          /\ stage' = "lact" => "offsets" \in OpsOf(j)
          /\ stage' \in {"commands", "lact", "done"}
          /\ stage' # "commands" => left' = {}
      BY <1>1 DEF Call, Going, After
    <2>4. /\ overdue' = FALSE /\ warned' = FALSE /\ reply' = "none" /\ written' = {}
          /\ old' = gpu /\ UNCHANGED <<sudo, hung, gpu, pending, orphans, late, deaths>>
      BY <1>1 DEF Call
    <2> QED
      BY <2>1, <2>2, <2>3, <2>4 DEF Names
  <1>2. ASSUME NEW j \in Names, CallRefused(j) PROVE TypeInv'
    <2>1. requests' \in Nat
      BY <1>2 DEF CallRefused
    <2>2. /\ overdue' = FALSE /\ warned' = FALSE /\ reply' = "failed" /\ written' = {}
          /\ old' = gpu /\ job' = j /\ stage = "none"
          /\ UNCHANGED <<sudo, stage, left, hung, gpu, pending, orphans, late, deaths>>
      BY <1>2 DEF CallRefused
    <2> QED
      BY <2>1, <2>2 DEF Names
  <1>3. CASE RunCommand
    <2>1. PICK o \in left : Takes(o, job) /\ Going(stage, left \ {o}, job)
      BY <1>3 DEF RunCommand
    <2>2. /\ gpu' \in [Settings -> Values]
          /\ late' \subseteq Settings
          /\ written' \subseteq Commands \cup {"offsets"}
      BY <1>3, <2>1, TakesTyped DEF RunCommand
    <2> QED
      BY <1>3, <2>1, <2>2 DEF RunCommand, Going, After
  <1>4. CASE CommandFails
    <2>1. /\ gpu' \in [Settings -> Values]
          /\ late' \subseteq Settings
          /\ written' \subseteq Commands \cup {"offsets"}
      BY <1>4, TakesTyped DEF CommandFails
    <2> QED
      BY <1>4, <2>1 DEF CommandFails
  <1>5. CASE LactSet
    BY <1>5, OffsetsTyped DEF LactSet
  <1>6. CASE LactFails
    <2>1. /\ gpu' \in [Settings -> Values]
          /\ pending' \in Values \cup {None}
          /\ late' \subseteq Settings
          /\ written' \subseteq Commands \cup {"offsets"}
      BY <1>6, OffsetsTyped DEF LactFails
    <2>2. orphans' \subseteq orphans \cup {<<"offsets", job>>}
      BY <1>6 DEF LactFails, Unanswered
    <2>3. GivenUp(<<"offsets", job>>) /\ job \in Names
      BY <1>6, GivenUpTyped DEF LactFails, Names
    <2> QED
      BY <1>6, <2>1, <2>2, <2>3 DEF LactFails, Names
  <1>7. CASE LactConfirm
    BY <1>7 DEF LactConfirm
  <1>8. CASE ConfirmFails
    <2>1. orphans' \subseteq orphans \cup {<<"confirm", job>>} /\ pending' \in {pending, None}
      BY <1>8 DEF ConfirmFails, Unanswered
    <2>2. GivenUp(<<"confirm", job>>) /\ job \in Names
      BY <1>8, GivenUpTyped DEF ConfirmFails, Names
    <2> QED
      BY <1>8, <2>1, <2>2 DEF ConfirmFails, Names
  <1>9. CASE Settled
    <2>1. job \in Names
      BY <1>9 DEF Settled, Names
    <2>2. Reasserted(job) \subseteq CommandsOf(job) /\ CommandsOf(job) \subseteq Commands
      BY <2>1, OpsFacts DEF Reasserted
    <2> QED
      BY <1>9, <2>2 DEF Settled, Going, After
  <1>10. CASE Answer
    <2>1. reply' \in {"none", "applied", "reset", "failed", "error"} /\ stage' = "none"
      BY <1>10 DEF Answer, Report
    <2> QED
      BY <1>10, <2>1 DEF Answer, Ended
  <1>11. CASE TimesOut
    <2>1. /\ \A c \in Interrupted : GivenUp(c)
          /\ Interrupted \subseteq (Commands \cup {"offsets", "confirm"}) \X Names
      BY <1>11, GivenUpTyped DEF TimesOut
    <2>2. orphans' \subseteq orphans \cup Interrupted
      BY <1>11 DEF TimesOut
    <2>3. /\ orphans' \subseteq (Commands \cup {"offsets", "confirm"}) \X Names
          /\ \A c \in orphans' : GivenUp(c)
      BY <2>1, <2>2 DEF Names
    <2>4. CASE sudo
      BY <1>11, <2>3, <2>4 DEF TimesOut, Names
    <2>5. CASE ~sudo
      BY <1>11, <2>3, <2>5 DEF TimesOut, Ended, Names
    <2> QED
      BY <2>4, <2>5
  <1>12. CASE CommandHangs \/ DriverReturns
    BY <1>12 DEF CommandHangs, DriverReturns
  <1>13. ASSUME NEW c \in orphans, OrphanEnds(c) PROVE TypeInv'
    <2>1. /\ gpu' \in [Settings -> Values] /\ pending' \in Values \cup {None}
          /\ late' \subseteq Settings
      BY <1>13, LateChanges
    <2> QED
      BY <1>13, <2>1 DEF OrphanEnds
  <1>14. CASE LactReverts
    BY <1>14 DEF LactReverts, Settings, Values
  <1>15. CASE ApiDies
    <2>1. /\ \A c \in Interrupted : GivenUp(c)
          /\ Interrupted \subseteq (Commands \cup {"offsets", "confirm"}) \X Names
      BY <1>15, GivenUpTyped DEF ApiDies
    <2>2. /\ orphans' \subseteq (Commands \cup {"offsets", "confirm"}) \X Names
          /\ \A c \in orphans' : GivenUp(c)
      BY <1>15, <2>1 DEF ApiDies, Names
    <2>3. deaths' \in Nat
      BY <1>15 DEF ApiDies
    <2>4. /\ stage' = "none" /\ left' = {} /\ hung' = "no"
          /\ UNCHANGED <<sudo, job, overdue, reply, requests, warned, gpu, pending, late, old,
                         written>>
      BY <1>15 DEF ApiDies
    <2> QED
      BY <2>2, <2>3, <2>4 DEF Names
  <1>16. CASE UNCHANGED vars
    BY <1>16 DEF vars
  <1> QED
    BY <1>1, <1>2, <1>3, <1>4, <1>5, <1>6, <1>7, <1>8, <1>9, <1>10, <1>11, <1>12, <1>13,
       <1>14, <1>15, <1>16 DEF Next, Requested, Wrapper, World, Names

LEMMA TypeInvariant == Spec => []TypeInv
  BY TypeInit, TypeNext, PTL DEF Spec

\* The state of a request, of its wrapper and of the GPU is always what it is
\* declared to be, for any profiles.
THEOREM TypeCorrect == Spec => []TypeOK
  BY TypeInvariant, PTL DEF TypeInv

-----------------------------------------------------------------------------
(* What took effect                                                        *)

PrefixInv == WrittenInv /\ PrefixApplied

\* In the list that is being run, the next command is the only one that may
\* take effect without leaving a gap.
LEMMA NextKeepsPrefix ==
    ASSUME TypeInv, PrefixInv, stage \in {"commands", "final"},
           NEW o \in left, IsNext(o), written' = written \cup {o}, job' = job
    PROVE  PrefixApplied'
  <1>1. job \in Names /\ left \subseteq CommandsOf(job) /\ job # None
    BY DEF TypeInv, TypeOK, WrapperInv, Names
  <1>2. CommandsOf(job) \subseteq Commands /\ "offsets" \notin CommandsOf(job)
    BY <1>1, OpsFacts
  <1> SUFFICES ASSUME NEW w \in written', NEW q \in CommandsOf(job) \ written'
               PROVE  w # "offsets" /\ Rank[w] < Rank[q]
    BY DEF PrefixApplied, CommandsOf, OpsOf
  <1>3. CASE w \in written
    BY <1>1, <1>3 DEF PrefixInv, PrefixApplied
  <1>4. CASE w = o
    <2>1. stage = "commands" /\ q \in left /\ q # o
      BY DEF PrefixInv, WrittenInv, Ran
    <2> QED
      BY <1>1, <1>2, <1>4, <2>1, RankOrders DEF IsNext
  <1> QED
    BY <1>3, <1>4

LEMMA PrefixInit == Init => PrefixInv
  BY DEF Init, PrefixInv, WrittenInv, PrefixApplied

LEMMA PrefixNext == TypeInv /\ PrefixInv /\ [Next]_vars => PrefixInv'
  <1> SUFFICES ASSUME TypeInv, PrefixInv, [Next]_vars
               PROVE  PrefixInv'
    OBVIOUS
  <1>0. ASSUME UNCHANGED <<job, written>>, 
               \/ UNCHANGED <<stage, left>>
               \/ stage' \in {"none", "failed", "done"}
               \/ /\ stage' \in {"lact", "confirm", "settle", "final"}
                  /\ stage \in {"lact", "confirm", "settle", "final"}
        PROVE  PrefixInv'
    BY <1>0 DEF PrefixInv, WrittenInv, Ran, PrefixApplied, CommandsOf, OpsOf
  <1>1. ASSUME NEW j \in Names, Call(j) PROVE PrefixInv'
    <2>1. /\ written' = {} /\ job' = j
          /\ stage' = "commands" => left' = CommandsOf(j)
          /\ stage' \in {"lact", "confirm", "settle", "final"} => CommandsOf(j) = {}
      BY <1>1 DEF Call, Going, After
    <2> QED
      BY <2>1 DEF PrefixInv, WrittenInv, Ran, PrefixApplied, CommandsOf, OpsOf
  <1>2. ASSUME NEW j \in Names, CallRefused(j) PROVE PrefixInv'
    BY <1>2 DEF CallRefused, PrefixInv, WrittenInv, PrefixApplied
  <1>3. CASE RunCommand
    <2>1. PICK o \in left : IsNext(o) /\ Takes(o, job) /\ Going(stage, left \ {o}, job)
      BY <1>3 DEF RunCommand
    <2>2. /\ job' = job /\ written' = written \cup {o} /\ left' = left \ {o}
          /\ stage \in {"commands", "final"}
          /\ stage' = "commands" => stage = "commands"
          /\ stage' \in {"lact", "confirm", "settle"} => left' = {} /\ stage = "commands"
      BY <1>3, <2>1 DEF RunCommand, Takes, Going, After, callVars
    <2>3. left \subseteq CommandsOf(job) /\ CommandsOf(job) \subseteq Commands
      BY <2>2, OpsFacts DEF TypeInv, TypeOK, WrapperInv, Names
    <2>4. stage = "commands" => written' = CommandsOf(job) \ left'
      BY <2>1, <2>2, <2>3 DEF PrefixInv, WrittenInv, Ran
    <2>5. stage = "final" => CommandsOf(job) \subseteq written'
      BY <2>2 DEF PrefixInv, WrittenInv
    <2>6. PrefixApplied'
      BY <2>1, <2>2, NextKeepsPrefix
    <2>7. stage' = "final" => stage = "final"
      BY <1>3, <2>1 DEF RunCommand, Going, After
    <2> HIDE DEF Ran
    <2>8. WrittenInv'
      BY <2>2, <2>3, <2>4, <2>5, <2>7 DEF PrefixInv, WrittenInv, Ran, CommandsOf, OpsOf
    <2> QED
      BY <2>6, <2>8 DEF PrefixInv
  <1>4. CASE CommandFails
    <2>1. CASE UNCHANGED written
      BY <1>0, <1>4, <2>1 DEF CommandFails, callVars
    <2>2. CASE \E o \in left : IsNext(o) /\ Takes(o, job)
      <3>1. PICK o \in left : IsNext(o) /\ Takes(o, job)
        BY <2>2
      <3>2. /\ job' = job /\ written' = written \cup {o} /\ stage' = "failed"
            /\ stage \in {"commands", "final"}
        BY <1>4, <3>1 DEF CommandFails, Takes, callVars
      <3>3. PrefixApplied'
        BY <3>1, <3>2, NextKeepsPrefix
      <3>4. o \in Commands
        BY DEF TypeInv, TypeOK
      <3> QED
        BY <3>2, <3>3, <3>4 DEF PrefixInv, WrittenInv
    <2> QED
      BY <1>4, <2>1, <2>2 DEF CommandFails
  <1>5. ASSUME stage = "lact", stage' \in {"confirm", "done"}, job' = job,
               written' = written \cup {"offsets"}
        PROVE  PrefixInv'
    BY <1>5 DEF PrefixInv, WrittenInv, PrefixApplied, CommandsOf, OpsOf
  <1>6. CASE LactSet
    BY <1>5, <1>6 DEF LactSet, OffsetsTake, callVars
  <1>7. CASE LactFails
    <2>1. stage = "lact" /\ stage' = "done" /\ job' = job
      BY <1>7 DEF LactFails, callVars
    <2>2. written' = written \cup {"offsets"} \/ UNCHANGED written
      BY <1>7 DEF LactFails, OffsetsTake
    <2> QED
      BY <1>0, <1>5, <2>1, <2>2
  <1>8. CASE LactConfirm \/ ConfirmFails
    BY <1>0, <1>8 DEF LactConfirm, ConfirmFails, callVars
  <1>9. CASE Settled
    BY <1>0, <1>9 DEF Settled, Going, After, callVars
  <1>10. CASE Answer \/ TimesOut \/ ApiDies
    BY <1>0, <1>10 DEF Answer, TimesOut, ApiDies, callVars, wrapperVars
  <1>11. CASE \/ CommandHangs \/ DriverReturns \/ LactReverts
              \/ \E c \in orphans : OrphanEnds(c)
    BY <1>0, <1>11 DEF CommandHangs, DriverReturns, OrphanEnds, LactReverts, callVars, wrapperVars
  <1>12. CASE UNCHANGED vars
    BY <1>0, <1>12 DEF vars, callVars, wrapperVars
  <1> QED
    BY <1>1, <1>2, <1>3, <1>4, <1>6, <1>7, <1>8, <1>9, <1>10, <1>11, <1>12
       DEF Next, Requested, Wrapper, World, Names

LEMMA PrefixInvariant == Spec => [](TypeInv /\ PrefixInv)
  BY TypeInit, TypeNext, PrefixInit, PrefixNext, PTL DEF Spec

\* Wherever a request stops - a command fails, hangs or is killed, LACT does
\* not answer, the API dies - what took effect is a beginning of the profile's
\* list of operations.
THEOREM FailureLeavesAPrefix == Spec => []PrefixApplied
  BY PrefixInvariant, PTL DEF PrefixInv

\* The commands run after LACT has set the offsets never set a locked clock.
THEOREM ClocksAreFirst == Spec => ClocksBeforeOffsets
  <1>1. TypeInv /\ PrefixInv /\ [Next]_vars
          => [RunCommand /\ "offsets" \in written
                => left' \cap ClockCommands = left \cap ClockCommands]_vars
    <2> SUFFICES ASSUME TypeInv, PrefixInv, RunCommand, "offsets" \in written
                 PROVE  left' \cap ClockCommands = left \cap ClockCommands
      OBVIOUS
    <2>1. job \in Names /\ stage \in {"commands", "final"}
      BY DEF RunCommand, TypeInv, TypeOK, Names
    <2>2. stage = "final"
      BY <2>1, OpsFacts DEF PrefixInv, WrittenInv, Ran
    <2>3. left \cap ClockCommands = {}
      BY <2>2 DEF TypeInv, WrapperInv, Reasserted
    <2>4. left' \subseteq left
      BY DEF RunCommand, Going
    <2> QED
      BY <2>3, <2>4
  <1> QED
    BY <1>1, PrefixInvariant, PTL DEF Spec, ClocksBeforeOffsets

-----------------------------------------------------------------------------
(* What the settings are                                                   *)

LEMMA ValueFacts ==
    ASSUME NEW j \in Names, NEW o \in OpsOf(j)
    PROVE  /\ SettingOf(o) \in Named(j)
           /\ ValueOf(o, j) \in {Wanted(j, SettingOf(o)), "default"}
           /\ o \notin {"rgc", "rmc"} => ValueOf(o, j) = Wanted(j, SettingOf(o))
           /\ o \in {"pm", "pl", "offsets"} => Wanted(j, o) = j /\ SettingOf(o) = o
  <1>1. SettingOf(o) \in Named(j)
    BY DEF Named
  <1>2. o \in Commands \cup {"offsets"}
    BY OpsFacts
  <1>3. o \notin {"rgc", "rmc"} => ValueOf(o, j) = j
    BY DEF ValueOf
  <1>4. ValueOf(o, j) \in {j, "default"}
    BY DEF ValueOf
  <1>5. ValueOf(o, j) # "default" => Wanted(j, SettingOf(o)) = j
    BY DEF Wanted
  <1>6. Wanted(j, SettingOf(o)) \in {j, "default"}
    BY DEF Wanted
  <1>7. o \in {"pm", "pl", "offsets"} => SettingOf(o) = o
    BY DEF SettingOf
  <1> QED
    BY <1>1, <1>3, <1>4, <1>5, <1>6, <1>7

\* What the last command for a setting leaves there is what is wanted.
LEMMA LastCommandWins ==
    ASSUME NEW j \in Names, NEW s \in Named(j), s # "offsets", NEW v,
           \A o \in CommandsOf(j) :
               \/ SettingOf(o) # s
               \/ v = ValueOf(o, j)
               \/ \E q \in CommandsOf(j) : SettingOf(q) = SettingOf(o) /\ Rank[o] < Rank[q]
    PROVE  v = Wanted(j, s)
  <1>1. PICK o \in OpsOf(j) : SettingOf(o) = s
    BY DEF Named
  <1>2. o \in CommandsOf(j)
    BY <1>1, OpsFacts, SettingFacts
  <1>3. \A q \in CommandsOf(j) : q \in Commands /\ q \in OpsOf(j)
    BY OpsFacts
  <1>4. /\ SettingOf("pm") = "pm" /\ SettingOf("pl") = "pl"
        /\ SettingOf("rgc") = "gc" /\ SettingOf("lgc") = "gc"
        /\ SettingOf("rmc") = "mc" /\ SettingOf("lmc") = "mc"
    BY DEF SettingOf
  <1>5. ASSUME NEW w \in CommandsOf(j), SettingOf(w) = s, w \in {"pm", "pl", "lgc", "lmc"}
        PROVE  v = Wanted(j, s)
    <2>1. \A q \in Commands : SettingOf(q) = s /\ q # w => Rank[q] < Rank[w]
      BY <1>4, <1>5, RankFacts
    <2>2. \A q \in Commands : SettingOf(q) = s => ~(Rank[w] < Rank[q])
      BY <2>1, <1>3, <1>5, RankOrders
    <2>3. v = ValueOf(w, j)
      BY <1>3, <1>5, <2>2
    <2> QED
      BY <1>3, <1>5, <2>3, ValueFacts
  <1>6. CASE o \in {"pm", "pl", "lgc", "lmc"}
    BY <1>1, <1>2, <1>5, <1>6
  <1>7. CASE o \in {"rgc", "rmc"}
    <2>1. CASE \E q \in CommandsOf(j) : SettingOf(q) = s /\ Rank[o] < Rank[q]
      <3>1. PICK q \in CommandsOf(j) : SettingOf(q) = s /\ Rank[o] < Rank[q]
        BY <2>1
      <3>2. q \in {"lgc", "lmc"}
        BY <1>1, <1>3, <1>4, <1>7, <3>1, RankFacts
      <3> QED
        BY <1>5, <3>1, <3>2
    <2>2. CASE ~ \E q \in CommandsOf(j) : SettingOf(q) = s /\ Rank[o] < Rank[q]
      <3>1. v = ValueOf(o, j) /\ v = "default"
        BY <1>1, <1>2, <1>7, <2>2 DEF ValueOf
      <3>2. \A q \in CommandsOf(j) : SettingOf(q) = s => q = o
        BY <1>1, <1>3, <1>4, <1>7, <2>2, RankFacts
      <3>3. \A q \in OpsOf(j) : SettingOf(q) = s => q = o
        BY <3>2, OpsFacts, SettingFacts
      <3> QED
        BY <3>1, <3>3 DEF Wanted
    <2> QED
      BY <2>1, <2>2
  <1> QED
    BY <1>2, <1>3, <1>6, <1>7, RankFacts

LEMMA NothingElseNext == TypeInv /\ NothingElseChanges /\ [Next]_vars => NothingElseChanges'
  <1> SUFFICES ASSUME TypeInv, NothingElseChanges, [Next]_vars
               PROVE  NothingElseChanges'
    OBVIOUS
  <1>0. ASSUME UNCHANGED <<job, gpu, old, late>> PROVE NothingElseChanges'
    BY <1>0 DEF NothingElseChanges, Named, Wanted, OpsOf
  <1>1. ASSUME old' = gpu, gpu' = gpu PROVE NothingElseChanges'
    BY <1>1 DEF NothingElseChanges
  <1>2. ASSUME NEW o, o \in OpsOf(job), job \in Names, Takes(o, job), job' = job, old' = old
        PROVE  NothingElseChanges'
    <2>1. /\ SettingOf(o) \in Named(job)
          /\ ValueOf(o, job) \in {Wanted(job, SettingOf(o)), "default"}
      BY <1>2, ValueFacts
    <2>2. Named(job)' = Named(job) /\ \A s : Wanted(job, s)' = Wanted(job, s)
      BY <1>2 DEF Named, Wanted, OpsOf
    <2>3. SettingOf(o) \in Settings
      BY <1>2, OpsFacts, SettingFacts
    <2>4. gpu \in [Settings -> Values]
      BY DEF TypeInv, TypeOK
    <2>5. /\ gpu' = [gpu EXCEPT ![SettingOf(o)] = ValueOf(o, job)]
          /\ late' = late \ {SettingOf(o)}
      BY <1>2 DEF Takes
    <2> QED
      BY <1>2, <2>1, <2>2, <2>3, <2>4, <2>5 DEF NothingElseChanges
  <1>3. ASSUME OffsetsTake, stage = "lact", job' = job, old' = old
        PROVE  NothingElseChanges'
    <2>1. job \in Names /\ "offsets" \in OpsOf(job)
      BY <1>3 DEF TypeInv, TypeOK, WrapperInv, Names
    <2>2. "offsets" \in Named(job) /\ Wanted(job, "offsets") = job
      BY <2>1, ValueFacts
    <2>3. Named(job)' = Named(job) /\ \A s : Wanted(job, s)' = Wanted(job, s)
      BY <1>3 DEF Named, Wanted, OpsOf
    <2>4. \A s \in Settings \ {"offsets"} :
              gpu'[s] = gpu[s] \/ (s = "pl" /\ gpu'[s] = "other")
      BY <1>3 DEF OffsetsTake, SetOffsets
    <2>5. gpu'["offsets"] = job /\ late' = late \ {"offsets"}
      BY <1>3 DEF OffsetsTake, SetOffsets, Settings
    <2> QED
      BY <1>3, <2>2, <2>3, <2>4, <2>5 DEF NothingElseChanges
  <1>4. ASSUME NEW S, late' = late \cup S, UNCHANGED <<job, old>>,
               \A x \in Settings \ S : gpu'[x] = gpu[x]
        PROVE  NothingElseChanges'
    BY <1>4 DEF NothingElseChanges, Named, Wanted, OpsOf
  <1>5. CASE Requested
    BY <1>1, <1>5 DEF Requested, Call, CallRefused, gpuVars
  <1>6. ASSUME NEW o \in left, stage \in {"commands", "final"}
        PROVE  job \in Names /\ o \in OpsOf(job)
    BY <1>6 DEF TypeInv, TypeOK, WrapperInv, Names, CommandsOf
  <1>7. CASE RunCommand \/ CommandFails
    BY <1>0, <1>2, <1>6, <1>7 DEF RunCommand, CommandFails, callVars
  <1>8. CASE LactSet \/ LactFails
    BY <1>0, <1>3, <1>8 DEF LactSet, LactFails, callVars
  <1>9. CASE LactConfirm \/ ConfirmFails \/ Settled \/ Answer \/ TimesOut \/ ApiDies
             \/ CommandHangs \/ DriverReturns
    BY <1>0, <1>9 DEF LactConfirm, ConfirmFails, Settled, Answer, TimesOut, ApiDies,
                      CommandHangs, DriverReturns, callVars, gpuVars
  <1>10. ASSUME NEW c \in orphans, OrphanEnds(c) PROVE NothingElseChanges'
    <2>1. UNCHANGED <<job, old>>
      BY <1>10 DEF OrphanEnds, callVars
    <2> QED
      BY <1>4, <1>10, <2>1, LateChanges
  <1>11. CASE LactReverts
    <2>1. gpu \in [Settings -> Values]
      BY DEF TypeInv, TypeOK
    <2>2. /\ gpu' = [gpu EXCEPT !["offsets"] = pending]
          /\ late' = late \cup {"offsets"} /\ UNCHANGED <<job, old>>
      BY <1>11 DEF LactReverts, callVars
    <2> QED
      BY <1>4, <2>1, <2>2
  <1>12. CASE UNCHANGED vars
    BY <1>0, <1>12 DEF vars, callVars, gpuVars
  <1> QED
    BY <1>5, <1>7, <1>8, <1>9, <1>10, <1>11, <1>12 DEF Next, Wrapper, World

\* Whatever becomes of a request, it changes no setting its profile does not
\* name, except for a power limit LACT touched, and leaves no value the
\* profile does not ask for.
THEOREM OthersAreKept == Spec => []NothingElseChanges
  <1>1. Init => NothingElseChanges
    BY DEF Init, NothingElseChanges
  <1> QED
    BY <1>1, TypeInvariant, NothingElseNext, PTL DEF Spec

-----------------------------------------------------------------------------
(* An applied profile is in force                                          *)

SettingsInv == LastCommandCounts /\ SettingsFollow /\ AppliedMeansSet

\* The commands have been run, and none is left of their list.
LEMMA CommandsAreOver ==
    ASSUME job \in Names, NEW g, NEW changed,
           \A o \in CommandsOf(job) :
               \/ SettingOf(o) \in changed
               \/ g[SettingOf(o)] = ValueOf(o, job)
               \/ \E q \in CommandsOf(job) :
                     SettingOf(q) = SettingOf(o) /\ Rank[o] < Rank[q]
    PROVE  \A s \in Named(job) \ changed : s = "offsets" \/ g[s] = Wanted(job, s)
  <1> SUFFICES ASSUME NEW s \in Named(job) \ changed, s # "offsets"
               PROVE  g[s] = Wanted(job, s)
    OBVIOUS
  <1>1. \A o \in CommandsOf(job) :
               \/ SettingOf(o) # s
               \/ g[s] = ValueOf(o, job)
               \/ \E q \in CommandsOf(job) :
                     SettingOf(q) = SettingOf(o) /\ Rank[o] < Rank[q]
    OBVIOUS
  <1>2. s \in Named(job)
    OBVIOUS
  <1> HIDE DEF Named
  <1> QED
    BY <1>1, <1>2, LastCommandWins

\* A command of the first list.
LEMMA CommandRuns ==
    ASSUME TypeInv, PrefixInv, SettingsInv, stage = "commands", NEW o \in left, IsNext(o),
           Takes(o, job), left' = left \ {o}, job' = job
    PROVE  \A p \in Ran' :
               \/ SettingOf(p) \in late'
               \/ gpu'[SettingOf(p)] = ValueOf(p, job)
               \/ \E q \in Ran' : SettingOf(q) = SettingOf(p) /\ Rank[p] < Rank[q]
  <1>1. job \in Names /\ left \subseteq CommandsOf(job) /\ job # None
    BY DEF TypeInv, TypeOK, WrapperInv, Names
  <1>2. CommandsOf(job) \subseteq Commands
    BY <1>1, OpsFacts
  <1>3. Ran' = Ran \cup {o} /\ o \notin Ran /\ Ran \subseteq Commands
    BY <1>1, <1>2 DEF Ran, CommandsOf, OpsOf
  <1>4. \A p \in Ran : Rank[p] < Rank[o]
    BY <1>1, <1>3 DEF PrefixInv, WrittenInv, PrefixApplied
  <1>5. gpu \in [Settings -> Values] /\ SettingOf(o) \in Settings
    BY <1>1, <1>2, SettingFacts DEF TypeInv, TypeOK
  <1>6. /\ gpu' = [gpu EXCEPT ![SettingOf(o)] = ValueOf(o, job)]
        /\ late' = late \ {SettingOf(o)}
    BY DEF Takes
  <1> SUFFICES ASSUME NEW p \in Ran'
               PROVE  \/ SettingOf(p) \in late'
                      \/ gpu'[SettingOf(p)] = ValueOf(p, job)
                      \/ \E q \in Ran' : SettingOf(q) = SettingOf(p) /\ Rank[p] < Rank[q]
    OBVIOUS
  <1>7. CASE p = o
    BY <1>5, <1>6, <1>7
  <1>8. CASE p \in Ran /\ SettingOf(p) = SettingOf(o)
    BY <1>3, <1>4, <1>8
  <1>9. CASE p \in Ran /\ SettingOf(p) # SettingOf(o)
    <2>1. SettingOf(p) \in Settings
      BY <1>3, <1>9, SettingFacts
    <2>2. \/ SettingOf(p) \in late
          \/ gpu[SettingOf(p)] = ValueOf(p, job)
          \/ \E q \in Ran : SettingOf(q) = SettingOf(p) /\ Rank[p] < Rank[q]
      BY <1>9 DEF SettingsInv, LastCommandCounts
    <2> QED
      BY <1>3, <1>5, <1>6, <1>9, <2>1, <2>2
  <1> QED
    BY <1>3, <1>7, <1>8, <1>9

LEMMA SettingsInit == Init => SettingsInv
  BY DEF Init, SettingsInv, LastCommandCounts, SettingsFollow, AppliedMeansSet

LEMMA SettingsNext == TypeInv /\ PrefixInv /\ SettingsInv /\ [Next]_vars => SettingsInv'
  <1> SUFFICES ASSUME TypeInv, PrefixInv, SettingsInv, [Next]_vars
               PROVE  SettingsInv'
    OBVIOUS
  <1>a. stage # "none" => job \in Names /\ reply = "none"
    BY DEF TypeInv, TypeOK, WrapperInv, Names
  <1>b. gpu \in [Settings -> Values]
    BY DEF TypeInv, TypeOK
  <1>c. ASSUME job' = job
        PROVE  /\ Named(job)' = Named(job) /\ CommandsOf(job)' = CommandsOf(job)
               /\ \A s : Wanted(job, s)' = Wanted(job, s)
    BY <1>c DEF Named, Wanted, OpsOf, CommandsOf
  <1>d. \A j \in Names : Named(j) \subseteq Settings
    BY OpsFacts, SettingFacts DEF Named
  \* Steps of one kind.
  <1>1. ASSUME UNCHANGED <<job, gpu, late, warned, stage, left, reply>> PROVE SettingsInv'
    BY <1>1 DEF SettingsInv, LastCommandCounts, SettingsFollow, AppliedMeansSet, IsSet, Upset,
                Ran, Named, Wanted, OpsOf, CommandsOf
  <1>2. ASSUME stage' \in {"none", "failed"}, reply' \notin {"applied", "reset"}
        PROVE  SettingsInv'
    BY <1>2 DEF SettingsInv, LastCommandCounts, SettingsFollow, AppliedMeansSet
  <1>3. ASSUME NEW S, late' = late \cup S, UNCHANGED <<job, warned, stage, left, reply>>,
               \A x \in Settings \ S : gpu'[x] = gpu[x]
        PROVE  SettingsInv'
    <2>1. LastCommandCounts'
      <3>1. SUFFICES ASSUME stage = "commands" PROVE LastCommandCounts'
        BY <1>3 DEF LastCommandCounts
      <3>2. Ran' = Ran /\ \A o \in Ran : SettingOf(o) \in Settings
        BY <1>3, <1>a, <3>1, OpsFacts, SettingFacts DEF Ran, CommandsOf, OpsOf
      <3> QED
        BY <1>3, <3>1, <3>2 DEF SettingsInv, LastCommandCounts
    <2>2. SettingsFollow'
      <3>1. SUFFICES ASSUME stage # "none" PROVE SettingsFollow'
        BY <1>3 DEF SettingsFollow
      <3>2. \A x \in Named(job) \ late' : x \in Named(job) \ late /\ gpu'[x] = gpu[x]
        BY <1>3, <1>a, <1>d, <3>1
      <3> QED
        BY <1>3, <1>c, <3>1, <3>2 DEF SettingsInv, SettingsFollow, IsSet, Upset
    <2>3. AppliedMeansSet'
      <3>1. SUFFICES ASSUME reply \in {"applied", "reset"} PROVE AppliedMeansSet'
        BY <1>3 DEF AppliedMeansSet
      <3>2. \A x \in Named(job) \ late' : x \in Settings => gpu'[x] = gpu[x]
        BY <1>3
      <3>3. job \in Names
        BY <3>1 DEF TypeInv, TypeOK, WrapperInv, Names
      <3> QED
        BY <1>3, <1>c, <1>d, <3>1, <3>2, <3>3 DEF SettingsInv, AppliedMeansSet
    <2> QED
      BY <2>1, <2>2, <2>3 DEF SettingsInv
  <1>4. ASSUME stage # "none", stage' \notin {"none", "commands"}, UNCHANGED <<job, reply>>,
               \A s \in Named(job) \ late' :
                  /\ stage' = "lact" => IsSet(s)' \/ s = "offsets"
                  /\ stage' \in {"confirm", "settle"} => IsSet(s)' \/ Upset(s)'
                  /\ stage' = "final" => IsSet(s)' \/ (Upset(s)' /\ s \in left')
                  /\ stage' = "done" => \/ IsSet(s)'
                                        \/ warned' /\ (s = "offsets" \/ Upset(s)')
        PROVE  SettingsInv'
    <2>1. LastCommandCounts' /\ AppliedMeansSet'
      BY <1>4, <1>a DEF LastCommandCounts, AppliedMeansSet
    <2> QED
      BY <1>4, <1>c, <2>1 DEF SettingsInv, SettingsFollow
  \* The actions.
  <1>5. ASSUME NEW j \in Names, Call(j) PROVE SettingsInv'
    <2>1. reply' = "none" /\ job' = j /\ OpsOf(j) # {} /\ Going("commands", CommandsOf(j), j)
      BY <1>5 DEF Call
    <2>2. CASE CommandsOf(j) # {}
      <3>1. stage' = "commands" /\ Ran' = {}
        BY <2>1, <2>2 DEF Going, Ran, CommandsOf, OpsOf
      <3> QED
        BY <2>1, <3>1 DEF SettingsInv, LastCommandCounts, SettingsFollow, AppliedMeansSet
    <2>3. CASE CommandsOf(j) = {}
      <3>1. OpsOf(j) = {"offsets"}
        BY <2>1, <2>3, OpsFacts
      <3>2. stage' = "lact" /\ \A s \in Named(j) : s = "offsets"
        BY <2>1, <2>3, <3>1 DEF Going, After, Named, SettingOf
      <3>3. Named(job)' = Named(j)
        BY <2>1 DEF Named, OpsOf
      <3> QED
        BY <2>1, <3>2, <3>3 DEF SettingsInv, LastCommandCounts, SettingsFollow, AppliedMeansSet
    <2> QED
      BY <2>2, <2>3
  <1>6. ASSUME NEW j \in Names, CallRefused(j) PROVE SettingsInv'
    BY <1>2, <1>6 DEF CallRefused
  <1>7. CASE RunCommand
    <2>1. PICK o \in left : IsNext(o) /\ Takes(o, job) /\ Going(stage, left \ {o}, job)
      BY <1>7 DEF RunCommand
    <2>2. /\ UNCHANGED <<job, reply, warned>> /\ left' = left \ {o}
          /\ stage \in {"commands", "final"} /\ job \in Names /\ job # None
          /\ left \subseteq CommandsOf(job)
      BY <1>7, <1>a, <2>1 DEF RunCommand, Going, callVars, TypeInv, TypeOK, WrapperInv
    <2>3. CASE stage = "commands"
      <3>1. \A p \in Ran' :
               \/ SettingOf(p) \in late'
               \/ gpu'[SettingOf(p)] = ValueOf(p, job)
               \/ \E q \in Ran' : SettingOf(q) = SettingOf(p) /\ Rank[p] < Rank[q]
        BY <2>1, <2>2, <2>3, CommandRuns
      <3>2. CASE left' # {}
        <4>1. stage' = "commands"
          BY <2>1, <2>2, <2>3, <3>2 DEF Going
        <4>2. LastCommandCounts'
          BY <2>2, <3>1 DEF LastCommandCounts
        <4> QED
          BY <1>a, <2>2, <2>3, <4>1, <4>2 DEF SettingsInv, SettingsFollow, AppliedMeansSet
      <3>3. CASE left' = {}
        <4>1. Ran' = CommandsOf(job)
          BY <1>c, <2>2, <3>3 DEF Ran
        <4>2. \A s \in Named(job) \ late' : s = "offsets" \/ gpu'[s] = Wanted(job, s)
          BY <2>2, <3>1, <4>1, CommandsAreOver
        <4>3. /\ stage' = "lact" => "offsets" \in OpsOf(job)
              /\ stage' = "done" => "offsets" \notin OpsOf(job)
              /\ stage' \in {"lact", "done"}
          BY <2>1, <2>2, <2>3, <3>3 DEF Going, After
        <4>4. "offsets" \in Named(job) => "offsets" \in OpsOf(job)
          BY <2>2, OpsFacts, SettingFacts DEF Named
        <4> QED
          BY <1>4, <1>c, <2>2, <2>3, <4>2, <4>3, <4>4 DEF IsSet
      <3> QED
        BY <3>2, <3>3
    <2>4. CASE stage = "final"
      <3>1. o \in {"pm", "pl"} /\ o \in OpsOf(job)
        BY <2>2, <2>4, OpsFacts, RankFacts
           DEF TypeInv, WrapperInv, Reasserted, ClockCommands
      <3>2. SettingOf(o) = o /\ ValueOf(o, job) = Wanted(job, o) /\ o \in Settings
        BY <2>2, <3>1, ValueFacts DEF Settings
      <3>3. gpu' = [gpu EXCEPT ![o] = Wanted(job, o)] /\ late' = late \ {o}
        BY <2>1, <3>2 DEF Takes
      <3>4. \A s \in Named(job) \ late' : IsSet(s)' \/ (Upset(s)' /\ s \in left')
        <4> SUFFICES ASSUME NEW s \in Named(job) \ late'
                     PROVE  IsSet(s)' \/ (Upset(s)' /\ s \in left')
          OBVIOUS
        <4>1. CASE s = o
          BY <1>b, <1>c, <2>2, <3>2, <3>3, <4>1 DEF IsSet
        <4>2. CASE s # o
          <5>1. s \in Named(job) \ late /\ gpu'[s] = gpu[s]
            BY <1>b, <1>d, <2>2, <3>3, <4>2
          <5>2. IsSet(s) \/ (Upset(s) /\ s \in left)
            BY <2>4, <5>1 DEF SettingsInv, SettingsFollow
          <5> QED
            BY <1>c, <2>2, <4>2, <5>1, <5>2 DEF IsSet, Upset
        <4> QED
          BY <4>1, <4>2
      <3>5. stage' = "final" \/ (stage' = "done" /\ left' = {})
        BY <2>1, <2>2, <2>4 DEF Going, After
      <3> QED
        BY <1>4, <2>2, <2>4, <3>4, <3>5
    <2> QED
      BY <2>2, <2>3, <2>4
  <1>8. CASE CommandFails
    BY <1>2, <1>8, <1>a DEF CommandFails, callVars
  <1>9. ASSUME OffsetsTake, stage = "lact", UNCHANGED job,
               NEW s \in Named(job) \ late'
        PROVE  IsSet(s)' \/ Upset(s)'
    <2>1. job \in Names /\ "offsets" \in OpsOf(job)
      BY <1>9, <1>a DEF TypeInv, WrapperInv
    <2>2. Wanted(job, "offsets") = job
      BY <2>1, ValueFacts
    <2>3. s \in Settings
      BY <1>d, <2>1
    <2>4. CASE s = "offsets"
      <3>1. gpu'[s] = job
        BY <1>9, <2>3, <2>4 DEF OffsetsTake, SetOffsets
      <3> QED
        BY <1>9, <1>c, <2>2, <2>4, <3>1 DEF IsSet
    <2>5. CASE s # "offsets"
      <3>1. s \in Named(job) \ late
        BY <1>9, <2>5 DEF OffsetsTake
      <3>2. gpu[s] = Wanted(job, s)
        BY <1>9, <2>5, <3>1 DEF SettingsInv, SettingsFollow, IsSet
      <3>3. gpu'[s] = gpu[s] \/ (s = "pl" /\ gpu'[s] = "other")
        BY <1>9, <2>3, <2>5 DEF OffsetsTake, SetOffsets
      <3> QED
        BY <1>9, <1>c, <3>2, <3>3 DEF IsSet, Upset
    <2> QED
      BY <2>4, <2>5
  <1>10. CASE LactSet
    BY <1>4, <1>9, <1>10 DEF LactSet, callVars
  <1>11. CASE LactFails
    <2>1. /\ stage = "lact" /\ stage' = "done" /\ warned' = TRUE /\ UNCHANGED <<job, reply>>
      BY <1>11 DEF LactFails, callVars
    <2>2. CASE OffsetsTake
      BY <1>4, <1>9, <2>1, <2>2
    <2>3. CASE UNCHANGED <<gpu, late>>
      <3>1. \A s \in Named(job) \ late' : IsSet(s)' \/ s = "offsets"
        BY <1>c, <2>1, <2>3 DEF SettingsInv, SettingsFollow, IsSet
      <3> QED
        BY <1>4, <2>1, <3>1
    <2> QED
      BY <1>11, <2>2, <2>3 DEF LactFails
  <1>12. CASE LactConfirm \/ ConfirmFails
    <2>1. /\ stage = "confirm" /\ UNCHANGED <<job, reply, gpu, late>>
          /\ stage' = "settle" \/ (stage' = "done" /\ warned')
      BY <1>12 DEF LactConfirm, ConfirmFails, callVars
    <2>2. \A s \in Named(job) \ late' : IsSet(s)' \/ Upset(s)'
      BY <1>c, <2>1 DEF SettingsInv, SettingsFollow, IsSet, Upset
    <2> QED
      BY <1>4, <2>1, <2>2
  <1>13. CASE Settled
    <2>1. /\ stage = "settle" /\ UNCHANGED <<job, reply, gpu, late>>
          /\ Going("final", Reasserted(job), job) /\ job \in Names
      BY <1>13, <1>a DEF Settled, callVars, gpuVars
    <2>2. \A s \in Named(job) \ late' : IsSet(s)' \/ Upset(s)'
      BY <1>c, <2>1 DEF SettingsInv, SettingsFollow, IsSet, Upset
    <2>3. "pl" \in Named(job) => "pl" \in Reasserted(job)
      BY <2>1, OpsFacts, SettingFacts, RankFacts DEF Named, Reasserted, ClockCommands
    <2>4. /\ left' = Reasserted(job)
          /\ stage' = "final" \/ (stage' = "done" /\ left' = {})
      BY <2>1 DEF Going, After
    <2>5. \A s \in Named(job) \ late' : IsSet(s)' \/ (Upset(s)' /\ s \in left')
      BY <2>2, <2>3, <2>4 DEF Upset
    <2> QED
      BY <1>4, <2>1, <2>4, <2>5
  <1>14. CASE Answer
    <2>1. /\ stage \in {"done", "failed"} /\ stage' = "none"
          /\ UNCHANGED <<job, gpu, late, warned>>
          /\ reply' \in {"applied", "reset"} => stage = "done"
      BY <1>14 DEF Answer, Report, Ended, gpuVars
    <2>2. CASE stage = "failed"
      BY <1>2, <2>1, <2>2
    <2>3. CASE stage = "done"
      <3>1. \A s \in Named(job) \ late :
               IsSet(s) \/ (warned /\ (s = "offsets" \/ Upset(s)))
        BY <2>3 DEF SettingsInv, SettingsFollow
      <3>2. AppliedMeansSet'
        BY <1>c, <2>1, <3>1 DEF AppliedMeansSet, IsSet, Upset
      <3> QED
        BY <2>1, <3>2 DEF SettingsInv, LastCommandCounts, SettingsFollow
    <2> QED
      BY <2>1, <2>2, <2>3
  <1>15. CASE TimesOut
    <2>1. CASE sudo
      BY <1>1, <1>15, <2>1 DEF TimesOut, wrapperVars
    <2>2. CASE ~sudo
      BY <1>2, <1>15, <2>2 DEF TimesOut
    <2> QED
      BY <2>1, <2>2
  <1>16. CASE ApiDies
    BY <1>2, <1>16, <1>a DEF ApiDies, callVars
  <1>17. CASE CommandHangs \/ DriverReturns
    BY <1>1, <1>17 DEF CommandHangs, DriverReturns, callVars, gpuVars
  <1>18. ASSUME NEW c \in orphans, OrphanEnds(c) PROVE SettingsInv'
    <2>1. UNCHANGED <<job, warned, stage, left, reply>>
      BY <1>18 DEF OrphanEnds, callVars, wrapperVars
    <2> QED
      BY <1>3, <1>18, <2>1, LateChanges
  <1>19. CASE LactReverts
    <2>1. /\ gpu' = [gpu EXCEPT !["offsets"] = pending] /\ late' = late \cup {"offsets"}
          /\ UNCHANGED <<job, warned, stage, left, reply>>
      BY <1>19 DEF LactReverts, callVars, wrapperVars
    <2> QED
      BY <1>3, <1>b, <2>1
  <1>20. CASE UNCHANGED vars
    BY <1>1, <1>20 DEF vars, callVars, wrapperVars, gpuVars
  <1> QED
    BY <1>5, <1>6, <1>7, <1>8, <1>10, <1>11, <1>12, <1>13, <1>14, <1>15, <1>16, <1>17, <1>18,
       <1>19, <1>20 DEF Next, Requested, Wrapper, World, Names

LEMMA SettingsInvariant == Spec => [](TypeInv /\ PrefixInv /\ SettingsInv)
  BY TypeInit, TypeNext, PrefixInit, PrefixNext, SettingsInit, SettingsNext, PTL DEF Spec

\* A profile that is reported as applied, or a reset, is in force, all of it,
\* except for what an orphaned command or LACT has changed since and, with a
\* warning, the offsets and a power limit LACT changed.
THEOREM AppliedProfilesAreSet == Spec => []AppliedMeansSet
  BY SettingsInvariant, PTL DEF SettingsInv
=============================================================================
