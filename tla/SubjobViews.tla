---------------------------- MODULE SubjobViews ----------------------------
(***************************************************************************)
(* What the API says of the events of a run.  A job emits events on its    *)
(* two streams; they are stored in the order in which the two capture      *)
(* tasks insert them.  The API derives from the stored rows the status of  *)
(* every subjob, in two ways (list_job_subjob_summaries for the list of    *)
(* runs, build_subjob_states for one run), and the progress of the run.    *)
(***************************************************************************)
EXTENDS Integers, Sequences, FiniteSets, SequencesExt

CONSTANTS
    Streams,
    Ids,            \* the subjobs
    NumericIds,     \* those whose subjob_id is a number in the JSON, not a string
    None,           \* nothing given
    NumericStatuses,    \* statuses that are not a string in the JSON
    BlankStatuses,      \* the empty string and null
    Kinds,          \* what may be emitted: [type, subjob, status, progress, numbered]
    MaxEvents       \* bound on the events of a run

ASSUME ViewsAssumption ==
    /\ NumericIds \subseteq Ids /\ MaxEvents \in Nat
    /\ None \notin Ids \cup {"pending", "running", "complete", "failed"}
    /\ NumericStatuses \cap BlankStatuses = {}
    /\ \A k \in Kinds : k.subjob \in Ids \cup {None} /\ k.progress \in BOOLEAN
                      /\ k.numbered \in BOOLEAN

VARIABLES
    emitted,    \* the events of the job, in the order in which it emits them
    stored      \* job_events: positions in emitted, in the order of the inserts

vars == <<emitted, stored>>

Init == emitted = <<>> /\ stored = <<>>

\* An event may carry a sequence number, its position.
Emit(s, kind) ==
    /\ Len(emitted) < MaxEvents
    /\ emitted' = Append(emitted,
          [stream |-> s, kind |-> kind,
           sequence |-> IF kind.numbered THEN Len(emitted) + 1 ELSE None])
    /\ UNCHANGED stored

\* The task of a stream stores its next event.
Waiting(s) == {i \in DOMAIN emitted : emitted[i].stream = s} \ ToSet(stored)

Store(s) ==
    /\ Waiting(s) # {}
    /\ stored' = Append(stored, CHOOSE i \in Waiting(s) : \A j \in Waiting(s) : i <= j)
    /\ UNCHANGED emitted

Next ==
    \E s \in Streams :
        \/ Store(s)
        \/ \E kind \in Kinds : Emit(s, kind)

Spec == Init /\ [][Next]_vars

-----------------------------------------------------------------------------
(* The views                                                               *)

Rows == [n \in DOMAIN stored |-> emitted[stored[n]].kind]

Progressing == {"started", "phase_changed", "progress"}

\* What the type of an event says, if no status is given.
Implied(type, previous) ==
    CASE type = "completed" -> "complete"
      [] type = "failed" -> "failed"
      [] type \in Progressing -> "running"
      [] OTHER -> IF previous = None THEN "pending" ELSE previous

\* The query reads a status as text, whatever it is in the JSON; Python reads
\* strings only.
IsText(status) == status \notin BlankStatuses \cup {None}
IsString(status) == IsText(status) /\ status \notin NumericStatuses

\* A mutant of ListStatus: the type goes before the status.
ListStatusByType(previous, row) ==
    IF row.type \in {"completed", "failed"} \/ ~IsText(row.status)
    THEN Implied(row.type, previous) ELSE row.status

\* _subjob_status_from_event: the status given in this event, or implied.
ListStatus(previous, row) ==
    IF IsText(row.status) THEN row.status ELSE Implied(row.type, previous)

\* list_job_subjob_summaries: the status of each subjob after the first n rows.
ListViews[n \in 0 .. Len(stored)] ==
    IF n = 0 THEN [id \in Ids |-> None]
    ELSE IF Rows[n].subjob = None THEN ListViews[n - 1]
    ELSE [ListViews[n - 1] EXCEPT ![Rows[n].subjob] = ListStatus(@, Rows[n])]

ListView == ListViews[Len(stored)]

\* _subjob_status with the merged metadata: the status that was given last, if
\* it is a string, goes before what this event implies.
DetailStatus(previous, row) ==
    LET stated == IF row.status # None THEN row.status ELSE previous.stated
    IN  [stated |-> stated,
         status |-> IF IsString(stated) THEN stated ELSE Implied(row.type, previous.status)]

\* build_subjob_states; a subjob_id that is not a string does not count.
DetailViews[n \in 0 .. Len(stored)] ==
    IF n = 0 THEN [id \in Ids |-> [stated |-> None, status |-> None]]
    ELSE IF Rows[n].subjob \in NumericIds \cup {None} THEN DetailViews[n - 1]
    ELSE [DetailViews[n - 1] EXCEPT ![Rows[n].subjob] = DetailStatus(@, Rows[n])]

DetailView == DetailViews[Len(stored)]

\* The finished and failed counts and the total of a view.
Finished == {"complete", "completed", "succeeded"}
Failed == {"failed", "timed_out", "lost", "needs_review"}

Summary(status) ==
    [finished |-> Cardinality({id \in Ids : status[id] \in Finished}),
     failed |-> Cardinality({id \in Ids : status[id] \in Failed}),
     total |-> Cardinality({id \in Ids : status[id] # None})]

ListSummary == Summary(ListView)
DetailSummary == Summary([id \in Ids |-> DetailView[id].status])

\* A mutant of ShownAfter: the rows are read in the order of the inserts.
ShownAfterInOrder(n, m) == n > m

\* The key _latest_run_progress_from_record sorts by: rows without a sequence
\* number come after those with one.
ShownAfter(n, m) ==
    LET a == emitted[stored[n]].sequence
        b == emitted[stored[m]].sequence
    IN  IF a = None /\ b = None THEN n > m
        ELSE IF a = None \/ b = None THEN a = None
        ELSE a > b

ProgressRows == {n \in DOMAIN stored : Rows[n].progress /\ Rows[n].subjob = None}

\* The stored position of the event whose progress is shown for the run.
RunProgress ==
    IF ProgressRows = {} THEN None
    ELSE CHOOSE n \in ProgressRows : \A m \in ProgressRows \ {n} : ShownAfter(n, m)

-----------------------------------------------------------------------------
(* Properties                                                              *)

TypeOK ==
    /\ Len(emitted) <= MaxEvents
    /\ \A i \in DOMAIN emitted : emitted[i].sequence \in {None, i}
    /\ IsInjective(stored) /\ ToSet(stored) \subseteq DOMAIN emitted

RowsOf(id) == {n \in DOMAIN stored : Rows[n].subjob = id}

\* Since a subjob's status was last given as a string, an event has left it out.
LeavesStatusOut(id) ==
    \E n, m \in RowsOf(id) :
        /\ n < m /\ IsString(Rows[n].status) /\ Rows[m].status = None
        /\ \A k \in RowsOf(id) : k > n => ~IsString(Rows[k].status)

\* It was given as a number, and not as a string since.
GivesNumber(id) ==
    \E n \in RowsOf(id) :
        /\ Rows[n].status \in NumericStatuses
        /\ \A k \in RowsOf(id) : k > n => ~IsString(Rows[k].status)

\* The list of runs and the view of one run are computed by two functions;
\* they give a subjob the same status, except after a status that was left out
\* or is not a string, and count the same subjobs, except those with a number
\* for an id.
ViewsAgree ==
    /\ \A id \in Ids \ NumericIds :
          \/ ListView[id] = DetailView[id].status
          \/ LeavesStatusOut(id) \/ GivesNumber(id)
    /\ (\A id \in Ids : id \in NumericIds => RowsOf(id) = {})
          => ListSummary.total = DetailSummary.total

\* A job that numbers all its progress events, or writes them to one stream
\* and numbers none, has its latest stored progress shown, although the two
\* streams are stored in any order.
UniformlyNumbered ==
    \/ \A n \in ProgressRows : emitted[stored[n]].sequence # None
    \/ /\ \A n \in ProgressRows : emitted[stored[n]].sequence = None
       /\ \A n, m \in ProgressRows : emitted[stored[n]].stream = emitted[stored[m]].stream

ProgressIsLatest ==
    UniformlyNumbered => \A n \in ProgressRows : stored[n] <= stored[RunProgress]

=============================================================================
