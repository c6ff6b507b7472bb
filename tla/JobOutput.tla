----------------------------- MODULE JobOutput -----------------------------
(***************************************************************************)
(* The output of one run: its child writes to stdout and stderr, a task    *)
(* per stream (_capture_stream) copies the bytes to the log file, cuts     *)
(* them into records at \r and \n, and stores a row of job_events for      *)
(* every record that is an event.  The run is finalized when the child has *)
(* ended and both tasks have.                                              *)
(*                                                                         *)
(* What parse_job_event_line and parse_fallback_progress_line recognize is *)
(* abstracted to two sets of records: Structured and the progress bars.    *)
(***************************************************************************)
EXTENDS Integers, Sequences, FiniteSets, FiniteSetsExt

CONSTANTS
    Streams,
    Chars,          \* the characters of the output, with
    CR, LF,         \* the two that end a record
    Structured,     \* the records parse_job_event_line accepts
    Signature,      \* Signature[record], for the records that are a tqdm bar
    None,
    Scripts,        \* what the child may write: a text per stream
    Capacity,       \* bytes a pipe and its StreamReader hold
    Killable,       \* whether a timeout or a cancel may end the child
    MaxFaults       \* bound on the errors of the database and the disk

Bars == DOMAIN Signature

ASSUME OutputAssumption ==
    /\ CR # LF /\ Capacity \in Nat \ {0} /\ MaxFaults \in Nat
    /\ Killable \in BOOLEAN
    /\ Scripts \subseteq [Streams -> Seq(Chars)]
    /\ <<>> \notin Structured \cup Bars
    /\ \A bar \in Bars : Signature[bar] # None
    /\ None \notin [at : Nat, text : Seq(Chars)]

VARIABLES
    script,     \* the text the child is going to write
    sent,       \* sent[s]: the number of bytes written so far
    child,      \* "running" or "exited"
    read,       \* read[s]: the number of bytes taken out of the pipe
    log,        \* log[s]: the contents of the log file
    buffer,     \* text_buffer
    pending,    \* the records of the current chunk still to be looked at
    count,      \* record_number
    last,       \* last_fallback_progress_signature
    hand,       \* hand[s]: the event being stored, or None
    capture,    \* capture[s]: "reading", "draining", "done" or "failed"
    events,     \* job_events, in the order of the inserts
    run,        \* "running" or "final"
    faults      \* counter for the bound

vars == <<script, sent, child, read, log, buffer, pending, count, last, hand,
          capture, events, run, faults>>
jobVars == <<script, sent, child>>
bytesVars == <<read, log, buffer>>
recordVars == <<pending, count, last, hand>>

-----------------------------------------------------------------------------
(* Records                                                                 *)

Ends(text) == {i \in DOMAIN text : text[i] \in {CR, LF}}

\* A \r ends a record, and a \n unless it follows a \r.
Breaks(text) == {i \in Ends(text) : ~(text[i] = LF /\ i > 1 /\ text[i - 1] = CR)}

\* The record that ends before i starts behind the last end of line.
StartOf(text, i) == Max({0} \cup {j \in Ends(text) : j < i}) + 1
RecordAt(text, i) == SubSeq(text, StartOf(text, i), i - 1)

\* _split_completed_stream_records: the records, and the rest of the buffer.
\* The list of the records is a set, in which they are told apart by the place
\* where they end in the output; base is the place before the buffer.
CompletedRecords(text, base) ==
    {[at |-> base + i, text |-> RecordAt(text, i)] : i \in Breaks(text)}

\* A mutant of Remainder: the last end of line is left in the buffer.
RemainderFromBreak(text) == SubSeq(text, Max({1} \cup Ends(text)), Len(text))

Remainder(text) == RecordAt(text, Len(text) + 1)

\* _parse_stream_event finds an event.
IsEvent(text) == text \in Structured \cup Bars

-----------------------------------------------------------------------------
Init ==
    /\ script \in Scripts /\ sent = [s \in Streams |-> 0] /\ child = "running"
    /\ read = [s \in Streams |-> 0] /\ log = [s \in Streams |-> <<>>]
    /\ buffer = [s \in Streams |-> <<>>] /\ pending = [s \in Streams |-> {}]
    /\ count = [s \in Streams |-> 0] /\ last = [s \in Streams |-> None]
    /\ hand = [s \in Streams |-> None] /\ capture = [s \in Streams |-> "reading"]
    /\ events = <<>> /\ run = "running" /\ faults = 0

\* The child writes a byte; it blocks while the pipe is full.
Write(s) ==
    /\ child = "running"
    /\ sent[s] < Len(script[s]) /\ sent[s] - read[s] < Capacity
    /\ sent' = [sent EXCEPT ![s] = @ + 1]
    /\ UNCHANGED <<script, child, bytesVars, recordVars, capture, events, run, faults>>

Exit ==
    /\ child = "running" /\ \A s \in Streams : sent[s] = Len(script[s])
    /\ child' = "exited"
    /\ UNCHANGED <<script, sent, bytesVars, recordVars, capture, events, run, faults>>

\* A timeout or a cancel: what the child has not written is never written.
Kill ==
    /\ Killable /\ child = "running"
    /\ child' = "exited"
    /\ UNCHANGED <<script, sent, bytesVars, recordVars, capture, events, run, faults>>

\* The task awaits reader.read().
AwaitsChunk(s) == capture[s] = "reading" /\ pending[s] = {} /\ hand[s] = None

\* A chunk is any part of what the child has written.
ReadChunk(s) ==
    /\ AwaitsChunk(s)
    /\ \E to \in read[s] + 1 .. sent[s] :
          LET chunk == SubSeq(script[s], read[s] + 1, to)
              text == buffer[s] \o chunk
          IN  /\ read' = [read EXCEPT ![s] = to]
              /\ log' = [log EXCEPT ![s] = @ \o chunk]
              /\ pending' = [pending EXCEPT ![s] =
                                CompletedRecords(text, read[s] - Len(buffer[s]))]
              /\ buffer' = [buffer EXCEPT ![s] = Remainder(text)]
    /\ UNCHANGED <<jobVars, count, last, hand, capture, events, run, faults>>

\* An error in the task ends it; gather(return_exceptions=True) ignores it.
TaskFails(s) ==
    /\ faults < MaxFaults
    /\ faults' = faults + 1
    /\ capture' = [capture EXCEPT ![s] = "failed"]
    /\ pending' = [pending EXCEPT ![s] = {}]
    /\ hand' = [hand EXCEPT ![s] = None]
    /\ UNCHANGED <<jobVars, log, buffer, count, last, events, run>>

\* The disk is full.
LogFails(s) ==
    /\ AwaitsChunk(s) /\ read[s] < sent[s]
    /\ TaskFails(s)
    /\ \E to \in read[s] + 1 .. sent[s] : read' = [read EXCEPT ![s] = to]

\* A mutant of Repeats: the two tasks share the last signature.
RepeatsOnAnyStream(s, text) ==
    /\ capture[s] = "reading" /\ text \in Bars
    /\ \E t \in Streams : Signature[text] = last[t]

\* A bar that shows what the last one showed is not stored again, unless it
\* is the text that is left at the end of the stream.
Repeats(s, text) ==
    capture[s] = "reading" /\ text \in Bars /\ Signature[text] = last[s]

\* The next record of the chunk, up to the await of the insert.
TakeRecord(s) ==
    /\ hand[s] = None
    /\ \E record \in pending[s] :
          /\ \A other \in pending[s] : record.at <= other.at
          /\ pending' = [pending EXCEPT ![s] = @ \ {record}]
          /\ IF IsEvent(record.text) /\ ~Repeats(s, record.text)
             THEN /\ hand' = [hand EXCEPT ![s] = record]
                  /\ last' = IF record.text \in Bars /\ capture[s] = "reading"
                             THEN [last EXCEPT ![s] = Signature[record.text]] ELSE last
             ELSE UNCHANGED <<hand, last>>
    /\ count' = [count EXCEPT ![s] = @ + 1]
    /\ UNCHANGED <<jobVars, bytesVars, capture, events, run, faults>>

\* append_job_event_record
Store(s) ==
    /\ hand[s] # None
    /\ events' = Append(events, [stream |-> s, at |-> hand[s].at, line |-> count[s],
                                 event |-> hand[s].text])
    /\ hand' = [hand EXCEPT ![s] = None]
    /\ UNCHANGED <<jobVars, bytesVars, pending, count, last, capture, run, faults>>

StoreFails(s) == hand[s] # None /\ TaskFails(s) /\ UNCHANGED read

\* A mutant of AtEnd: the end of the child is taken for the end of its output.
AtEndWithChild(s) == child = "exited"

\* read() returns b"".
AtEnd(s) == child = "exited" /\ read[s] = sent[s]

\* The text after the last end of line counts as a record.
EndOfStream(s) ==
    /\ AwaitsChunk(s) /\ AtEnd(s)
    /\ capture' = [capture EXCEPT ![s] = "draining"]
    /\ pending' = [pending EXCEPT ![s] =
                      IF buffer[s] = <<>> THEN {}
                      ELSE {[at |-> Len(log[s]) + 1, text |-> buffer[s]]}]
    /\ buffer' = [buffer EXCEPT ![s] = <<>>]
    /\ UNCHANGED <<jobVars, read, log, count, last, hand, events, run, faults>>

CaptureDone(s) ==
    /\ capture[s] = "draining" /\ pending[s] = {} /\ hand[s] = None
    /\ capture' = [capture EXCEPT ![s] = "done"]
    /\ UNCHANGED <<jobVars, bytesVars, recordVars, events, run, faults>>

\* A mutant of CaptureEnded: the error of a task is raised by gather.
CaptureEndedWell(s) == capture[s] = "done"

CaptureEnded(s) == capture[s] \in {"done", "failed"}

\* The end of _supervise_run.
Finalize ==
    /\ run = "running" /\ child = "exited"
    /\ \A s \in Streams : CaptureEnded(s)
    /\ run' = "final"
    /\ UNCHANGED <<jobVars, bytesVars, recordVars, capture, events, faults>>

Capture(s) ==
    ReadChunk(s) \/ TakeRecord(s) \/ Store(s) \/ EndOfStream(s) \/ CaptureDone(s)

Next ==
    \/ Exit \/ Kill \/ Finalize
    \/ \E s \in Streams : Write(s) \/ Capture(s) \/ LogFails(s) \/ StoreFails(s)

Spec == Init /\ [][Next]_vars

\* The tasks are scheduled, the database answers, and the job gets through its
\* output if it can write it.  Nothing says that a child is ever killed.
CooperativeSpec ==
    /\ Spec /\ WF_vars(Exit) /\ WF_vars(Finalize)
    /\ \A s \in Streams : WF_vars(Write(s)) /\ WF_vars(Capture(s))

-----------------------------------------------------------------------------
(* Properties                                                              *)

TypeOK ==
    /\ script \in Scripts /\ child \in {"running", "exited"}
    /\ \A s \in Streams :
          /\ 0 <= read[s] /\ read[s] <= sent[s] /\ sent[s] <= Len(script[s])
          /\ sent[s] - read[s] <= Capacity
          /\ Ends(buffer[s]) = {}
          /\ last[s] = None \/ \E b \in Bars : last[s] = Signature[b]
          /\ hand[s] = None \/ IsEvent(hand[s].text)
          /\ capture[s] \in {"reading", "draining", "done", "failed"}
          /\ capture[s] \in {"done", "failed"} => pending[s] = {} /\ hand[s] = None
    /\ \A i \in DOMAIN events :
          events[i].stream \in Streams /\ IsEvent(events[i].event)
    /\ run \in {"running", "final"} /\ faults \in 0..MaxFaults

\* The bar that ends at e shows what the bar before it showed.
RepeatsBar(text, e) ==
    LET bars == {i \in Breaks(text) : RecordAt(text, i) \in Bars}
    IN  /\ e \in bars
        /\ \E b \in bars :
              /\ b < e /\ \A m \in bars : ~(b < m /\ m < e)
              /\ Signature[RecordAt(text, b)] = Signature[RecordAt(text, e)]

\* Where the records end that should be stored for a text, if it were cut into
\* records as a whole: its events without the repeated bars, and the unfinished
\* record at the end of the stream.
Expected(text, ended) ==
    {e \in Breaks(text) : IsEvent(RecordAt(text, e)) /\ ~RepeatsBar(text, e)}
    \cup {e \in {Len(text) + 1} : ended /\ IsEvent(RecordAt(text, e))}

Ended(s) == capture[s] \in {"draining", "done"}
Settled(s) == pending[s] = {} /\ hand[s] = None /\ capture[s] \in {"reading", "done"}
RowsOf(s) == {i \in DOMAIN events : events[i].stream = s}

\* A row holds a record of the text, and its number, which a \r\n that comes
\* in two chunks makes greater by one.
RowIsRecord(row, text) ==
    LET before(places) == Cardinality({i \in places : i < row.at})
    IN  /\ row.event = RecordAt(text, row.at)
        /\ before(Breaks(text)) < row.line /\ row.line <= before(Ends(text)) + 1

\* However the output is cut into chunks and the two tasks interleave, the
\* events of a stream are stored once each, in the order of the output, none
\* of them left out, with the numbers of their records: a record split over
\* chunks is put together again, a repeated bar is dropped but still counts.
EventsFollowOutput ==
    \A s \in Streams :
        LET expected == Expected(log[s], Ended(s))
        IN  /\ \A i \in RowsOf(s) :
                  events[i].at \in expected /\ RowIsRecord(events[i], log[s])
            /\ \A i, j \in RowsOf(s) : i < j => events[i].at < events[j].at
            /\ \A e \in expected :
                  \/ \E i \in RowsOf(s) : events[i].at = e
                  \/ ~Settled(s) /\ \A i \in RowsOf(s) : events[i].at < e

\* A run is finalized with everything its child wrote in the log, even if the
\* child was killed and if the task of the other stream failed.
LogIsComplete ==
    run = "final" =>
        \A s \in Streams :
            capture[s] = "done" => log[s] = SubSeq(script[s], 1, sent[s])

\* The child waits for a task that has failed to read.
Abandoned ==
    /\ child = "running"
    /\ \E s \in Streams : capture[s] = "failed" /\ sent[s] - read[s] = Capacity

\* A job that writes more than its pipes hold never waits for its supervisor
\* for ever, nor the supervisor for the job: the run is finalized, unless a
\* task has failed, the pipe it left is full, and nobody kills the child.
RunIsFinalized == <>(run = "final" \/ Abandoned)

=============================================================================
