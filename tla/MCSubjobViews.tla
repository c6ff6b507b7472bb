--------------------------- MODULE MCSubjobViews ---------------------------
EXTENDS SubjobViews

TwoStreams == {"stdout", "stderr"}

Kind(type, subjob, status) ==
    [type |-> type, subjob |-> subjob, status |-> status,
     progress |-> FALSE, numbered |-> FALSE]

Progress(subjob, numbered) ==
    [type |-> "progress", subjob |-> subjob, status |-> None,
     progress |-> TRUE, numbered |-> numbered]

\* Events of two subjobs, one of them named by a number, and of the run; "7"
\* stands for a number that is given as a status.
MCKinds ==
    {Kind(type, "a", status) : type \in {"started", "warning", "completed"},
                               status \in {None, "running", "failed"}}
    \cup {Kind(type, "a", "7") : type \in {"started", "completed"}}
    \cup {Kind(type, "a", "") : type \in {"warning", "completed"}}
    \cup {Kind("failed", "a", None), Kind("completed", "4", None)}
    \cup {Progress("a", TRUE), Progress(None, TRUE), Progress(None, FALSE)}
=============================================================================
