-------------------------- MODULE MCQueueParameters --------------------------
EXTENDS QueueParameters

MCTexts == DOMAIN FloatOf \cup {"True", "False", "true", "false", "off", "text"}

Sent ==
    {None} \cup {Bool(b) : b \in BOOLEAN} \cup {Whole(n) : n \in 0 .. 1}
    \cup {Float(n) : n \in {10, 15, Infinity}}
    \cup {Str(s) : s \in {"1", "1.5", "True", "off", "inf", "text"}}

\* PostgreSQL stores no infinite default.
First ==
    [name : {"a"}, type : {"string", "integer", "float", "boolean", "flag"},
     default : Sent \ {Float(Infinity)}, required : BOOLEAN, overridable : BOOLEAN,
     choices : {{}, {"1", "true"}, {"True", "1.5"}}]

Second ==
    [name : {"b"}, type : {"integer", "flag"}, default : {None, Str("1")},
     required : BOOLEAN, overridable : {TRUE}, choices : {{}}]

TwoParameters == {<<p, q>> : p \in First, q \in Second}

Choosing(names) == [names -> Sent]
Requests ==
    Choosing({"a"}) \cup Choosing({})
    \cup [{"a", "b"} -> {None, Bool(TRUE), Float(15), Float(Infinity)}]
    \cup [{"a", "unknown"} -> {Str("1")}]
==============================================================================
