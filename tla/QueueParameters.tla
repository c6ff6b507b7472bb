--------------------------- MODULE QueueParameters ---------------------------
(***************************************************************************)
(* Queueing a run: the parameters submitted with the request are checked   *)
(* against the definition one by one, converted to the declared types, and *)
(* turned into the arguments of the command.  Values are tagged as Python  *)
(* tells them apart; the conversions between text and values are given for *)
(* the texts of Text.                                                      *)
(***************************************************************************)
EXTENDS Integers, Sequences, Functions

CONSTANTS
    Definitions,    \* sequences of parameters as a definition declares them
    Submissions,    \* functions from some names to values, as clients send them
    Texts,          \* the texts that are sent or that a value is written as
    None            \* null

VARIABLES
    definition,     \* the definition's parameters
    submitted,      \* the parameters of the request
    position,       \* which one the loop is at
    effective,      \* the effective parameters so far
    reply,          \* "none", "queued", "refused" (422), "unavailable" (503) or "error" (500)
    arguments       \* what the command got appended for each parameter, in order:
                    \* <<flag>>, <<flag, text>> or nothing

vars == <<definition, submitted, position, effective, reply, arguments>>

Bool(b) == <<"bool", b>>
Whole(n) == <<"int", n>>
Float(tenths) == <<"float", tenths>>
Str(s) == <<"str", s>>
Infinity == 1000000
Failure == <<"failure", "refused">>
Overflow == <<"failure", "error">>

Values == ({"bool"} \X BOOLEAN) \cup ({"int"} \X {0, 1})
          \cup ({"float"} \X {0, 10, 15, Infinity}) \cup ({"str"} \X Texts)
Types == {"string", "path", "choice", "integer", "float", "boolean", "flag"}

-----------------------------------------------------------------------------
(* Text                                                                    *)

\* int() and float() of a text, where they succeed, and the texts of booleans.
IntOf == [s \in {"0", "1"} |-> IF s = "0" THEN 0 ELSE 1]
FloatOf == [s \in {"0", "0.0", "1", "1.0", "1.5", "inf"} |->
               CASE s \in {"0", "0.0"} -> 0
                 [] s \in {"1", "1.0"} -> 10
                 [] s = "1.5" -> 15
                 [] OTHER -> Infinity]
TrueTexts == {"true", "True", "1", "yes", "on"}
FalseTexts == {"false", "False", "0", "no", "off"}

\* str(value)
TextOf(v) ==
    CASE v[1] = "str" -> v[2]
      [] v[1] = "bool" -> IF v[2] THEN "True" ELSE "False"
      [] v[1] = "int" -> IF v[2] = 0 THEN "0" ELSE "1"
      [] OTHER -> CHOOSE s \in DOMAIN FloatOf \ {"0", "1"} : FloatOf[s] = v[2]

ASSUME ParametersAssumption ==
    /\ \A d \in Definitions :
          /\ d \in Seq([name : STRING, type : Types, default : Values \cup {None},
                       required : BOOLEAN, overridable : BOOLEAN, choices : SUBSET STRING])
          /\ \A i, j \in DOMAIN d : d[i].name = d[j].name => i = j
    /\ \A s \in Submissions : \A n \in DOMAIN s : s[n] \in Values \cup {None}
    /\ {"True", "False", "true", "false"} \cup DOMAIN FloatOf \subseteq Texts
    /\ None \notin Values \cup {Failure, Overflow}

-----------------------------------------------------------------------------
(* Conversion to the declared type                                         *)

\* int(value): a float loses its fraction, an infinite one has no integer and
\* raises an error the code does not expect.
AsInteger(v) ==
    CASE v[1] = "int" -> v
      [] v[1] = "float" -> IF v[2] = Infinity THEN Overflow ELSE Whole(v[2] \div 10)
      [] v[1] = "str" /\ v[2] \in DOMAIN IntOf -> Whole(IntOf[v[2]])
      [] OTHER -> Failure

AsFloat(v) ==
    CASE v[1] = "float" -> v
      [] v[1] = "int" -> Float(10 * v[2])
      [] v[1] = "str" /\ v[2] \in DOMAIN FloatOf -> Float(FloatOf[v[2]])
      [] OTHER -> Failure

AsBool(v) ==
    CASE v[1] = "bool" -> v
      [] v[1] = "str" /\ v[2] \in TrueTexts -> Bool(TRUE)
      [] v[1] = "str" /\ v[2] \in FalseTexts -> Bool(FALSE)
      [] OTHER -> Failure

\* _coerce_parameter_value
Coerced(p, v) ==
    IF v = None THEN None
    ELSE CASE p.type \in {"string", "path", "choice"} -> Str(TextOf(v))
           [] p.type = "integer" -> AsInteger(v)
           [] p.type = "float" -> AsFloat(v)
           [] p.type \in {"boolean", "flag"} -> AsBool(v)

Fails(v) == v # None /\ v[1] = "failure"

-----------------------------------------------------------------------------
(* _build_effective_parameters                                             *)

NamesOf(d) == {d[i].name : i \in DOMAIN d}
Unknown == DOMAIN submitted \ NamesOf(definition)

Submitted(p) == p.name \in DOMAIN submitted

\* A submitted null replaces the default.
Value(p) == IF Submitted(p) THEN submitted[p.name] ELSE p.default

\* A mutant of Overrides: null is not an override.
OverridesByValue(p) == Submitted(p) /\ submitted[p.name] # None /\ ~p.overridable

Overrides(p) == Submitted(p) /\ ~p.overridable
Missing(p) == Value(p) = None /\ p.required

\* A mutant of NotAChoice: the value as submitted is looked up.
NotAChoiceAsSent(p, v) ==
    p.choices # {} /\ v # None /\ TextOf(Value(p)) \notin p.choices

NotAChoice(p, v) == p.choices # {} /\ v # None /\ TextOf(v) \notin p.choices

Init ==
    /\ definition \in Definitions /\ submitted \in Submissions
    /\ position = 0 /\ effective = <<>> /\ reply = "none" /\ arguments = <<>>

Refuse == reply' = "refused" /\ UNCHANGED <<definition, submitted, position, effective, arguments>>

CheckNames ==
    /\ position = 0 /\ reply = "none" /\ Unknown = {}
    /\ position' = 1
    /\ UNCHANGED <<definition, submitted, effective, reply, arguments>>

RefuseUnknown == position = 0 /\ reply = "none" /\ Unknown # {} /\ Refuse

AtParameter == reply = "none" /\ position \in DOMAIN definition
Current == definition[position]
Converted == Coerced(Current, Value(Current))

RefuseParameter ==
    /\ AtParameter
    /\ \/ Overrides(Current)
       \/ Missing(Current)
       \/ Converted = Failure
       \/ ~Fails(Converted) /\ NotAChoice(Current, Converted)
    /\ Refuse

ConversionBreaks ==
    /\ AtParameter /\ ~Overrides(Current) /\ ~Missing(Current) /\ Converted = Overflow
    /\ reply' = "error"
    /\ UNCHANGED <<definition, submitted, position, effective, arguments>>

TakeParameter ==
    /\ AtParameter /\ ~Overrides(Current) /\ ~Missing(Current)
    /\ ~Fails(Converted) /\ ~NotAChoice(Current, Converted)
    /\ effective' = [n \in DOMAIN effective \cup {Current.name} |->
                        IF n = Current.name THEN Converted ELSE effective[n]]
    /\ position' = position + 1
    /\ UNCHANGED <<definition, submitted, reply, arguments>>

-----------------------------------------------------------------------------
(* _build_effective_command and the run                                    *)

\* _parameter_cli_value
CliText(v) == IF v[1] = "bool" THEN (IF v[2] THEN "true" ELSE "false") ELSE TextOf(v)

\* A mutant of Argument: a flag is given whenever it has a value.
ArgumentIfSet(p, v) ==
    CASE v = None -> <<>>
      [] v # None /\ p.type = "flag" -> <<p.name>>
      [] OTHER -> <<p.name, CliText(v)>>

\* The parameter's name stands for its cli_flag.
Argument(p, v) ==
    CASE v = None -> <<>>
      [] v # None /\ p.type = "flag" -> IF v = Bool(TRUE) THEN <<p.name>> ELSE <<>>
      [] OTHER -> <<p.name, CliText(v)>>

\* PostgreSQL has no JSON for an infinite number.
Storable == \A n \in DOMAIN effective : effective[n] # Float(Infinity)

CreateRun ==
    /\ reply = "none" /\ position > Len(definition)
    /\ arguments' = [i \in DOMAIN definition |->
                        Argument(definition[i], effective[definition[i].name])]
    /\ reply' = IF Storable THEN "queued" ELSE "unavailable"
    /\ UNCHANGED <<definition, submitted, position, effective>>

Next ==
    CheckNames \/ RefuseUnknown \/ RefuseParameter \/ ConversionBreaks \/ TakeParameter
    \/ CreateRun

Spec == Init /\ [][Next]_vars

-----------------------------------------------------------------------------
(* Properties                                                              *)

Parameters == {definition[i] : i \in DOMAIN definition}

\* What the request and the definition say of parameter p, whatever the other
\* parameters are: it is left alone where it must be, is there where it must
\* be, has its type, and is one of the choices.
Acceptable(p) ==
    /\ Submitted(p) => p.overridable
    /\ LET v == IF Submitted(p) THEN submitted[p.name] ELSE p.default
       IN  IF v = None THEN ~p.required
           ELSE \E w \in {Coerced(p, v)} :
                   ~Fails(w) /\ (p.choices = {} \/ TextOf(w) \in p.choices)

\* A run is made of every acceptable request and of no other, in whatever
\* order the definition lists its parameters.
QueuedIfAcceptable ==
    reply # "none" =>
        (reply \in {"queued", "unavailable"}
            <=> Unknown = {} /\ \A p \in Parameters : Acceptable(p))

\* The parameters a run shows could be submitted again: each is accepted as it
\* stands and converts to itself.
StoredIsStable ==
    reply = "queued" =>
        \A p \in Parameters :
            LET v == effective[p.name]
            IN  /\ Coerced(p, v) = v
                /\ v = None => ~p.required
                /\ v # None /\ p.choices # {} => TextOf(v) \in p.choices

\* A program that reads its arguments by the same rules finds the parameters
\* the run shows; what is not given is null or, for a flag, not set.
CommandTellsParameters ==
    reply = "queued" =>
        \A p \in Parameters :
            LET mine == {a \in Range(arguments) : a # <<>> /\ a[1] = p.name}
                v == effective[p.name]
            IN  IF mine = {} THEN v \in {None} \cup (IF p.type = "flag" THEN {Bool(FALSE)} ELSE {})
                ELSE IF p.type = "flag" THEN mine = {<<p.name>>} /\ v = Bool(TRUE)
                ELSE \E a \in mine : mine = {a} /\ Coerced(p, Str(a[2])) = v
==============================================================================
