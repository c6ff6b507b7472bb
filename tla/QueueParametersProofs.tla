------------------------ MODULE QueueParametersProofs ------------------------
(***************************************************************************)
(* Proofs, for definitions of any length and any submission of the values  *)
(* of Values, of what the check lets pass and of what a run stores.        *)
(***************************************************************************)
EXTENDS QueueParameters, TLAPS

-----------------------------------------------------------------------------
(* Conversions                                                             *)

Rows == [name : STRING, type : Types, default : Values \cup {None},
         required : BOOLEAN, overridable : BOOLEAN, choices : SUBSET STRING]

LEMMA ValueFacts ==
    ASSUME NEW v \in Values
    PROVE  /\ v # None /\ v[1] # "failure" /\ v[1] \in {"bool", "int", "float", "str"}
           /\ v[1] = "bool" => v[2] \in BOOLEAN
           /\ v[1] = "int" => v[2] \in {0, 1}
           /\ v[1] = "float" => v[2] \in {0, 10, 15, Infinity}
           /\ v[1] = "str" => v[2] \in Texts
  BY ParametersAssumption DEF Values

LEMMA Tagged ==
    /\ \A b \in BOOLEAN : Bool(b) \in Values
    /\ \A n \in {0, 1} : Whole(n) \in Values
    /\ \A n \in {0, 10, 15, Infinity} : Float(n) \in Values
    /\ \A s \in Texts : Str(s) \in Values
  BY DEF Bool, Whole, Float, Str, Values

LEMMA TextTyped ==
    ASSUME NEW v \in Values
    PROVE  TextOf(v) \in Texts
  <1>1. CASE v[1] = "str"
    <2>1. TextOf(v) = v[2]
      BY <1>1 DEF TextOf
    <2> QED
      BY <1>1, <2>1, ValueFacts
  <1>2. CASE v[1] = "bool"
    <2>1. TextOf(v) = IF v[2] THEN "True" ELSE "False"
      BY <1>2 DEF TextOf
    <2>2. TextOf(v) = "True" \/ TextOf(v) = "False"
      BY <2>1
    <2> QED
      BY <2>2, ParametersAssumption
  <1>3. CASE v[1] = "int"
    <2>1. /\ TextOf(v) = "0" \/ TextOf(v) = "1"
          /\ DOMAIN FloatOf = {"0", "0.0", "1", "1.0", "1.5", "inf"}
      BY <1>3 DEF TextOf, FloatOf
    <2> QED
      BY <2>1, ParametersAssumption
  <1>4. CASE v[1] = "float"
    <2>1. v[2] \in {0, 10, 15, Infinity}
      BY <1>4, ValueFacts
    <2>2. \E s \in DOMAIN FloatOf \ {"0", "1"} : FloatOf[s] = v[2]
      <3>1. /\ FloatOf["0.0"] = 0 /\ FloatOf["1.0"] = 10 /\ FloatOf["1.5"] = 15
            /\ FloatOf["inf"] = Infinity
            /\ {"0.0", "1.0", "1.5", "inf"} \subseteq DOMAIN FloatOf \ {"0", "1"}
        BY DEF FloatOf
      <3> QED
        BY <2>1, <3>1
    <2>3. DOMAIN FloatOf \ {"0", "1"} \subseteq Texts
      BY ParametersAssumption
    <2>4. TextOf(v) = CHOOSE s \in DOMAIN FloatOf \ {"0", "1"} : FloatOf[s] = v[2]
      BY <1>4 DEF TextOf
    <2> QED
      BY <2>2, <2>3, <2>4
  <1> QED
    BY <1>1, <1>2, <1>3, <1>4, ValueFacts

\* A conversion fails, or gives a value that converts to itself.
LEMMA IntegerStable ==
    ASSUME NEW v \in Values
    PROVE  \/ AsInteger(v) \in {Failure, Overflow}
           \/ AsInteger(v) \in Values /\ AsInteger(AsInteger(v)) = AsInteger(v)
  <1>1. CASE v[1] = "int"
    BY <1>1 DEF AsInteger
  <1>2. CASE v[1] = "float" /\ v[2] = Infinity
    BY <1>2 DEF AsInteger
  <1>3. CASE v[1] = "float" /\ v[2] # Infinity
    <2>1. v[2] \in {0, 10, 15}
      BY <1>3, ValueFacts
    <2>2. v[2] \div 10 \in {0, 1}
      BY <2>1
    <2>3. AsInteger(v) = Whole(v[2] \div 10)
      BY <1>3 DEF AsInteger
    <2> QED
      BY <2>2, <2>3, Tagged DEF AsInteger, Whole
  <1>4. CASE v[1] = "str" /\ v[2] \in DOMAIN IntOf
    <2>1. AsInteger(v) = Whole(IntOf[v[2]]) /\ IntOf[v[2]] \in {0, 1}
      BY <1>4 DEF AsInteger, IntOf
    <2> QED
      BY <2>1, Tagged DEF AsInteger, Whole
  <1>5. CASE v[1] \notin {"int", "float"} /\ ~(v[1] = "str" /\ v[2] \in DOMAIN IntOf)
    BY <1>5 DEF AsInteger
  <1> QED
    BY <1>1, <1>2, <1>3, <1>4, <1>5

LEMMA FloatStable ==
    ASSUME NEW v \in Values
    PROVE  \/ AsFloat(v) \in {Failure, Overflow}
           \/ AsFloat(v) \in Values /\ AsFloat(AsFloat(v)) = AsFloat(v)
  <1>1. CASE v[1] = "float"
    BY <1>1 DEF AsFloat
  <1>2. CASE v[1] = "int"
    <2>1. AsFloat(v) = Float(10 * v[2]) /\ 10 * v[2] \in {0, 10}
      BY <1>2, ValueFacts DEF AsFloat
    <2> QED
      BY <2>1, Tagged DEF AsFloat, Float
  <1>3. CASE v[1] = "str" /\ v[2] \in DOMAIN FloatOf
    <2>1. AsFloat(v) = Float(FloatOf[v[2]])
      BY <1>3 DEF AsFloat
    <2>2. FloatOf[v[2]] \in {0, 10, 15, Infinity}
      BY <1>3 DEF FloatOf
    <2> QED
      BY <2>1, <2>2, Tagged DEF AsFloat, Float
  <1>4. CASE v[1] \notin {"int", "float"} /\ ~(v[1] = "str" /\ v[2] \in DOMAIN FloatOf)
    BY <1>4 DEF AsFloat
  <1> QED
    BY <1>1, <1>2, <1>3, <1>4

LEMMA BoolStable ==
    ASSUME NEW v \in Values
    PROVE  \/ AsBool(v) \in {Failure, Overflow}
           \/ AsBool(v) \in Values /\ AsBool(AsBool(v)) = AsBool(v)
  <1>1. CASE v[1] = "bool"
    BY <1>1 DEF AsBool
  <1>2. CASE v[1] = "str" /\ v[2] \in TrueTexts
    <2>1. AsBool(v) = Bool(TRUE)
      BY <1>2 DEF AsBool, TrueTexts, FalseTexts
    <2> QED
      BY <2>1, Tagged DEF AsBool, Bool
  <1>3. CASE v[1] = "str" /\ v[2] \in FalseTexts
    <2>1. AsBool(v) = Bool(FALSE)
      BY <1>3 DEF AsBool, TrueTexts, FalseTexts
    <2> QED
      BY <2>1, Tagged DEF AsBool, Bool
  <1>4. CASE v[1] # "bool" /\ ~(v[1] = "str" /\ v[2] \in TrueTexts \cup FalseTexts)
    BY <1>4 DEF AsBool
  <1> QED
    BY <1>1, <1>2, <1>3, <1>4

LEMMA TextStable ==
    ASSUME NEW v \in Values
    PROVE  Str(TextOf(v)) \in Values /\ Str(TextOf(Str(TextOf(v)))) = Str(TextOf(v))
  BY TextTyped, Tagged DEF Str, TextOf

LEMMA ConversionStable ==
    ASSUME NEW p \in Rows, NEW v \in Values \cup {None}
    PROVE  \/ Coerced(p, v) = None /\ v = None
           \/ Coerced(p, v) \in {Failure, Overflow} /\ v # None
           \/ /\ Coerced(p, v) \in Values /\ v # None
              /\ Coerced(p, Coerced(p, v)) = Coerced(p, v)
  <1>1. CASE v = None
    BY <1>1 DEF Coerced
  <1>2. CASE v \in Values
    <2>0. v # None /\ p.type \in Types
      BY <1>2, ValueFacts DEF Rows
    <2>1. \A w \in Values : w # None
      BY ValueFacts
    <2>2. CASE p.type \in {"string", "path", "choice"}
      BY <1>2, <2>0, <2>1, <2>2, TextStable DEF Coerced
    <2>3. CASE p.type = "integer"
      BY <1>2, <2>0, <2>1, <2>3, IntegerStable DEF Coerced
    <2>4. CASE p.type = "float"
      BY <1>2, <2>0, <2>1, <2>4, FloatStable DEF Coerced
    <2>5. CASE p.type \in {"boolean", "flag"}
      BY <1>2, <2>0, <2>1, <2>5, BoolStable DEF Coerced
    <2> QED
      BY <2>0, <2>2, <2>3, <2>4, <2>5 DEF Types
  <1> QED
    BY <1>1, <1>2

-----------------------------------------------------------------------------
(* The loop over the parameters                                            *)

\* What the definition and the request are.
InputInv ==
    /\ definition \in Seq(Rows)
    /\ \A i, j \in DOMAIN definition : definition[i].name = definition[j].name => i = j
    /\ \A n \in DOMAIN submitted : submitted[n] \in Values \cup {None}

\* The parameters up to the position are acceptable and have their effective
\* value; a request that was turned down has one that is not, or an unknown one.
LoopInv ==
    /\ position \in 0 .. Len(definition) + 1
    /\ reply \in {"none", "queued", "refused", "unavailable", "error"}
    /\ position > 0 => Unknown = {}
    /\ DOMAIN effective = {definition[i].name : i \in 1 .. position - 1}
    /\ \A i \in 1 .. position - 1 :
          LET p == definition[i]
          IN  /\ Acceptable(p)
              /\ effective[p.name] = Coerced(p, Value(p)) /\ ~Fails(Coerced(p, Value(p)))
    /\ reply \in {"refused", "error"}
          => Unknown # {} \/ \E p \in Parameters : ~Acceptable(p)
    /\ reply \in {"queued", "unavailable"}
          => /\ position > Len(definition)
             /\ arguments = [i \in DOMAIN definition |->
                                Argument(definition[i], effective[definition[i].name])]

ParametersInv == InputInv /\ LoopInv

LEMMA InputTyped ==
    ASSUME InputInv, NEW i \in DOMAIN definition
    PROVE  definition[i] \in Rows /\ Value(definition[i]) \in Values \cup {None}
  <1>1. definition[i] \in Rows
    BY DEF InputInv
  <1>2. CASE Submitted(definition[i])
    BY <1>1, <1>2 DEF InputInv, Submitted, Value
  <1>3. CASE ~Submitted(definition[i])
    BY <1>1, <1>3 DEF Value, Rows
  <1> QED
    BY <1>1, <1>2, <1>3

\* The checks of one parameter, in the order of the code, are Acceptable.
LEMMA ChecksAreAcceptable ==
    ASSUME InputInv, NEW i \in DOMAIN definition
    PROVE  LET p == definition[i]
               w == Coerced(p, Value(p))
           IN  Acceptable(p) <=> ~Overrides(p) /\ ~Missing(p) /\ ~Fails(w) /\ ~NotAChoice(p, w)
  <1> DEFINE p == definition[i]
             v == Value(p)
             w == Coerced(p, v)
  <1>1. p \in Rows /\ v \in Values \cup {None}
    BY InputTyped
  <1>2. /\ v = None => w = None
        /\ v # None => w # None /\ (w \in {Failure, Overflow} \/ w \in Values)
    BY <1>1, ConversionStable, ValueFacts, ParametersAssumption
  <1>3. p.required \in BOOLEAN /\ p.overridable \in BOOLEAN
    BY <1>1 DEF Rows
  <1>4. Acceptable(p) <=> /\ Submitted(p) => p.overridable
                          /\ IF v = None THEN ~p.required
                             ELSE ~Fails(w) /\ (p.choices = {} \/ TextOf(w) \in p.choices)
    BY DEF Acceptable, Value
  <1>5. /\ Overrides(p) <=> Submitted(p) /\ ~p.overridable
        /\ Missing(p) <=> v = None /\ p.required
        /\ NotAChoice(p, w) <=> p.choices # {} /\ w # None /\ TextOf(w) \notin p.choices
    BY DEF Overrides, Missing, NotAChoice
  <1>6. Fails(w) => w # None
    BY DEF Fails
  <1> HIDE DEF p, v, w
  <1>7. Acceptable(p) <=> ~Overrides(p) /\ ~Missing(p) /\ ~Fails(w) /\ ~NotAChoice(p, w)
    BY <1>2, <1>4, <1>5, <1>6
  <1> QED
    BY <1>7 DEF p, v, w

LEMMA ParametersInit == Init => ParametersInv
  <1> SUFFICES ASSUME Init PROVE ParametersInv
    OBVIOUS
  <1>1. InputInv
    BY ParametersAssumption DEF Init, InputInv, Rows
  <1>2. position = 0 /\ reply = "none" /\ DOMAIN effective = {}
    BY DEF Init
  <1>3. LoopInv
    BY <1>1, <1>2 DEF InputInv, LoopInv
  <1> QED
    BY <1>1, <1>3 DEF ParametersInv

LEMMA ParametersStep == ParametersInv /\ [Next]_vars => ParametersInv'
  <1> SUFFICES ASSUME ParametersInv, [Next]_vars PROVE ParametersInv'
    OBVIOUS
  <1> USE DEF ParametersInv
  <1>0. UNCHANGED <<definition, submitted>>
    BY DEF Next, CheckNames, RefuseUnknown, RefuseParameter, ConversionBreaks, TakeParameter,
           CreateRun, Refuse, vars
  <1>1. InputInv'
    BY <1>0 DEF InputInv
  <1>2. /\ Unknown' = Unknown /\ Parameters' = Parameters /\ definition' = definition
        /\ \A p : /\ Acceptable(p)' <=> Acceptable(p)
                  /\ Value(p)' = Value(p)
    BY <1>0 DEF Unknown, Parameters, Acceptable, Submitted, Value
  <1>3. SUFFICES LoopInv'
    BY <1>1
  <1>4. Len(definition) \in Nat /\ DOMAIN definition = 1 .. Len(definition)
    BY DEF InputInv
  <1>5. CASE UNCHANGED vars
    BY <1>2, <1>5 DEF vars, LoopInv
  <1>6. CASE CheckNames
    BY <1>2, <1>4, <1>6 DEF CheckNames, LoopInv
  <1>7. CASE RefuseUnknown
    BY <1>2, <1>4, <1>7 DEF RefuseUnknown, Refuse, LoopInv
  <1>8. CASE RefuseParameter \/ ConversionBreaks
    <2>1. /\ position \in DOMAIN definition /\ reply' \in {"refused", "error"}
          /\ UNCHANGED <<position, effective>>
      BY <1>8 DEF RefuseParameter, ConversionBreaks, Refuse, AtParameter
    <2>2. ~Acceptable(Current)
      <3>1. Failure # None /\ Overflow # None
        BY ParametersAssumption
      <3>2. Fails(Failure) /\ Fails(Overflow)
        BY <3>1 DEF Fails, Failure, Overflow
      <3> QED
        BY <1>8, <2>1, <3>2, ChecksAreAcceptable
        DEF RefuseParameter, ConversionBreaks, Current, Converted
    <2>3. Current \in Parameters
      BY <2>1 DEF Current, Parameters
    <2> QED
      BY <1>2, <2>1, <2>2, <2>3 DEF LoopInv
  <1>9. CASE TakeParameter
    <2>1. /\ position \in DOMAIN definition /\ position' = position + 1 /\ reply = "none"
          /\ reply' = reply
          /\ effective' = [n \in DOMAIN effective \cup {Current.name} |->
                              IF n = Current.name THEN Converted ELSE effective[n]]
      BY <1>9 DEF TakeParameter, AtParameter
    <2>2. Acceptable(Current) /\ ~Fails(Converted)
      BY <1>9, <2>1, ChecksAreAcceptable DEF TakeParameter, Current, Converted
    <2>3. \A i \in 1 .. position - 1 : i \in DOMAIN definition
                                        /\ definition[i].name # Current.name
      BY <1>4, <2>1 DEF InputInv, Current
    <2>4. DOMAIN effective' = {definition[i].name : i \in 1 .. position' - 1}
      BY <1>4, <2>1 DEF LoopInv, Current
    <2>5. ASSUME NEW i \in 1 .. position' - 1
          PROVE  /\ Acceptable(definition[i])
                 /\ effective'[definition[i].name] = Coerced(definition[i], Value(definition[i]))
                 /\ ~Fails(Coerced(definition[i], Value(definition[i])))
      <3>1. CASE i = position
        BY <2>1, <2>2, <3>1 DEF Current, Converted
      <3>2. CASE i \in 1 .. position - 1
        BY <2>1, <2>3, <3>2 DEF LoopInv
      <3> QED
        BY <1>4, <2>1, <3>1, <3>2
    <2>6. position' \in 0 .. Len(definition) + 1 /\ Unknown = {}
      BY <1>4, <2>1 DEF LoopInv
    <2> QED
      BY <1>2, <2>1, <2>4, <2>5, <2>6 DEF LoopInv
  <1>10. CASE CreateRun
    <2>1. /\ position > Len(definition) /\ reply' \in {"queued", "unavailable"}
          /\ arguments' = [i \in DOMAIN definition |->
                              Argument(definition[i], effective[definition[i].name])]
          /\ UNCHANGED <<position, effective>>
      BY <1>10 DEF CreateRun
    <2> QED
      BY <1>2, <2>1 DEF LoopInv
  <1> QED
    BY <1>5, <1>6, <1>7, <1>8, <1>9, <1>10 DEF Next

LEMMA ParametersInvariant == Spec => []ParametersInv
  BY ParametersInit, ParametersStep, PTL DEF Spec

\* A run is made of every request whose parameters are acceptable one by one,
\* and of no other, whatever the order and the number of the parameters.
THEOREM AcceptableIsQueued == Spec => []QueuedIfAcceptable
  <1>1. ParametersInv => QueuedIfAcceptable
    <2> SUFFICES ASSUME ParametersInv, reply # "none"
                 PROVE  reply \in {"queued", "unavailable"}
                           <=> Unknown = {} /\ \A p \in Parameters : Acceptable(p)
      BY DEF QueuedIfAcceptable
    <2>0. reply \in {"queued", "unavailable"} \/ reply \in {"refused", "error"}
      BY DEF ParametersInv, LoopInv
    <2>1. ASSUME reply \in {"queued", "unavailable"}
          PROVE  Unknown = {} /\ \A p \in Parameters : Acceptable(p)
      <3>1. /\ Len(definition) \in Nat /\ DOMAIN definition = 1 .. Len(definition)
            /\ position \in Nat /\ position > Len(definition) /\ position - 1 \in Nat
        BY <2>1 DEF ParametersInv, InputInv, LoopInv
      <3>2. ASSUME NEW i \in DOMAIN definition PROVE Acceptable(definition[i])
        BY <3>1 DEF ParametersInv, LoopInv
      <3>3. ASSUME NEW p \in Parameters PROVE Acceptable(p)
        <4>1. PICK i \in DOMAIN definition : p = definition[i]
          BY DEF Parameters
        <4> QED
          BY <3>2, <4>1
      <3>4. position > 0
        BY <3>1
      <3>5. Unknown = {}
        BY <3>4 DEF ParametersInv, LoopInv
      <3> QED
        BY <3>3, <3>5
    <2>2. ASSUME reply \in {"refused", "error"}
          PROVE  /\ reply \notin {"queued", "unavailable"}
                 /\ ~(Unknown = {} /\ \A p \in Parameters : Acceptable(p))
      <3>1. Unknown # {} \/ \E p \in Parameters : ~Acceptable(p)
        BY <2>2 DEF ParametersInv, LoopInv
      <3> QED
        BY <2>2, <3>1
    <2> QED
      BY <2>0, <2>1, <2>2
  <1> QED
    BY <1>1, ParametersInvariant, PTL

\* The stored parameters of a run convert to themselves and pass the checks
\* again, whatever texts, numbers and booleans were submitted.
THEOREM StoredConvertToThemselves == Spec => []StoredIsStable
  <1>1. ParametersInv => StoredIsStable
    <2> SUFFICES ASSUME ParametersInv, reply = "queued", NEW i \in DOMAIN definition
                 PROVE  LET p == definition[i]
                            v == effective[p.name]
                        IN  /\ Coerced(p, v) = v
                            /\ v = None => ~p.required
                            /\ v # None /\ p.choices # {} => TextOf(v) \in p.choices
      BY DEF StoredIsStable, Parameters
    <2> DEFINE p == definition[i]
               v == effective[p.name]
    <2>1. /\ Len(definition) \in Nat /\ DOMAIN definition = 1 .. Len(definition)
          /\ position \in Nat /\ position > Len(definition)
      BY DEF ParametersInv, InputInv, LoopInv
    <2>2. Acceptable(p) /\ v = Coerced(p, Value(p)) /\ ~Fails(v)
      BY <2>1 DEF ParametersInv, LoopInv
    <2>3. p \in Rows /\ Value(p) \in Values \cup {None}
      BY InputTyped DEF ParametersInv
    <2>4. ~Missing(p) /\ ~NotAChoice(p, v)
      BY <2>2, ChecksAreAcceptable DEF ParametersInv
    <2>5. \/ Value(p) = None /\ v = None
          \/ v \in Values /\ Coerced(p, v) = v
      <3>1. Fails(Failure) /\ Fails(Overflow)
        BY ParametersAssumption DEF Fails, Failure, Overflow
      <3> QED
        BY <2>2, <2>3, <3>1, ConversionStable
    <2> HIDE DEF p, v
    <2>6. /\ Coerced(p, v) = v
          /\ v = None => ~p.required
          /\ v # None /\ p.choices # {} => TextOf(v) \in p.choices
      <3>1. CASE v = None
        BY <2>4, <2>5, <3>1, ValueFacts DEF Missing, Coerced
      <3>2. CASE v # None
        BY <2>4, <2>5, <3>2 DEF NotAChoice
      <3> QED
        BY <3>1, <3>2
    <2> QED
      BY <2>6 DEF p, v
  <1> QED
    BY <1>1, ParametersInvariant, PTL

-----------------------------------------------------------------------------
(* The command                                                             *)

\* A value of a type other than flag is found again in the text it is given as.
LEMMA TextTellsValue ==
    ASSUME NEW p \in Rows, p.type # "flag", NEW v \in Values, Coerced(p, v) = v
    PROVE  Coerced(p, Str(CliText(v))) = v
  <1>0. v # None /\ v = <<v[1], v[2]>> /\ p.type \in Types
    BY ValueFacts DEF Values, Rows
  <1>1. \A s : Str(s) # None => Coerced(p, Str(s)) =
              CASE p.type \in {"string", "path", "choice"} -> Str(TextOf(Str(s)))
                [] p.type = "integer" -> AsInteger(Str(s))
                [] p.type = "float" -> AsFloat(Str(s))
                [] p.type \in {"boolean", "flag"} -> AsBool(Str(s))
    BY DEF Coerced
  <1>2. CASE p.type \in {"string", "path", "choice"}
    <2>1. v = Str(TextOf(v))
      BY <1>0, <1>2 DEF Coerced
    <2>2. v[1] = "str" /\ Str(v[2]) = v
      BY <2>1, <1>0 DEF Str
    <2>3. CliText(v) = v[2]
      BY <2>2 DEF CliText, TextOf
    <2> QED
      BY <2>2, <2>3
  <1>3. CASE p.type = "integer"
    <2>1. AsInteger(v) = v
      BY <1>0, <1>3 DEF Coerced
    <2>2. v[1] = "int"
      BY <2>1, ValueFacts DEF AsInteger, Whole, Overflow, Failure
    <2>3. v[2] \in {0, 1}
      BY <2>2, ValueFacts
    <2>4. CliText(v) = IF v[2] = 0 THEN "0" ELSE "1"
      BY <2>2 DEF CliText, TextOf
    <2>5. CliText(v) \in DOMAIN IntOf /\ IntOf[CliText(v)] = v[2]
      BY <2>3, <2>4 DEF IntOf
    <2>6. AsInteger(Str(CliText(v))) = Whole(v[2])
      BY <2>5 DEF AsInteger, Str
    <2>7. Whole(v[2]) = v
      BY <1>0, <2>2 DEF Whole
    <2>8. CliText(v) \in Texts
      BY <2>4, ParametersAssumption DEF FloatOf
    <2> QED
      BY <1>1, <1>3, <2>6, <2>7, <2>8, Tagged, ValueFacts
  <1>4. CASE p.type = "float"
    <2>1. AsFloat(v) = v
      BY <1>0, <1>4 DEF Coerced
    <2>2. v[1] = "float"
      BY <2>1, ValueFacts DEF AsFloat, Float, Failure
    <2>3. v[2] \in {0, 10, 15, Infinity}
      BY <2>2, ValueFacts
    <2>4. CliText(v) = CHOOSE s \in DOMAIN FloatOf \ {"0", "1"} : FloatOf[s] = v[2]
      BY <2>2 DEF CliText, TextOf
    <2>5. \E s \in DOMAIN FloatOf \ {"0", "1"} : FloatOf[s] = v[2]
      <3>1. /\ FloatOf["0.0"] = 0 /\ FloatOf["1.0"] = 10 /\ FloatOf["1.5"] = 15
            /\ FloatOf["inf"] = Infinity
            /\ {"0.0", "1.0", "1.5", "inf"} \subseteq DOMAIN FloatOf \ {"0", "1"}
        BY DEF FloatOf
      <3> QED
        BY <2>3, <3>1
    <2>6. CliText(v) \in DOMAIN FloatOf /\ FloatOf[CliText(v)] = v[2]
      BY <2>4, <2>5
    <2>7. AsFloat(Str(CliText(v))) = Float(v[2])
      BY <2>6 DEF AsFloat, Str
    <2>8. Float(v[2]) = v
      BY <1>0, <2>2 DEF Float
    <2>9. CliText(v) \in Texts
      BY <2>6, ParametersAssumption
    <2> QED
      BY <1>1, <1>4, <2>7, <2>8, <2>9, Tagged, ValueFacts
  <1>5. CASE p.type = "boolean"
    <2>1. AsBool(v) = v
      BY <1>0, <1>5 DEF Coerced
    <2>2. v[1] = "bool"
      <3>1. AsBool(v) \in {Bool(TRUE), Bool(FALSE), Failure} \/ v[1] = "bool"
        BY DEF AsBool
      <3>2. Bool(TRUE)[1] = "bool" /\ Bool(FALSE)[1] = "bool" /\ Failure[1] = "failure"
        BY DEF Bool, Failure
      <3>3. v[1] # "failure"
        BY ValueFacts
      <3> QED
        BY <2>1, <3>1, <3>2, <3>3
    <2>3. v[2] \in BOOLEAN
      BY <2>2, ValueFacts
    <2>4. CliText(v) = IF v[2] THEN "true" ELSE "false"
      BY <2>2 DEF CliText
    <2>5. AsBool(Str(CliText(v))) = Bool(v[2])
      <3>1. CASE v[2] = TRUE
        BY <2>4, <3>1 DEF AsBool, Str, TrueTexts, FalseTexts
      <3>2. CASE v[2] = FALSE
        BY <2>4, <3>2 DEF AsBool, Str, TrueTexts, FalseTexts
      <3> QED
        BY <2>3, <3>1, <3>2
    <2>6. Bool(v[2]) = v
      BY <1>0, <2>2 DEF Bool
    <2>7. CliText(v) \in Texts
      BY <2>4, ParametersAssumption
    <2> QED
      BY <1>1, <1>5, <2>5, <2>6, <2>7, Tagged, ValueFacts
  <1> QED
    BY <1>0, <1>2, <1>3, <1>4, <1>5 DEF Types

\* Reading the arguments of the command back by the rules of the conversion
\* finds exactly the parameters that the run shows, for every parameter.
THEOREM CommandIsReadBack == Spec => []CommandTellsParameters
  <1>1. ParametersInv => CommandTellsParameters
    <2> SUFFICES ASSUME ParametersInv, reply = "queued", NEW param \in Parameters
                 PROVE  LET p == param
                            mine == {a \in Range(arguments) : a # <<>> /\ a[1] = p.name}
                            v == effective[p.name]
                        IN  IF mine = {}
                            THEN v \in {None} \cup (IF p.type = "flag" THEN {Bool(FALSE)} ELSE {})
                            ELSE IF p.type = "flag" THEN mine = {<<p.name>>} /\ v = Bool(TRUE)
                            ELSE \E a \in mine : mine = {a} /\ Coerced(p, Str(a[2])) = v
      BY Zenon DEF CommandTellsParameters
    <2>0. PICK i \in DOMAIN definition : param = definition[i]
      BY DEF Parameters
    <2> DEFINE p == definition[i]
               v == effective[p.name]
               own == Argument(p, v)
               mine == {a \in Range(arguments) : a # <<>> /\ a[1] = p.name}
    <2>1. /\ Len(definition) \in Nat /\ DOMAIN definition = 1 .. Len(definition)
          /\ position \in Nat /\ position > Len(definition)
          /\ arguments = [j \in DOMAIN definition |->
                             Argument(definition[j], effective[definition[j].name])]
      <3>1. reply \in {"queued", "unavailable"}
        OBVIOUS
      <3> QED
        BY <3>1 DEF ParametersInv, InputInv, LoopInv
    <2>2. v = Coerced(p, Value(p)) /\ ~Fails(v)
      BY <2>1 DEF ParametersInv, LoopInv
    <2>3. p \in Rows /\ Value(p) \in Values \cup {None}
      BY InputTyped DEF ParametersInv
    <2>4. v = None \/ (v \in Values /\ Coerced(p, v) = v)
      <3>1. Fails(Failure) /\ Fails(Overflow)
        BY ParametersAssumption DEF Fails, Failure, Overflow
      <3> QED
        BY <2>2, <2>3, <3>1, ConversionStable
    <2>5. \A q, w : Argument(q, w) # <<>> => Argument(q, w)[1] = q.name
      BY DEF Argument
    <2>6. mine = IF own = <<>> THEN {} ELSE {own}
      <3>1. Range(arguments) = {Argument(definition[j], effective[definition[j].name]) :
                                   j \in DOMAIN definition}
        BY <2>1 DEF Range
      <3>2. \A j \in DOMAIN definition : definition[j].name = p.name => j = i
        BY DEF ParametersInv, InputInv
      <3> HIDE DEF own
      <3>3. ASSUME NEW a \in mine PROVE a = own /\ own # <<>>
        <4>1. PICK j \in DOMAIN definition :
                     a = Argument(definition[j], effective[definition[j].name])
          BY <3>1
        <4>2. definition[j].name = p.name
          BY <2>5, <4>1
        <4> QED
          BY <3>2, <4>1, <4>2 DEF own
      <3>4. own # <<>> => own \in mine
        BY <2>5, <3>1 DEF own
      <3> QED
        BY <3>3, <3>4
    <2> HIDE DEF mine, p, v
    <2>7. IF mine = {}
          THEN v \in {None} \cup (IF p.type = "flag" THEN {Bool(FALSE)} ELSE {})
          ELSE IF p.type = "flag" THEN mine = {<<p.name>>} /\ v = Bool(TRUE)
          ELSE \E a \in mine : mine = {a} /\ Coerced(p, Str(a[2])) = v
      <3>1. CASE v = None
        BY <2>6, <3>1 DEF Argument
      <3>2. CASE v # None /\ p.type = "flag"
        <4>1. AsBool(v) = v
          BY <2>4, <3>2 DEF Coerced
        <4>2. v = Bool(TRUE) \/ v = Bool(FALSE)
          <5>1. AsBool(v) \in {Bool(TRUE), Bool(FALSE), Failure} \/ v[1] = "bool"
            BY DEF AsBool
          <5>2. CASE v[1] = "bool"
            <6>1. v[2] \in BOOLEAN /\ v = <<v[1], v[2]>>
              BY <2>4, <3>2, <5>2, ValueFacts DEF Values
            <6> QED
              BY <5>2, <6>1 DEF Bool
          <5>3. v # Failure
            BY <2>4, <3>2, ValueFacts DEF Failure
          <5> QED
            BY <4>1, <5>1, <5>2, <5>3
        <4>3. own = IF v = Bool(TRUE) THEN <<p.name>> ELSE <<>>
          BY <3>2 DEF Argument
        <4> HIDE DEF own
        <4> QED
          BY <2>6, <3>2, <4>2, <4>3
      <3>3. CASE v # None /\ p.type # "flag"
        <4>1. own = <<p.name, CliText(v)>>
          BY <3>3 DEF Argument
        <4>2. Coerced(p, Str(CliText(v))) = v
          BY <2>3, <2>4, <3>3, TextTellsValue DEF p
        <4> HIDE DEF own
        <4>3. own # <<>> /\ own[2] = CliText(v)
          BY <4>1
        <4> QED
          BY <2>6, <3>3, <4>2, <4>3
      <3> QED
        BY <3>1, <3>2, <3>3
    <2> QED
      BY <2>0, <2>7 DEF mine, p, v
  <1> QED
    BY <1>1, ParametersInvariant, PTL
==============================================================================
