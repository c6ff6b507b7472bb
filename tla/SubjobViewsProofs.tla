------------------------- MODULE SubjobViewsProofs -------------------------
(***************************************************************************)
(* Proofs, for any job, any number of streams and any number of events, of *)
(* what the views of the API rely on: the order of the event rows, and the *)
(* progress that is shown for a run.                                       *)
(***************************************************************************)
EXTENDS SubjobViews, WellFoundedInduction, TLAPS

-----------------------------------------------------------------------------
(* Natural numbers                                                         *)

LEMMA LeastExists ==
    ASSUME NEW T, T \subseteq Nat, T # {}
    PROVE  \E x \in T : \A y \in T : x <= y
  <1>1. PICK x \in T : \A y \in T : <<y, x>> \notin OpToRel(<, Nat)
    BY NatLessThanWellFounded, WFMin
  <1>2. \A y \in T : ~(y < x)
    BY <1>1 DEF OpToRel
  <1> QED
    BY <1>2

LEMMA GreatestExists ==
    ASSUME NEW T, T \subseteq Nat, T # {}, NEW b \in Nat, \A x \in T : x <= b
    PROVE  \E x \in T : \A y \in T : y <= x
  <1> DEFINE D == {b - x : x \in T}
  <1>1. \A x \in T : x \in Nat /\ b - x \in Nat
    OBVIOUS
  <1>2. D \subseteq Nat /\ D # {}
    BY <1>1
  <1>3. PICK d \in D : \A e \in D : d <= e
    BY <1>2, LeastExists
  <1>4. PICK x \in T : d = b - x
    OBVIOUS
  <1>5. \A y \in T : b - x <= b - y
    BY <1>3, <1>4
  <1> QED
    BY <1>1, <1>5

-----------------------------------------------------------------------------
(* The rows                                                                *)

Event == [stream : Streams, kind : Kinds, sequence : {None} \cup Nat]

RowTypes == emitted \in Seq(Event) /\ stored \in Seq(Nat)

\* A stream is stored without gaps and in its order.
InStreamOrder ==
    /\ \A i, j \in DOMAIN emitted :
          emitted[i].stream = emitted[j].stream /\ i < j /\ j \in ToSet(stored)
              => i \in ToSet(stored)
    /\ \A n, m \in DOMAIN stored :
          emitted[stored[n]].stream = emitted[stored[m]].stream /\ n < m
              => stored[n] < stored[m]

RowsInv == RowTypes /\ TypeOK /\ InStreamOrder

LEMMA RowsInit == Init => RowsInv
  BY ViewsAssumption DEF Init, RowsInv, RowTypes, TypeOK, InStreamOrder, IsInjective, ToSet

LEMMA EmitKeepsRows ==
    ASSUME RowsInv, NEW s \in Streams, NEW kind \in Kinds, Emit(s, kind)
    PROVE  RowsInv'
  <1> DEFINE e == [stream |-> s, kind |-> kind,
                   sequence |-> IF kind.numbered THEN Len(emitted) + 1 ELSE None]
  <1>1. emitted \in Seq(Event) /\ e \in Event /\ emitted' = Append(emitted, e)
    BY DEF Emit, RowsInv, RowTypes, Event
  <1>2. /\ Len(emitted') = Len(emitted) + 1 /\ emitted' \in Seq(Event)
        /\ DOMAIN emitted' = DOMAIN emitted \cup {Len(emitted) + 1}
        /\ \A i \in DOMAIN emitted : emitted'[i] = emitted[i]
        /\ emitted'[Len(emitted) + 1] = e
    BY <1>1
  <1>3. stored' = stored /\ ToSet(stored)' = ToSet(stored) /\ Len(emitted) < MaxEvents
    BY DEF Emit, ToSet
  <1>4. e.sequence \in {None, Len(emitted) + 1}
    OBVIOUS
  <1> HIDE DEF e
  <1>5. TypeOK'
    BY <1>1, <1>2, <1>3, <1>4, ViewsAssumption DEF RowsInv, TypeOK, RowTypes
  <1>6. \A n \in DOMAIN stored : stored[n] \in DOMAIN emitted
    BY DEF RowsInv, TypeOK, ToSet
  <1>7. Len(emitted) + 1 \notin ToSet(stored) /\ \A i \in DOMAIN emitted : i < Len(emitted) + 1
    BY <1>1 DEF RowsInv, TypeOK
  <1>8. InStreamOrder'
    BY <1>2, <1>3, <1>6, <1>7 DEF RowsInv, InStreamOrder
  <1> QED
    BY <1>2, <1>3, <1>5, <1>8 DEF RowsInv, RowTypes

LEMMA StoreKeepsRows ==
    ASSUME RowsInv, NEW s \in Streams, Store(s)
    PROVE  RowsInv'
  <1>0. Waiting(s) # {} /\ DOMAIN emitted \subseteq Nat
    BY DEF Store, RowsInv, RowTypes
  <1>1. /\ Waiting(s) # {} /\ Waiting(s) \subseteq Nat
        /\ \A x \in Waiting(s) :
              x \in DOMAIN emitted /\ emitted[x].stream = s /\ x \notin ToSet(stored)
    BY <1>0 DEF Waiting
  <1> DEFINE i == CHOOSE x \in Waiting(s) : \A y \in Waiting(s) : x <= y
  <1>2. i \in Waiting(s) /\ \A y \in Waiting(s) : i <= y
    BY <1>1, LeastExists
  <1>3. stored' = Append(stored, i) /\ emitted' = emitted
    BY DEF Store
  <1> HIDE DEF i
  <1>4. /\ stored \in Seq(Nat) /\ i \in Nat /\ i \in DOMAIN emitted
        /\ emitted[i].stream = s /\ i \notin ToSet(stored)
    BY <1>1, <1>2 DEF RowsInv, RowTypes
  <1>5. /\ stored' \in Seq(Nat)
        /\ DOMAIN stored' = DOMAIN stored \cup {Len(stored) + 1}
        /\ \A n \in DOMAIN stored : stored'[n] = stored[n] /\ n < Len(stored) + 1
        /\ stored'[Len(stored) + 1] = i
    BY <1>3, <1>4
  <1>6. ToSet(stored)' = ToSet(stored) \cup {i}
    BY <1>5 DEF ToSet
  <1>7. \A n \in DOMAIN stored : stored[n] \in ToSet(stored) /\ stored[n] # i
    BY <1>4 DEF ToSet
  <1>8. TypeOK'
    BY <1>3, <1>4, <1>5, <1>6, <1>7 DEF RowsInv, TypeOK, IsInjective
  <1>9. ASSUME NEW x \in DOMAIN emitted, emitted[x].stream = s, x < i
        PROVE  x \in ToSet(stored)
    BY <1>2, <1>4, <1>9 DEF Waiting, RowsInv, RowTypes
  <1>10. ASSUME NEW n \in DOMAIN stored, emitted[stored[n]].stream = s
         PROVE  stored[n] < i
    <2>1. stored[n] \in DOMAIN emitted /\ stored[n] \in Nat
      BY <1>7 DEF RowsInv, TypeOK, RowTypes
    <2>2. ~(i < stored[n])
      BY <1>4, <1>7, <1>10, <2>1 DEF RowsInv, InStreamOrder
    <2> QED
      BY <1>4, <1>7, <2>1, <2>2
  <1>11. \A x, y \in DOMAIN emitted' :
            emitted'[x].stream = emitted'[y].stream /\ x < y /\ y \in ToSet(stored)'
                => x \in ToSet(stored)'
    BY <1>3, <1>4, <1>6, <1>9 DEF RowsInv, InStreamOrder
  <1>12. \A n, m \in DOMAIN stored' :
            emitted'[stored'[n]].stream = emitted'[stored'[m]].stream /\ n < m
                => stored'[n] < stored'[m]
    <2> SUFFICES ASSUME NEW n \in DOMAIN stored', NEW m \in DOMAIN stored', n < m,
                        emitted'[stored'[n]].stream = emitted'[stored'[m]].stream
                 PROVE  stored'[n] < stored'[m]
      OBVIOUS
    <2>1. n \in DOMAIN stored
      BY <1>4, <1>5
    <2>2. CASE m \in DOMAIN stored
      BY <1>3, <1>5, <2>1, <2>2 DEF RowsInv, InStreamOrder
    <2>3. CASE m = Len(stored) + 1
      BY <1>3, <1>4, <1>5, <1>10, <2>1, <2>3
    <2> QED
      BY <1>5, <2>2, <2>3
  <1> QED
    BY <1>3, <1>5, <1>8, <1>11, <1>12 DEF RowsInv, RowTypes, InStreamOrder

LEMMA RowsInvariant == Spec => []RowsInv
  <1>1. RowsInv /\ UNCHANGED vars => RowsInv'
    BY DEF vars, RowsInv, RowTypes, TypeOK, InStreamOrder
  <1>2. RowsInv /\ [Next]_vars => RowsInv'
    BY <1>1, EmitKeepsRows, StoreKeepsRows DEF Next
  <1> QED
    BY <1>2, RowsInit, PTL DEF Spec

\* The rows are distinct events of the job, and an event's sequence number is
\* its position, whatever the two capture tasks do.
THEOREM TypeCorrect == Spec => []TypeOK
  BY RowsInvariant, PTL DEF RowsInv

-----------------------------------------------------------------------------
(* The progress of a run                                                   *)

\* If the job numbers its progress events, the order of the key is that of the
\* events.
LEMMA NumberedOrder ==
    ASSUME RowsInv, \A n \in ProgressRows : emitted[stored[n]].sequence # None,
           NEW n \in ProgressRows, NEW m \in ProgressRows
    PROVE  ShownAfter(n, m) <=> stored[n] > stored[m]
  <1>1. \A k \in ProgressRows : stored[k] \in DOMAIN emitted
    BY DEF ProgressRows, RowsInv, TypeOK, ToSet
  <1>2. \A k \in ProgressRows : emitted[stored[k]].sequence = stored[k]
    BY <1>1 DEF RowsInv, TypeOK
  <1> QED
    BY <1>2 DEF ShownAfter

\* If it numbers none and writes them to one stream, so is that of the rows.
LEMMA UnnumberedOrder ==
    ASSUME RowsInv, \A n \in ProgressRows : emitted[stored[n]].sequence = None,
           NEW n \in ProgressRows, NEW m \in ProgressRows
    PROVE  ShownAfter(n, m) <=> n > m
  BY DEF ShownAfter

\* Some row is shown, and none of the other rows is shown after it.
LEMMA ProgressIsChosen ==
    ASSUME RowsInv, UniformlyNumbered, ProgressRows # {}
    PROVE  /\ RunProgress \in ProgressRows
           /\ \A m \in ProgressRows \ {RunProgress} : ShownAfter(RunProgress, m)
  <1>1. SUFFICES \E n \in ProgressRows : \A m \in ProgressRows \ {n} : ShownAfter(n, m)
    BY DEF RunProgress
  <1>2. /\ stored \in Seq(Nat) /\ emitted \in Seq(Event)
        /\ ProgressRows \subseteq DOMAIN stored
        /\ Len(emitted) \in Nat /\ Len(stored) \in Nat
        /\ DOMAIN emitted = 1 .. Len(emitted)
    BY DEF RowsInv, RowTypes, ProgressRows
  <1>3. \A n \in ProgressRows : stored[n] \in 1 .. Len(emitted)
    <2>1. \A n \in DOMAIN stored : stored[n] \in ToSet(stored)
      BY DEF ToSet
    <2> QED
      BY <1>2, <2>1 DEF RowsInv, TypeOK
  <1>4. CASE \A n \in ProgressRows : emitted[stored[n]].sequence # None
    <2> DEFINE T == {stored[n] : n \in ProgressRows}
    <2>1. T \subseteq Nat /\ T # {} /\ \A x \in T : x <= Len(emitted)
      BY <1>2, <1>3
    <2>2. PICK x \in T : \A y \in T : y <= x
      BY <1>2, <2>1, GreatestExists
    <2>3. PICK n \in ProgressRows : stored[n] = x
      OBVIOUS
    <2>4. \A m \in ProgressRows \ {n} : stored[m] <= stored[n] /\ stored[m] # stored[n]
      BY <1>2, <2>2, <2>3 DEF RowsInv, TypeOK, IsInjective
    <2>5. \A m \in ProgressRows \ {n} : ShownAfter(n, m)
      BY <1>3, <1>4, <2>4, NumberedOrder
    <2> QED
      BY <2>5
  <1>5. CASE \A n \in ProgressRows : emitted[stored[n]].sequence = None
    <2>1. ProgressRows \subseteq Nat /\ \A n \in ProgressRows : n <= Len(stored)
      BY <1>2
    <2>2. PICK n \in ProgressRows : \A m \in ProgressRows : m <= n
      BY <1>2, <2>1, GreatestExists
    <2>3. \A m \in ProgressRows \ {n} : ShownAfter(n, m)
      BY <1>5, <2>1, <2>2, UnnumberedOrder
    <2> QED
      BY <2>3
  <1> QED
    BY <1>4, <1>5 DEF UniformlyNumbered

\* A job that numbers all its progress events, or writes them to one stream
\* and numbers none, has its latest stored progress shown.
THEOREM LatestIsShown == Spec => []ProgressIsLatest
  <1>1. RowsInv => ProgressIsLatest
    <2> SUFFICES ASSUME RowsInv, UniformlyNumbered, NEW n \in ProgressRows
                 PROVE  stored[n] <= stored[RunProgress]
      BY DEF ProgressIsLatest
    <2>1. /\ RunProgress \in ProgressRows
          /\ n # RunProgress => ShownAfter(RunProgress, n)
      BY ProgressIsChosen
    <2>2. /\ ProgressRows \subseteq DOMAIN stored /\ stored \in Seq(Nat)
          /\ stored[n] \in Nat /\ stored[RunProgress] \in Nat
          /\ n \in Nat /\ RunProgress \in Nat
      BY <2>1 DEF RowsInv, RowTypes, ProgressRows
    <2>3. CASE n = RunProgress
      BY <2>2, <2>3
    <2>4. CASE n # RunProgress /\ \A m \in ProgressRows : emitted[stored[m]].sequence # None
      BY <2>1, <2>2, <2>4, NumberedOrder
    <2>5. CASE /\ n # RunProgress
               /\ \A m \in ProgressRows : emitted[stored[m]].sequence = None
               /\ \A k, m \in ProgressRows :
                     emitted[stored[k]].stream = emitted[stored[m]].stream
      BY <2>1, <2>2, <2>5, UnnumberedOrder DEF RowsInv, InStreamOrder
    <2> QED
      BY <2>3, <2>4, <2>5 DEF UniformlyNumbered
  <1> QED
    BY <1>1, RowsInvariant, PTL

-----------------------------------------------------------------------------
(* The views                                                               *)

\* Whatever holds at 0 and of n + 1 with n holds up to N.
LEMMA Induction ==
    ASSUME NEW N \in Nat, NEW S, 0 \in S, \A n \in 0 .. N - 1 : n \in S => n + 1 \in S
    PROVE  0 .. N \subseteq S
  <1> DEFINE T == {n \in 0 .. N : n \notin S}
  <1> SUFFICES ASSUME T # {} PROVE FALSE
    OBVIOUS
  <1>1. T \subseteq Nat
    OBVIOUS
  <1>2. PICK n \in T : \A k \in T : n <= k
    BY <1>1, LeastExists
  <1>3. n \in 1 .. N /\ n - 1 \in 0 .. N - 1
    OBVIOUS
  <1>4. n - 1 \notin T
    BY <1>2, <1>3
  <1> QED
    BY <1>3, <1>4

\* The values a loop goes through that starts with a and applies step[n] in
\* its n-th round.
IsLoop(f, N, V, a, step) ==
    f \in [0 .. N -> V] /\ f[0] = a /\ \A n \in 1 .. N : f[n] = step[n][f[n - 1]]

LEMMA LoopExists ==
    ASSUME NEW N \in Nat, NEW V, NEW a \in V, NEW step \in [1 .. N -> [V -> V]]
    PROVE  \E f : IsLoop(f, N, V, a, step)
  <1> DEFINE Loop(f, k) == /\ f \in [0 .. k -> V] /\ f[0] = a
                           /\ \A n \in 1 .. k : f[n] = step[n][f[n - 1]]
             S == {k \in 0 .. N : \E f : Loop(f, k)}
  <1>1. 0 \in S
    <2> DEFINE f == [n \in 0 .. 0 |-> a]
    <2>1. Loop(f, 0)
      OBVIOUS
    <2> HIDE DEF f, Loop
    <2> QED
      BY <2>1
  <1>2. ASSUME NEW k \in 0 .. N - 1, k \in S PROVE k + 1 \in S
    <2>1. PICK f : Loop(f, k)
      BY <1>2
    <2> DEFINE g == [n \in 0 .. k + 1 |-> IF n = k + 1 THEN step[k + 1][f[k]] ELSE f[n]]
    <2>2. f[k] \in V /\ step[k + 1] \in [V -> V] /\ k + 1 \in 0 .. N /\ k \in Nat
      BY <2>1
    <2>3. g \in [0 .. k + 1 -> V] /\ g[0] = a
      BY <2>1, <2>2
    <2>4. ASSUME NEW n \in 1 .. k + 1 PROVE g[n] = step[n][g[n - 1]]
      <3>1. CASE n = k + 1
        BY <2>2, <3>1
      <3>2. CASE n \in 1 .. k
        BY <2>1, <2>2, <3>2
      <3> QED
        BY <2>2, <3>1, <3>2
    <2>5. Loop(g, k + 1)
      BY <2>3, <2>4
    <2> HIDE DEF g, Loop
    <2> QED
      BY <2>2, <2>5
  <1>3. N \in S
    <2> HIDE DEF S
    <2>1. 0 .. N \subseteq S
      BY <1>1, <1>2, Induction
    <2> QED
      BY <2>1
  <1>4. PICK f : Loop(f, N)
    BY <1>3
  <1>5. IsLoop(f, N, V, a, step)
    BY <1>4 DEF IsLoop
  <1> QED
    BY <1>5

Statuses == {k.status : k \in Kinds} \cup {None, "pending", "running", "complete", "failed"}
Details == [stated : Statuses, status : Statuses]

LEMMA RowsTyped ==
    ASSUME RowsInv
    PROVE  /\ Len(stored) \in Nat /\ DOMAIN stored = 1 .. Len(stored)
           /\ \A n \in DOMAIN stored :
                 Rows[n] \in Kinds /\ Rows[n].subjob \in Ids \cup {None}
                 /\ Rows[n].status \in Statuses
  <1>1. \A n \in DOMAIN stored : stored[n] \in ToSet(stored)
    BY DEF ToSet
  <1>2. \A n \in DOMAIN stored : stored[n] \in DOMAIN emitted
    BY <1>1 DEF RowsInv, TypeOK
  <1>3. \A n \in DOMAIN stored : Rows[n] \in Kinds
    <2>1. \A i \in DOMAIN emitted : emitted[i] \in Event
      BY DEF RowsInv, RowTypes
    <2>2. \A i \in DOMAIN emitted : emitted[i].kind \in Kinds
      BY <2>1 DEF Event
    <2> QED
      BY <1>2, <2>2 DEF Rows
  <1> QED
    BY <1>3, ViewsAssumption DEF Statuses, RowsInv, RowTypes

LEMMA StatusTyped ==
    ASSUME NEW row \in Kinds
    PROVE  /\ \A previous \in Statuses : ListStatus(previous, row) \in Statuses \ {None}
           /\ \A previous \in Details :
                 /\ DetailStatus(previous, row) \in Details
                 /\ DetailStatus(previous, row).status # None
  <1>1. row.status \in Statuses
    BY DEF Statuses
  <1>2. \A previous \in Statuses : Implied(row.type, previous) \in Statuses \ {None}
    BY ViewsAssumption DEF Implied, Statuses
  <1> QED
    BY <1>1, <1>2 DEF ListStatus, DetailStatus, Details, IsText, IsString

\* The list view after the first n rows, row by row.
LEMMA ListViewIs ==
    ASSUME RowsInv
    PROVE  /\ ListViews \in [0 .. Len(stored) -> [Ids -> Statuses]]
           /\ ListViews[0] = [id \in Ids |-> None]
           /\ \A n \in 1 .. Len(stored) :
                 ListViews[n] = IF Rows[n].subjob = None THEN ListViews[n - 1]
                                ELSE [ListViews[n - 1] EXCEPT ![Rows[n].subjob] =
                                         ListStatus(ListViews[n - 1][Rows[n].subjob], Rows[n])]
  <1> DEFINE N == Len(stored)
             V == [Ids -> Statuses]
             a == [id \in Ids |-> None]
             Next1(n, v) == IF Rows[n].subjob = None THEN v
                            ELSE [v EXCEPT ![Rows[n].subjob] =
                                     ListStatus(v[Rows[n].subjob], Rows[n])]
             step == [n \in 1 .. N |-> [v \in V |-> Next1(n, v)]]
  <1>1. N \in Nat /\ a \in V
    BY RowsTyped DEF Statuses
  <1>2. ASSUME NEW n \in 1 .. N, NEW v \in V PROVE Next1(n, v) \in V
    BY <1>2, RowsTyped, StatusTyped
  <1>3. step \in [1 .. N -> [V -> V]]
    BY <1>2
  <1> HIDE DEF step, a, V, N, Next1
  <1>12. PICK f : IsLoop(f, N, V, a, step)
    BY <1>1, <1>3, LoopExists
  <1>4. f \in [0 .. N -> V] /\ f[0] = a /\ \A n \in 1 .. N : f[n] = step[n][f[n - 1]]
    BY <1>12 DEF IsLoop
  <1>5. \A n \in 1 .. N : f[n] = Next1(n, f[n - 1])
    <2>1. \A n \in 1 .. N : f[n - 1] \in V
      BY <1>1, <1>4
    <2> QED
      BY <1>4, <2>1 DEF step
  <1>6. f = [n \in 0 .. N |-> IF n = 0 THEN a ELSE Next1(n, f[n - 1])]
    <2>1. \A n \in 0 .. N : f[n] = IF n = 0 THEN a ELSE Next1(n, f[n - 1])
      BY <1>1, <1>4, <1>5
    <2> QED
      BY <1>4, <2>1
  <1>7. ListViews = CHOOSE g : g = [n \in 0 .. N |-> IF n = 0 THEN a ELSE Next1(n, g[n - 1])]
    BY DEF ListViews, Next1, a, N
  <1>8. ListViews = [n \in 0 .. N |-> IF n = 0 THEN a ELSE Next1(n, ListViews[n - 1])]
    BY <1>6, <1>7
  <1>9. /\ DOMAIN ListViews = 0 .. N /\ ListViews[0] = a
        /\ \A n \in 1 .. N : ListViews[n] = Next1(n, ListViews[n - 1])
    BY <1>1, <1>8
  <1> DEFINE U == {n \in 0 .. N : ListViews[n] \in V}
  <1>10. 0 .. N \subseteq U
    <2>1. 0 \in U
      BY <1>1, <1>9
    <2>2. ASSUME NEW n \in 0 .. N - 1, n \in U PROVE n + 1 \in U
      <3>1. n + 1 \in 1 .. N /\ (n + 1) - 1 = n /\ n + 1 \in 0 .. N /\ ListViews[n] \in V
        BY <1>1, <2>2
      <3> QED
        BY <1>2, <1>9, <3>1
    <2> HIDE DEF U
    <2> QED
      BY <1>1, <2>1, <2>2, Induction
  <1>11. ListViews \in [0 .. N -> V]
    BY <1>8, <1>10
  <1> QED
    BY <1>9, <1>11 DEF Next1, a, V, N

\* The view of one run after the first n rows, row by row.
LEMMA DetailViewIs ==
    ASSUME RowsInv
    PROVE  /\ DetailViews \in [0 .. Len(stored) -> [Ids -> Details]]
           /\ DetailViews[0] = [id \in Ids |-> [stated |-> None, status |-> None]]
           /\ \A n \in 1 .. Len(stored) :
                 DetailViews[n] = IF Rows[n].subjob \in NumericIds \cup {None} THEN DetailViews[n - 1]
                                ELSE [DetailViews[n - 1] EXCEPT ![Rows[n].subjob] =
                                         DetailStatus(DetailViews[n - 1][Rows[n].subjob], Rows[n])]
  <1> DEFINE N == Len(stored)
             V == [Ids -> Details]
             a == [id \in Ids |-> [stated |-> None, status |-> None]]
             Next1(n, v) == IF Rows[n].subjob \in NumericIds \cup {None} THEN v
                            ELSE [v EXCEPT ![Rows[n].subjob] =
                                     DetailStatus(v[Rows[n].subjob], Rows[n])]
             step == [n \in 1 .. N |-> [v \in V |-> Next1(n, v)]]
  <1>1. N \in Nat /\ a \in V
    BY RowsTyped DEF Statuses, Details
  <1>2. ASSUME NEW n \in 1 .. N, NEW v \in V PROVE Next1(n, v) \in V
    BY <1>2, RowsTyped, StatusTyped
  <1>3. step \in [1 .. N -> [V -> V]]
    BY <1>2
  <1> HIDE DEF step, a, V, N, Next1
  <1>12. PICK f : IsLoop(f, N, V, a, step)
    BY <1>1, <1>3, LoopExists
  <1>4. f \in [0 .. N -> V] /\ f[0] = a /\ \A n \in 1 .. N : f[n] = step[n][f[n - 1]]
    BY <1>12 DEF IsLoop
  <1>5. \A n \in 1 .. N : f[n] = Next1(n, f[n - 1])
    <2>1. \A n \in 1 .. N : f[n - 1] \in V
      BY <1>1, <1>4
    <2> QED
      BY <1>4, <2>1 DEF step
  <1>6. f = [n \in 0 .. N |-> IF n = 0 THEN a ELSE Next1(n, f[n - 1])]
    <2>1. \A n \in 0 .. N : f[n] = IF n = 0 THEN a ELSE Next1(n, f[n - 1])
      BY <1>1, <1>4, <1>5
    <2> QED
      BY <1>4, <2>1
  <1>7. DetailViews = CHOOSE g : g = [n \in 0 .. N |-> IF n = 0 THEN a ELSE Next1(n, g[n - 1])]
    BY DEF DetailViews, Next1, a, N
  <1>8. DetailViews = [n \in 0 .. N |-> IF n = 0 THEN a ELSE Next1(n, DetailViews[n - 1])]
    BY <1>6, <1>7
  <1>9. /\ DOMAIN DetailViews = 0 .. N /\ DetailViews[0] = a
        /\ \A n \in 1 .. N : DetailViews[n] = Next1(n, DetailViews[n - 1])
    BY <1>1, <1>8
  <1> DEFINE U == {n \in 0 .. N : DetailViews[n] \in V}
  <1>10. 0 .. N \subseteq U
    <2>1. 0 \in U
      BY <1>1, <1>9
    <2>2. ASSUME NEW n \in 0 .. N - 1, n \in U PROVE n + 1 \in U
      <3>1. n + 1 \in 1 .. N /\ (n + 1) - 1 = n /\ n + 1 \in 0 .. N /\ DetailViews[n] \in V
        BY <1>1, <2>2
      <3> QED
        BY <1>2, <1>9, <3>1
    <2> HIDE DEF U
    <2> QED
      BY <1>1, <2>1, <2>2, Induction
  <1>11. DetailViews \in [0 .. N -> V]
    BY <1>8, <1>10
  <1> QED
    BY <1>9, <1>11 DEF Next1, a, V, N

RowsUpTo(id, n) == {k \in 1 .. n : Rows[k].subjob = id}

LastString(id, n, k) ==
    /\ k \in RowsUpTo(id, n) /\ IsString(Rows[k].status)
    /\ \A m \in RowsUpTo(id, n) : m > k => ~IsString(Rows[m].status)

\* A status left out or given as a number, and no string since.
StatusLeftOut(id, n) ==
    \E k, m \in RowsUpTo(id, n) : k < m /\ LastString(id, n, k) /\ Rows[m].status = None

NumberGiven(id, n) ==
    \E k \in RowsUpTo(id, n) :
        /\ Rows[k].status \in NumericStatuses
        /\ \A m \in RowsUpTo(id, n) : m > k => ~IsString(Rows[m].status)

MayDiffer(id, n) == StatusLeftOut(id, n) \/ NumberGiven(id, n)

\* How the two views of a subjob are related after the first n rows.
ViewsRelated(id, n) ==
    LET list == ListViews[n][id]
        detail == DetailViews[n][id]
    IN  /\ list = None <=> RowsUpTo(id, n) = {}
        /\ id \in NumericIds => detail.status = None
        /\ id \notin NumericIds =>
              /\ detail.status = None <=> RowsUpTo(id, n) = {}
              /\ list = detail.status \/ MayDiffer(id, n)
              /\ IsString(detail.stated) =>
                    /\ detail.status = detail.stated
                    /\ \E k \in RowsUpTo(id, n) : LastString(id, n, k)

LEMMA RelatedAtFirst ==
    ASSUME RowsInv, NEW id \in Ids
    PROVE  ViewsRelated(id, 0)
  <1>1. ListViews[0][id] = None /\ DetailViews[0][id] = [stated |-> None, status |-> None]
    BY ListViewIs, DetailViewIs
  <1>2. RowsUpTo(id, 0) = {}
    BY DEF RowsUpTo
  <1> QED
    BY <1>1, <1>2 DEF ViewsRelated, IsString, IsText

\* A row of another subjob, or of the run, changes neither.
LEMMA RelatedByOther ==
    ASSUME RowsInv, NEW id \in Ids, NEW n \in 0 .. Len(stored) - 1,
           ViewsRelated(id, n), Rows[n + 1].subjob # id
    PROVE  ViewsRelated(id, n + 1)
  <1>1. /\ n \in Nat /\ n + 1 \in 1 .. Len(stored) /\ n \in 0 .. Len(stored) /\ (n + 1) - 1 = n
        /\ Rows[n + 1].subjob \in Ids \cup {None}
    BY RowsTyped
  <1>2. ListViews[n + 1][id] = ListViews[n][id]
    <2>1. ListViews[n] \in [Ids -> Statuses]
      BY <1>1, ListViewIs
    <2>2. ListViews[n + 1] = IF Rows[n + 1].subjob = None THEN ListViews[n]
                             ELSE [ListViews[n] EXCEPT ![Rows[n + 1].subjob] =
                                      ListStatus(ListViews[n][Rows[n + 1].subjob], Rows[n + 1])]
      BY <1>1, ListViewIs
    <2> QED
      BY <2>1, <2>2
  <1>3. DetailViews[n + 1][id] = DetailViews[n][id]
    <2>1. DetailViews[n] \in [Ids -> Details]
      BY <1>1, DetailViewIs
    <2>2. DetailViews[n + 1] =
              IF Rows[n + 1].subjob \in NumericIds \cup {None} THEN DetailViews[n]
              ELSE [DetailViews[n] EXCEPT ![Rows[n + 1].subjob] =
                       DetailStatus(DetailViews[n][Rows[n + 1].subjob], Rows[n + 1])]
      BY <1>1, DetailViewIs
    <2> QED
      BY <2>1, <2>2
  <1>4. RowsUpTo(id, n + 1) = RowsUpTo(id, n)
    BY <1>1 DEF RowsUpTo
  <1>5. /\ \A k : LastString(id, n + 1, k) <=> LastString(id, n, k)
        /\ MayDiffer(id, n + 1) <=> MayDiffer(id, n)
    BY <1>4 DEF LastString, StatusLeftOut, NumberGiven, MayDiffer
  <1> QED
    BY <1>2, <1>3, <1>4, <1>5 DEF ViewsRelated

\* A row of the subjob itself.
LEMMA RelatedByOwn ==
    ASSUME RowsInv, NEW id \in Ids, NEW n \in 0 .. Len(stored) - 1,
           ViewsRelated(id, n), Rows[n + 1].subjob = id
    PROVE  ViewsRelated(id, n + 1)
  <1> DEFINE row == Rows[n + 1]
             list == ListViews[n][id]
             detail == DetailViews[n][id]
  <1>1. /\ n \in Nat /\ n + 1 \in 1 .. Len(stored) /\ n \in 0 .. Len(stored) /\ (n + 1) - 1 = n
        /\ row \in Kinds /\ id # None
    BY RowsTyped, ViewsAssumption
  <1>2. list \in Statuses /\ ListViews[n + 1][id] = ListStatus(list, row)
    <2>1. ListViews[n] \in [Ids -> Statuses]
      BY <1>1, ListViewIs
    <2>2. ListViews[n + 1] = [ListViews[n] EXCEPT ![id] = ListStatus(list, row)]
      BY <1>1, ListViewIs
    <2> QED
      BY <2>1, <2>2
  <1>3. /\ detail \in Details
        /\ DetailViews[n + 1][id] = IF id \in NumericIds THEN detail ELSE DetailStatus(detail, row)
    <2>1. DetailViews[n] \in [Ids -> Details]
      BY <1>1, DetailViewIs
    <2>2. DetailViews[n + 1] =
              IF id \in NumericIds THEN DetailViews[n]
              ELSE [DetailViews[n] EXCEPT ![id] = DetailStatus(detail, row)]
      BY <1>1, DetailViewIs
    <2> QED
      BY <2>1, <2>2
  <1>4. /\ ListStatus(list, row) # None
        /\ DetailStatus(detail, row) \in Details /\ DetailStatus(detail, row).status # None
    BY <1>1, <1>2, <1>3, StatusTyped
  <1>5. /\ RowsUpTo(id, n + 1) = RowsUpTo(id, n) \cup {n + 1} /\ RowsUpTo(id, n) \subseteq 1 .. n
        /\ n + 1 \notin RowsUpTo(id, n) /\ n + 1 \in RowsUpTo(id, n + 1)
        /\ \A k \in RowsUpTo(id, n) : k < n + 1
    BY <1>1 DEF RowsUpTo
  <1>6. id \in NumericIds => ViewsRelated(id, n + 1)
    BY <1>2, <1>3, <1>4, <1>5 DEF ViewsRelated
  <1>7. \A k \in Nat : ~IsString(row.status) =>
            /\ LastString(id, n, k) => LastString(id, n + 1, k)
            /\ MayDiffer(id, n) => MayDiffer(id, n + 1)
    BY <1>5 DEF LastString, StatusLeftOut, NumberGiven, MayDiffer
  <1>8. CASE id \notin NumericIds /\ IsString(row.status)
    <2>1. /\ ListViews[n + 1][id] = row.status
          /\ DetailViews[n + 1][id] = [stated |-> row.status, status |-> row.status]
      BY <1>2, <1>3, <1>8 DEF ListStatus, DetailStatus, IsString, IsText
    <2>2. LastString(id, n + 1, n + 1)
      BY <1>1, <1>5, <1>8 DEF LastString
    <2>3. row.status # None
      BY <1>8 DEF IsString, IsText
    <2> QED
      BY <1>5, <1>8, <2>1, <2>2, <2>3 DEF ViewsRelated
  <1>9. CASE id \notin NumericIds /\ row.status \in NumericStatuses \ {None}
    <2>1. ~IsString(row.status)
      BY <1>9 DEF IsString
    <2>2. NumberGiven(id, n + 1)
      BY <1>1, <1>5, <1>9 DEF NumberGiven
    <2>3. ~IsString(DetailViews[n + 1][id].stated)
      BY <1>3, <1>9, <2>1 DEF DetailStatus
    <2> QED
      BY <1>2, <1>3, <1>4, <1>5, <1>9, <2>2, <2>3 DEF ViewsRelated, MayDiffer
  <1>10. CASE /\ id \notin NumericIds /\ ~IsText(row.status)
              /\ row.status # None \/ ~IsString(detail.stated)
    <2>1. ~IsString(row.status)
      BY <1>10 DEF IsString
    <2>2. /\ ListViews[n + 1][id] = Implied(row.type, list)
          /\ DetailViews[n + 1][id].status = Implied(row.type, detail.status)
          /\ ~IsString(DetailViews[n + 1][id].stated)
      BY <1>2, <1>3, <1>10, <2>1 DEF ListStatus, DetailStatus
    <2>3. list = detail.status \/ MayDiffer(id, n + 1)
      BY <1>1, <1>7, <1>10, <2>1 DEF ViewsRelated
    <2> QED
      BY <1>2, <1>3, <1>4, <1>5, <1>10, <2>2, <2>3 DEF ViewsRelated
  <1>11. CASE id \notin NumericIds /\ row.status = None /\ IsString(detail.stated)
    <2>1. PICK k \in RowsUpTo(id, n) : LastString(id, n, k)
      BY <1>11 DEF ViewsRelated
    <2>2. k \in Nat /\ k \in RowsUpTo(id, n + 1) /\ ~IsString(row.status)
      BY <1>5, <1>11 DEF IsString, IsText
    <2>3. LastString(id, n + 1, k)
      BY <1>7, <2>1, <2>2
    <2>4. StatusLeftOut(id, n + 1)
      BY <1>5, <1>11, <2>1, <2>3 DEF StatusLeftOut
    <2>5. DetailViews[n + 1][id] = [stated |-> detail.stated, status |-> detail.stated]
      BY <1>3, <1>11 DEF DetailStatus
    <2> QED
      BY <1>2, <1>4, <1>5, <1>11, <2>2, <2>3, <2>4, <2>5 DEF ViewsRelated, MayDiffer
  <1>12. IsString(row.status) \/ row.status \in NumericStatuses \ {None} \/ ~IsText(row.status)
    BY DEF IsString, IsText
  <1> QED
    BY <1>6, <1>8, <1>9, <1>10, <1>11, <1>12

LEMMA ViewsStayRelated ==
    ASSUME RowsInv, NEW id \in Ids
    PROVE  ViewsRelated(id, Len(stored))
  <1> DEFINE S == {n \in 0 .. Len(stored) : ViewsRelated(id, n)}
  <1>1. Len(stored) \in Nat
    BY RowsTyped
  <1>2. 0 \in S
    BY <1>1, RelatedAtFirst
  <1>3. ASSUME NEW n \in 0 .. Len(stored) - 1, n \in S PROVE n + 1 \in S
    <2>1. ViewsRelated(id, n + 1)
      BY <1>3, RelatedByOther, RelatedByOwn
    <2> QED
      BY <1>1, <2>1
  <1> HIDE DEF S
  <1>4. 0 .. Len(stored) \subseteq S
    BY <1>1, <1>2, <1>3, Induction
  <1> USE DEF S
  <1> QED
    BY <1>1, <1>4

\* The list of runs and the view of one run give a subjob the same status,
\* except after a status that was left out or is not a string, and count the
\* same subjobs, except those with a number for an id.
THEOREM ViewsAlwaysAgree == Spec => []ViewsAgree
  <1>1. RowsInv => ViewsAgree
    <2> SUFFICES ASSUME RowsInv PROVE ViewsAgree
      OBVIOUS
    <2>1. /\ DOMAIN stored = 1 .. Len(stored)
          /\ \A id \in Ids : RowsOf(id) = RowsUpTo(id, Len(stored))
      BY RowsTyped DEF RowsOf, RowsUpTo
    <2>2. ASSUME NEW id \in Ids, MayDiffer(id, Len(stored))
          PROVE  LeavesStatusOut(id) \/ GivesNumber(id)
      BY <2>1, <2>2 DEF MayDiffer, StatusLeftOut, NumberGiven, LastString, LeavesStatusOut,
         GivesNumber
    <2>3. \A id \in Ids : ViewsRelated(id, Len(stored))
      BY ViewsStayRelated
    <2>4. ASSUME NEW id \in Ids \ NumericIds
          PROVE  \/ ListView[id] = DetailView[id].status
                 \/ LeavesStatusOut(id) \/ GivesNumber(id)
      BY <2>2, <2>3 DEF ViewsRelated, ListView, DetailView
    <2>5. ASSUME \A id \in Ids : id \in NumericIds => RowsOf(id) = {}
          PROVE  ListSummary.total = DetailSummary.total
      <3>1. \A id \in Ids : ListView[id] = None <=> DetailView[id].status = None
        BY <2>1, <2>3, <2>5 DEF ViewsRelated, ListView, DetailView
      <3>2. {id \in Ids : ListView[id] # None}
              = {id \in Ids : [i \in Ids |-> DetailView[i].status][id] # None}
        BY <3>1
      <3> QED
        BY <3>2 DEF ListSummary, DetailSummary, Summary
    <2> QED
      BY <2>4, <2>5 DEF ViewsAgree
  <1> QED
    BY <1>1, RowsInvariant, PTL

=============================================================================
