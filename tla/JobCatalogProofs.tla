-------------------------- MODULE JobCatalogProofs --------------------------
(***************************************************************************)
(* Proofs, for any number of requests, definitions and contents, of the    *)
(* safety properties of the job catalog.                                   *)
(***************************************************************************)
EXTENDS JobCatalog, FiniteSetTheorems, WellFoundedInduction, TLAPS

-----------------------------------------------------------------------------
(* The next position                                                       *)

LEMMA LeastExists ==
    ASSUME NEW T, T \subseteq Nat, T # {}
    PROVE  \E x \in T : \A y \in T : x <= y
  <1>1. PICK x \in T : \A y \in T : <<y, x>> \notin OpToRel(<, Nat)
    BY NatLessThanWellFounded, WFMin
  <1>2. \A y \in T : ~(y < x)
    BY <1>1 DEF OpToRel
  <1> QED
    BY <1>2

\* A finite set of numbers has a bound: otherwise take the shortest beginning
\* of an enumeration of it that has none.
LEMMA BoundExists ==
    ASSUME NEW T, T \subseteq Nat, IsFiniteSet(T)
    PROVE  \E b \in Nat : \A x \in T : x <= b
  <1>0. PICK n \in Nat : ExistsSurjection(1 .. n, T)
    BY FS_NatSurjection
  <1>1. PICK f \in [1 .. n -> T] : \A x \in T : \E i \in 1 .. n : f[i] = x
    BY <1>0 DEF Surjection, ExistsSurjection
  <1> DEFINE Bounded(k) == \E b \in Nat : \A i \in 1 .. k : f[i] <= b
  <1> DEFINE U == {k \in 0 .. n : ~Bounded(k)}
  <1>2. U \subseteq Nat /\ \A k \in 0 .. n : k \in U <=> ~Bounded(k)
    OBVIOUS
  <1>3. /\ Bounded(0)
        /\ Bounded(n) => \E b \in Nat : \A x \in T : x <= b
        /\ \A k \in U : k \in 0 .. n
    <2>1. Bounded(0)
      <3>1. \A i \in 1 .. 0 : f[i] <= 0
        OBVIOUS
      <3> QED
        BY <3>1
    <2>2. ASSUME Bounded(n) PROVE \E b \in Nat : \A x \in T : x <= b
      BY <1>1, <2>2
    <2>3. \A k \in U : k \in 0 .. n
      OBVIOUS
    <2> QED
      BY <2>1, <2>2, <2>3
  <1> HIDE DEF U
  <1>4. CASE U = {}
    <2> HIDE DEF Bounded
    <2>1. Bounded(n)
      BY <1>0, <1>2, <1>4
    <2> QED
      BY <1>3, <2>1
  <1>5. SUFFICES ASSUME U # {} PROVE FALSE
    BY <1>4
  <1> HIDE DEF Bounded
  <1>6. PICK k \in U : \A l \in U : k <= l
    BY <1>2, <1>5, LeastExists
  <1>7. k # 0 /\ k \in 0 .. n /\ ~Bounded(k)
    BY <1>0, <1>2, <1>3, <1>6
  <1>8. k \in 1 .. n /\ k - 1 \in 0 .. n
    BY <1>0, <1>7
  <1>9. Bounded(k - 1)
    <2>1. k - 1 \notin U
      BY <1>6, <1>8
    <2> QED
      BY <1>2, <1>8, <2>1
  <1> USE DEF Bounded
  <1>10. PICK b \in Nat : \A i \in 1 .. (k - 1) : f[i] <= b
    BY <1>9
  <1>11. f[k] \in Nat /\ \A i \in 1 .. n : f[i] \in Nat
    BY <1>0, <1>1, <1>8
  <1>12. \A i \in 1 .. k : f[i] <= b + f[k]
    <2> SUFFICES ASSUME NEW i \in 1 .. k PROVE f[i] <= b + f[k]
      OBVIOUS
    <2>1. CASE i = k
      BY <1>10, <1>11, <2>1
    <2>2. CASE i \in 1 .. (k - 1)
      <3>1. f[i] <= b /\ f[i] \in Nat
        BY <1>0, <1>8, <1>10, <1>11, <2>2
      <3> QED
        BY <1>10, <1>11, <3>1
    <2> QED
      BY <1>8, <2>1, <2>2
  <1>13. b + f[k] \in Nat
    BY <1>10, <1>11
  <1> QED
    BY <1>7, <1>12, <1>13

LEMMA MaxTyped ==
    ASSUME NEW T, T \subseteq Nat, IsFiniteSet(T), T # {}
    PROVE  Max(T) \in Nat
  <1>1. PICK b \in Nat : \A x \in T : x <= b
    BY BoundExists
  <1> DEFINE D == {b - x : x \in T}
  <1>2. \A x \in T : x \in Nat /\ b - x \in Nat
    BY <1>1
  <1>3. D \subseteq Nat /\ D # {}
    BY <1>2
  <1>4. PICK d \in D : \A e \in D : d <= e
    BY <1>3, LeastExists
  <1>5. PICK x \in T : d = b - x
    OBVIOUS
  <1>6. \A y \in T : b - x <= b - y
    BY <1>4, <1>5
  <1>7. \A y \in T : x >= y
    BY <1>2, <1>6
  <1> QED
    BY <1>7 DEF Max

-----------------------------------------------------------------------------
(* The inductive invariant                                                 *)

DefinitionRows == [contents : Contents, position : Nat]
AllNames == UNION {Names[c] : c \in Contents}
ParameterRows == [id : Ids, name : AllNames, key : Requests \cup {Seeder}]
Steps == {"new", "read", "children", "position", "insert", "count", "write", "answered",
          "refused"}

Listing == [op : {"list"}, id : {None}, contents : {None}]
Naming == [op : {"delete", "queue"}, id : Ids, contents : {None}]
Saving == [op : {"save"}, id : Ids, contents : Contents]

Tables ==
    /\ definitions \in [Ids -> DefinitionRows \cup {None}]
    /\ parameters \subseteq ParameterRows
    /\ \A p \in parameters : p.id \in Existing
    /\ \A p, other \in parameters : p.id = other.id /\ p.name = other.name => p = other

Programs ==
    /\ step \in [Requests -> Steps]
    /\ request \in [Requests -> Listing \cup Naming \cup Saving \cup {None}]
    /\ found \in [Requests -> DefinitionRows \cup {None}]
    /\ children \in [Requests -> SUBSET ParameterRows]
    /\ place \in [Requests -> Nat]
    /\ withRuns \in [Requests -> BOOLEAN]

\* A request that has read the row of its definition.
Working(q) == step[q] = "children" \/ (step[q] = "write" /\ request[q].op # "list")

\* Where a request of each kind may be.
Places ==
    \A q \in Requests :
        /\ request[q] = None <=> step[q] = "new"
        /\ step[q] = "count" => request[q] \in Listing
        /\ step[q] \in {"position", "insert"} => request[q] \in Saving
        /\ Working(q) => request[q] \in Naming \cup Saving /\ found[q] \in DefinitionRows
        /\ step[q] = "write" /\ request[q].op = "queue" => found[q].contents \in Queueable

Runs ==
    /\ \A r \in runs : /\ r.request \in Requests /\ request[r.request] \in Naming
                       /\ request[r.request].op = "queue" /\ request[r.request].id = r.id
                       /\ step[r.request] = "answered" /\ r.contents \in Queueable
    /\ RunHasDefinition

ShapeInv == Tables /\ Programs /\ Places /\ Runs

LEMMA NoneFacts ==
    /\ None \notin DefinitionRows
    /\ \A r \in Listing \cup Naming \cup Saving : r # None
  <1>1. None \notin DefinitionRows
    BY NoneAssumption DEF DefinitionRows
  <1>2. None \notin Listing \cup Naming \cup Saving
    BY NoneAssumption DEF Listing, Naming, Saving
  <1> QED
    BY <1>1, <1>2

LEMMA RequestFacts ==
    /\ \A r \in Listing : r.op = "list" /\ r.id = None /\ r.contents = None
    /\ \A r \in Naming : r.op \in {"delete", "queue"} /\ r.id \in Ids
    /\ \A r \in Saving : r.op = "save" /\ r.id \in Ids /\ r.contents \in Contents
  BY DEF Listing, Naming, Saving

\* The rows for the parameters of new contents.
LEMMA NewParametersTyped ==
    ASSUME NEW id \in Ids, NEW c \in Contents, NEW key \in Requests \cup {Seeder}
    PROVE  /\ NewParameters(id, c, key) \subseteq ParameterRows
           /\ \A p \in NewParameters(id, c, key) : p.id = id /\ p.name \in Names[c]
           /\ \A p, other \in NewParameters(id, c, key) : p.name = other.name => p = other
           /\ {p.name : p \in NewParameters(id, c, key)} = Names[c]
           /\ Names[c] = {} => NewParameters(id, c, key) = {}
  <1> DEFINE New == NewParameters(id, c, key)
  <1>1. \A p : p \in New <=> \E n \in Names[c] : p = [id |-> id, name |-> n, key |-> key]
    BY DEF NewParameters
  <1>2. \A n \in Names[c] : n \in AllNames
    BY DEF AllNames
  <1>3. \A p \in New : p \in ParameterRows /\ p.id = id /\ p.name \in Names[c]
    BY <1>1, <1>2 DEF ParameterRows
  <1>4. \A p, other \in New : p.name = other.name => p = other
    <2>1. ASSUME NEW p \in New PROVE p = [id |-> id, name |-> p.name, key |-> key]
      <3>1. PICK n \in Names[c] : p = [id |-> id, name |-> n, key |-> key]
        BY <1>1
      <3> QED
        BY <3>1
    <2> HIDE DEF New
    <2> QED
      BY <2>1
  <1>5. ASSUME NEW n \in Names[c] PROVE \E p \in New : p.name = n
    <2>1. [id |-> id, name |-> n, key |-> key] \in New
      BY <1>1
    <2> QED
      BY <2>1
  <1> HIDE DEF New
  <1>6. {p.name : p \in New} = Names[c]
    BY <1>3, <1>5
  <1> QED
    BY <1>3, <1>4, <1>6 DEF New

LEMMA NextPositionTyped ==
    ASSUME definitions \in [Ids -> DefinitionRows \cup {None}]
    PROVE  NextPosition \in Nat
  <1> DEFINE P == {definitions[id].position : id \in Existing}
  <1>1. Existing \subseteq Ids /\ \A id \in Existing : definitions[id] \in DefinitionRows
    BY DEF Existing
  <1>2. P \subseteq Nat
    BY <1>1 DEF DefinitionRows
  <1>3. IsFiniteSet(Existing)
    BY <1>1, CatalogAssumption, FS_Subset
  <1>4. IsFiniteSet(P)
    <2>1. [id \in Existing |-> definitions[id].position] \in Surjection(Existing, P)
      BY DEF Surjection
    <2> QED
      BY <1>3, <2>1, FS_Surjection
  <1>5. CASE Existing = {}
    BY <1>5 DEF NextPosition
  <1>6. CASE Existing # {}
    <2>1. Max(P) \in Nat
      BY <1>2, <1>4, <1>6, MaxTyped
    <2> QED
      BY <1>6, <2>1 DEF NextPosition
  <1> QED
    BY <1>5, <1>6

\* The seeds, added to a catalog that has none of them.
LEMMA SeededTyped ==
    ASSUME NEW rows \in [Ids -> DefinitionRows \cup {None}], NEW position \in Orders
    PROVE  /\ Seeded(rows, position) \in [Ids -> DefinitionRows \cup {None}]
           /\ \A id \in DOMAIN Seeds : /\ Seeded(rows, position)[id] \in DefinitionRows
                                       /\ Seeded(rows, position)[id].contents = Seeds[id]
           /\ \A id \in Ids \ DOMAIN Seeds : Seeded(rows, position)[id] = rows[id]
  <1>1. \A id \in DOMAIN Seeds : position[id] \in Nat
    BY DEF Orders
  <1>2. \A id \in DOMAIN Seeds :
            [contents |-> Seeds[id], position |-> position[id]] \in DefinitionRows
    BY <1>1, CatalogAssumption DEF DefinitionRows
  <1> QED
    BY <1>2, CatalogAssumption DEF Seeded

LEMMA SeedParametersTyped ==
    ASSUME NEW key \in Requests \cup {Seeder}
    PROVE  /\ SeedParameters(key) \subseteq ParameterRows
           /\ \A p \in SeedParameters(key) : p.id \in DOMAIN Seeds
           /\ \A p, other \in SeedParameters(key) :
                 p.id = other.id /\ p.name = other.name => p = other
           /\ \A id \in DOMAIN Seeds :
                 {p.name : p \in {p \in SeedParameters(key) : p.id = id}} = Names[Seeds[id]]
  <1>1. \A id \in DOMAIN Seeds : id \in Ids /\ Seeds[id] \in Contents
    BY CatalogAssumption
  <1>2. \A p : p \in SeedParameters(key) <=>
            \E id \in DOMAIN Seeds : p \in NewParameters(id, Seeds[id], key)
    BY DEF SeedParameters
  <1>3. \A p \in SeedParameters(key) :
            /\ p.id \in DOMAIN Seeds /\ p \in NewParameters(p.id, Seeds[p.id], key)
            /\ p \in ParameterRows
    BY <1>1, <1>2, NewParametersTyped
  <1>4. \A id \in DOMAIN Seeds :
            {p \in SeedParameters(key) : p.id = id} = NewParameters(id, Seeds[id], key)
    BY <1>1, <1>2, <1>3, NewParametersTyped
  <1>5. \A p, other \in SeedParameters(key) :
            p.id = other.id /\ p.name = other.name => p = other
    BY <1>1, <1>3, NewParametersTyped
  <1>6. \A id \in DOMAIN Seeds :
            {p.name : p \in {p \in SeedParameters(key) : p.id = id}} = Names[Seeds[id]]
    BY <1>1, <1>4, NewParametersTyped
  <1> QED
    BY <1>3, <1>5, <1>6

-----------------------------------------------------------------------------
(* The tables                                                              *)

LEMMA CreateKeepsTables ==
    ASSUME Tables, Programs, Places, NEW q \in Requests, Create(q)
    PROVE  Tables'
  <1> DEFINE id == request[q].id
             c == request[q].contents
             New == NewParameters(id, c, q)
             row == [contents |-> c, position |-> place[q]]
  <1>1. id \in Ids /\ c \in Contents /\ place[q] \in Nat
    BY RequestFacts DEF Create, At, Places, Programs
  <1>2. /\ definitions[id] = None
        /\ definitions' = [definitions EXCEPT ![id] = row]
        /\ parameters' = parameters \cup New
    BY DEF Create
  <1>3. row \in DefinitionRows /\ row # None
    BY <1>1, NoneFacts DEF DefinitionRows
  <1>4. /\ New \subseteq ParameterRows /\ \A p \in New : p.id = id
        /\ \A p, other \in New : p.name = other.name => p = other
    BY <1>1, NewParametersTyped
  <1>5. \A p \in parameters : p.id # id /\ p.id \in Existing
    BY <1>2 DEF Tables, Existing
  <1>6. definitions \in [Ids -> DefinitionRows \cup {None}] /\ parameters \subseteq ParameterRows
        /\ \A p, other \in parameters : p.id = other.id /\ p.name = other.name => p = other
    BY DEF Tables
  <1> HIDE DEF New, row, id, c
  <1>7. Existing \subseteq Existing' /\ id \in Existing'
    BY <1>1, <1>2, <1>3, <1>6 DEF Existing
  <1> QED
    BY <1>1, <1>2, <1>3, <1>4, <1>5, <1>6, <1>7 DEF Tables

LEMMA ReplaceKeepsTables ==
    ASSUME Tables, Programs, Places, NEW q \in Requests, Replace(q)
    PROVE  Tables' /\ \A id \in Ids : definitions[id] = None <=> definitions'[id] = None
  <1> DEFINE id == request[q].id
             c == request[q].contents
             New == NewParameters(id, c, q)
  <1>1. id \in Ids /\ c \in Contents /\ request[q].op = "save" /\ found[q] \in DefinitionRows
    BY RequestFacts DEF Replace, At, Places, Programs, Working
  <1>2. /\ definitions' = IF c = found[q].contents THEN definitions
                          ELSE [definitions EXCEPT ![id].contents = c]
        /\ parameters' = (parameters \ children[q]) \cup New
        /\ ~NameTaken(q) /\ ~RowMissing(q)
    BY DEF Replace, Cleared
  <1>3. /\ New \subseteq ParameterRows /\ \A p \in New : p.id = id /\ p.name \in Names[c]
        /\ \A p, other \in New : p.name = other.name => p = other
        /\ Names[c] = {} => New = {}
    BY <1>1, NewParametersTyped
  <1>4. /\ definitions \in [Ids -> DefinitionRows \cup {None}] /\ parameters \subseteq ParameterRows
        /\ \A p, other \in parameters : p.id = other.id /\ p.name = other.name => p = other
        /\ \A p \in parameters : p.id \in Existing
    BY DEF Tables
  <1>5. \A p \in parameters \ children[q] : p.id = id => p.name \notin Names[c]
    BY <1>2 DEF NameTaken, Cleared, ParametersOf
  <1>6. definitions[id] = None => c = found[q].contents /\ New = {}
    BY <1>2, <1>3 DEF RowMissing
  <1>7. ASSUME definitions[id] # None
        PROVE  [definitions[id] EXCEPT !.contents = c] \in DefinitionRows
    BY <1>1, <1>4, <1>7 DEF DefinitionRows
  <1> HIDE DEF New, id, c
  <1>8. /\ definitions' \in [Ids -> DefinitionRows \cup {None}]
        /\ \A i \in Ids : definitions[i] = None <=> definitions'[i] = None
    <2>1. CASE c = found[q].contents
      BY <1>2, <1>4, <2>1
    <2>2. CASE c # found[q].contents
      <3>1. definitions[id] # None
        BY <1>6, <2>2
      <3>2. definitions' = [definitions EXCEPT ![id] = [definitions[id] EXCEPT !.contents = c]]
        BY <1>2, <2>2
      <3> QED
        BY <1>1, <1>4, <1>7, <3>1, <3>2, NoneFacts
    <2> QED
      BY <2>1, <2>2
  <1>9. Existing' = Existing
    BY <1>8 DEF Existing
  <1>10. New # {} => id \in Existing
    BY <1>1, <1>6 DEF Existing
  <1>11. \A p \in parameters' : p.id \in Existing'
    BY <1>2, <1>3, <1>4, <1>9, <1>10
  <1>12. parameters' \subseteq ParameterRows
    BY <1>2, <1>3, <1>4
  <1>13. \A p, other \in parameters' : p.id = other.id /\ p.name = other.name => p = other
    BY <1>2, <1>3, <1>4, <1>5
  <1> QED
    BY <1>8, <1>11, <1>12, <1>13 DEF Tables

LEMMA DeleteKeepsTables ==
    ASSUME Tables, Programs, Places, NEW q \in Requests, Delete(q)
    PROVE  Tables'
  <1> DEFINE id == request[q].id
  <1>1. id \in Ids
    BY RequestFacts DEF Delete, At, Places, Programs, Working
  <1>2. /\ definitions' = [definitions EXCEPT ![id] = None]
        /\ parameters' = {p \in parameters : p.id # id}
    BY DEF Delete, ParametersOf
  <1> HIDE DEF id
  <1>3. \A i \in Ids : i # id => definitions'[i] = definitions[i]
    BY <1>2 DEF Tables
  <1>4. \A p \in parameters' : p.id \in Existing'
    BY <1>2, <1>3 DEF Tables, Existing
  <1>5. definitions' \in [Ids -> DefinitionRows \cup {None}]
    BY <1>2 DEF Tables
  <1> QED
    BY <1>2, <1>4, <1>5 DEF Tables

\* The catalog gets the seeds.
LEMMA SeedingKeepsTables ==
    ASSUME Tables, \A id \in DOMAIN Seeds : definitions[id] = None,
           NEW key \in Requests \cup {Seeder}, NEW position \in Orders,
           definitions' = Seeded(definitions, position),
           parameters' = parameters \cup SeedParameters(key)
    PROVE  Tables'
  <1>1. definitions \in [Ids -> DefinitionRows \cup {None}]
    BY DEF Tables
  <1>2. /\ definitions' \in [Ids -> DefinitionRows \cup {None}]
        /\ \A id \in DOMAIN Seeds : definitions'[id] \in DefinitionRows
        /\ \A id \in Ids \ DOMAIN Seeds : definitions'[id] = definitions[id]
    BY <1>1, SeededTyped
  <1>3. Existing \cup DOMAIN Seeds \subseteq Existing'
    BY <1>2, CatalogAssumption, NoneFacts DEF Existing
  <1>4. \A p \in parameters : p.id \notin DOMAIN Seeds
    BY DEF Tables, Existing
  <1>5. \A p \in SeedParameters(key) : p.id \in DOMAIN Seeds /\ p \in ParameterRows
    BY SeedParametersTyped
  <1>6. \A p, other \in SeedParameters(key) :
            p.id = other.id /\ p.name = other.name => p = other
    BY SeedParametersTyped
  <1> QED
    BY <1>2, <1>3, <1>4, <1>5, <1>6 DEF Tables

-----------------------------------------------------------------------------
(* The requests                                                            *)

\* A request moves on, having read for itself only what has its type.
LEMMA MoveKeepsPlaces ==
    ASSUME Programs, Places, NEW q \in Requests, Under(q),
           NEW w \in Steps, w # "new", Go(q, w),
           found' \in [Requests -> DefinitionRows \cup {None}],
           children' \in [Requests -> SUBSET ParameterRows],
           place' \in [Requests -> Nat], withRuns' \in [Requests -> BOOLEAN],
           \A r \in Requests \ {q} : found'[r] = found[r],
           w = "count" => request[q] \in Listing,
           w \in {"position", "insert"} => request[q] \in Saving,
           w = "children" \/ (w = "write" /\ request[q].op # "list")
              => request[q] \in Naming \cup Saving /\ found'[q] \in DefinitionRows,
           w = "write" /\ request[q].op = "queue" => found'[q].contents \in Queueable
    PROVE  Programs' /\ Places'
  <1>1. step' = [step EXCEPT ![q] = w] /\ request' = request
    BY DEF Go
  <1>2. step'[q] = w /\ \A r \in Requests \ {q} : step'[r] = step[r]
    BY <1>1 DEF Programs
  <1>3. Programs'
    BY <1>1 DEF Programs
  <1>4. request[q] # None
    BY DEF Under, Places
  <1>5. ASSUME NEW r \in Requests
        PROVE  /\ request[r] = None <=> step'[r] = "new"
               /\ step'[r] = "count" => request[r] \in Listing
               /\ step'[r] \in {"position", "insert"} => request[r] \in Saving
               /\ step'[r] = "children" \/ (step'[r] = "write" /\ request[r].op # "list")
                     => request[r] \in Naming \cup Saving /\ found'[r] \in DefinitionRows
               /\ step'[r] = "write" /\ request[r].op = "queue"
                     => found'[r].contents \in Queueable
    <2>1. CASE r = q
      BY <1>2, <1>4, <2>1
    <2>2. CASE r # q
      BY <1>2, <2>2 DEF Places, Working
    <2> QED
      BY <2>1, <2>2
  <1>6. Places'
    BY <1>1, <1>5 DEF Places, Working
  <1> QED
    BY <1>3, <1>6

\* A step that keeps the definitions of the runs keeps what is known of them.
LEMMA MoveKeepsRuns ==
    ASSUME Programs, Runs, NEW q \in Requests, Under(q), NEW w, Go(q, w), runs' = runs,
           \A r \in runs : definitions'[r.id] # None
    PROVE  Runs'
  <1>1. step' = [step EXCEPT ![q] = w] /\ request' = request
    BY DEF Go
  <1>2. \A r \in runs : r.request # q
    BY DEF Runs, Under
  <1>3. \A r \in runs : step'[r.request] = "answered"
    BY <1>1, <1>2 DEF Runs, Programs
  <1>4. RunHasDefinition'
    BY DEF RunHasDefinition
  <1> QED
    BY <1>1, <1>3, <1>4 DEF Runs

\* A request that ends: only the tables are left to look at.
LEMMA EndKeepsPlaces ==
    ASSUME Programs, Places, NEW q \in Requests, Under(q),
           NEW w \in {"answered", "refused"}, Go(q, w), UNCHANGED reads
    PROVE  Programs' /\ Places'
  <1>1. UNCHANGED <<found, children, withRuns, place>>
    BY DEF reads
  <1>2. w \in Steps /\ w \notin {"new", "count", "position", "insert", "children", "write"}
    BY DEF Steps
  <1>3. /\ found' \in [Requests -> DefinitionRows \cup {None}]
        /\ children' \in [Requests -> SUBSET ParameterRows]
        /\ place' \in [Requests -> Nat] /\ withRuns' \in [Requests -> BOOLEAN]
        /\ \A r \in Requests \ {q} : found'[r] = found[r]
    BY <1>1 DEF Programs
  <1> QED
    BY <1>2, <1>3, MoveKeepsPlaces

LEMMA TablesUnchanged ==
    ASSUME Tables, UNCHANGED tables
    PROVE  Tables'
  BY DEF Tables, tables, Existing

-----------------------------------------------------------------------------
(* Every step keeps the invariant                                          *)

LEMMA ShapeInit == Init => ShapeInv
  <1> SUFFICES ASSUME Init PROVE ShapeInv
    OBVIOUS
  <1>1. Programs /\ Places
    BY DEF Init, Programs, Places, Steps, Working
  <1>2. Runs
    BY DEF Init, Runs, RunHasDefinition
  <1>3. NoRows \in [Ids -> DefinitionRows \cup {None}] /\ \A id \in Ids : NoRows[id] = None
    BY DEF NoRows
  <1>4. ASSUME definitions = NoRows, parameters = {} PROVE Tables
    BY <1>3, <1>4 DEF Tables
  <1>5. ASSUME \E position \in Orders : /\ definitions = Seeded(NoRows, position)
                                        /\ parameters = SeedParameters(Seeder)
        PROVE  Tables
    <2>1. PICK position \in Orders : /\ definitions = Seeded(NoRows, position)
                                      /\ parameters = SeedParameters(Seeder)
      BY <1>5
    <2>2. /\ definitions \in [Ids -> DefinitionRows \cup {None}]
          /\ \A id \in DOMAIN Seeds : definitions[id] \in DefinitionRows
      BY <1>3, <2>1, SeededTyped
    <2>3. DOMAIN Seeds \subseteq Existing
      BY <2>2, CatalogAssumption, NoneFacts DEF Existing
    <2>4. /\ parameters \subseteq ParameterRows
          /\ \A p \in parameters : p.id \in DOMAIN Seeds
          /\ \A p, other \in parameters : p.id = other.id /\ p.name = other.name => p = other
      BY <2>1, SeedParametersTyped
    <2> QED
      BY <2>2, <2>3, <2>4 DEF Tables
  <1>6. Tables
    BY <1>4, <1>5 DEF Init
  <1> QED
    BY <1>1, <1>2, <1>6 DEF ShapeInv

LEMMA ArriveKeepsShape ==
    ASSUME ShapeInv, NEW q \in Requests, NEW op, NEW id, NEW c, Arrive(q, op, id, c),
           [op |-> op, id |-> id, contents |-> c] \in Listing \cup Naming \cup Saving
    PROVE  ShapeInv'
  <1> DEFINE new == [op |-> op, id |-> id, contents |-> c]
  <1>1. /\ step[q] = "new" /\ request' = [request EXCEPT ![q] = new]
        /\ step' = [step EXCEPT ![q] = "read"]
        /\ UNCHANGED <<tables, found, children, withRuns, place>>
    BY DEF Arrive, reads
  <1>2. new # None
    BY NoneFacts
  <1> HIDE DEF new
  <1>3. Programs'
    BY <1>1 DEF ShapeInv, Programs, Steps, new
  <1>4. /\ step'[q] = "read" /\ request'[q] = new
        /\ \A r \in Requests \ {q} : step'[r] = step[r] /\ request'[r] = request[r]
    BY <1>1 DEF ShapeInv, Programs
  <1>5. Places'
    BY <1>1, <1>2, <1>4 DEF ShapeInv, Places, Working
  <1>6. \A r \in runs : r.request # q
    BY <1>1 DEF ShapeInv, Runs
  <1>7. Runs'
    BY <1>1, <1>4, <1>6 DEF ShapeInv, Runs, RunHasDefinition, tables
  <1> QED
    BY <1>1, <1>3, <1>5, <1>7, TablesUnchanged DEF ShapeInv

LEMMA ReadKeepsShape ==
    ASSUME ShapeInv, NEW q \in Requests,
           ReadRow(q) \/ ReadChildren(q) \/ ReadPosition(q) \/ Count(q) \/ List(q)
    PROVE  ShapeInv'
  <1>0. Tables /\ Programs /\ Places /\ Runs
    BY DEF ShapeInv
  <1>1. UNCHANGED tables /\ runs' = runs /\ definitions' = definitions
    BY DEF ReadRow, ReadChildren, ReadPosition, Count, List, tables
  <1>2. Under(q) /\ request[q] \in Listing \cup Naming \cup Saving
    BY <1>0 DEF ReadRow, ReadChildren, ReadPosition, Count, List, Under, At, Programs, Places
  <1>3. /\ found \in [Requests -> DefinitionRows \cup {None}]
        /\ children \in [Requests -> SUBSET ParameterRows]
        /\ place \in [Requests -> Nat] /\ withRuns \in [Requests -> BOOLEAN]
    BY <1>0 DEF Programs
  <1>4. CASE ReadRow(q)
    <2>1. request[q] \in Naming \cup Saving /\ request[q].id \in Ids
      BY <1>2, <1>4, RequestFacts DEF ReadRow
    <2> DEFINE row == definitions[request[q].id]
               w == IF row # None THEN "children"
                    ELSE IF request[q].op = "save" THEN "position" ELSE "refused"
    <2>2. /\ found' = [found EXCEPT ![q] = row] /\ Go(q, w)
          /\ UNCHANGED <<children, withRuns, place>>
      BY <1>4 DEF ReadRow
    <2>3. row \in DefinitionRows \cup {None}
      BY <1>0, <2>1 DEF Tables
    <2>4. request[q].op = "save" => request[q] \in Saving
      BY <2>1, RequestFacts
    <2>5. w \in Steps \ {"new", "count", "insert", "write"}
          /\ (w = "children" => row # None) /\ (w = "position" => request[q].op = "save")
      BY DEF Steps
    <2> HIDE DEF row, w
    <2>6. found' \in [Requests -> DefinitionRows \cup {None}] /\ found'[q] = row
          /\ \A r \in Requests \ {q} : found'[r] = found[r]
      BY <1>3, <2>2, <2>3
    <2>7. Programs' /\ Places'
      <3>1. w = "children" => found'[q] \in DefinitionRows
        BY <2>3, <2>5, <2>6
      <3> QED
        BY <1>0, <1>2, <1>3, <2>1, <2>2, <2>4, <2>5, <2>6, <3>1, MoveKeepsPlaces
    <2>8. Runs'
      BY <1>0, <1>1, <1>2, <2>2, MoveKeepsRuns DEF Runs, RunHasDefinition
    <2> QED
      BY <1>0, <1>1, <2>7, <2>8, TablesUnchanged DEF ShapeInv
  <1>5. CASE ReadChildren(q)
    <2> DEFINE w == IF Rejected(q) THEN "refused" ELSE "write"
               rows == ParametersOf(request[q].id)
               any == request[q].op = "delete" /\ RunsOf(request[q].id) # {}
    <2>1. /\ children' = [children EXCEPT ![q] = rows] /\ Go(q, w)
          /\ withRuns' = [withRuns EXCEPT ![q] = any] /\ UNCHANGED <<found, place>>
      BY <1>5 DEF ReadChildren
    <2>2. request[q] \in Naming \cup Saving /\ found[q] \in DefinitionRows
      BY <1>0, <1>5 DEF ReadChildren, Places, Working
    <2>3. rows \in SUBSET ParameterRows /\ any \in BOOLEAN
      BY <1>0 DEF Tables, ParametersOf
    <2>4. w \in Steps \ {"new", "count", "position", "insert", "children"}
          /\ (w = "write" /\ request[q].op = "queue" => found[q].contents \in Queueable)
      BY DEF Steps, Rejected
    <2> HIDE DEF w, rows, any
    <2>5. /\ children' \in [Requests -> SUBSET ParameterRows]
          /\ withRuns' \in [Requests -> BOOLEAN]
      BY <1>3, <2>1, <2>3
    <2>6. Programs' /\ Places'
      BY <1>0, <1>2, <1>3, <2>1, <2>2, <2>4, <2>5, MoveKeepsPlaces
    <2>7. Runs'
      BY <1>0, <1>1, <1>2, <2>1, MoveKeepsRuns DEF Runs, RunHasDefinition
    <2> QED
      BY <1>0, <1>1, <2>6, <2>7, TablesUnchanged DEF ShapeInv
  <1>6. CASE ReadPosition(q)
    <2>1. /\ place' = [place EXCEPT ![q] = NextPosition] /\ Go(q, "insert")
          /\ UNCHANGED <<found, children, withRuns>>
      BY <1>6 DEF ReadPosition
    <2>2. request[q] \in Saving /\ request[q].op # "queue"
      BY <1>0, <1>6, RequestFacts DEF ReadPosition, At, Places
    <2>3. NextPosition \in Nat
      BY <1>0, NextPositionTyped DEF Tables
    <2>4. place' \in [Requests -> Nat]
      BY <1>3, <2>1, <2>3
    <2>5. Programs' /\ Places'
      BY <1>0, <1>2, <1>3, <2>1, <2>2, <2>4, MoveKeepsPlaces DEF Steps
    <2>6. Runs'
      BY <1>0, <1>1, <1>2, <2>1, MoveKeepsRuns DEF Runs, RunHasDefinition
    <2> QED
      BY <1>0, <1>1, <2>5, <2>6, TablesUnchanged DEF ShapeInv
  <1>7. CASE List(q) \/ Count(q)
    <2>1. PICK w \in {"count", "write", "answered"} : Go(q, w)
      BY <1>7 DEF List, Count
    <2>2. UNCHANGED <<found, children, withRuns, place>>
      BY <1>7 DEF List, Count, reads
    <2>3. request[q] \in Listing /\ request[q].op = "list"
      BY <1>2, <1>7, RequestFacts DEF List, Count, At
    <2>4. Programs' /\ Places'
      BY <1>0, <1>2, <1>3, <2>1, <2>2, <2>3, MoveKeepsPlaces DEF Steps
    <2>5. Runs'
      BY <1>0, <1>1, <1>2, <2>1, MoveKeepsRuns DEF Runs, RunHasDefinition
    <2> QED
      BY <1>0, <1>1, <2>4, <2>5, TablesUnchanged DEF ShapeInv
  <1> QED
    BY <1>4, <1>5, <1>6, <1>7

LEMMA WriteKeepsShape ==
    ASSUME ShapeInv, NEW q \in Requests,
           \/ Create(q) \/ Replace(q) \/ Delete(q) \/ Seed(q)
           \/ CreateRefused(q) \/ ReplaceRefused(q) \/ DeleteRefused(q) \/ QueueRefused(q)
    PROVE  ShapeInv'
  <1>0. Tables /\ Programs /\ Places /\ Runs
    BY DEF ShapeInv
  <1>1. PICK w \in {"answered", "refused"} : Go(q, w)
    BY DEF Create, Replace, Delete, Seed, CreateRefused, ReplaceRefused, DeleteRefused,
           QueueRefused
  <1>2. UNCHANGED reads /\ Under(q) /\ runs' = runs
    BY DEF Create, Replace, Delete, Seed, CreateRefused, ReplaceRefused, DeleteRefused,
           QueueRefused, At, Under, tables
  <1>3. Programs' /\ Places'
    BY <1>0, <1>1, <1>2, EndKeepsPlaces
  <1>4. \A r \in runs : r.id \in Ids /\ definitions[r.id] # None
    BY <1>0, RequestFacts DEF Runs, RunHasDefinition
  <1>5. SUFFICES Tables' /\ \A r \in runs : definitions'[r.id] # None
    BY <1>0, <1>1, <1>2, <1>3, MoveKeepsRuns DEF ShapeInv
  <1>6. CASE Create(q)
    <2>1. definitions' = [definitions EXCEPT ![request[q].id] =
                            [contents |-> request[q].contents, position |-> place[q]]]
          /\ definitions[request[q].id] = None
      BY <1>6 DEF Create
    <2>2. \A r \in runs : definitions'[r.id] = definitions[r.id]
      BY <1>0, <1>4, <2>1 DEF Tables
    <2> QED
      BY <1>0, <1>4, <1>6, <2>2, CreateKeepsTables
  <1>7. CASE Replace(q)
    BY <1>0, <1>4, <1>7, ReplaceKeepsTables
  <1>8. CASE Delete(q)
    <2>1. definitions' = [definitions EXCEPT ![request[q].id] = None]
          /\ RunsOf(request[q].id) = {}
      BY <1>8 DEF Delete, HasRuns
    <2>2. \A r \in runs : r.id # request[q].id
      BY <2>1 DEF RunsOf
    <2>3. \A r \in runs : definitions'[r.id] = definitions[r.id]
      BY <1>0, <1>4, <2>1, <2>2 DEF Tables
    <2> QED
      BY <1>0, <1>4, <1>8, <2>3, DeleteKeepsTables
  <1>9. CASE Seed(q)
    <2>1. CASE SeedConflict
      <3>1. UNCHANGED tables /\ definitions' = definitions
        BY <1>9, <2>1 DEF Seed, tables
      <3> QED
        BY <1>0, <1>4, <3>1, TablesUnchanged
    <2>2. CASE ~SeedConflict
      <3>1. PICK position \in Orders : /\ definitions' = Seeded(definitions, position)
                                        /\ parameters' = parameters \cup SeedParameters(q)
        BY <1>9, <2>2 DEF Seed
      <3>2. \A id \in DOMAIN Seeds : definitions[id] = None
        BY <2>2 DEF SeedConflict
      <3>3. Tables'
        BY <1>0, <3>1, <3>2, SeedingKeepsTables
      <3>4. \A id \in Ids \ DOMAIN Seeds : definitions'[id] = definitions[id]
        BY <1>0, <3>1, SeededTyped DEF Tables
      <3> QED
        BY <1>4, <3>2, <3>3, <3>4
    <2> QED
      BY <2>1, <2>2
  <1>10. CASE CreateRefused(q) \/ ReplaceRefused(q) \/ DeleteRefused(q) \/ QueueRefused(q)
    <2>1. UNCHANGED tables /\ definitions' = definitions
      BY <1>10 DEF CreateRefused, ReplaceRefused, DeleteRefused, QueueRefused, tables
    <2> QED
      BY <1>0, <1>4, <2>1, TablesUnchanged
  <1> QED
    BY <1>6, <1>7, <1>8, <1>9, <1>10

LEMMA QueueKeepsShape ==
    ASSUME ShapeInv, NEW q \in Requests, Queue(q)
    PROVE  ShapeInv'
  <1>0. Tables /\ Programs /\ Places /\ Runs
    BY DEF ShapeInv
  <1> DEFINE run == [request |-> q, id |-> request[q].id, contents |-> found[q].contents,
                     names |-> {p.name : p \in children[q]}]
  <1>1. /\ step[q] = "write" /\ request[q].op = "queue" /\ definitions[request[q].id] # None
        /\ runs' = runs \cup {run} /\ Go(q, "answered")
        /\ UNCHANGED <<definitions, parameters, reads>>
    BY DEF Queue, At
  <1>2. /\ run.request = q /\ run.id = request[q].id /\ run.contents = found[q].contents
    OBVIOUS
  <1> HIDE DEF run
  <1>3. Under(q) /\ \A r \in runs : r.request # q
    BY <1>0, <1>1 DEF Under, Runs
  <1>4. Programs' /\ Places'
    BY <1>0, <1>1, <1>3, EndKeepsPlaces
  <1>5. request[q] \in Naming /\ found[q].contents \in Queueable
    BY <1>0, <1>1, RequestFacts DEF Places, Working
  <1>6. /\ request' = request /\ step'[q] = "answered"
        /\ \A r \in Requests \ {q} : step'[r] = step[r]
    BY <1>0, <1>1 DEF Go, Programs
  <1>7. Runs'
    BY <1>0, <1>1, <1>2, <1>3, <1>5, <1>6 DEF Runs, RunHasDefinition
  <1>8. Tables'
    BY <1>0, <1>1 DEF Tables, Existing
  <1> QED
    BY <1>4, <1>7, <1>8 DEF ShapeInv

LEMMA ShapeStep == ShapeInv /\ [Next]_vars => ShapeInv'
  <1> SUFFICES ASSUME ShapeInv, [Next]_vars PROVE ShapeInv'
    OBVIOUS
  <1>1. CASE UNCHANGED vars
    BY <1>1 DEF vars, ShapeInv, Tables, Existing, Programs, Places, Working, Runs,
                RunHasDefinition
  <1>2. CASE Next
    <2>1. PICK q \in Requests :
             \/ Arrive(q, "list", None, None)
             \/ \E id \in Ids : Arrive(q, "delete", id, None) \/ Arrive(q, "queue", id, None)
             \/ \E id \in Ids, c \in Contents : Arrive(q, "save", id, c)
             \/ ReadRow(q) \/ ReadChildren(q) \/ ReadPosition(q)
             \/ Create(q) \/ CreateRefused(q) \/ Replace(q) \/ ReplaceRefused(q)
             \/ Delete(q) \/ DeleteRefused(q)
             \/ List(q) \/ Count(q) \/ Seed(q)
             \/ Queue(q) \/ QueueRefused(q)
      BY <1>2 DEF Next
    <2>2. CASE Arrive(q, "list", None, None)
      BY <2>2, ArriveKeepsShape DEF Listing
    <2>3. CASE \E id \in Ids : Arrive(q, "delete", id, None) \/ Arrive(q, "queue", id, None)
      BY <2>3, ArriveKeepsShape DEF Naming
    <2>4. CASE \E id \in Ids, c \in Contents : Arrive(q, "save", id, c)
      BY <2>4, ArriveKeepsShape DEF Saving
    <2>5. CASE ReadRow(q) \/ ReadChildren(q) \/ ReadPosition(q) \/ List(q) \/ Count(q)
      BY <2>5, ReadKeepsShape
    <2>6. CASE \/ Create(q) \/ Replace(q) \/ Delete(q) \/ Seed(q)
               \/ CreateRefused(q) \/ ReplaceRefused(q) \/ DeleteRefused(q)
               \/ QueueRefused(q)
      BY <2>6, WriteKeepsShape
    <2>7. CASE Queue(q)
      BY <2>7, QueueKeepsShape
    <2> QED
      BY <2>1, <2>2, <2>3, <2>4, <2>5, <2>6, <2>7
  <1> QED
    BY <1>1, <1>2

\* The tables are typed, every parameter belongs to a definition that is there
\* and has no other of the name, and runs are of answered requests, whatever the
\* order in which the statements of the requests reach the database.
THEOREM TypeCorrect == Spec => []TypeOK
  <1>1. ShapeInv => TypeOK
    <2> SUFFICES ASSUME ShapeInv PROVE TypeOK
      OBVIOUS
    <2>0. Tables /\ Programs /\ Places /\ Runs
      BY DEF ShapeInv
    <2>1. \A id \in Existing :
              definitions[id].contents \in Contents /\ definitions[id].position \in Nat
      BY <2>0 DEF Tables, Existing, DefinitionRows
    <2>2. \A p \in parameters :
              /\ p.id \in Existing /\ p.key \in Requests \cup {Seeder}
              /\ \A other \in ParametersOf(p.id) : other.name = p.name => other = p
      BY <2>0 DEF Tables, ParametersOf, ParameterRows
    <2> QED
      BY <2>0, <2>1, <2>2 DEF TypeOK, Runs, Places
  <1> QED
    BY <1>1, ShapeInit, ShapeStep, PTL DEF Spec

\* The definition of a run stays: its foreign key stops the delete that has
\* looked for runs before the run was queued, and no other write removes one.
THEOREM RunsKeepTheirDefinition == Spec => []RunHasDefinition
  <1>1. ShapeInv => RunHasDefinition
    BY DEF ShapeInv, Runs
  <1> QED
    BY <1>1, ShapeInit, ShapeStep, PTL DEF Spec

-----------------------------------------------------------------------------
(* What overlapping requests may have changed                              *)

\* A save or a delete of its definition was under way together with it.
Disturbed(q) ==
    \E w \in Requests :
        /\ <<w, q>> \in overlapped
        /\ request[w].op \in {"save", "delete"} /\ request[w].id = request[q].id

\* The history names all pairs of requests that are under way together.
OverlapInv ==
    /\ \A q, r \in Requests :
          <<q, r>> \in overlapped => /\ <<r, q>> \in overlapped
                                   /\ step[q] # "new" /\ step[r] # "new"
    /\ \A q, r \in Requests : Under(q) /\ Under(r) /\ q # r => <<q, r>> \in overlapped

\* What a request has read is still there unless it was disturbed.
ReadInv ==
    \A q \in Requests :
        /\ Working(q) => found[q] = definitions[request[q].id] \/ Disturbed(q)
        /\ Working(q) /\ step[q] = "write"
              => /\ children[q] = ParametersOf(request[q].id) \/ Disturbed(q)
                 /\ \A p \in children[q] : p.id = request[q].id

CatalogInv ==
    ShapeInv /\ OverlapInv /\ ReadInv /\ ParametersFollowContents /\ RunIsOfOneDefinition

LEMMA CatalogInit == Init => CatalogInv
  <1> SUFFICES ASSUME Init PROVE CatalogInv
    OBVIOUS
  <1>1. OverlapInv /\ ReadInv /\ RunIsOfOneDefinition
    BY DEF Init, OverlapInv, ReadInv, RunIsOfOneDefinition, Under, Working
  <1>2. NoRows \in [Ids -> DefinitionRows \cup {None}] /\ \A id \in Ids : NoRows[id] = None
    BY DEF NoRows
  <1>3. ASSUME NEW id \in Ids PROVE IsOneSave(id)
    <2>1. ASSUME definitions = NoRows, parameters = {} PROVE IsOneSave(id)
      BY <1>2, <2>1 DEF IsOneSave, ParametersOf
    <2>2. ASSUME NEW position \in Orders, definitions = Seeded(NoRows, position),
                 parameters = SeedParameters(Seeder)
          PROVE  IsOneSave(id)
      <3>1. CASE id \in DOMAIN Seeds
        <4>1. definitions[id] # None /\ definitions[id].contents = Seeds[id]
          BY <1>2, <2>2, <3>1, SeededTyped, NoneFacts
        <4>2. {p.name : p \in ParametersOf(id)} = Names[Seeds[id]]
          BY <2>2, <3>1, SeedParametersTyped DEF ParametersOf
        <4> QED
          BY <4>1, <4>2 DEF IsOneSave
      <3>2. CASE id \notin DOMAIN Seeds
        <4>1. definitions[id] = None
          BY <1>2, <2>2, <3>2, SeededTyped
        <4>2. ParametersOf(id) = {}
          BY <2>2, <3>2, SeedParametersTyped DEF ParametersOf
        <4> QED
          BY <4>1, <4>2 DEF IsOneSave
      <3> QED
        BY <3>1, <3>2
    <2> QED
      BY <2>1, <2>2 DEF Init
  <1>4. ParametersFollowContents
    BY <1>3 DEF ParametersFollowContents
  <1> QED
    BY <1>1, <1>4, ShapeInit DEF CatalogInv

LEMMA ArriveKeepsCatalog ==
    ASSUME CatalogInv, ShapeInv', NEW q \in Requests, NEW op, NEW id, NEW c,
           Arrive(q, op, id, c)
    PROVE  CatalogInv'
  <1> DEFINE others == {r \in Requests : Under(r)}
  <1>1. /\ step[q] = "new" /\ step' = [step EXCEPT ![q] = "read"]
        /\ request' = [request EXCEPT ![q] = [op |-> op, id |-> id, contents |-> c]]
        /\ overlapped' = overlapped \cup {<<q, r>> : r \in others}
                                    \cup {<<r, q>> : r \in others}
        /\ UNCHANGED <<definitions, parameters, runs, found, children, withRuns, place>>
    BY DEF Arrive, reads, tables
  <1>2. /\ step'[q] = "read"
        /\ \A r \in Requests \ {q} : step'[r] = step[r] /\ request'[r] = request[r]
    BY <1>1 DEF CatalogInv, ShapeInv, Programs
  <1>3. \A r \in others : r # q /\ step[r] # "new" /\ r \in Requests
    BY <1>1 DEF Under
  <1>4. \A r, w \in Requests : <<r, w>> \in overlapped => r # q /\ w # q
    BY <1>1 DEF CatalogInv, OverlapInv
  <1>5. OverlapInv'
    <2>1. ASSUME NEW r \in Requests, NEW w \in Requests, <<r, w>> \in overlapped'
          PROVE  <<w, r>> \in overlapped' /\ step'[r] # "new" /\ step'[w] # "new"
      <3>1. CASE <<r, w>> \in overlapped
        BY <1>1, <1>2, <3>1 DEF CatalogInv, OverlapInv
      <3>2. CASE r = q /\ w \in others
        BY <1>1, <1>2, <1>3, <3>2
      <3>3. CASE w = q /\ r \in others
        BY <1>1, <1>2, <1>3, <3>3
      <3> QED
        BY <1>1, <2>1, <3>1, <3>2, <3>3
    <2>2. ASSUME NEW r \in Requests, NEW w \in Requests, r # w, Under(r)', Under(w)'
          PROVE  <<r, w>> \in overlapped'
      <3>1. \A x \in Requests \ {q} : Under(x)' => x \in others
        BY <1>2 DEF Under
      <3>2. CASE r # q /\ w # q
        BY <1>1, <2>2, <3>1, <3>2 DEF CatalogInv, OverlapInv, Under
      <3>3. CASE r = q \/ w = q
        BY <1>1, <2>2, <3>1, <3>3
      <3> QED
        BY <3>2, <3>3
    <2> QED
      BY <2>1, <2>2 DEF OverlapInv
  <1> HIDE DEF others
  <1>6. \A r \in Requests \ {q} : Disturbed(r) => Disturbed(r)'
    BY <1>1, <1>2, <1>4 DEF Disturbed
  <1>7. \A i \in Ids : WritesOverlapped(i) => WritesOverlapped(i)'
    <2> SUFFICES ASSUME NEW i \in Ids, WritesOverlapped(i) PROVE WritesOverlapped(i)'
      OBVIOUS
    <2>1. PICK r, w \in Requests :
             /\ <<r, w>> \in overlapped
             /\ \A p \in {r, w} : request[p].op \in {"save", "delete"} /\ request[p].id = i
             /\ request[r].op = "save"
      BY DEF WritesOverlapped
    <2>2. request'[r] = request[r] /\ request'[w] = request[w] /\ <<r, w>> \in overlapped'
      BY <1>1, <1>2, <1>4, <2>1
    <2>3. /\ \A p \in {r, w} : request'[p].op \in {"save", "delete"} /\ request'[p].id = i
          /\ request'[r].op = "save"
      BY <2>1, <2>2
    <2> QED
      BY <2>2, <2>3 DEF WritesOverlapped
  <1>8. ReadInv'
    BY <1>1, <1>2, <1>6 DEF CatalogInv, ReadInv, Working, ParametersOf
  <1>9. ParametersFollowContents'
    BY <1>1, <1>7 DEF CatalogInv, ParametersFollowContents, IsOneSave, ParametersOf
  <1>10. \A r \in runs : r.request \in Requests \ {q} /\ r.id \in Ids
                           /\ r.id = request[r.request].id
    BY <1>1, RequestFacts DEF CatalogInv, ShapeInv, Runs
  <1>11. ASSUME NEW r \in runs
         PROVE  \/ r.contents \in Queueable /\ r.names = Names[r.contents]
                \/ WritesOverlapped(r.id)'
                \/ \E w \in Requests :
                      /\ <<w, r.request>> \in overlapped'
                      /\ request'[w].op \in {"save", "delete"} /\ request'[w].id = r.id
    <2>1. \/ r.contents \in Queueable /\ r.names = Names[r.contents]
          \/ WritesOverlapped(r.id)
          \/ \E w \in Requests :
                /\ <<w, r.request>> \in overlapped
                /\ request[w].op \in {"save", "delete"} /\ request[w].id = r.id
      BY DEF CatalogInv, RunIsOfOneDefinition
    <2>2. CASE \E w \in Requests :
                 /\ <<w, r.request>> \in overlapped
                 /\ request[w].op \in {"save", "delete"} /\ request[w].id = r.id
      BY <1>1, <1>2, <1>4, <1>10, <2>2
    <2> QED
      BY <1>7, <1>10, <2>1, <2>2
  <1>12. RunIsOfOneDefinition'
    BY <1>1, <1>11 DEF RunIsOfOneDefinition
  <1> QED
    BY <1>5, <1>8, <1>9, <1>12 DEF CatalogInv

LEMMA MoveKeepsOverlap ==
    ASSUME Programs, OverlapInv, NEW q \in Requests, Under(q), NEW w, w # "new", Go(q, w)
    PROVE  /\ OverlapInv' /\ request' = request
           /\ step'[q] = w /\ \A r \in Requests \ {q} : step'[r] = step[r]
           /\ \A r \in Requests : Disturbed(r)' <=> Disturbed(r)
           /\ \A id \in Ids : WritesOverlapped(id)' <=> WritesOverlapped(id)
  <1>1. step' = [step EXCEPT ![q] = w] /\ request' = request /\ overlapped' = overlapped
    BY DEF Go
  <1>2. step'[q] = w /\ \A r \in Requests \ {q} : step'[r] = step[r]
    BY <1>1 DEF Programs
  <1>3. \A r \in Requests : Under(r)' => Under(r)
    BY <1>2 DEF Under
  <1>4. \A r \in Requests : step[r] # "new" => step'[r] # "new"
    BY <1>2
  <1>5. OverlapInv'
    BY <1>1, <1>3, <1>4 DEF OverlapInv
  <1> QED
    BY <1>1, <1>2, <1>5 DEF Disturbed, WritesOverlapped

\* The steps of a request that write nothing.
LEMMA ReadKeepsCatalog ==
    ASSUME CatalogInv, ShapeInv', NEW q \in Requests,
           \/ ReadRow(q) \/ ReadChildren(q) \/ ReadPosition(q) \/ List(q) \/ Count(q)
           \/ CreateRefused(q) \/ ReplaceRefused(q) \/ DeleteRefused(q) \/ QueueRefused(q)
    PROVE  CatalogInv'
  <1>0. Programs /\ Places /\ OverlapInv
    BY DEF CatalogInv, ShapeInv
  <1>1. UNCHANGED tables /\ definitions' = definitions /\ parameters' = parameters /\ runs' = runs
    BY DEF ReadRow, ReadChildren, ReadPosition, List, Count, CreateRefused, ReplaceRefused,
           DeleteRefused, QueueRefused, tables
  <1>2. Under(q)
    BY <1>0 DEF ReadRow, ReadChildren, ReadPosition, List, Count, CreateRefused, ReplaceRefused,
                DeleteRefused, QueueRefused, At, Under
  <1>3. PICK w \in Steps \ {"new"} : Go(q, w)
    BY DEF ReadRow, ReadChildren, ReadPosition, List, Count, CreateRefused, ReplaceRefused,
           DeleteRefused, QueueRefused, Steps
  <1>4. /\ OverlapInv' /\ request' = request
        /\ step'[q] = w /\ \A r \in Requests \ {q} : step'[r] = step[r]
        /\ \A r \in Requests : Disturbed(r)' <=> Disturbed(r)
        /\ \A id \in Ids : WritesOverlapped(id)' <=> WritesOverlapped(id)
    BY <1>0, <1>2, <1>3, MoveKeepsOverlap
  <1>5. \A r \in Requests \ {q} : found'[r] = found[r] /\ children'[r] = children[r]
    BY <1>0 DEF ReadRow, ReadChildren, ReadPosition, List, Count, CreateRefused,
                ReplaceRefused, DeleteRefused, QueueRefused, reads, Programs
  <1>6. /\ Working(q)' => found'[q] = definitions[request[q].id] \/ Disturbed(q)
        /\ Working(q)' /\ step'[q] = "write"
              => /\ children'[q] = ParametersOf(request[q].id) \/ Disturbed(q)
                 /\ \A p \in children'[q] : p.id = request[q].id
    <2>1. CASE ReadRow(q)
      <3>1. found' = [found EXCEPT ![q] = definitions[request[q].id]] /\ step'[q] # "write"
        <4>1. found' = [found EXCEPT ![q] = definitions[request[q].id]]
              /\ \E x \in {"children", "position", "refused"} : Go(q, x)
          BY <2>1 DEF ReadRow
        <4> QED
          BY <1>0, <4>1 DEF Go, Programs
      <3> QED
        BY <1>0, <3>1 DEF Programs
    <2>2. CASE ReadChildren(q)
      <3>1. /\ step[q] = "children" /\ found' = found
            /\ children' = [children EXCEPT ![q] = ParametersOf(request[q].id)]
        BY <2>2 DEF ReadChildren
      <3>2. found[q] = definitions[request[q].id] \/ Disturbed(q)
        BY <3>1 DEF CatalogInv, ReadInv, Working
      <3>3. children'[q] = ParametersOf(request[q].id)
        BY <1>0, <3>1 DEF Programs
      <3> QED
        BY <3>1, <3>2, <3>3 DEF ParametersOf
    <2>3. CASE \/ ReadPosition(q) \/ List(q) \/ Count(q) \/ CreateRefused(q)
               \/ ReplaceRefused(q) \/ DeleteRefused(q) \/ QueueRefused(q)
      <3>1. ~Working(q)'
        <4>1. CASE \/ ReadPosition(q) \/ CreateRefused(q) \/ ReplaceRefused(q)
                   \/ DeleteRefused(q) \/ QueueRefused(q)
          <5>1. PICK x \in {"insert", "refused"} : Go(q, x)
            BY <4>1 DEF ReadPosition, CreateRefused, ReplaceRefused, DeleteRefused, QueueRefused
          <5> QED
            BY <1>0, <5>1 DEF Go, Programs, Working
        <4>2. CASE List(q) \/ Count(q)
          <5>1. PICK x \in {"count", "write", "answered"} : Go(q, x)
            BY <4>2 DEF List, Count
          <5>2. request[q].op = "list"
            BY <4>2 DEF List, Count, At
          <5> QED
            BY <1>0, <5>1, <5>2 DEF Go, Programs, Working
        <4> QED
          BY <2>3, <4>1, <4>2
      <3> QED
        BY <3>1
    <2> QED
      BY <2>1, <2>2, <2>3
  <1>7. ReadInv'
    BY <1>1, <1>4, <1>5, <1>6 DEF CatalogInv, ReadInv, Working, ParametersOf
  <1>8. ParametersFollowContents'
    BY <1>1, <1>4 DEF CatalogInv, ParametersFollowContents, IsOneSave, ParametersOf
  <1>9. RunIsOfOneDefinition'
    <2>1. overlapped' = overlapped /\ request' = request /\ runs' = runs
      BY <1>1, <1>3 DEF Go
    <2>2. RunIsOfOneDefinition
      BY DEF CatalogInv
    <2>3. ASSUME NEW r \in runs PROVE WritesOverlapped(r.id)' <=> WritesOverlapped(r.id)
      BY <2>1 DEF WritesOverlapped
    <2> QED
      BY <2>1, <2>2, <2>3 DEF RunIsOfOneDefinition
  <1> QED
    BY <1>4, <1>7, <1>8, <1>9 DEF CatalogInv

\* A write leaves the other definitions alone, or is the first of its definition.
LEMMA WriteKeepsOthers ==
    ASSUME ShapeInv, ReadInv, NEW q \in Requests, NEW id \in Ids,
           Create(q) \/ Replace(q) \/ Delete(q) \/ Seed(q)
    PROVE  \/ definitions'[id] = definitions[id] /\ ParametersOf(id)' = ParametersOf(id)
           \/ definitions[id] = None
           \/ request[q].op \in {"save", "delete"} /\ request[q].id = id
  <1>0. Tables /\ Programs /\ Places
    BY DEF ShapeInv
  <1>1. SUFFICES ASSUME definitions[id] # None,
                        ~(request[q].op \in {"save", "delete"} /\ request[q].id = id)
                 PROVE  definitions'[id] = definitions[id] /\ ParametersOf(id)' = ParametersOf(id)
    OBVIOUS
  <1>2. definitions \in [Ids -> DefinitionRows \cup {None}]
    BY <1>0 DEF Tables
  <1>3. CASE Create(q)
    <2>1. /\ request[q].id \in Ids /\ request[q].contents \in Contents
          /\ definitions' = [definitions EXCEPT ![request[q].id] =
                 [contents |-> request[q].contents, position |-> place[q]]]
          /\ parameters' = parameters \cup
                 NewParameters(request[q].id, request[q].contents, q)
          /\ request[q].id # id
      BY <1>0, <1>1, <1>3, RequestFacts DEF Create, At, Places
    <2>2. \A p \in NewParameters(request[q].id, request[q].contents, q) : p.id # id
      BY <2>1, NewParametersTyped
    <2> QED
      BY <1>2, <2>1, <2>2 DEF ParametersOf
  <1>4. CASE Replace(q)
    <2>1. /\ request[q].id \in Ids /\ request[q].contents \in Contents
          /\ \/ definitions' = definitions
             \/ definitions' = [definitions EXCEPT ![request[q].id].contents =
                                                        request[q].contents]
          /\ parameters' = (parameters \ children[q]) \cup
                 NewParameters(request[q].id, request[q].contents, q)
          /\ request[q].id # id
      BY <1>0, <1>1, <1>4, RequestFacts DEF Replace, At, Places, Cleared, Working
    <2>2. \A p \in NewParameters(request[q].id, request[q].contents, q) : p.id # id
      BY <2>1, NewParametersTyped
    <2>3. \A p \in children[q] : p.id # id
      BY <1>4, <2>1 DEF Replace, At, Working, ReadInv
    <2> QED
      BY <1>2, <2>1, <2>2, <2>3 DEF ParametersOf
  <1>5. CASE Delete(q)
    <2>1. /\ definitions' = [definitions EXCEPT ![request[q].id] = None]
          /\ parameters' = parameters \ ParametersOf(request[q].id)
          /\ request[q].id # id
      BY <1>0, <1>1, <1>5 DEF Delete, At
    <2> QED
      BY <1>2, <2>1 DEF ParametersOf
  <1>6. CASE Seed(q)
    <2>1. CASE SeedConflict
      BY <1>6, <2>1 DEF Seed, ParametersOf
    <2>2. CASE ~SeedConflict
      <3>1. PICK position \in Orders : /\ definitions' = Seeded(definitions, position)
                                        /\ parameters' = parameters \cup SeedParameters(q)
        BY <1>6, <2>2 DEF Seed
      <3>2. id \notin DOMAIN Seeds
        BY <1>1, <2>2 DEF SeedConflict
      <3>3. definitions'[id] = definitions[id]
        BY <1>2, <3>1, <3>2, SeededTyped
      <3>4. \A p \in SeedParameters(q) : p.id # id
        BY <3>2, SeedParametersTyped
      <3> QED
        BY <3>1, <3>3, <3>4 DEF ParametersOf
    <2> QED
      BY <2>1, <2>2
  <1> QED
    BY <1>3, <1>4, <1>5, <1>6

\* What an undisturbed save leaves is its own.
LEMMA WriteKeepsContents ==
    ASSUME CatalogInv, NEW q \in Requests, NEW id \in Ids, ~WritesOverlapped(id),
           Create(q) \/ Replace(q) \/ Delete(q) \/ Seed(q)
    PROVE  IsOneSave(id)'
  <1>0. Tables /\ Programs /\ Places /\ ReadInv /\ ShapeInv /\ IsOneSave(id)
    BY DEF CatalogInv, ShapeInv, ParametersFollowContents
  <1>1. definitions \in [Ids -> DefinitionRows \cup {None}]
    BY <1>0 DEF Tables
  <1>2. definitions[id] = None => ParametersOf(id) = {}
    BY <1>0 DEF Tables, ParametersOf, Existing
  <1>3. CASE definitions'[id] = definitions[id] /\ ParametersOf(id)' = ParametersOf(id)
    BY <1>0, <1>3 DEF IsOneSave
  <1>4. CASE Create(q) /\ request[q].id = id
    <2> DEFINE c == request[q].contents
               row == [contents |-> c, position |-> place[q]]
    <2>1. /\ definitions[id] = None /\ definitions' = [definitions EXCEPT ![id] = row]
          /\ parameters' = parameters \cup NewParameters(id, c, q)
      BY <1>4 DEF Create
    <2>2. c \in Contents /\ row \in DefinitionRows /\ row.contents = c
      BY <1>0, <1>4, RequestFacts DEF Create, At, Places, Programs, DefinitionRows
    <2> HIDE DEF c, row
    <2>3. definitions'[id] = row /\ row # None
      BY <1>1, <2>1, <2>2, NoneFacts
    <2>4. ParametersOf(id)' = NewParameters(id, c, q)
      BY <1>2, <2>1, <2>2, NewParametersTyped DEF ParametersOf
    <2> QED
      BY <2>2, <2>3, <2>4, NewParametersTyped DEF IsOneSave
  <1>5. CASE Replace(q) /\ request[q].id = id
    <2> DEFINE c == request[q].contents
    <2>1. /\ request[q].op = "save" /\ c \in Contents /\ found[q] \in DefinitionRows
          /\ Working(q) /\ step[q] = "write"
      BY <1>0, <1>5, RequestFacts DEF Replace, At, Places, Working
    <2>2. ~Disturbed(q)
      <3>1. ASSUME NEW w \in Requests, <<w, q>> \in overlapped,
                   request[w].op \in {"save", "delete"}, request[w].id = id
            PROVE  FALSE
        <4>1. <<q, w>> \in overlapped
          BY <3>1 DEF CatalogInv, OverlapInv
        <4>2. \A p \in {q, w} : request[p].op \in {"save", "delete"} /\ request[p].id = id
          BY <1>5, <2>1, <3>1
        <4> QED
          BY <2>1, <4>1, <4>2 DEF WritesOverlapped
      <3> QED
        BY <1>5, <3>1 DEF Disturbed
    <2>3. found[q] = definitions[id] /\ children[q] = ParametersOf(id)
      BY <1>0, <1>5, <2>1, <2>2 DEF ReadInv
    <2>4. /\ definitions' = IF c = found[q].contents THEN definitions
                            ELSE [definitions EXCEPT ![id].contents = c]
          /\ parameters' = (parameters \ ParametersOf(id)) \cup NewParameters(id, c, q)
      BY <1>5, <2>3 DEF Replace, Cleared
    <2> HIDE DEF c
    <2>5. /\ definitions[id] \in DefinitionRows
          /\ [definitions[id] EXCEPT !.contents = c] \in DefinitionRows
      BY <2>1, <2>3 DEF DefinitionRows
    <2>6. definitions'[id] # None /\ definitions'[id].contents = c
      <3>1. CASE c = found[q].contents
        BY <2>3, <2>4, <2>5, <3>1, NoneFacts
      <3>2. CASE c # found[q].contents
        <4>1. definitions'[id] = [definitions[id] EXCEPT !.contents = c]
          BY <1>1, <2>4, <3>2
        <4>2. [definitions[id] EXCEPT !.contents = c].contents = c
          BY <2>5 DEF DefinitionRows
        <4> QED
          BY <2>5, <4>1, <4>2, NoneFacts
      <3> QED
        BY <3>1, <3>2
    <2>7. ParametersOf(id)' = NewParameters(id, c, q)
      BY <2>1, <2>4, NewParametersTyped DEF ParametersOf
    <2> QED
      BY <2>1, <2>6, <2>7, NewParametersTyped DEF IsOneSave
  <1>6. CASE Delete(q) /\ request[q].id = id
    <2>1. /\ definitions' = [definitions EXCEPT ![id] = None]
          /\ parameters' = parameters \ ParametersOf(id)
      BY <1>6 DEF Delete
    <2>2. definitions'[id] = None /\ ParametersOf(id)' = {}
      BY <1>1, <2>1 DEF ParametersOf
    <2> QED
      BY <2>2 DEF IsOneSave
  <1>7. CASE Seed(q)
    <2>1. CASE SeedConflict
      BY <1>3, <1>7, <2>1 DEF Seed, ParametersOf
    <2>2. CASE ~SeedConflict /\ id \in DOMAIN Seeds
      <3>1. PICK position \in Orders : /\ definitions' = Seeded(definitions, position)
                                        /\ parameters' = parameters \cup SeedParameters(q)
        BY <1>7, <2>2 DEF Seed
      <3>2. definitions'[id] # None /\ definitions'[id].contents = Seeds[id]
        BY <1>1, <2>2, <3>1, SeededTyped, NoneFacts
      <3>3. definitions[id] = None
        BY <2>2 DEF SeedConflict
      <3>4. ParametersOf(id)' = {p \in SeedParameters(q) : p.id = id}
        BY <1>2, <3>1, <3>3 DEF ParametersOf
      <3> QED
        BY <2>2, <3>2, <3>4, SeedParametersTyped DEF IsOneSave
    <2>3. CASE ~SeedConflict /\ id \notin DOMAIN Seeds
      <3>1. PICK position \in Orders : /\ definitions' = Seeded(definitions, position)
                                        /\ parameters' = parameters \cup SeedParameters(q)
        BY <1>7, <2>3 DEF Seed
      <3>2. definitions'[id] = definitions[id]
        BY <1>1, <2>3, <3>1, SeededTyped
      <3>3. ParametersOf(id)' = ParametersOf(id)
        BY <2>3, <3>1, SeedParametersTyped DEF ParametersOf
      <3> QED
        BY <1>3, <3>2, <3>3
    <2> QED
      BY <2>1, <2>2, <2>3
  <1>8. CASE ~Seed(q) /\ request[q].id # id
    <2>1. CASE definitions[id] # None
      BY <1>0, <1>3, <1>8, <2>1, WriteKeepsOthers
    <2>2. CASE definitions[id] = None
      <3>1. /\ request[q].id \in Ids
            /\ Create(q) \/ Replace(q) => request[q].contents \in Contents
        BY <1>0, <1>8, RequestFacts DEF Create, Replace, Delete, At, Places, Working
      <3>2. definitions'[id] = definitions[id]
        BY <1>1, <1>8, <3>1 DEF Create, Replace, Delete
      <3>3. \A p \in parameters' : p.id = id => FALSE
        <4>1. \A p \in parameters : p.id # id
          BY <1>2, <2>2 DEF ParametersOf
        <4>2. CASE Delete(q)
          BY <4>1, <4>2 DEF Delete
        <4>3. CASE Create(q)
          BY <1>8, <3>1, <4>1, <4>3, NewParametersTyped DEF Create
        <4>4. CASE Replace(q)
          BY <1>8, <3>1, <4>1, <4>4, NewParametersTyped DEF Replace
        <4> QED
          BY <1>8, <4>2, <4>3, <4>4
      <3>4. ParametersOf(id)' = ParametersOf(id)
        BY <1>2, <2>2, <3>3 DEF ParametersOf
      <3> QED
        BY <1>3, <3>2, <3>4
    <2> QED
      BY <2>1, <2>2
  <1> QED
    BY <1>4, <1>5, <1>6, <1>7, <1>8

LEMMA WriteKeepsCatalog ==
    ASSUME CatalogInv, ShapeInv', NEW q \in Requests,
           Create(q) \/ Replace(q) \/ Delete(q) \/ Seed(q)
    PROVE  CatalogInv'
  <1>0. Tables /\ Programs /\ Places /\ OverlapInv /\ ReadInv /\ ShapeInv
    BY DEF CatalogInv, ShapeInv
  <1>1. /\ Under(q) /\ Go(q, "answered") /\ found' = found /\ children' = children
        /\ runs' = runs
    BY DEF Create, Replace, Delete, Seed, At, Under, reads
  <1>2. /\ OverlapInv' /\ request' = request
        /\ step'[q] = "answered" /\ \A r \in Requests \ {q} : step'[r] = step[r]
        /\ \A r \in Requests : Disturbed(r)' <=> Disturbed(r)
        /\ \A id \in Ids : WritesOverlapped(id)' <=> WritesOverlapped(id)
    BY <1>0, <1>1, MoveKeepsOverlap
  <1>3. ASSUME NEW r \in Requests, Working(r)'
        PROVE  /\ found[r] = definitions'[request[r].id] \/ Disturbed(r)
               /\ step[r] = "write"
                     => /\ \/ children[r] = {p \in parameters' : p.id = request[r].id}
                           \/ Disturbed(r)
                        /\ \A p \in children[r] : p.id = request[r].id
    <2>1. r # q /\ Working(r)
      BY <1>2, <1>3 DEF Working
    <2>2. request[r].id \in Ids /\ found[r] # None
      BY <1>0, <2>1, RequestFacts, NoneFacts DEF Places
    <2>3. PICK id \in Ids : id = request[r].id
      BY <2>2
    <2>4. /\ found[r] = definitions[id] \/ Disturbed(r)
          /\ step[r] = "write" => /\ children[r] = {p \in parameters : p.id = id} \/ Disturbed(r)
                                  /\ \A p \in children[r] : p.id = id
      BY <1>0, <2>1, <2>3 DEF ReadInv, ParametersOf
    <2>5. CASE definitions'[id] = definitions[id] /\ ParametersOf(id)' = ParametersOf(id)
      BY <2>3, <2>4, <2>5 DEF ParametersOf
    <2>6. CASE definitions[id] = None
      BY <2>2, <2>3, <2>4, <2>6
    <2>7. CASE request[q].op \in {"save", "delete"} /\ request[q].id = id
      <3>1. Under(r)
        BY <2>1 DEF Working, Under
      <3>2. <<q, r>> \in overlapped
        BY <1>0, <1>1, <2>1, <3>1 DEF OverlapInv
      <3>3. Disturbed(r)
        BY <2>3, <2>7, <3>2 DEF Disturbed
      <3> QED
        BY <2>3, <2>4, <3>3
    <2> QED
      BY <1>0, <2>5, <2>6, <2>7, WriteKeepsOthers
  <1>4. ReadInv'
    <2>1. \A r \in Requests : Working(r)' => r # q
      BY <1>2 DEF Working
    <2> QED
      BY <1>1, <1>2, <1>3, <2>1 DEF ReadInv, ParametersOf
  <1>5. ParametersFollowContents'
    <2>1. \A id \in Ids : WritesOverlapped(id)' \/ IsOneSave(id)'
      BY <1>2, WriteKeepsContents
    <2> QED
      BY <2>1 DEF ParametersFollowContents
  <1>6. RunIsOfOneDefinition'
    <2>1. overlapped' = overlapped /\ request' = request /\ runs' = runs
      BY <1>1 DEF Go
    <2>2. RunIsOfOneDefinition
      BY DEF CatalogInv
    <2>3. ASSUME NEW r \in runs PROVE WritesOverlapped(r.id)' <=> WritesOverlapped(r.id)
      BY <2>1 DEF WritesOverlapped
    <2> QED
      BY <2>1, <2>2, <2>3 DEF RunIsOfOneDefinition
  <1> QED
    BY <1>2, <1>4, <1>5, <1>6 DEF CatalogInv

LEMMA QueueKeepsCatalog ==
    ASSUME CatalogInv, ShapeInv', NEW q \in Requests, Queue(q)
    PROVE  CatalogInv'
  <1>0. Tables /\ Programs /\ Places /\ OverlapInv /\ ReadInv
    BY DEF CatalogInv, ShapeInv
  <1> DEFINE names == {p.name : p \in children[q]}
             run == [request |-> q, id |-> request[q].id, contents |-> found[q].contents,
                     names |-> names]
  <1>1. /\ step[q] = "write" /\ request[q].op = "queue" /\ definitions[request[q].id] # None
        /\ runs' = runs \cup {run} /\ Go(q, "answered")
        /\ definitions' = definitions /\ parameters' = parameters
        /\ found' = found /\ children' = children
    BY DEF Queue, At, reads
  <1>2. Under(q) /\ Working(q)
    BY <1>1 DEF Under, Working
  <1>3. /\ OverlapInv' /\ request' = request
        /\ step'[q] = "answered" /\ \A r \in Requests \ {q} : step'[r] = step[r]
        /\ \A r \in Requests : Disturbed(r)' <=> Disturbed(r)
        /\ \A id \in Ids : WritesOverlapped(id)' <=> WritesOverlapped(id)
    BY <1>0, <1>1, <1>2, MoveKeepsOverlap
  <1>4. request[q].id \in Ids /\ found[q].contents \in Queueable
    BY <1>0, <1>1, <1>2, RequestFacts DEF Places
  <1>5. ReadInv'
    BY <1>0, <1>1, <1>3 DEF ReadInv, Working, ParametersOf
  <1>6. ParametersFollowContents'
    BY <1>1, <1>3 DEF CatalogInv, ParametersFollowContents, IsOneSave, ParametersOf
  <1>7. \/ names = Names[found[q].contents]
        \/ WritesOverlapped(request[q].id) \/ Disturbed(q)
    <2> SUFFICES ASSUME ~WritesOverlapped(request[q].id), ~Disturbed(q)
                 PROVE  names = Names[found[q].contents]
      OBVIOUS
    <2>1. found[q] = definitions[request[q].id] /\ children[q] = ParametersOf(request[q].id)
      BY <1>0, <1>1, <1>2 DEF ReadInv
    <2>2. IsOneSave(request[q].id)
      BY <1>4 DEF CatalogInv, ParametersFollowContents
    <2> QED
      BY <1>1, <2>1, <2>2 DEF IsOneSave
  <1>8. /\ run.request = q /\ run.id = request[q].id /\ run.contents = found[q].contents
        /\ run.names = names
    OBVIOUS
  <1> HIDE DEF run, names
  <1>9. RunIsOfOneDefinition'
    <2>1. overlapped' = overlapped /\ request' = request
      BY <1>1 DEF Go
    <2>2. \A id : WritesOverlapped(id)' <=> WritesOverlapped(id)
      BY <2>1 DEF WritesOverlapped
    <2>3. ASSUME NEW r \in runs \cup {run}
          PROVE  \/ r.contents \in Queueable /\ r.names = Names[r.contents]
                 \/ WritesOverlapped(r.id)
                 \/ \E w \in Requests :
                       /\ <<w, r.request>> \in overlapped
                       /\ request[w].op \in {"save", "delete"} /\ request[w].id = r.id
      <3>1. CASE r \in runs
        BY <3>1 DEF CatalogInv, RunIsOfOneDefinition
      <3>2. CASE r = run
        BY <1>4, <1>7, <1>8, <3>2 DEF Disturbed
      <3> QED
        BY <3>1, <3>2
    <2> QED
      BY <1>1, <2>1, <2>2, <2>3 DEF RunIsOfOneDefinition
  <1> QED
    BY <1>3, <1>5, <1>6, <1>9 DEF CatalogInv

LEMMA CatalogStep == CatalogInv /\ [Next]_vars => CatalogInv'
  <1> SUFFICES ASSUME CatalogInv, [Next]_vars PROVE CatalogInv'
    OBVIOUS
  <1>0. ShapeInv'
    BY ShapeStep DEF CatalogInv
  <1>1. CASE UNCHANGED vars
    <2>1. UNCHANGED <<definitions, parameters, runs, step, request, found, children, overlapped>>
      BY <1>1 DEF vars
    <2>2. OverlapInv'
      BY <2>1 DEF CatalogInv, OverlapInv, Under
    <2>3. ReadInv'
      BY <2>1 DEF CatalogInv, ReadInv, Working, Disturbed, ParametersOf
    <2>4. ParametersFollowContents'
      BY <2>1 DEF CatalogInv, ParametersFollowContents, IsOneSave, WritesOverlapped, ParametersOf
    <2>5. RunIsOfOneDefinition'
      <3>1. \A id : WritesOverlapped(id)' <=> WritesOverlapped(id)
        BY <2>1 DEF WritesOverlapped
      <3> QED
        BY <2>1, <3>1 DEF CatalogInv, RunIsOfOneDefinition
    <2> QED
      BY <1>0, <2>2, <2>3, <2>4, <2>5 DEF CatalogInv
  <1>2. CASE Next
    <2>1. PICK q \in Requests :
             \/ \E op, id, c : Arrive(q, op, id, c)
             \/ ReadRow(q) \/ ReadChildren(q) \/ ReadPosition(q)
             \/ Create(q) \/ CreateRefused(q) \/ Replace(q) \/ ReplaceRefused(q)
             \/ Delete(q) \/ DeleteRefused(q)
             \/ List(q) \/ Count(q) \/ Seed(q)
             \/ Queue(q) \/ QueueRefused(q)
      BY <1>2 DEF Next
    <2> QED
      BY <1>0, <2>1, ArriveKeepsCatalog, ReadKeepsCatalog, WriteKeepsCatalog, QueueKeepsCatalog
  <1> QED
    BY <1>1, <1>2

\* A definition and its parameters come from one save or from the seeds, unless
\* two saves of it, or a save and a delete, overlapped: whatever the requests to
\* the catalog are and however their statements interleave.
THEOREM SavesAreWhole == Spec => []ParametersFollowContents
  <1>1. CatalogInv => ParametersFollowContents
    BY DEF CatalogInv
  <1> QED
    BY <1>1, CatalogInit, CatalogStep, PTL DEF Spec

\* A run is made of one definition that could be queued, unless a save or a
\* delete of the definition overlapped with the two statements that read it, or
\* two saves of it had mixed before.
THEOREM RunsAreOfOneDefinition == Spec => []RunIsOfOneDefinition
  <1>1. CatalogInv => RunIsOfOneDefinition
    BY DEF CatalogInv
  <1> QED
    BY <1>1, CatalogInit, CatalogStep, PTL DEF Spec
=============================================================================
