---------------------------- MODULE JobCatalog -----------------------------
(***************************************************************************)
(* The job definitions in the database and the requests of the API that    *)
(* list, save, delete and queue them.  A request runs in a session of its  *)
(* own: it reads what it needs, one statement after the other, and writes  *)
(* in one transaction; the requests interleave between statements, under   *)
(* READ COMMITTED.  The rows a transaction has locked make another writer  *)
(* wait, so that its writes take effect at its commit.                     *)
(*                                                                         *)
(* A definition is abstracted to its contents, which determines the names  *)
(* of its parameters and whether it can be queued.  A new parameter row    *)
(* gets a new key; the request that wrote it serves as one.                *)
(***************************************************************************)
EXTENDS Integers, FiniteSets, FiniteSetsExt, Functions

CONSTANTS
    Requests,       \* the requests to the API
    Ids,            \* the ids of definitions, finitely many
    Seeds,          \* Seeds[id]: contents of the starter definition, if it is one
    Contents,
    Names,          \* Names[c]: the names of the parameters of contents c
    Queueable,      \* contents that are enabled and of native execution mode
    None, Seeder    \* no row; an earlier request that has seeded the catalog

ASSUME CatalogAssumption ==
    /\ IsFiniteSet(Ids) /\ DOMAIN Seeds \subseteq Ids /\ \A id \in DOMAIN Seeds : Seeds[id] \in Contents
    /\ Queueable \subseteq Contents /\ DOMAIN Names = Contents
    /\ None \notin Contents \cup Requests /\ Seeder \notin Requests

\* No row and no request are told from any of them.
ASSUME NoneAssumption ==
    /\ None \notin [contents : Contents, position : Nat]
    /\ None \notin [op : {"list", "save", "delete", "queue"}, id : Ids \cup {None},
                  contents : Contents \cup {None}]

VARIABLES
    definitions,    \* job_definitions: [contents, position] or None, by id
    parameters,     \* job_parameters: [id, name, key]
    runs,           \* job_runs: [request, id, contents, names]
    step,           \* step[q]: where request q is
    request,        \* request[q]: [op, id, contents], None before it arrives
    found,          \* found[q]: the definition row it read
    children,       \* children[q]: the parameter rows it read
    withRuns,       \* withRuns[q]: whether a delete found runs
    place,          \* place[q]: the position for a new definition
    overlapped      \* pairs <<q, r>> that were under way at the same time (history)

vars == <<definitions, parameters, runs, step, request, found, children, withRuns,
          place, overlapped>>
tables == <<definitions, parameters, runs>>
reads == <<found, children, withRuns, place>>

-----------------------------------------------------------------------------
Existing == {id \in Ids : definitions[id] # None}
ParametersOf(id) == {p \in parameters : p.id = id}
RunsOf(id) == {r \in runs : r.id = id}
NewParameters(id, c, key) == {[id |-> id, name |-> n, key |-> key] : n \in Names[c]}

\* _next_definition_position
NextPosition ==
    IF Existing = {} THEN 0 ELSE 1 + Max({definitions[id].position : id \in Existing})

\* The starter definitions, as ensure_seeded_job_definitions inserts them.
Seeded(rows, position) ==
    [id \in Ids |-> IF id \in DOMAIN Seeds
                    THEN [contents |-> Seeds[id], position |-> position[id]]
                    ELSE rows[id]]

SeedParameters(key) == UNION {NewParameters(id, Seeds[id], key) : id \in DOMAIN Seeds}

Orders == {p \in [DOMAIN Seeds -> 0 .. Cardinality(DOMAIN Seeds) - 1] : IsInjective(p)}

NoRows == [id \in Ids |-> None]

\* An empty catalog, or the one the first listing has left.
Init ==
    /\ \/ definitions = NoRows /\ parameters = {}
       \/ \E position \in Orders :
             definitions = Seeded(NoRows, position) /\ parameters = SeedParameters(Seeder)
    /\ runs = {}
    /\ step = [q \in Requests |-> "new"] /\ request = [q \in Requests |-> None]
    /\ found = [q \in Requests |-> None] /\ children = [q \in Requests |-> {}]
    /\ withRuns = [q \in Requests |-> FALSE] /\ place = [q \in Requests |-> 0]
    /\ overlapped = {}

Under(q) == step[q] \notin {"new", "answered", "refused"}

Arrive(q, op, id, c) ==
    /\ step[q] = "new"
    /\ request' = [request EXCEPT ![q] = [op |-> op, id |-> id, contents |-> c]]
    /\ step' = [step EXCEPT ![q] = "read"]
    /\ overlapped' = overlapped \cup {<<q, r>> : r \in {r \in Requests : Under(r)}}
                                \cup {<<r, q>> : r \in {r \in Requests : Under(r)}}
    /\ UNCHANGED <<tables, reads>>

At(q, op, where) == step[q] = where /\ request[q].op = op
Go(q, where) == step' = [step EXCEPT ![q] = where] /\ UNCHANGED <<request, overlapped>>

\* session.get: the row of the definition.
ReadRow(q) ==
    /\ step[q] = "read" /\ request[q].op # "list"
    /\ LET row == definitions[request[q].id]
       IN  /\ found' = [found EXCEPT ![q] = row]
           /\ Go(q, IF row # None THEN "children"
                    ELSE IF request[q].op = "save" THEN "position" ELSE "refused")
    /\ UNCHANGED <<tables, children, withRuns, place>>

\* A mutant of Rejected: a disabled definition can be queued.
NeverRejected(q) == FALSE

Rejected(q) == request[q].op = "queue" /\ found[q].contents \notin Queueable

\* The parameter rows (selectinload, or the cascade of a delete) come with a
\* statement of their own.
ReadChildren(q) ==
    /\ step[q] = "children"
    /\ children' = [children EXCEPT ![q] = ParametersOf(request[q].id)]
    /\ withRuns' = [withRuns EXCEPT
                       ![q] = request[q].op = "delete" /\ RunsOf(request[q].id) # {}]
    /\ Go(q, IF Rejected(q) THEN "refused" ELSE "write")
    /\ UNCHANGED <<tables, found, place>>

-----------------------------------------------------------------------------
(* Saving                                                                  *)

ReadPosition(q) ==
    /\ At(q, "save", "position")
    /\ place' = [place EXCEPT ![q] = NextPosition]
    /\ Go(q, "insert")
    /\ UNCHANGED <<tables, found, children, withRuns>>

\* The primary key decides between two requests that create a definition.
Create(q) ==
    /\ At(q, "save", "insert") /\ definitions[request[q].id] = None
    /\ LET id == request[q].id
           c == request[q].contents
       IN  /\ definitions' = [definitions EXCEPT ![id] = [contents |-> c, position |-> place[q]]]
           /\ parameters' = parameters \cup NewParameters(id, c, q)
    /\ Go(q, "answered")
    /\ UNCHANGED <<runs, reads>>

CreateRefused(q) ==
    /\ At(q, "save", "insert") /\ definitions[request[q].id] # None
    /\ Go(q, "refused")
    /\ UNCHANGED <<tables, reads>>

\* A mutant of Cleared: a save leaves the parameters it does not name.
ClearedNothing(q) == {}

\* parameters.clear() deletes the rows that were read, by their keys.
Cleared(q) == children[q]

\* uq_job_parameter_name
NameTaken(q) ==
    \E p \in ParametersOf(request[q].id) \ Cleared(q) : p.name \in Names[request[q].contents]

\* An UPDATE is sent only for what differs from the row that was read; it
\* needs the row, and so do new parameter rows.
RowMissing(q) ==
    /\ definitions[request[q].id] = None
    /\ request[q].contents # found[q].contents \/ Names[request[q].contents] # {}

Replace(q) ==
    /\ At(q, "save", "write") /\ ~NameTaken(q) /\ ~RowMissing(q)
    /\ LET id == request[q].id
           c == request[q].contents
       IN  /\ definitions' =
                 IF c = found[q].contents THEN definitions
                 ELSE [definitions EXCEPT ![id].contents = c]
           /\ parameters' = (parameters \ Cleared(q)) \cup NewParameters(id, c, q)
    /\ Go(q, "answered")
    /\ UNCHANGED <<runs, reads>>

ReplaceRefused(q) ==
    /\ At(q, "save", "write") /\ (NameTaken(q) \/ RowMissing(q))
    /\ Go(q, "refused")
    /\ UNCHANGED <<tables, reads>>

-----------------------------------------------------------------------------
(* Deleting, listing and queueing                                          *)

\* A mutant of HasRuns: only the runs that were read matter.
HasRunsAsRead(q) == withRuns[q]

\* The runs that were read would lose their definition_id, which is NOT NULL;
\* the foreign key stops the delete if there are others.
HasRuns(q) == withRuns[q] \/ RunsOf(request[q].id) # {}

Delete(q) ==
    /\ At(q, "delete", "write") /\ ~HasRuns(q)
    /\ definitions' = [definitions EXCEPT ![request[q].id] = None]
    /\ parameters' = parameters \ ParametersOf(request[q].id)
    /\ Go(q, "answered")
    /\ UNCHANGED <<runs, reads>>

DeleteRefused(q) ==
    /\ At(q, "delete", "write") /\ HasRuns(q)
    /\ Go(q, "refused")
    /\ UNCHANGED <<tables, reads>>

List(q) ==
    /\ At(q, "list", "read")
    /\ Go(q, IF Existing = {} THEN "count" ELSE "answered")
    /\ UNCHANGED <<tables, reads>>

Count(q) ==
    /\ At(q, "list", "count")
    /\ Go(q, IF Existing = {} THEN "write" ELSE "answered")
    /\ UNCHANGED <<tables, reads>>

SeedConflict == \E id \in DOMAIN Seeds : definitions[id] # None

\* ensure_seeded_job_definitions; a conflict rolls all of it back and the
\* request is answered all the same.
Seed(q) ==
    /\ At(q, "list", "write")
    /\ IF SeedConflict THEN UNCHANGED <<definitions, parameters>>
       ELSE \E position \in Orders :
               /\ definitions' = Seeded(definitions, position)
               /\ parameters' = parameters \cup SeedParameters(q)
    /\ Go(q, "answered")
    /\ UNCHANGED <<runs, reads>>

\* The run is made of what was read; its definition must still be there.
Queue(q) ==
    /\ At(q, "queue", "write") /\ definitions[request[q].id] # None
    /\ runs' = runs \cup {[request |-> q, id |-> request[q].id,
                           contents |-> found[q].contents,
                           names |-> {p.name : p \in children[q]}]}
    /\ Go(q, "answered")
    /\ UNCHANGED <<definitions, parameters, reads>>

QueueRefused(q) ==
    /\ At(q, "queue", "write") /\ definitions[request[q].id] = None
    /\ Go(q, "refused")
    /\ UNCHANGED <<tables, reads>>

Next ==
    \E q \in Requests :
        \/ Arrive(q, "list", None, None)
        \/ \E id \in Ids : Arrive(q, "delete", id, None) \/ Arrive(q, "queue", id, None)
        \/ \E id \in Ids, c \in Contents : Arrive(q, "save", id, c)
        \/ ReadRow(q) \/ ReadChildren(q) \/ ReadPosition(q)
        \/ Create(q) \/ CreateRefused(q) \/ Replace(q) \/ ReplaceRefused(q)
        \/ Delete(q) \/ DeleteRefused(q)
        \/ List(q) \/ Count(q) \/ Seed(q)
        \/ Queue(q) \/ QueueRefused(q)

Spec == Init /\ [][Next]_vars

-----------------------------------------------------------------------------
(* Properties                                                              *)

\* Parameters belong to a definition, which has one of each name.
TypeOK ==
    /\ \A id \in Existing :
          definitions[id].contents \in Contents /\ definitions[id].position \in Nat
    /\ \A p \in parameters :
          /\ p.id \in Existing /\ p.key \in Requests \cup {Seeder}
          /\ \A other \in ParametersOf(p.id) : other.name = p.name => other = p
    /\ \A r \in runs : request[r.request].op = "queue" /\ step[r.request] = "answered"
    /\ \A q \in Requests : (request[q] = None) = (step[q] = "new")

\* A save of the definition was under way together with another save of it, or
\* with a delete.
WritesOverlapped(id) ==
    \E q, r \in Requests :
        /\ <<q, r>> \in overlapped
        /\ \A p \in {q, r} : request[p].op \in {"save", "delete"} /\ request[p].id = id
        /\ request[q].op = "save"

IsOneSave(id) ==
    {p.name : p \in ParametersOf(id)} =
        IF definitions[id] = None THEN {} ELSE Names[definitions[id].contents]

\* A definition and its parameters come from one save or from the seeds, also
\* when it is deleted, seeded, created and queued in any order, unless a save
\* of it overlapped with another save or with a delete.
ParametersFollowContents ==
    \A id \in Ids : WritesOverlapped(id) \/ IsOneSave(id)

\* A definition is not deleted while a run refers to it, even if the run is
\* queued after the delete has looked for runs.
RunHasDefinition == \A r \in runs : definitions[r.id] # None

\* The parameters of a run are those of the contents that was found queueable,
\* unless its definition was saved or deleted (and made again) between the two
\* statements that read it, or already mixed two saves.
RunIsOfOneDefinition ==
    \A r \in runs :
        \/ r.contents \in Queueable /\ r.names = Names[r.contents]
        \/ WritesOverlapped(r.id)
        \/ \E q \in Requests :
              /\ <<q, r.request>> \in overlapped
              /\ request[q].op \in {"save", "delete"} /\ request[q].id = r.id

=============================================================================
