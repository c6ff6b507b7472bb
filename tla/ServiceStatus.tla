--------------------------- MODULE ServiceStatus ---------------------------
(***************************************************************************)
(* GET /services/snapshot: LlamaSwapCollector.collect asks llama-swap five *)
(* questions, one after the other, while the Docker collector runs in a    *)
(* thread; and POST /services/llama-swap/unload.  Any answer may be        *)
(* missing, not be JSON, or be JSON of another shape, and the server goes  *)
(* on between two answers, so a snapshot is put together from several of   *)
(* its states.                                                             *)
(***************************************************************************)
EXTENDS LlamaSwapServer

VARIABLES
    hasKey,      \* settings.llama_swap_api_key is set
    snap         \* the snapshot being taken, or the last one taken

statusVars == <<hasKey, snap>>

\* The kinds of backends, with the models of each.
Kinds == {"vLLM", "llama.cpp"}
OfKind(ms, k) == IF k = "vLLM" THEN ms \cap VllmModels ELSE ms \ VllmModels

\* pc: the next question, or how the snapshot ended.  misread: the lists of
\* which something had another shape (history).  loaded0 and life0: the server
\* when the snapshot began (history).
NoSnapshot ==
    [pc |-> "none", models |-> {}, running |-> {}, failing |-> {}, errors |-> FALSE,
     misread |-> {}, loaded0 |-> {}, life0 |-> [m \in Models |-> 0]]

Questions == {"health", "version", "models", "running", "metrics", "docker"}
Lists == {"models", "running"}
Ends == {"offline", "no_key", "complete", "error"}

StatusTypeOK ==
    /\ hasKey \in BOOLEAN
    /\ snap.pc \in {"none"} \cup Questions \cup Ends
    /\ snap.models \subseteq Models /\ snap.running \subseteq Models
    /\ snap.failing \subseteq Kinds /\ snap.errors \in BOOLEAN
    /\ snap.misread \subseteq Lists

StatusInit == hasKey \in BOOLEAN /\ snap = NoSnapshot

-----------------------------------------------------------------------------
(* collect()                                                               *)

\* A mutant of BeginSnapshot: the running models of the last snapshot are
\* kept until they are read anew.
BeginSnapshotKeeping ==
    /\ snap.pc \in {"none"} \cup Ends
    /\ CountRequest
    /\ snap' = [NoSnapshot EXCEPT !.pc = "health", !.loaded0 = loaded, !.life0 = life,
                                  !.running = snap.running]
    /\ UNCHANGED hasKey

BeginSnapshot ==
    /\ snap.pc \in {"none"} \cup Ends
    /\ CountRequest
    /\ snap' = [NoSnapshot EXCEPT !.pc = "health", !.loaded0 = loaded, !.life0 = life]
    /\ UNCHANGED hasKey

\* Without an answer to the first question, or without a key for the others,
\* llama-swap is asked no more.
AskHealth ==
    /\ snap.pc = "health"
    /\ \E next \in {"offline", IF hasKey THEN "version" ELSE "no_key"} :
          snap' = [snap EXCEPT !.pc = next]
    /\ UNCHANGED <<hasKey, requests>>

\* A question that failed is noted and the next one asked; an answer that is
\* not JSON ends the request with an error.
Ask(question, next, answered) ==
    /\ snap.pc = question
    /\ \/ \E s \in answered : snap' = [s EXCEPT !.pc = next]
       \/ snap' = [snap EXCEPT !.pc = next, !.errors = TRUE]
       \/ snap' = [snap EXCEPT !.pc = "error"]
    /\ UNCHANGED <<hasKey, requests>>

AskVersion == Ask("version", "models", {snap})

\* _extract_model_ids and _extract_running_models: of an answer, or an entry
\* of it, that has another shape nothing is kept, and nothing is said.
Misread(part, whole, list) == IF part = whole THEN {} ELSE {list}

AskModels ==
    Ask("models", "running",
        {[snap EXCEPT !.models = ms, !.misread = @ \cup Misread(ms, Models, "models")]
            : ms \in SUBSET Models})

ListRunning ==
    {[snap EXCEPT !.running = ms, !.misread = @ \cup Misread(ms, loaded, "running")]
        : ms \in SUBSET loaded}

\* A mutant of AskRunning: a missing answer is taken for an empty one.
AskRunningSilently ==
    Ask("running", "metrics", {snap} \cup ListRunning)

AskRunning == Ask("running", "metrics", ListRunning)

\* failing: the kinds with a 5xx answer within the metrics window.
AskMetrics ==
    Ask("metrics", "docker", {[snap EXCEPT !.failing = f] : f \in SUBSET Kinds})

\* asyncio.gather: the Docker thread ended too, with a status of its own, or
\* with output that is not JSON, which fails the whole request, also one that
\* needed no more of llama-swap.
JoinDocker ==
    /\ snap.pc \in {"docker", "offline", "no_key"}
    /\ \E end \in {IF snap.pc = "docker" THEN "complete" ELSE snap.pc, "error"} :
          snap' = [snap EXCEPT !.pc = end]
    /\ UNCHANGED <<hasKey, requests>>

StatusStep ==
    \/ BeginSnapshot \/ AskHealth \/ AskVersion \/ AskModels \/ AskRunning
    \/ AskMetrics \/ JoinDocker

\* The unload request reached llama-swap, whether or not its answer arrives.
UnloadModels ==
    /\ hasKey
    /\ loaded' = {}
    /\ UNCHANGED <<served, life, before, now, loads, servings, requests,
                   statusVars>>

-----------------------------------------------------------------------------
(* What a snapshot shows                                                   *)

SwapStatus ==
    IF snap.pc = "offline" THEN "offline"
    ELSE IF snap.pc = "complete" /\ ~snap.errors THEN "healthy" ELSE "degraded"

SwapActive ==
    snap.pc = "complete" /\ snap.running # {} /\ ~(snap.errors /\ snap.models = {})

BackendActive(k) == snap.pc = "complete" /\ OfKind(snap.running, k) # {}

BackendStatus(k) ==
    IF \/ snap.pc = "offline"
       \/ snap.pc = "complete" /\ OfKind(snap.models \cup snap.running, k) = {}
    THEN "offline"
    ELSE IF BackendActive(k) /\ k \notin snap.failing THEN "healthy" ELSE "degraded"
============================================================================
