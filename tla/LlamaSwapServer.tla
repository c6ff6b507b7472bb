-------------------------- MODULE LlamaSwapServer --------------------------
(***************************************************************************)
(* The model server the dashboard watches, as the collectors see it.  It   *)
(* is not part of the repository: llama-swap loads a model by starting its *)
(* backend process, the process counts the requests it served since it was *)
(* started, and unloading a model ends its process.                        *)
(***************************************************************************)
EXTENDS Integers, FiniteSets

CONSTANTS
    Models,        \* the models llama-swap may load, each at an address of its own
    VllmModels,    \* those served by vLLM; the others are served by llama.cpp
    MaxLoads,      \* bound: how often models are loaded
    MaxServed,     \* bound: requests served by the backends
    MaxTime,       \* bound: the clock
    MaxRequests    \* bound: requests of the dashboard to its API

ASSUME ModelsAssumption == IsFiniteSet(Models) /\ VllmModels \subseteq Models
ASSUME ServerBoundsAssumption ==
    MaxLoads \in Nat /\ MaxServed \in Nat /\ MaxTime \in Nat /\ MaxRequests \in Nat

VARIABLES
    loaded,    \* the models whose process runs
    served,    \* served[m]: requests by latency class, since m was loaded
    life,      \* life[m]: how often m was loaded
    before,    \* before[m]: requests m served in earlier lives (history)
    now,       \* the clock
    loads, servings, requests    \* counters for the bounds

serverVars == <<loaded, served, life, before, now, loads, servings>>

\* Latency classes, named by their histogram bucket; the last bucket is +Inf.
Buckets == 1 .. 3
Inf == 3
NoCounts == [b \in Buckets |-> 0]
AllOf(c) == c[1] + c[2] + c[3]

ServerTypeOK ==
    /\ loaded \subseteq Models
    /\ served \in [Models -> [Buckets -> Nat]]
    /\ life \in [Models -> 0 .. MaxLoads]
    /\ before \in [Models -> Nat]
    /\ now \in 0 .. MaxTime
    /\ loads \in 0 .. MaxLoads /\ servings \in 0 .. MaxServed
    /\ requests \in 0 .. MaxRequests

ServerInit ==
    /\ loaded = {}
    /\ served = [m \in Models |-> NoCounts]
    /\ life = [m \in Models |-> 0]
    /\ before = [m \in Models |-> 0]
    /\ now = 0
    /\ loads = 0 /\ servings = 0 /\ requests = 0

CountRequest == requests < MaxRequests /\ requests' = requests + 1

Load(m) ==
    /\ m \notin loaded /\ loads < MaxLoads
    /\ loads' = loads + 1
    /\ loaded' = loaded \cup {m}
    /\ life' = [life EXCEPT ![m] = @ + 1]
    /\ served' = [served EXCEPT ![m] = NoCounts]
    /\ before' = [before EXCEPT ![m] = @ + AllOf(served[m])]
    /\ UNCHANGED <<now, servings>>

Evict(m) ==
    /\ m \in loaded
    /\ loaded' = loaded \ {m}
    /\ UNCHANGED <<served, life, before, now, loads, servings>>

Serve(m, b) ==
    /\ m \in loaded
    /\ servings < MaxServed
    /\ servings' = servings + 1
    /\ served' = [served EXCEPT ![m][b] = @ + 1]
    /\ UNCHANGED <<loaded, life, before, now, loads>>

Tick ==
    /\ now < MaxTime
    /\ now' = now + 1
    /\ UNCHANGED <<loaded, served, life, before, loads, servings>>

Loading(ms) == Tick \/ \E m \in ms : Load(m) \/ Evict(m)
Serving == \E m \in VllmModels, b \in Buckets : Serve(m, b)
============================================================================
