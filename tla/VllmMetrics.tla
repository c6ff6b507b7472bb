---------------------------- MODULE VllmMetrics ----------------------------
(***************************************************************************)
(* VllmMetricsCollector and VllmMetricsStore: every request of the metrics *)
(* page collects one sample from the running vLLM backend and keeps the    *)
(* last MaxSamples of them.  Requests overlap: a collection awaits the     *)
(* discovery and the backend's answer, and only then compares its counters *)
(* with the newest online sample of the store.                             *)
(*                                                                         *)
(* One histogram stands for the exposed metrics: its +Inf bucket is the    *)
(* counter whose rate is shown, its first bucket over the whole is the     *)
(* ratio that is shown (requests that hit the prefix cache).               *)
(***************************************************************************)
EXTENDS LlamaSwapServer, Sequences, SequencesExt

CONSTANTS
    Requests,      \* requests of GET /services/vllm/metrics that may overlap
    None,          \* no sample, no value, no address
    MaxSamples     \* settings.vllm_metrics_max_samples

ASSUME MaxSamplesAssumption == MaxSamples \in Nat \ {0}
ASSUME NoneAssumption == None \notin Models

VARIABLES
    baseUrl,    \* the configured address of a backend, or None: discover it
    lastUrl,    \* _last_base_url
    store,      \* VllmMetricsStore._samples
    req         \* req[c]: how far request c is, and what it knows

metricsVars == <<baseUrl, lastUrl, store, req>>

\* What a backend exposes.  life and all identify the moment it was read
\* (history); the code sees the counts only.
Reading(m) == [counts |-> served[m], life |-> life[m],
               all |-> before[m] + AllOf(served[m])]

\* at: the time the collection began.  prev: the sample it was compared with.
Idle == [pc |-> "idle", at |-> 0, url |-> None, seen |-> None]
Offline(at) == [online |-> FALSE, at |-> at, url |-> None, seen |-> None, prev |-> None]

MetricsInit ==
    /\ baseUrl \in VllmModels \cup {None}
    /\ lastUrl = baseUrl
    /\ store = <<>>
    /\ req = [c \in Requests |-> Idle]

-----------------------------------------------------------------------------
(* The store                                                               *)

\* deque(maxlen): the oldest sample makes room.
Added(s) == IF Len(store) < MaxSamples THEN Append(store, s) ELSE Append(Tail(store), s)

OnlineAt == {i \in DOMAIN store : store[i].online}

\* A mutant of LatestOnline: the store is searched from its other end.
LatestOnlineOldest == IF OnlineAt = {} THEN None ELSE store[Min(OnlineAt)]

\* latest_online
LatestOnline == IF OnlineAt = {} THEN None ELSE store[Max(OnlineAt)]

-----------------------------------------------------------------------------
(* What a sample shows                                                     *)

\* The part of a sample a later one is compared with.
Compared(s) == IF s = None THEN None ELSE [at |-> s.at, url |-> s.url, seen |-> s.seen]

Cumulative(c) == [b \in Buckets |-> IF b = 1 THEN c[1] ELSE IF b = 2 THEN c[1] + c[2] ELSE AllOf(c)]

\* A mutant of Rate: a counter that went back is not noticed.
RateOfAnyDifference(s) ==
    IF s.prev = None \/ s.at <= s.prev.at THEN None
    ELSE <<AllOf(s.seen.counts) - AllOf(s.prev.seen.counts), s.at - s.prev.at>>

\* _counter_rate: requests, and the seconds they are spread over.
Rate(s) ==
    IF \/ s.prev = None
       \/ s.at <= s.prev.at
       \/ AllOf(s.seen.counts) < AllOf(s.prev.seen.counts)
    THEN None
    ELSE <<AllOf(s.seen.counts) - AllOf(s.prev.seen.counts), s.at - s.prev.at>>

\* A mutant of HitShare: only the numerator is checked.
HitShareOfAnyInterval(s) ==
    LET hits == s.seen.counts[1] - (IF s.prev = None THEN 0 ELSE s.prev.seen.counts[1])
        all == AllOf(s.seen.counts) - (IF s.prev = None THEN 0 ELSE AllOf(s.prev.seen.counts))
    IN IF hits >= 0 THEN <<hits, all>> ELSE <<s.seen.counts[1], AllOf(s.seen.counts)>>

\* _counter_ratio_percent: hits and queries of the interval, or else of the
\* backend's life.
HitShare(s) ==
    LET hits == s.seen.counts[1]
        all == AllOf(s.seen.counts)
        newHits == hits - s.prev.seen.counts[1]
        newAll == all - AllOf(s.prev.seen.counts)
    IN IF s.prev # None /\ newHits >= 0 /\ newAll > 0 THEN <<newHits, newAll>>
       ELSE IF all > 0 THEN <<hits, all>> ELSE None

\* A mutant of Interval: buckets that went back are kept.
IntervalOfAnyDifference(s) ==
    [b \in Buckets |-> Cumulative(s.seen.counts)[b]
                       - (IF s.prev = None THEN 0 ELSE Cumulative(s.prev.seen.counts)[b])]

\* _interval_histograms: what was added since the previous sample, or the
\* whole histogram when some bucket went back.
Interval(s) ==
    LET whole == Cumulative(s.seen.counts)
        delta == [b \in Buckets |-> whole[b] - Cumulative(s.prev.seen.counts)[b]]
    IN IF s.prev = None THEN whole
       ELSE IF \E b \in Buckets : delta[b] < 0 THEN whole ELSE delta

\* _histogram_quantile for the quantile num/den, as a fraction: the first
\* bucket that reaches the target count, interpolated from its lower bound.
Quantile(num, den, h) ==
    LET reached == {b \in Buckets : h[b] * den >= h[Inf] * num}
        le == CHOOSE b \in reached : \A c \in reached : b <= c
        low == IF le = 1 THEN 0 ELSE h[le - 1]
    IN IF h[Inf] <= 0 THEN None
       ELSE IF le = Inf THEN <<le - 1, 1>>
       ELSE <<(le - 1) * (h[le] - low) * den + h[Inf] * num - low * den, (h[le] - low) * den>>

-----------------------------------------------------------------------------
(* collect()                                                               *)

Begin(c) ==
    /\ req[c].pc = "idle"
    /\ CountRequest
    /\ req' = [req EXCEPT ![c] =
                  [Idle EXCEPT !.pc = IF baseUrl = None THEN "discover" ELSE "fetch",
                               !.at = now, !.url = baseUrl]]
    /\ UNCHANGED <<baseUrl, lastUrl, store>>

\* The addresses llama-swap's list of running models yields; the first one is
\* taken, and the list has no order to rely on.
Discoverable == loaded \cap VllmModels

\* A mutant of Discovered: the address is remembered before it answered.
DiscoveredAtOnce(c) ==
    /\ req[c].pc = "discover"
    /\ \E m \in Discoverable :
          /\ req' = [req EXCEPT ![c].pc = "fetch", ![c].url = m]
          /\ lastUrl' = m
    /\ UNCHANGED <<baseUrl, store, requests>>

\* llama-swap's list of running models names a vLLM backend.
Discovered(c) ==
    /\ req[c].pc = "discover"
    /\ \E m \in Discoverable :
          req' = [req EXCEPT ![c].pc = "fetch", ![c].url = m]
    /\ UNCHANGED <<baseUrl, lastUrl, store, requests>>

\* The backend answers; the answer is on its way.
Fetched(c) ==
    /\ req[c].pc = "fetch" /\ req[c].url \in loaded
    /\ req' = [req EXCEPT ![c].pc = "answer", ![c].seen = Reading(req[c].url)]
    /\ UNCHANGED <<baseUrl, lastUrl, store, requests>>

\* A request failed or ran into its timeout, or no vLLM backend runs.
RecordOffline(c) ==
    /\ req[c].pc # "idle"
    /\ store' = Added(Offline(req[c].at))
    /\ req' = [req EXCEPT ![c] = Idle]
    /\ UNCHANGED <<baseUrl, lastUrl, requests>>

\* llama-swap's answer is not JSON: the request ends with an error and
\* leaves no sample.
DiscoveryBreaks(c) ==
    /\ req[c].pc = "discover"
    /\ req' = [req EXCEPT ![c] = Idle]
    /\ UNCHANGED <<baseUrl, lastUrl, store, requests>>

\* The answer arrived: compare, remember, store and reply without an await.
Record(c) ==
    /\ req[c].pc = "answer"
    /\ lastUrl' = req[c].url
    /\ store' = Added([online |-> TRUE, at |-> req[c].at, url |-> req[c].url,
                       seen |-> req[c].seen, prev |-> Compared(LatestOnline)])
    /\ req' = [req EXCEPT ![c] = Idle]
    /\ UNCHANGED <<baseUrl, requests>>

MetricsStep ==
    \E c \in Requests :
        \/ Begin(c) \/ Discovered(c) \/ DiscoveryBreaks(c) \/ Fetched(c)
        \/ RecordOffline(c) \/ Record(c)
============================================================================
