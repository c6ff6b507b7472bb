------------------------------ MODULE Services ------------------------------
(***************************************************************************)
(* The service routes of the API: metric collections and status snapshots  *)
(* interleave on one event loop and watch the same model server.           *)
(***************************************************************************)
EXTENDS VllmMetrics, ServiceStatus

VARIABLE page    \* the page of the dashboard that is open: it polls one route

vars == <<serverVars, metricsVars, statusVars, requests, page>>

Pages == {"vllm", "services"}

TypeOK ==
    /\ ServerTypeOK /\ StatusTypeOK
    /\ baseUrl \in VllmModels \cup {None} /\ lastUrl \in VllmModels \cup {None}
    /\ Len(store) <= MaxSamples
    /\ page \in Pages

Init ==
    /\ ServerInit /\ MetricsInit /\ StatusInit
    /\ page \in Pages
    \* Settings the open page does not read are not varied.
    /\ page = "services" => baseUrl = None
    /\ page = "vllm" => hasKey

\* What the server does; only what the open page can see is followed.
ServerStep ==
    IF page = "vllm" THEN Loading(VllmModels) \/ Serving ELSE Loading(Models)

Next ==
    \/ ServerStep /\ UNCHANGED <<metricsVars, statusVars, requests, page>>
    \/ page = "vllm" /\ MetricsStep /\ UNCHANGED <<serverVars, statusVars, page>>
    \/ page = "services" /\ StatusStep /\ UNCHANGED <<serverVars, metricsVars, page>>
    \/ page = "services" /\ UnloadModels /\ UNCHANGED <<metricsVars, page>>

Spec == Init /\ [][Next]_vars

-----------------------------------------------------------------------------
(* The metric samples                                                      *)

Shown == {store[i] : i \in OnlineAt}

\* s was read from the same address as the sample it was compared with, and
\* from the same process or a later one.
SameBackend(s) == s.prev # None /\ s.prev.url = s.url
Forward(s) == SameBackend(s) /\ s.prev.seen.life <= s.seen.life
SameProcess(s) == SameBackend(s) /\ s.prev.seen.life = s.seen.life

\* A shown rate is not negative, its time span is not empty, and it never
\* claims more requests than the backend served between the two readings,
\* whatever restarts its counters went through.  Left out are comparisons of
\* different backends, and a reading that overlapped a restart and was
\* recorded after a later one.
RateIsProgress ==
    \A s \in Shown : Rate(s) # None =>
        /\ Rate(s)[1] >= 0 /\ Rate(s)[2] > 0
        /\ Forward(s) => Rate(s)[1] <= s.seen.all - s.prev.seen.all

\* While the readings of one backend are recorded in the order in which they
\* were made, no request is claimed by two samples: each sample is compared
\* with the one recorded just before it, not with the newest one of the time
\* the collection began.
Claimed(s) == IF Rate(s) = None THEN 0 ELSE Rate(s)[1]
ClaimedUpTo[n \in 0 .. Len(store)] ==
    IF n = 0 THEN 0 ELSE ClaimedUpTo[n - 1] + Claimed(store[n])
InOrder == \A s \in Shown : Forward(s) /\ s.prev.seen.all <= s.seen.all
CountedOnce ==
    Shown # {} /\ InOrder =>
        ClaimedUpTo[Len(store)]
            <= store[Max(OnlineAt)].seen.all - store[Min(OnlineAt)].prev.seen.all

\* The cache hit ratio is a ratio, also when the counters went back; that it
\* is at most 100 % needs both readings to be of one process.
ShareIsRatio ==
    \A s \in Shown : HitShare(s) # None =>
        /\ HitShare(s)[1] >= 0 /\ HitShare(s)[2] > 0
        /\ s.prev = None \/ SameProcess(s) => HitShare(s)[1] <= HitShare(s)[2]

\* The interval histogram holds only requests the backend served, even if two
\* processes were compared, and its median and 95th percentile are in order
\* and within the finite buckets.
QuantilesInOrder ==
    \A s \in Shown :
        LET h == Interval(s)
            p50 == Quantile(1, 2, h)
            p95 == Quantile(19, 20, h)
        IN /\ \A b \in Buckets : 0 <= h[b] /\ h[b] <= Cumulative(s.seen.counts)[b]
           /\ p50 # None => /\ 0 <= p50[1] /\ p50[1] * p95[2] <= p95[1] * p50[2]
                            /\ p95[1] <= (Inf - 1) * p95[2]

\* The endpoint a reply names is the one the newest online sample came from,
\* although other collections change _last_base_url while one waits.
EndpointAnswered == LatestOnline # None => lastUrl = LatestOnline.url

-----------------------------------------------------------------------------
(* The status snapshots                                                    *)

\* A backend shown active had a model loaded at some moment of the snapshot,
\* whatever was loaded, evicted and unloaded between its questions.
ActiveWasLoaded ==
    \A k \in Kinds : BackendActive(k) =>
        \E m \in OfKind(Models, k) : m \in snap.loaded0 \/ life[m] > snap.life0[m]

\* Nothing has evicted m since the snapshot began.
LoadedThroughout(m) == m \in snap.loaded0 \cap loaded /\ life[m] = snap.life0[m]

\* A page that shows llama-swap healthy hides no model: a backend with a model
\* that was loaded all through the snapshot is shown active, and one that has
\* models is not shown offline.  An answer that is missing is never passed off
\* as an empty one; one that has another shape, or an entry that has, is.
BackendsAreShown ==
    SwapStatus = "healthy" =>
        \A k \in Kinds : \A m \in OfKind(Models, k) :
            /\ LoadedThroughout(m) => BackendActive(k) \/ "running" \in snap.misread
            /\ BackendStatus(k) # "offline" \/ "models" \in snap.misread

=============================================================================
