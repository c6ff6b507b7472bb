--------------------------- MODULE ServicesProofs ---------------------------
(***************************************************************************)
(* Proofs, for any models, any number of requests, any length of the store *)
(* and any bounds: about the metric samples, each of which is compared     *)
(* with another one that overlapped it, and about the status snapshots,    *)
(* which are put together from several states of the model server.         *)
(***************************************************************************)
EXTENDS Services, WellFoundedInduction, TLAPS

-----------------------------------------------------------------------------
(* Type correctness                                                        *)

Counts == [Buckets -> Nat]
Readings == [counts : Counts, life : Nat, all : Nat]
Urls == VllmModels \cup {None}
Collection == [pc : {"idle", "discover", "fetch", "answer"}, at : Nat, url : Urls,
               seen : Readings \cup {None}]

\* The samples and the collections under way; a collection that asks a backend
\* knows its address.
MetricsInv ==
    /\ baseUrl \in Urls /\ lastUrl \in Urls
    /\ (\E S : store \in Seq(S)) /\ Len(store) <= MaxSamples
    /\ req \in [Requests -> Collection]
    /\ \A c \in Requests : req[c].pc \in {"fetch", "answer"} => req[c].url \in VllmModels

\* No model was loaded more often than all of them.
ServerInv == ServerTypeOK /\ \A m \in Models : life[m] <= loads

\* A step of the server: a model that runs and did not run before was loaded.
Onward ==
    \A m \in Models :
        /\ life[m] <= life'[m]
        /\ m \in loaded' => m \in loaded \/ life[m] < life'[m]

LEMMA ServerStepTyped ==
    ASSUME ServerInv, Loading(Models) \/ Loading(VllmModels) \/ Serving, requests' = requests
    PROVE  ServerInv' /\ Onward
  <1> USE DEF ServerInv, ServerTypeOK, Onward
  <1>1. CASE Tick
    BY <1>1, ServerBoundsAssumption DEF Tick
  <1>2. ASSUME NEW m \in Models, Load(m)
        PROVE  ServerInv' /\ Onward
    <2>1. NoCounts \in [Buckets -> Nat] /\ AllOf(served[m]) \in Nat
      BY DEF NoCounts, AllOf, Buckets
    <2>2. /\ loads' = loads + 1 /\ loads < MaxLoads
          /\ loaded' = loaded \cup {m}
          /\ life' = [life EXCEPT ![m] = life[m] + 1]
          /\ before' = [before EXCEPT ![m] = before[m] + AllOf(served[m])]
          /\ served' = [served EXCEPT ![m] = NoCounts]
          /\ UNCHANGED <<now, servings>>
      BY <1>2 DEF Load
    <2>3. loads' \in 0 .. MaxLoads /\ now' \in 0 .. MaxTime /\ servings' \in 0 .. MaxServed
          /\ requests' \in 0 .. MaxRequests
      BY <2>2, ServerBoundsAssumption
    <2>4. /\ \A x \in Models : /\ life'[x] \in 0 .. MaxLoads /\ life'[x] <= loads'
                               /\ life[x] <= life'[x]
          /\ life[m] < life'[m]
          /\ life' \in [Models -> 0 .. MaxLoads]
      BY <2>2, ServerBoundsAssumption
    <2>5. before' \in [Models -> Nat] /\ served' \in [Models -> [Buckets -> Nat]]
      BY <2>1, <2>2
    <2> QED
      BY <2>2, <2>3, <2>4, <2>5
  <1>3. ASSUME NEW m \in Models, Evict(m)
        PROVE  ServerInv' /\ Onward
    BY <1>3, ServerBoundsAssumption DEF Evict
  <1>4. CASE Serving
    BY <1>4, ModelsAssumption, ServerBoundsAssumption DEF Serving, Serve
  <1> QED
    BY <1>1, <1>2, <1>3, <1>4, ModelsAssumption DEF Loading

TypeInv ==
    /\ ServerInv /\ StatusTypeOK /\ MetricsInv
    /\ page \in Pages

LEMMA TypeInit == Init => TypeInv
  BY ServerBoundsAssumption, MaxSamplesAssumption
     DEF Init, TypeInv, ServerInit, MetricsInit, StatusInit, ServerInv, ServerTypeOK,
         StatusTypeOK, MetricsInv, NoSnapshot, NoCounts, Idle, Collection, Urls, Buckets, Pages

\* A sample is added; the oldest one makes room.
LEMMA AddedTyped ==
    ASSUME NEW S, store \in Seq(S), Len(store) <= MaxSamples, NEW s
    PROVE  (\E T : Added(s) \in Seq(T)) /\ Len(Added(s)) <= MaxSamples
  <1> DEFINE T == S \cup {s}
  <1>1. store \in Seq(T) /\ s \in T
    OBVIOUS
  <1> HIDE DEF T
  <1>2. CASE Len(store) < MaxSamples
    BY <1>1, <1>2, MaxSamplesAssumption DEF Added
  <1>3. CASE Len(store) = MaxSamples
    <2>1. /\ store # <<>> /\ Tail(store) \in Seq(T)
          /\ Len(Tail(store)) = MaxSamples - 1
      BY <1>1, <1>3, MaxSamplesAssumption
    <2> QED
      BY <1>1, <1>3, <2>1, MaxSamplesAssumption DEF Added
  <1> QED
    BY <1>1, <1>2, <1>3, MaxSamplesAssumption

LEMMA ReadingTyped ==
    ASSUME ServerInv, NEW m \in Models
    PROVE  Reading(m) \in Readings
  <1>1. served[m] \in Counts /\ life[m] \in Nat /\ before[m] \in Nat
    BY ServerBoundsAssumption DEF ServerInv, ServerTypeOK, Counts
  <1>2. AllOf(served[m]) \in Nat
    BY <1>1 DEF AllOf, Counts, Buckets
  <1> QED
    BY <1>1, <1>2 DEF Reading, Readings

LEMMA MetricsStepTyped ==
    ASSUME TypeInv, MetricsStep
    PROVE  MetricsInv' /\ requests' \in 0 .. MaxRequests
  <1> USE DEF TypeInv, MetricsInv
  <1>0. PICK c \in Requests :
            Begin(c) \/ Discovered(c) \/ DiscoveryBreaks(c) \/ Fetched(c)
            \/ RecordOffline(c) \/ Record(c)
    BY DEF MetricsStep
  <1>1. /\ req \in [Requests -> Collection] /\ req[c] \in Collection
        /\ requests \in 0 .. MaxRequests /\ now \in Nat
    BY <1>0, ServerBoundsAssumption DEF ServerInv, ServerTypeOK
  <1>2. Idle \in Collection
    BY DEF Idle, Collection, Urls
  <1>3. CASE Begin(c)
    <2> DEFINE n == [Idle EXCEPT !.pc = IF baseUrl = None THEN "discover" ELSE "fetch",
                                 !.at = now, !.url = baseUrl]
    <2>1. n \in Collection /\ n.pc \in {"discover", "fetch"} /\ n.url = baseUrl
      BY <1>1 DEF Collection, Idle
    <2>2. n.pc = "fetch" => n.url \in VllmModels
      BY DEF Urls, Idle
    <2>3. req' = [req EXCEPT ![c] = n] /\ UNCHANGED <<baseUrl, lastUrl, store>>
      BY <1>3 DEF Begin
    <2>4. requests' \in 0 .. MaxRequests
      BY <1>1, <1>3, ServerBoundsAssumption DEF Begin, CountRequest
    <2> HIDE DEF n
    <2> QED
      BY <1>1, <2>1, <2>2, <2>3, <2>4
  <1>4. CASE Discovered(c)
    <2>1. PICK m \in VllmModels :
              req' = [req EXCEPT ![c] = [req[c] EXCEPT !.pc = "fetch", !.url = m]]
      BY <1>1, <1>4 DEF Discovered, Discoverable, Collection
    <2>2. [req[c] EXCEPT !.pc = "fetch", !.url = m] \in Collection
      BY <1>1 DEF Collection, Urls
    <2> QED
      BY <1>1, <1>4, <2>1, <2>2 DEF Discovered, Collection
  <1>5. CASE DiscoveryBreaks(c)
    BY <1>1, <1>2, <1>5 DEF DiscoveryBreaks, Idle
  <1>6. CASE Fetched(c)
    <2>1. Reading(req[c].url) \in Readings
      BY <1>6, ModelsAssumption, ReadingTyped DEF Fetched
    <2> QED
      BY <1>1, <1>6, <2>1 DEF Fetched, Collection
  <1>7. CASE RecordOffline(c)
    <2>1. (\E T : store' \in Seq(T)) /\ Len(store') <= MaxSamples
      BY <1>7, AddedTyped DEF RecordOffline
    <2> QED
      BY <1>1, <1>2, <1>7, <2>1 DEF RecordOffline, Idle
  <1>8. CASE Record(c)
    <2>1. (\E T : store' \in Seq(T)) /\ Len(store') <= MaxSamples
      BY <1>8, AddedTyped DEF Record
    <2>2. req[c].url \in Urls
      BY <1>1 DEF Collection
    <2> QED
      BY <1>1, <1>2, <1>8, <2>1, <2>2 DEF Record, Idle
  <1> QED
    BY <1>0, <1>3, <1>4, <1>5, <1>6, <1>7, <1>8

-----------------------------------------------------------------------------
(* Natural numbers                                                         *)

LEMMA LeastExists ==
    ASSUME NEW T, T \subseteq Nat, T # {}
    PROVE  \E x \in T : \A y \in T : x <= y
  <1>1. PICK x \in T : \A y \in T : <<y, x>> \notin OpToRel(<, Nat)
    BY NatLessThanWellFounded, WFMin
  <1>2. \A y \in T : ~(y < x)
    BY <1>1 DEF OpToRel
  <1> QED
    BY <1>2

LEMMA GreatestExists ==
    ASSUME NEW T, T \subseteq Nat, T # {}, NEW b \in Nat, \A x \in T : x <= b
    PROVE  \E x \in T : \A y \in T : y <= x
  <1> DEFINE D == {b - x : x \in T}
  <1>1. \A x \in T : x \in Nat /\ b - x \in Nat
    OBVIOUS
  <1>2. D \subseteq Nat /\ D # {}
    BY <1>1
  <1>3. PICK d \in D : \A e \in D : d <= e
    BY <1>2, LeastExists
  <1>4. PICK x \in T : d = b - x
    OBVIOUS
  <1>5. \A y \in T : b - x <= b - y
    BY <1>3, <1>4
  <1> QED
    BY <1>1, <1>5

\* Whatever holds at 0 and of n + 1 with n holds up to N.
LEMMA Induction ==
    ASSUME NEW N \in Nat, NEW S, 0 \in S, \A n \in 0 .. N - 1 : n \in S => n + 1 \in S
    PROVE  0 .. N \subseteq S
  <1> DEFINE T == {n \in 0 .. N : n \notin S}
  <1> SUFFICES ASSUME T # {} PROVE FALSE
    OBVIOUS
  <1>0. T \subseteq Nat
    OBVIOUS
  <1>1. PICK n \in T : \A k \in T : n <= k
    BY <1>0, LeastExists
  <1>2. n \in 1 .. N /\ n - 1 \in 0 .. N - 1
    OBVIOUS
  <1>3. n - 1 \notin T
    BY <1>1, <1>2
  <1> QED
    BY <1>2, <1>3

\* A number of the samples online has a least and a greatest place.
LEMMA OnlineEnds ==
    ASSUME NEW S, store \in Seq(S), OnlineAt # {}
    PROVE  /\ Max(OnlineAt) \in OnlineAt /\ \A i \in OnlineAt : i <= Max(OnlineAt)
           /\ Min(OnlineAt) \in OnlineAt /\ \A i \in OnlineAt : Min(OnlineAt) <= i
  <1>1. OnlineAt \subseteq 1 .. Len(store) /\ Len(store) \in Nat
    BY DEF OnlineAt
  <1>2. \E x \in OnlineAt : \A y \in OnlineAt : x <= y
    <2>1. OnlineAt \subseteq Nat
      BY <1>1
    <2> QED
      BY <2>1, LeastExists
  <1>3. \E x \in OnlineAt : \A y \in OnlineAt : x >= y
    <2>1. OnlineAt \subseteq Nat /\ \A x \in OnlineAt : x <= Len(store)
      BY <1>1
    <2>2. \E x \in OnlineAt : \A y \in OnlineAt : y <= x
      BY <1>1, <2>1, GreatestExists
    <2> QED
      BY <2>1, <2>2
  <1> QED
    BY <1>2, <1>3 DEF Min, Max

-----------------------------------------------------------------------------
(* The readings                                                            *)

Below(c, d) == \A b \in Buckets : c[b] <= d[b]

\* What the readings say that the store, the comparisons of its samples and
\* the collections under way know of: where each was made, and what it saw.
Known ==
    {[url |-> store[i].url, seen |-> store[i].seen] : i \in OnlineAt}
    \cup {[url |-> store[i].prev.url, seen |-> store[i].prev.seen] :
             i \in {j \in OnlineAt : store[j].prev # None}}
    \cup {[url |-> req[c].url, seen |-> req[c].seen] : c \in {d \in Requests : req[d].pc = "answer"}}

\* A reading was made of the backend's process, or of an earlier one of it.
Past(k) ==
    LET m == k.url
        r == k.seen
    IN  /\ r.life <= life[m] /\ AllOf(r.counts) <= r.all
        /\ r.life = life[m] => Below(r.counts, served[m]) /\ r.all = before[m] + AllOf(r.counts)
        /\ r.life < life[m] => r.all <= before[m]

\* Of two readings of one process one was made first; readings of two
\* processes do not overlap.
Ordered(r, s) ==
    /\ r.life = s.life => /\ Below(r.counts, s.counts) \/ Below(s.counts, r.counts)
                          /\ r.all - AllOf(r.counts) = s.all - AllOf(s.counts)
    /\ r.life < s.life => r.all <= s.all - AllOf(s.counts)

KnownInv ==
    /\ \A k \in Known : k.url \in VllmModels /\ k.seen \in Readings /\ Past(k)
    /\ \A k, l \in Known : k.url = l.url => Ordered(k.seen, l.seen)

\* A sample was compared with the online sample before it, if the store still
\* has that one; the newest of them tells the address that is remembered.
StoreInv ==
    /\ \A i \in DOMAIN store : store[i].at \in Nat /\ store[i].online \in BOOLEAN
    /\ \A i, j \in OnlineAt :
          i < j /\ (\A k \in OnlineAt : ~(i < k /\ k < j)) => store[j].prev = Compared(store[i])
    /\ \A i \in OnlineAt : store[i].prev # None => store[i].prev.at \in Nat
    /\ \A i \in OnlineAt : (\A k \in OnlineAt : k <= i) => lastUrl = store[i].url
    /\ \A i \in DOMAIN store : ~store[i].online => store[i] = Offline(store[i].at)

LEMMA AllOfBelow ==
    ASSUME NEW c \in Counts, NEW d \in Counts, Below(c, d)
    PROVE  AllOf(c) \in Nat /\ AllOf(d) \in Nat /\ AllOf(c) <= AllOf(d)
  BY DEF Below, AllOf, Counts, Buckets

\* What a reading saw stays true while the server goes on.
LEMMA ServerKeepsPast ==
    ASSUME ServerInv, Loading(Models) \/ Loading(VllmModels) \/ Serving,
           NEW k, k.url \in VllmModels, k.seen \in Readings, Past(k)
    PROVE  Past(k)'
  <1> DEFINE m == k.url
             r == k.seen
  <1>0. /\ m \in Models /\ served \in [Models -> Counts] /\ life \in [Models -> Nat]
        /\ before \in [Models -> Nat]
        /\ r.counts \in Counts /\ r.life \in Nat /\ r.all \in Nat
    BY ModelsAssumption, ServerBoundsAssumption
    DEF ServerInv, ServerTypeOK, Readings, Counts
  <1>1. /\ r.life <= life[m] /\ AllOf(r.counts) <= r.all
        /\ r.life = life[m] => Below(r.counts, served[m]) /\ r.all = before[m] + AllOf(r.counts)
        /\ r.life < life[m] => r.all <= before[m]
    BY DEF Past
  <1> DEFINE Kept ==
               /\ r.life <= life'[m] /\ AllOf(r.counts) <= r.all
               /\ r.life = life'[m]
                    => Below(r.counts, served'[m]) /\ r.all = before'[m] + AllOf(r.counts)
               /\ r.life < life'[m] => r.all <= before'[m]
  <1> SUFFICES Kept
    BY DEF Past
  <1> HIDE DEF m, r
  <1>2. CASE UNCHANGED <<served, life, before>>
    BY <1>1, <1>2
  <1>3. ASSUME NEW n \in Models, Load(n) PROVE  Kept
    <2>1. /\ life' = [life EXCEPT ![n] = life[n] + 1]
          /\ served' = [served EXCEPT ![n] = NoCounts]
          /\ before' = [before EXCEPT ![n] = before[n] + AllOf(served[n])]
      BY <1>3 DEF Load
    <2>2. CASE n # m
      BY <1>0, <1>1, <2>1, <2>2
    <2>3. CASE n = m
      <3>1. life'[m] = life[m] + 1 /\ before'[m] = before[m] + AllOf(served[m])
        BY <1>0, <2>1, <2>3
      <3>2. AllOf(served[m]) \in Nat
        BY <1>0 DEF AllOf, Counts, Buckets
      <3>3. r.life = life[m] => AllOf(r.counts) \in Nat /\ AllOf(r.counts) <= AllOf(served[m])
        BY <1>0, <1>1, AllOfBelow
      <3> QED
        BY <1>0, <1>1, <3>1, <3>2, <3>3
    <2> QED
      BY <2>2, <2>3
  <1>4. ASSUME NEW n \in VllmModels, NEW b \in Buckets, Serve(n, b) PROVE  Kept
    <2>1. /\ served' = [served EXCEPT ![n] = [served[n] EXCEPT ![b] = served[n][b] + 1]]
          /\ UNCHANGED <<life, before>>
      BY <1>4 DEF Serve
    <2>2. Below(r.counts, served[m]) => Below(r.counts, served'[m])
      BY <1>0, <2>1 DEF Below, Counts, Buckets
    <2> QED
      BY <1>1, <2>1, <2>2
  <1> QED
    BY <1>2, <1>3, <1>4, ModelsAssumption DEF Loading, Serving, Tick, Evict

\* The readings known after a step were known before.
LEMMA KnownKept ==
    ASSUME KnownInv, Known' \subseteq Known, \A k \in Known : Past(k) => Past(k)'
    PROVE  KnownInv'
  BY DEF KnownInv

LEMMA ServerKeepsKnown ==
    ASSUME ServerInv, KnownInv, Loading(Models) \/ Loading(VllmModels) \/ Serving,
           UNCHANGED metricsVars
    PROVE  KnownInv'
  <1>1. Known' = Known
    BY DEF metricsVars, Known, OnlineAt
  <1>2. \A k \in Known : Past(k) => Past(k)'
    BY ServerKeepsPast DEF KnownInv
  <1> QED
    BY <1>1, <1>2, KnownKept

\* A new reading of a process comes after those that are known of it.
LEMMA ReadingIsOrdered ==
    ASSUME ServerInv, NEW m \in VllmModels, NEW k, k.url = m, k.seen \in Readings, Past(k)
    PROVE  Ordered(k.seen, Reading(m)) /\ Ordered(Reading(m), k.seen)
  <1> DEFINE r == k.seen
  <1>1. /\ served[m] \in Counts /\ life[m] \in Nat /\ before[m] \in Nat
        /\ r.counts \in Counts /\ r.life \in Nat /\ r.all \in Nat
    BY ModelsAssumption, ServerBoundsAssumption
    DEF ServerInv, ServerTypeOK, Readings, Counts
  <1>2. /\ Reading(m).counts = served[m] /\ Reading(m).life = life[m]
        /\ Reading(m).all = before[m] + AllOf(served[m])
    BY DEF Reading
  <1>3. AllOf(served[m]) \in Nat /\ AllOf(r.counts) \in Nat
    BY <1>1 DEF AllOf, Counts, Buckets
  <1>4. /\ r.life <= life[m]
        /\ r.life = life[m] => Below(r.counts, served[m]) /\ r.all = before[m] + AllOf(r.counts)
        /\ r.life < life[m] => r.all <= before[m]
    BY DEF Past
  <1> HIDE DEF r
  <1>5. Ordered(r, Reading(m)) /\ Ordered(Reading(m), r)
    BY <1>1, <1>2, <1>3, <1>4 DEF Ordered
  <1> QED
    BY <1>5 DEF r

LEMMA FetchKeepsKnown ==
    ASSUME TypeInv, KnownInv, NEW c \in Requests, Fetched(c), UNCHANGED serverVars
    PROVE  KnownInv'
  <1> DEFINE m == req[c].url
             new == [url |-> m, seen |-> Reading(m)]
  <1>1. m \in VllmModels /\ m \in Models /\ req \in [Requests -> Collection]
    BY ModelsAssumption DEF Fetched, TypeInv, MetricsInv
  <1>2. /\ UNCHANGED <<store, served, life, before>>
        /\ req' = [req EXCEPT ![c] = [req[c] EXCEPT !.pc = "answer", !.seen = Reading(m)]]
    BY <1>1 DEF Fetched, serverVars, Collection
  <1>3. Known' \subseteq Known \cup {new}
    <2>1. /\ \A d \in Requests \ {c} : req'[d] = req[d]
          /\ req'[c].url = m /\ req'[c].seen = Reading(m)
      BY <1>1, <1>2 DEF Collection
    <2> QED
      BY <1>2, <2>1 DEF Known, OnlineAt
  <1>4. /\ \A k \in Known : k.url \in VllmModels /\ k.seen \in Readings /\ Past(k)
        /\ \A k, l \in Known : k.url = l.url => Ordered(k.seen, l.seen)
        /\ ServerInv
    BY DEF KnownInv, TypeInv
  <1>5. \A k : Past(k)' <=> Past(k)
    BY <1>2 DEF Past
  <1>6. new.url = m /\ new.seen = Reading(m)
    OBVIOUS
  <1>7. new.seen \in Readings /\ Past(new)
    <2>1. /\ served[m] \in Counts /\ life[m] \in Nat /\ before[m] \in Nat
      BY <1>1, <1>4, ServerBoundsAssumption DEF ServerInv, ServerTypeOK, Counts
    <2>2. AllOf(served[m]) \in Nat
      BY <2>1 DEF AllOf, Counts, Buckets
    <2>3. Below(served[m], served[m])
      BY <2>1 DEF Below, Counts
    <2> QED
      BY <1>1, <1>4, <1>6, <2>1, <2>2, <2>3, ReadingTyped DEF Reading, Past
  <1>8. \A k \in Known : k.url = m => Ordered(k.seen, new.seen) /\ Ordered(new.seen, k.seen)
    BY <1>1, <1>4, <1>6, ReadingIsOrdered
  <1>9. Ordered(new.seen, new.seen)
    BY <1>1, <1>4, <1>6, <1>7, ReadingIsOrdered
  <1> HIDE DEF m, new
  <1>10. \A k \in Known \cup {new} : k.url \in VllmModels /\ k.seen \in Readings /\ Past(k)'
    BY <1>1, <1>4, <1>5, <1>6, <1>7
  <1>11. \A k, l \in Known \cup {new} : k.url = l.url => Ordered(k.seen, l.seen)
    BY <1>4, <1>6, <1>8, <1>9
  <1> QED
    BY <1>3, <1>10, <1>11 DEF KnownInv

-----------------------------------------------------------------------------
(* The store                                                               *)

\* The samples kept move down one place when the oldest one makes room.
LEMMA AddedIsShifted ==
    ASSUME NEW S, store \in Seq(S), Len(store) <= MaxSamples, NEW s
    PROVE  \E d \in {0, 1} :
              /\ Len(store) - d \in Nat
              /\ DOMAIN Added(s) = 1 .. Len(store) + 1 - d
              /\ \A i \in 1 .. Len(store) - d : Added(s)[i] = store[i + d]
              /\ Added(s)[Len(store) + 1 - d] = s
  <1> DEFINE T == S \cup {s}
  <1>1. store \in Seq(T) /\ s \in T /\ Len(store) \in Nat
    OBVIOUS
  <1> HIDE DEF T
  <1>2. CASE Len(store) < MaxSamples
    BY <1>1, <1>2 DEF Added
  <1>3. CASE Len(store) = MaxSamples
    <2>1. /\ store # <<>> /\ Tail(store) \in Seq(T)
          /\ Len(Tail(store)) = Len(store) - 1 /\ Len(store) - 1 \in Nat
          /\ \A i \in 1 .. Len(store) - 1 : Tail(store)[i] = store[i + 1]
      BY <1>1, <1>3, MaxSamplesAssumption
    <2> DEFINE tail == Tail(store)
    <2>2. Added(s) = Append(tail, s)
      BY <1>3, MaxSamplesAssumption DEF Added
    <2> HIDE DEF tail
    <2>3. /\ Len(Append(tail, s)) = Len(store) /\ DOMAIN Append(tail, s) = 1 .. Len(store)
          /\ \A i \in 1 .. Len(store) - 1 : Append(tail, s)[i] = tail[i]
          /\ Append(tail, s)[Len(store)] = s
      BY <1>1, <2>1 DEF tail
    <2>4. /\ DOMAIN Added(s) = 1 .. Len(store) + 1 - 1
          /\ \A i \in 1 .. Len(store) - 1 : Added(s)[i] = store[i + 1]
          /\ Added(s)[Len(store) + 1 - 1] = s
      BY <1>1, <2>1, <2>2, <2>3 DEF tail
    <2> QED
      BY <2>1, <2>4
  <1> QED
    BY <1>1, <1>2, <1>3, MaxSamplesAssumption

\* What is known after a sample was added: what its comparison and the other
\* samples and collections know.
LEMMA AddKeepsKnown ==
    ASSUME NEW S, store \in Seq(S), Len(store) <= MaxSamples, KnownInv,
           NEW c \in Requests, req \in [Requests -> Collection],
           req' = [req EXCEPT ![c] = Idle], UNCHANGED serverVars,
           NEW s, store' = Added(s),
           s.online => /\ [url |-> s.url, seen |-> s.seen] \in Known
                       /\ s.prev # None => [url |-> s.prev.url, seen |-> s.prev.seen] \in Known
    PROVE  KnownInv'
  <1>1. PICK d \in {0, 1} :
              /\ Len(store) - d \in Nat
              /\ DOMAIN store' = 1 .. Len(store) + 1 - d
              /\ \A i \in 1 .. Len(store) - d : store'[i] = store[i + d]
              /\ store'[Len(store) + 1 - d] = s
    BY AddedIsShifted
  <1>2. \A e \in Requests : req'[e].pc = "answer" => req'[e] = req[e]
    BY DEF Idle
  <1>3. \A i \in OnlineAt' :
            (\E j \in OnlineAt : store'[i] = store[j]) \/ (store'[i] = s /\ s.online)
    <2> SUFFICES ASSUME NEW i \in OnlineAt'
                 PROVE  (\E j \in OnlineAt : store'[i] = store[j]) \/ (store'[i] = s /\ s.online)
      OBVIOUS
    <2>1. i \in DOMAIN store' /\ store'[i].online
      BY DEF OnlineAt
    <2>2. CASE i = Len(store) + 1 - d
      BY <1>1, <2>1, <2>2
    <2>3. CASE i \in 1 .. Len(store) - d
      <3>1. i + d \in DOMAIN store
        BY <1>1, <2>3
      <3>2. store'[i] = store[i + d]
        BY <1>1, <2>3
      <3>3. i + d \in OnlineAt
        BY <2>1, <3>1, <3>2 DEF OnlineAt
      <3> QED
        BY <3>2, <3>3
    <2> QED
      BY <1>1, <2>1, <2>2, <2>3
  <1>4. \A i \in OnlineAt : [url |-> store[i].url, seen |-> store[i].seen] \in Known
    BY DEF Known
  <1>5. \A i \in OnlineAt : store[i].prev # None =>
            [url |-> store[i].prev.url, seen |-> store[i].prev.seen] \in Known
    BY DEF Known
  <1>6. \A e \in Requests : req[e].pc = "answer" =>
            [url |-> req[e].url, seen |-> req[e].seen] \in Known
    BY DEF Known
  <1>7. Known' \subseteq Known
    <2>1. ASSUME NEW i \in OnlineAt'
          PROVE  /\ [url |-> store'[i].url, seen |-> store'[i].seen] \in Known
                 /\ store'[i].prev # None =>
                       [url |-> store'[i].prev.url, seen |-> store'[i].prev.seen] \in Known
      BY <1>3, <1>4, <1>5
    <2>2. \A e \in Requests : req'[e].pc = "answer" =>
            [url |-> req'[e].url, seen |-> req'[e].seen] \in Known
      BY <1>2, <1>6
    <2> SUFFICES ASSUME NEW k \in Known' PROVE k \in Known
      OBVIOUS
    <2>3. \/ \E i \in OnlineAt' : k = [url |-> store'[i].url, seen |-> store'[i].seen]
          \/ \E i \in OnlineAt' :
                /\ store'[i].prev # None
                /\ k = [url |-> store'[i].prev.url, seen |-> store'[i].prev.seen]
          \/ \E e \in Requests :
                req'[e].pc = "answer" /\ k = [url |-> req'[e].url, seen |-> req'[e].seen]
      BY DEF Known
    <2> QED
      BY <2>1, <2>2, <2>3
  <1>8. \A k : Past(k) => Past(k)'
    BY DEF Past, serverVars
  <1> QED
    BY <1>7, <1>8, KnownKept

\* An added sample was compared with the newest online one.
LEMMA AddKeepsStore ==
    ASSUME NEW S, store \in Seq(S), Len(store) <= MaxSamples, StoreInv,
           NEW s, store' = Added(s), s.at \in Nat, s.online \in BOOLEAN,
           s.online => s.prev = Compared(LatestOnline) /\ lastUrl' = s.url,
           ~s.online => s = Offline(s.at) /\ lastUrl' = lastUrl
    PROVE  StoreInv'
  <1>1. PICK d \in {0, 1} :
              /\ Len(store) - d \in Nat
              /\ DOMAIN store' = 1 .. Len(store) + 1 - d
              /\ \A i \in 1 .. Len(store) - d : store'[i] = store[i + d]
              /\ store'[Len(store) + 1 - d] = s
    BY AddedIsShifted
  <1> DEFINE n == Len(store) + 1 - d
  <1>2. /\ Len(store) \in Nat /\ n \in Nat \ {0} /\ DOMAIN store = 1 .. Len(store)
        /\ DOMAIN store' = 1 .. n /\ store'[n] = s
        /\ \A i \in 1 .. n - 1 : i + d \in DOMAIN store /\ store'[i] = store[i + d]
        /\ \A j \in DOMAIN store : j = d \/ j - d \in 1 .. n - 1
    BY <1>1
  <1>3. /\ \A i \in 1 .. n - 1 : i \in OnlineAt' <=> i + d \in OnlineAt
        /\ n \in OnlineAt' <=> s.online
        /\ OnlineAt' \subseteq 1 .. n /\ OnlineAt \subseteq 1 .. Len(store)
    <2>1. ASSUME NEW i \in 1 .. n - 1 PROVE i \in OnlineAt' <=> i + d \in OnlineAt
      <3>1. i \in DOMAIN store' /\ i + d \in DOMAIN store /\ store'[i] = store[i + d]
        BY <1>2
      <3> QED
        BY <3>1 DEF OnlineAt
    <2>2. n \in DOMAIN store'
      BY <1>2
    <2> QED
      BY <1>2, <2>1, <2>2 DEF OnlineAt
  <1> HIDE DEF n
  <1>4. \A i \in 1 .. n - 1 : (\A k \in OnlineAt : ~(i + d < k)) => LatestOnline = store[i + d]
                              \/ i + d \notin OnlineAt
    <2> SUFFICES ASSUME NEW i \in 1 .. n - 1, i + d \in OnlineAt,
                        \A k \in OnlineAt : ~(i + d < k)
                 PROVE  LatestOnline = store[i + d]
      OBVIOUS
    <2>1. Max(OnlineAt) \in OnlineAt /\ i + d <= Max(OnlineAt)
      BY OnlineEnds
    <2>2. Max(OnlineAt) = i + d
      <3> DEFINE g == Max(OnlineAt)
      <3>1. g \in OnlineAt /\ i + d <= g
        BY <2>1
      <3> HIDE DEF g
      <3>2. g \in Nat /\ i + d \in Nat /\ ~(i + d < g)
        BY <1>2, <1>3, <3>1
      <3>3. g = i + d
        BY <3>1, <3>2
      <3> QED
        BY <3>3 DEF g
    <2> QED
      BY <2>2 DEF LatestOnline
  <1>5. \A i \in DOMAIN store' : store'[i].at \in Nat /\ store'[i].online \in BOOLEAN
    <2>1. \A i \in 1 .. n - 1 : store'[i].at \in Nat /\ store'[i].online \in BOOLEAN
      BY <1>2 DEF StoreInv
    <2> QED
      BY <1>2, <2>1
  <1>6. \A i, j \in OnlineAt' :
          i < j /\ (\A k \in OnlineAt' : ~(i < k /\ k < j)) => store'[j].prev = Compared(store'[i])
    <2> SUFFICES ASSUME NEW i \in OnlineAt', NEW j \in OnlineAt', i < j,
                        \A k \in OnlineAt' : ~(i < k /\ k < j)
                 PROVE  store'[j].prev = Compared(store'[i])
      OBVIOUS
    <2>1. i \in 1 .. n - 1 /\ i + d \in OnlineAt /\ store'[i] = store[i + d] /\ j \in 1 .. n
      BY <1>2, <1>3
    <2>2. \A k \in OnlineAt : i + d < k => k - d \in 1 .. n - 1 /\ k - d \in OnlineAt' /\ i < k - d
      <3> SUFFICES ASSUME NEW k \in OnlineAt, i + d < k
                   PROVE  k - d \in 1 .. n - 1 /\ k - d \in OnlineAt' /\ i < k - d
        OBVIOUS
      <3>1. k \in DOMAIN store /\ k # d
        BY <1>2, <1>3, <2>1
      <3>2. k - d \in 1 .. n - 1 /\ (k - d) + d = k
        BY <1>2, <3>1
      <3> QED
        BY <1>2, <1>3, <2>1, <3>2
    <2>3. CASE j = n
      <3>1. \A k \in OnlineAt : ~(i + d < k)
        BY <1>2, <2>1, <2>2, <2>3
      <3> QED
        BY <1>2, <1>3, <1>4, <2>1, <2>3, <3>1
    <2>4. CASE j \in 1 .. n - 1
      <3>1. j + d \in OnlineAt /\ store'[j] = store[j + d] /\ i + d < j + d
        BY <1>2, <1>3, <2>1, <2>4
      <3>2. \A k \in OnlineAt : ~(i + d < k /\ k < j + d)
        BY <1>2, <1>3, <2>1, <2>2, <2>4
      <3> QED
        BY <2>1, <3>1, <3>2 DEF StoreInv
    <2> QED
      BY <1>2, <2>1, <2>3, <2>4
  <1>7. \A i \in OnlineAt' : store'[i].prev # None => store'[i].prev.at \in Nat
    <2> SUFFICES ASSUME NEW i \in OnlineAt', store'[i].prev # None
                 PROVE  store'[i].prev.at \in Nat
      OBVIOUS
    <2>1. CASE i \in 1 .. n - 1
      BY <1>2, <1>3, <2>1 DEF StoreInv
    <2>2. CASE i = n
      <3>1. s.online /\ s.prev = Compared(LatestOnline) /\ s.prev # None
        BY <1>2, <1>3, <2>2
      <3>2. LatestOnline # None /\ s.prev.at = LatestOnline.at
        BY <3>1 DEF Compared
      <3>3. OnlineAt # {} /\ LatestOnline = store[Max(OnlineAt)]
        BY <3>2 DEF LatestOnline
      <3>4. Max(OnlineAt) \in DOMAIN store
        BY <1>2, <1>3, <3>3, OnlineEnds
      <3> QED
        BY <1>2, <2>2, <3>2, <3>3, <3>4 DEF StoreInv
    <2> QED
      BY <1>2, <1>3, <2>1, <2>2
  <1>8. \A i \in OnlineAt' : (\A k \in OnlineAt' : k <= i) => lastUrl' = store'[i].url
    <2> SUFFICES ASSUME NEW i \in OnlineAt', \A k \in OnlineAt' : k <= i
                 PROVE  lastUrl' = store'[i].url
      OBVIOUS
    <2>1. CASE s.online
      <3>1. i = n
        BY <1>2, <1>3, <2>1
      <3> QED
        BY <1>2, <2>1, <3>1
    <2>2. CASE ~s.online
      <3>1. i \in 1 .. n - 1 /\ i + d \in OnlineAt /\ store'[i] = store[i + d]
        BY <1>2, <1>3, <2>2
      <3>2. ASSUME NEW k \in OnlineAt PROVE k <= i + d
        <4>1. k \in DOMAIN store
          BY <1>2, <1>3
        <4>2. CASE k = d
          BY <3>1, <4>2
        <4>3. CASE k - d \in 1 .. n - 1
          <5>1. (k - d) + d = k
            BY <1>2, <4>1
          <5>2. k - d <= i
            BY <1>3, <4>3, <5>1
          <5> QED
            BY <1>2, <3>1, <4>1, <5>2
        <4> QED
          BY <1>2, <4>1, <4>2, <4>3
      <3>3. lastUrl = store[i + d].url
        BY <3>1, <3>2 DEF StoreInv
      <3> QED
        BY <2>2, <3>1, <3>3
    <2> QED
      BY <2>1, <2>2
  <1>9. \A i \in DOMAIN store' : ~store'[i].online => store'[i] = Offline(store'[i].at)
    <2>1. \A i \in 1 .. n - 1 : ~store'[i].online => store'[i] = Offline(store'[i].at)
      BY <1>2 DEF StoreInv
    <2> QED
      BY <1>2, <2>1
  <1> QED
    BY <1>5, <1>6, <1>7, <1>8, <1>9 DEF StoreInv

LEMMA MetricsKeepReadings ==
    ASSUME TypeInv, KnownInv, StoreInv, MetricsStep, UNCHANGED serverVars
    PROVE  KnownInv' /\ StoreInv'
  <1>0. PICK c \in Requests :
            Begin(c) \/ Discovered(c) \/ DiscoveryBreaks(c) \/ Fetched(c)
            \/ RecordOffline(c) \/ Record(c)
    BY DEF MetricsStep
  <1>1. req \in [Requests -> Collection] /\ req[c] \in Collection
    BY DEF TypeInv, MetricsInv
  <1>2. PICK S : store \in Seq(S) /\ Len(store) <= MaxSamples
    BY DEF TypeInv, MetricsInv
  <1>3. \A k : Past(k) => Past(k)'
    BY DEF Past, serverVars
  <1>4. UNCHANGED <<store, lastUrl>> => StoreInv'
    BY DEF StoreInv, OnlineAt
  <1>5. ASSUME UNCHANGED <<store, lastUrl>>, NEW r, r.pc # "answer",
               req' = [req EXCEPT ![c] = r]
        PROVE  KnownInv' /\ StoreInv'
    <2>1. \A e \in Requests : req'[e].pc = "answer" => req'[e] = req[e]
      BY <1>1, <1>5
    <2>2. Known' \subseteq Known
      <3> SUFFICES ASSUME NEW k \in Known' PROVE k \in Known
        OBVIOUS
      <3>1. \/ \E i \in OnlineAt : k = [url |-> store[i].url, seen |-> store[i].seen]
            \/ \E i \in OnlineAt :
                  /\ store[i].prev # None
                  /\ k = [url |-> store[i].prev.url, seen |-> store[i].prev.seen]
            \/ \E e \in Requests :
                  req'[e].pc = "answer" /\ k = [url |-> req'[e].url, seen |-> req'[e].seen]
        BY <1>5 DEF Known, OnlineAt
      <3>2. CASE \E e \in Requests :
                    req'[e].pc = "answer" /\ k = [url |-> req'[e].url, seen |-> req'[e].seen]
        <4>1. PICK e \in Requests :
                 req[e].pc = "answer" /\ k = [url |-> req[e].url, seen |-> req[e].seen]
          BY <2>1, <3>2
        <4> QED
          BY <4>1 DEF Known
      <3> QED
        BY <3>1, <3>2 DEF Known
    <2> QED
      BY <1>3, <1>4, <1>5, <2>2, KnownKept
  <1>6. CASE Begin(c)
    BY <1>5, <1>6 DEF Begin, Idle
  <1>7. CASE Discovered(c)
    <2>1. PICK m : req' = [req EXCEPT ![c] = [req[c] EXCEPT !.pc = "fetch", !.url = m]]
      BY <1>1, <1>7 DEF Discovered, Collection
    <2>2. [req[c] EXCEPT !.pc = "fetch", !.url = m].pc # "answer"
      BY <1>1 DEF Collection
    <2> QED
      BY <1>5, <1>7, <2>1, <2>2 DEF Discovered
  <1>8. CASE DiscoveryBreaks(c)
    BY <1>5, <1>8 DEF DiscoveryBreaks, Idle
  <1>9. CASE Fetched(c)
    BY <1>4, <1>9, FetchKeepsKnown DEF Fetched
  <1>10. CASE RecordOffline(c)
    <2> DEFINE s == Offline(req[c].at)
    <2>1. /\ store' = Added(s) /\ lastUrl' = lastUrl /\ req' = [req EXCEPT ![c] = Idle]
          /\ s.online = FALSE /\ s.at = req[c].at /\ s.at \in Nat /\ s = Offline(s.at)
      BY <1>1, <1>10 DEF RecordOffline, Offline, Collection
    <2> HIDE DEF s
    <2>2. KnownInv'
      BY <1>1, <1>2, <2>1, AddKeepsKnown
    <2>3. StoreInv'
      BY <1>2, <2>1, AddKeepsStore
    <2> QED
      BY <2>2, <2>3
  <1>11. CASE Record(c)
    <2> DEFINE s == [online |-> TRUE, at |-> req[c].at, url |-> req[c].url,
                     seen |-> req[c].seen, prev |-> Compared(LatestOnline)]
    <2>1. /\ store' = Added(s) /\ lastUrl' = s.url /\ req' = [req EXCEPT ![c] = Idle]
          /\ s.online = TRUE /\ s.at \in Nat /\ s.prev = Compared(LatestOnline)
          /\ s.url = req[c].url /\ s.seen = req[c].seen
      BY <1>1, <1>11 DEF Record, Collection
    <2> HIDE DEF s
    <2>2. [url |-> s.url, seen |-> s.seen] \in Known
      BY <1>11, <2>1 DEF Known, Record
    <2>3. s.prev # None => [url |-> s.prev.url, seen |-> s.prev.seen] \in Known
      <3> SUFFICES ASSUME s.prev # None
                   PROVE  [url |-> s.prev.url, seen |-> s.prev.seen] \in Known
        OBVIOUS
      <3>1. /\ LatestOnline # None /\ s.prev.url = LatestOnline.url
            /\ s.prev.seen = LatestOnline.seen
        BY <2>1 DEF Compared
      <3>2. OnlineAt # {} /\ LatestOnline = store[Max(OnlineAt)]
        BY <3>1 DEF LatestOnline
      <3>3. Max(OnlineAt) \in OnlineAt
        BY <1>2, <3>2, OnlineEnds
      <3> QED
        BY <3>1, <3>2, <3>3 DEF Known
    <2>4. KnownInv'
      BY <1>1, <1>2, <2>1, <2>2, <2>3, AddKeepsKnown
    <2>5. StoreInv'
      BY <1>2, <2>1, AddKeepsStore
    <2> QED
      BY <2>4, <2>5
  <1> QED
    BY <1>0, <1>6, <1>7, <1>8, <1>9, <1>10, <1>11

-----------------------------------------------------------------------------
(* The snapshots                                                           *)

Snapshots ==
    [pc : {"none"} \cup Questions \cup Ends, models : SUBSET Models,
     running : SUBSET Models, failing : SUBSET Kinds, errors : BOOLEAN,
     misread : SUBSET Lists, loaded0 : SUBSET Models, life0 : [Models -> Nat]]

\* m runs, or has run, at some moment since the snapshot began.
WasLoaded(m) == m \in snap.loaded0 \/ snap.life0[m] < life[m]

\* Once a list was asked for, it is complete unless an error was noted or part
\* of it was not understood.
ModelsRead ==
    /\ snap.pc \in {"running", "metrics", "docker", "complete"}
    /\ ~snap.errors /\ "models" \notin snap.misread

RunningRead ==
    /\ snap.pc \in {"metrics", "docker", "complete"}
    /\ ~snap.errors /\ "running" \notin snap.misread

\* What runs now or was reported to run did so during the snapshot, and what
\* ran all through it is in the complete lists.
SnapshotInv ==
    /\ snap \in Snapshots /\ hasKey \in BOOLEAN
    /\ \A m \in Models : snap.life0[m] <= life[m]
    /\ \A m \in loaded \cup snap.running : WasLoaded(m)
    /\ ModelsRead => snap.models = Models
    /\ RunningRead => \A m \in Models : LoadedThroughout(m) => m \in snap.running

LEMMA SnapshotInit == Init => SnapshotInv
  BY DEF Init, ServerInit, StatusInit, NoSnapshot, SnapshotInv, Snapshots, WasLoaded,
         ModelsRead, RunningRead

\* The server goes on while a snapshot is taken.
LEMMA ServerKeepsSnapshot ==
    ASSUME ServerInv, SnapshotInv, Onward, loaded' \subseteq Models, life' \in [Models -> Nat],
           UNCHANGED statusVars
    PROVE  SnapshotInv'
  <1>1. /\ snap' = snap /\ hasKey' = hasKey
        /\ snap.running \subseteq Models /\ snap.life0 \in [Models -> Nat]
        /\ life \in [Models -> Nat]
    BY ServerBoundsAssumption DEF statusVars, SnapshotInv, Snapshots, ServerInv, ServerTypeOK
  <1>2. \A m \in Models : snap.life0[m] <= life'[m] /\ (WasLoaded(m) => WasLoaded(m)')
    BY <1>1 DEF SnapshotInv, Onward, WasLoaded
  <1>3. \A m \in loaded' : WasLoaded(m)'
    BY <1>1, <1>2 DEF SnapshotInv, Onward, WasLoaded
  <1>4. \A m \in Models : LoadedThroughout(m)' => LoadedThroughout(m)
    BY <1>1 DEF SnapshotInv, Onward, LoadedThroughout
  <1>5. (ModelsRead' <=> ModelsRead) /\ (RunningRead' <=> RunningRead)
    BY <1>1 DEF ModelsRead, RunningRead
  <1> QED
    BY <1>1, <1>2, <1>3, <1>4, <1>5 DEF SnapshotInv

\* An answer is put into the snapshot.
LEMMA AnswerKeepsSnapshot ==
    ASSUME SnapshotInv, snap' \in Snapshots, UNCHANGED <<hasKey, loaded, life>>,
           snap'.loaded0 = snap.loaded0, snap'.life0 = snap.life0,
           snap'.running = snap.running \/ snap'.running \subseteq loaded,
           ModelsRead' => snap'.models = Models,
           RunningRead' =>
              \A m \in Models : LoadedThroughout(m) => m \in snap'.running
    PROVE  SnapshotInv'
  <1>1. \A m \in Models : LoadedThroughout(m)' => LoadedThroughout(m)
    BY DEF LoadedThroughout
  <1> QED
    BY <1>1 DEF SnapshotInv, WasLoaded

LEMMA StatusKeepsSnapshot ==
    ASSUME ServerInv, SnapshotInv, StatusStep, UNCHANGED <<loaded, life>>
    PROVE  SnapshotInv'
  <1> USE DEF Snapshots, Questions, Ends, Lists, ModelsRead, RunningRead
  <1>0. snap \in Snapshots /\ hasKey \in BOOLEAN /\ loaded \subseteq Models
        /\ life \in [Models -> Nat]
    BY ServerBoundsAssumption DEF SnapshotInv, ServerInv, ServerTypeOK
  <1>1. CASE BeginSnapshot
    <2>1. /\ snap' \in Snapshots /\ snap'.loaded0 = loaded /\ snap'.life0 = life
          /\ snap'.running = {} /\ snap'.pc = "health" /\ hasKey' = hasKey
      BY <1>0, <1>1 DEF BeginSnapshot, NoSnapshot
    <2> QED
      BY <1>0, <2>1 DEF SnapshotInv, WasLoaded
  <1>2. CASE AskHealth
    <2>1. PICK next \in {"offline", "version", "no_key"} : snap' = [snap EXCEPT !.pc = next]
      BY <1>2 DEF AskHealth
    <2>2. hasKey' = hasKey
      BY <1>2 DEF AskHealth
    <2> QED
      BY <1>0, <2>1, <2>2, AnswerKeepsSnapshot
  <1>3. CASE AskVersion
    <2>1. /\ hasKey' = hasKey
          /\ \/ snap' = [snap EXCEPT !.pc = "models"]
             \/ snap' = [snap EXCEPT !.pc = "models", !.errors = TRUE]
             \/ snap' = [snap EXCEPT !.pc = "error"]
      BY <1>3 DEF AskVersion, Ask
    <2> QED
      BY <1>0, <2>1, AnswerKeepsSnapshot
  <1>4. CASE AskModels
    <2>1. /\ hasKey' = hasKey
          /\ \/ \E ms \in SUBSET Models :
                   snap' = [snap EXCEPT !.models = ms, !.pc = "running",
                              !.misread = @ \cup Misread(ms, Models, "models")]
             \/ snap' = [snap EXCEPT !.pc = "running", !.errors = TRUE]
             \/ snap' = [snap EXCEPT !.pc = "error"]
      BY <1>4 DEF AskModels, Ask
    <2>2. ASSUME NEW ms \in SUBSET Models,
                 snap' = [snap EXCEPT !.models = ms, !.pc = "running",
                            !.misread = @ \cup Misread(ms, Models, "models")]
          PROVE  SnapshotInv'
      <3>1. snap' \in Snapshots /\ snap'.models = ms /\ snap'.pc = "running"
            /\ snap'.running = snap.running
            /\ snap'.loaded0 = snap.loaded0 /\ snap'.life0 = snap.life0
        BY <1>0, <2>2 DEF Misread
      <3>2. ms = Models \/ "models" \in snap'.misread
        BY <1>0, <2>2 DEF Misread
      <3> QED
        BY <2>1, <3>1, <3>2, AnswerKeepsSnapshot
    <2> QED
      BY <1>0, <2>1, <2>2, AnswerKeepsSnapshot
  <1>5. CASE AskRunning
    <2>1. /\ hasKey' = hasKey /\ snap.pc = "running"
          /\ \/ \E ms \in SUBSET loaded :
                   snap' = [snap EXCEPT !.running = ms, !.pc = "metrics",
                              !.misread = @ \cup Misread(ms, loaded, "running")]
             \/ snap' = [snap EXCEPT !.pc = "metrics", !.errors = TRUE]
             \/ snap' = [snap EXCEPT !.pc = "error"]
      BY <1>5 DEF AskRunning, ListRunning, Ask
    <2>2. ModelsRead => snap.models = Models
      BY DEF SnapshotInv
    <2>3. ASSUME NEW ms \in SUBSET loaded,
                 snap' = [snap EXCEPT !.running = ms, !.pc = "metrics",
                            !.misread = @ \cup Misread(ms, loaded, "running")]
          PROVE  SnapshotInv'
      <3>1. snap' \in Snapshots /\ snap'.running = ms /\ snap'.pc = "metrics"
            /\ snap'.models = snap.models /\ snap'.errors = snap.errors
            /\ snap'.loaded0 = snap.loaded0 /\ snap'.life0 = snap.life0
        BY <1>0, <2>3 DEF Misread
      <3>2. ms = loaded \/ "running" \in snap'.misread
        BY <1>0, <2>3 DEF Misread
      <3>3. "models" \in snap.misread => "models" \in snap'.misread
        BY <1>0, <2>3
      <3>4. ModelsRead' => snap'.models = Models
        BY <2>1, <2>2, <3>1, <3>3
      <3>5. RunningRead' => \A m \in Models : LoadedThroughout(m) => m \in snap'.running
        BY <3>1, <3>2 DEF LoadedThroughout
      <3> QED
        BY <2>1, <3>1, <3>4, <3>5, AnswerKeepsSnapshot
    <2> QED
      BY <1>0, <2>1, <2>2, <2>3, AnswerKeepsSnapshot
  <1>6. CASE AskMetrics
    <2>1. /\ hasKey' = hasKey /\ snap.pc = "metrics"
          /\ \/ \E f \in SUBSET Kinds :
                   snap' = [snap EXCEPT !.failing = f, !.pc = "docker"]
             \/ snap' = [snap EXCEPT !.pc = "docker", !.errors = TRUE]
             \/ snap' = [snap EXCEPT !.pc = "error"]
      BY <1>6 DEF AskMetrics, Ask
    <2>2. /\ ModelsRead => snap.models = Models
          /\ RunningRead => \A m \in Models : LoadedThroughout(m) => m \in snap.running
      BY DEF SnapshotInv
    <2> QED
      BY <1>0, <2>1, <2>2, AnswerKeepsSnapshot
  <1>7. CASE JoinDocker
    <2>1. PICK end \in {"complete", "offline", "no_key", "error"} :
              /\ snap' = [snap EXCEPT !.pc = end]
              /\ end = "complete" => snap.pc = "docker"
      BY <1>7 DEF JoinDocker
    <2>2. hasKey' = hasKey
      BY <1>7 DEF JoinDocker
    <2>3. /\ ModelsRead => snap.models = Models
          /\ RunningRead => \A m \in Models : LoadedThroughout(m) => m \in snap.running
      BY DEF SnapshotInv
    <2> QED
      BY <1>0, <2>1, <2>2, <2>3, AnswerKeepsSnapshot
  <1> QED
    BY <1>1, <1>2, <1>3, <1>4, <1>5, <1>6, <1>7 DEF StatusStep

-----------------------------------------------------------------------------
(* The service routes                                                      *)

Inv == TypeInv /\ SnapshotInv /\ KnownInv /\ StoreInv

LEMMA ReadingsInit == Init => KnownInv /\ StoreInv
  <1> SUFFICES ASSUME Init PROVE KnownInv /\ StoreInv
    OBVIOUS
  <1>1. DOMAIN store = {} /\ \A c \in Requests : req[c].pc # "answer"
    BY DEF Init, MetricsInit, Idle
  <1>2. OnlineAt = {}
    BY <1>1 DEF OnlineAt
  <1>3. Known = {}
    BY <1>1, <1>2 DEF Known
  <1> QED
    BY <1>1, <1>2, <1>3 DEF KnownInv, StoreInv

\* Steps that read no counter and store no sample.
LEMMA ReadingsKept ==
    ASSUME KnownInv, StoreInv, UNCHANGED <<served, life, before, store, req, lastUrl>>
    PROVE  KnownInv' /\ StoreInv'
  <1>1. OnlineAt' = OnlineAt /\ Known' = Known
    BY DEF Known, OnlineAt
  <1>2. \A k : Past(k)' <=> Past(k)
    BY DEF Past
  <1> QED
    BY <1>1, <1>2 DEF KnownInv, StoreInv

LEMMA InvNext == Inv /\ [Next]_vars => Inv'
  <1> SUFFICES ASSUME Inv, [Next]_vars PROVE Inv'
    OBVIOUS
  <1>0. SnapshotInv' => StatusTypeOK'
    BY DEF SnapshotInv, StatusTypeOK, Snapshots
  <1>1. CASE ServerStep /\ UNCHANGED <<metricsVars, statusVars, requests, page>>
    <2>1. Loading(Models) \/ Loading(VllmModels) \/ Serving
      BY <1>1 DEF ServerStep
    <2>2. ServerInv' /\ Onward
      BY <1>1, <2>1, ServerStepTyped DEF Inv, TypeInv
    <2>3. SnapshotInv'
      BY <1>1, <2>2, ServerBoundsAssumption, ServerKeepsSnapshot
         DEF Inv, TypeInv, ServerInv, ServerTypeOK
    <2>4. KnownInv' /\ StoreInv'
      BY <1>1, <2>1, ServerKeepsKnown DEF Inv, TypeInv, StoreInv, OnlineAt, metricsVars
    <2> QED
      BY <1>0, <1>1, <2>2, <2>3, <2>4 DEF Inv, TypeInv, MetricsInv, metricsVars
  <1>2. CASE MetricsStep /\ UNCHANGED <<serverVars, statusVars, page>>
    <2>1. MetricsInv' /\ requests' \in 0 .. MaxRequests
      BY <1>2, MetricsStepTyped DEF Inv
    <2>2. ServerInv'
      BY <1>2, <2>1 DEF Inv, TypeInv, ServerInv, ServerTypeOK, serverVars
    <2>3. SnapshotInv'
      BY <1>2 DEF Inv, SnapshotInv, WasLoaded, ModelsRead, RunningRead,
                     LoadedThroughout, serverVars, statusVars
    <2>4. KnownInv' /\ StoreInv'
      BY <1>2, MetricsKeepReadings DEF Inv
    <2> QED
      BY <1>0, <1>2, <2>1, <2>2, <2>3, <2>4 DEF Inv, TypeInv
  <1>3. CASE StatusStep /\ UNCHANGED <<serverVars, metricsVars, page>>
    <2>1. requests' \in 0 .. MaxRequests
      <3>1. CASE BeginSnapshot
        BY <3>1, ServerBoundsAssumption
           DEF BeginSnapshot, CountRequest, Inv, TypeInv, ServerInv, ServerTypeOK
      <3>2. CASE AskVersion \/ AskModels \/ AskRunning \/ AskMetrics
        <4>1. requests' = requests
          BY ONLY <3>2 DEF AskVersion, AskModels, AskRunning, AskMetrics, Ask
        <4> QED
          BY <4>1 DEF Inv, TypeInv, ServerInv, ServerTypeOK
      <3>3. CASE AskHealth \/ JoinDocker
        BY <3>3 DEF AskHealth, JoinDocker, Inv, TypeInv, ServerInv, ServerTypeOK
      <3> QED
        BY <1>3, <3>1, <3>2, <3>3 DEF StatusStep
    <2>2. ServerInv'
      BY <1>3, <2>1 DEF Inv, TypeInv, ServerInv, ServerTypeOK, serverVars
    <2>3. SnapshotInv'
      BY <1>3, StatusKeepsSnapshot DEF Inv, TypeInv, serverVars
    <2>4. KnownInv' /\ StoreInv'
      BY <1>3, ReadingsKept DEF Inv, serverVars, metricsVars
    <2> QED
      BY <1>0, <1>3, <2>2, <2>3, <2>4 DEF Inv, TypeInv, MetricsInv, metricsVars
  <1>4. CASE UnloadModels /\ UNCHANGED <<metricsVars, page>>
    <2>1. /\ loaded' = {}
          /\ UNCHANGED <<served, life, before, now, loads, servings, requests, statusVars>>
      BY <1>4 DEF UnloadModels
    <2>2. ServerInv'
      BY <2>1 DEF Inv, TypeInv, ServerInv, ServerTypeOK
    <2>3. SnapshotInv'
      BY <2>1 DEF Inv, SnapshotInv, WasLoaded, ModelsRead, RunningRead,
                     LoadedThroughout, statusVars
    <2>4. KnownInv' /\ StoreInv'
      BY <1>4, <2>1, ReadingsKept DEF Inv, metricsVars
    <2> QED
      BY <1>0, <1>4, <2>2, <2>3, <2>4 DEF Inv, TypeInv, MetricsInv, metricsVars
  <1>5. CASE UNCHANGED vars
    <2>1. KnownInv' /\ StoreInv'
      BY <1>5, ReadingsKept DEF Inv, vars, serverVars, metricsVars
    <2> QED
      BY <1>5, <2>1 DEF vars, serverVars, metricsVars, statusVars, Inv, TypeInv, ServerInv,
                  ServerTypeOK, StatusTypeOK, MetricsInv, SnapshotInv, WasLoaded,
                  ModelsRead, RunningRead, LoadedThroughout
  <1> QED
    BY <1>1, <1>2, <1>3, <1>4, <1>5 DEF Next

LEMMA Invariant == Spec => []Inv
  BY TypeInit, SnapshotInit, ReadingsInit, InvNext, PTL DEF Spec, Inv

\* The state of the server, of the collections, of the ring of samples, which
\* never outgrows its limit, and of the snapshot is what it is declared to be.
THEOREM TypeCorrect == Spec => []TypeOK
  <1>1. Inv => TypeOK
    BY DEF Inv, TypeInv, ServerInv, MetricsInv, Urls, TypeOK
  <1> QED
    BY <1>1, Invariant, PTL

\* A backend that is shown active had a model loaded at some moment of the
\* snapshot, whatever was loaded, evicted and unloaded between its questions.
THEOREM ActiveIsTrue == Spec => []ActiveWasLoaded
  <1>1. Inv => ActiveWasLoaded
    BY DEF Inv, SnapshotInv, Snapshots, WasLoaded, ActiveWasLoaded, BackendActive, OfKind, Kinds
  <1> QED
    BY <1>1, Invariant, PTL

\* A page that shows llama-swap healthy shows every backend with a model that
\* was loaded all through the snapshot as active, and none that has models as
\* offline, unless the answer about it was in part not understood.
THEOREM BackendsShown == Spec => []BackendsAreShown
  <1>1. ASSUME Inv, SwapStatus = "healthy", NEW k \in Kinds, NEW m \in OfKind(Models, k)
        PROVE  /\ LoadedThroughout(m) => BackendActive(k) \/ "running" \in snap.misread
               /\ BackendStatus(k) # "offline" \/ "models" \in snap.misread
    <2>1. snap.pc = "complete" /\ ~snap.errors /\ m \in Models
      BY <1>1, ModelsAssumption DEF SwapStatus, OfKind
    <2>2. m \in snap.running => m \in OfKind(snap.running, k)
      BY <1>1 DEF OfKind
    <2>3. m \in snap.models => m \in OfKind(snap.models \cup snap.running, k)
      BY <1>1 DEF OfKind
    <2> QED
      BY <1>1, <2>1, <2>2, <2>3
         DEF Inv, SnapshotInv, ModelsRead, RunningRead, BackendActive, BackendStatus
  <1>2. Inv => BackendsAreShown
    BY <1>1 DEF BackendsAreShown
  <1> QED
    BY <1>2, Invariant, PTL

-----------------------------------------------------------------------------
(* What the samples show                                                   *)

\* The readings a sample that is shown was made of.
LEMMA ShownTyped ==
    ASSUME Inv, NEW i \in OnlineAt
    PROVE  LET s == store[i] IN
           /\ s.at \in Nat /\ s.seen \in Readings /\ s.seen.counts \in Counts
           /\ AllOf(s.seen.counts) \in Nat /\ s.seen.all \in Nat /\ s.seen.life \in Nat
           /\ s.prev # None => /\ s.prev.at \in Nat /\ s.prev.seen.counts \in Counts
                               /\ AllOf(s.prev.seen.counts) \in Nat /\ s.prev.seen.all \in Nat
                               /\ s.prev.seen.life \in Nat
                               /\ s.prev.url = s.url => Ordered(s.prev.seen, s.seen)
  <1> DEFINE s == store[i]
             k == [url |-> s.url, seen |-> s.seen]
             p == [url |-> s.prev.url, seen |-> s.prev.seen]
  <1>1. k \in Known /\ (s.prev # None => p \in Known)
    BY DEF Known
  <1>2. s.at \in Nat /\ (s.prev # None => s.prev.at \in Nat)
    BY DEF Inv, StoreInv, OnlineAt
  <1>3. \A c \in Counts : AllOf(c) \in Nat
    BY DEF AllOf, Counts, Buckets
  <1>4. k.seen \in Readings /\ (s.prev # None => p.seen \in Readings)
    BY <1>1 DEF Inv, KnownInv
  <1>5. s.prev # None /\ s.prev.url = s.url => Ordered(p.seen, k.seen)
    BY <1>1 DEF Inv, KnownInv
  <1>6. k.seen = s.seen /\ p.seen = s.prev.seen
    OBVIOUS
  <1> HIDE DEF s, k, p
  <1>7. /\ s.at \in Nat /\ s.seen \in Readings /\ s.seen.counts \in Counts
        /\ AllOf(s.seen.counts) \in Nat /\ s.seen.all \in Nat /\ s.seen.life \in Nat
        /\ s.prev # None => /\ s.prev.at \in Nat /\ s.prev.seen.counts \in Counts
                            /\ AllOf(s.prev.seen.counts) \in Nat /\ s.prev.seen.all \in Nat
                            /\ s.prev.seen.life \in Nat
                            /\ s.prev.url = s.url => Ordered(s.prev.seen, s.seen)
    BY <1>2, <1>3, <1>4, <1>5, <1>6 DEF Readings
  <1> QED
    BY <1>7 DEF s

LEMMA RateOfShown ==
    ASSUME Inv, NEW i \in OnlineAt
    PROVE  LET s == store[i] IN
           /\ Claimed(s) \in Nat
           /\ Rate(s) # None => Rate(s)[1] >= 0 /\ Rate(s)[2] > 0
           /\ Rate(s) # None /\ Forward(s) => Rate(s)[1] <= s.seen.all - s.prev.seen.all
  <1> DEFINE s == store[i]
             c == AllOf(s.seen.counts)
             b == AllOf(s.prev.seen.counts)
  <1>1. CASE Rate(s) = None
    BY <1>1 DEF Claimed
  <1>2. CASE Rate(s) # None
    <2>1. /\ s.prev # None /\ ~(s.at <= s.prev.at) /\ ~(c < b)
          /\ Rate(s) = <<c - b, s.at - s.prev.at>>
      BY <1>2 DEF Rate
    <2>2. /\ s.at \in Nat /\ s.prev.at \in Nat /\ c \in Nat /\ b \in Nat
          /\ s.seen.all \in Nat /\ s.prev.seen.all \in Nat
          /\ s.seen.life \in Nat /\ s.prev.seen.life \in Nat
          /\ s.prev.url = s.url => Ordered(s.prev.seen, s.seen)
      BY <2>1, ShownTyped
    <2>3. Forward(s) => /\ s.prev.url = s.url /\ s.prev.seen.life <= s.seen.life
      BY DEF Forward, SameBackend
    <2>4. Claimed(s) = Rate(s)[1]
      BY <1>2 DEF Claimed
    <2>5. s.prev.url = s.url =>
             /\ s.prev.seen.life = s.seen.life => s.prev.seen.all - b = s.seen.all - c
             /\ s.prev.seen.life < s.seen.life => s.prev.seen.all <= s.seen.all - c
      BY <2>2 DEF Ordered
    <2> HIDE DEF s, c, b
    <2>6. Rate(s)[1] = c - b /\ Rate(s)[2] = s.at - s.prev.at
      BY <2>1
    <2>7. Forward(s) => c - b <= s.seen.all - s.prev.seen.all
      BY <2>2, <2>3, <2>5
    <2> QED
      BY <2>1, <2>2, <2>4, <2>6, <2>7 DEF s
  <1> QED
    BY <1>1, <1>2

\* A rate that is shown is not negative, spread over some time, and no more
\* than what the backend served between its two readings.
THEOREM RatesAreProgress == Spec => []RateIsProgress
  <1>1. Inv => RateIsProgress
    BY RateOfShown DEF RateIsProgress, Shown
  <1> QED
    BY <1>1, Invariant, PTL

\* A hit ratio is a ratio of what is there, and within one process at most 1.
THEOREM SharesAreRatios == Spec => []ShareIsRatio
  <1>1. Inv => ShareIsRatio
    <2> SUFFICES ASSUME Inv, NEW i \in OnlineAt, HitShare(store[i]) # None
                 PROVE  LET s == store[i] IN
                        /\ HitShare(s)[1] >= 0 /\ HitShare(s)[2] > 0
                        /\ s.prev = None \/ SameProcess(s) => HitShare(s)[1] <= HitShare(s)[2]
      BY DEF ShareIsRatio, Shown
    <2> DEFINE s == store[i]
               c == s.seen.counts
               b == s.prev.seen.counts
    <2>1. c[1] \in Nat /\ AllOf(c) \in Nat /\ c[1] <= AllOf(c)
      BY ShownTyped DEF Counts, Buckets, AllOf
    <2>2. s.prev # None => b[1] \in Nat /\ AllOf(b) \in Nat /\ b[1] <= AllOf(b)
      BY ShownTyped DEF Counts, Buckets, AllOf
    <2>3. s.prev # None /\ SameProcess(s) =>
             (AllOf(c) - AllOf(b) > 0 => c[1] - b[1] <= AllOf(c) - AllOf(b))
      <3> SUFFICES ASSUME s.prev # None, SameProcess(s), AllOf(c) - AllOf(b) > 0
                   PROVE  c[1] - b[1] <= AllOf(c) - AllOf(b)
        OBVIOUS
      <3>1. Below(b, c) \/ Below(c, b)
        BY ShownTyped DEF SameProcess, SameBackend, Ordered
      <3>2. c \in Counts /\ b \in Counts
        BY ShownTyped
      <3> HIDE DEF s, c, b
      <3> QED
        BY <3>1, <3>2 DEF Below, Counts, Buckets, AllOf
    <2>4. HitShare(s) = IF s.prev # None /\ c[1] - b[1] >= 0 /\ AllOf(c) - AllOf(b) > 0
                        THEN <<c[1] - b[1], AllOf(c) - AllOf(b)>>
                        ELSE IF AllOf(c) > 0 THEN <<c[1], AllOf(c)>> ELSE None
      BY DEF HitShare
    <2>5. HitShare(s) # None
      OBVIOUS
    <2> HIDE DEF s, c, b
    <2>6. CASE s.prev # None /\ c[1] - b[1] >= 0 /\ AllOf(c) - AllOf(b) > 0
      BY <2>2, <2>3, <2>4, <2>6 DEF s
    <2>7. CASE ~(s.prev # None /\ c[1] - b[1] >= 0 /\ AllOf(c) - AllOf(b) > 0)
      BY <2>1, <2>4, <2>5, <2>7 DEF s
    <2> QED
      BY <2>6, <2>7
  <1> QED
    BY <1>1, Invariant, PTL

\* The address a reply names is that of the newest sample online.
THEOREM EndpointsAreTrue == Spec => []EndpointAnswered
  <1>1. Inv => EndpointAnswered
    <2> SUFFICES ASSUME Inv, LatestOnline # None PROVE lastUrl = LatestOnline.url
      BY DEF EndpointAnswered
    <2>1. OnlineAt # {} /\ LatestOnline = store[Max(OnlineAt)]
      BY DEF LatestOnline
    <2>2. PICK S : store \in Seq(S)
      BY DEF Inv, TypeInv, MetricsInv
    <2> QED
      BY <2>1, <2>2, OnlineEnds DEF Inv, StoreInv
  <1> QED
    BY <1>1, Invariant, PTL

\* There is a function that adds up the numbers of a sequence.
LEMMA SumsExist ==
    ASSUME NEW N \in Nat, NEW a \in [1 .. N -> Int]
    PROVE  \E f : f = [n \in 0 .. N |-> IF n = 0 THEN 0 ELSE f[n - 1] + a[n]]
  <1> DEFINE Sums(f, k) == /\ f \in [0 .. k -> Int] /\ f[0] = 0
                           /\ \A n \in 1 .. k : f[n] = f[n - 1] + a[n]
             S == {k \in 0 .. N : \E f : Sums(f, k)}
  <1>1. 0 \in S
    <2> DEFINE f == [n \in 0 .. 0 |-> 0]
    <2>1. Sums(f, 0)
      OBVIOUS
    <2> HIDE DEF f, Sums
    <2> QED
      BY <2>1
  <1>2. ASSUME NEW k \in 0 .. N - 1, k \in S PROVE k + 1 \in S
    <2>1. PICK f : Sums(f, k)
      BY <1>2
    <2> DEFINE g == [n \in 0 .. k + 1 |-> IF n = k + 1 THEN f[k] + a[k + 1] ELSE f[n]]
    <2>2. f[k] \in Int /\ a[k + 1] \in Int /\ k + 1 \in 0 .. N /\ k \in Nat
      BY <2>1
    <2>3. g \in [0 .. k + 1 -> Int] /\ g[0] = 0
      BY <2>1, <2>2
    <2>4. ASSUME NEW n \in 1 .. k + 1 PROVE g[n] = g[n - 1] + a[n]
      <3>1. CASE n = k + 1
        BY <2>2, <3>1
      <3>2. CASE n \in 1 .. k
        BY <2>1, <2>2, <3>2
      <3> QED
        BY <2>2, <3>1, <3>2
    <2>5. Sums(g, k + 1)
      BY <2>3, <2>4
    <2> QED
      BY <2>2, <2>5
  <1>3. N \in S
    <2> HIDE DEF S
    <2>1. 0 .. N \subseteq S
      BY <1>1, <1>2, Induction
    <2> QED
      BY <2>1
  <1>4. PICK f : Sums(f, N)
    BY <1>3
  <1>5. f = [n \in 0 .. N |-> IF n = 0 THEN 0 ELSE f[n - 1] + a[n]]
    BY <1>4
  <1> QED
    BY <1>5

LEMMA ClaimsAddUp ==
    ASSUME Inv
    PROVE  /\ Len(store) \in Nat /\ ClaimedUpTo[0] = 0
           /\ \A n \in 1 .. Len(store) :
                 ClaimedUpTo[n] = ClaimedUpTo[n - 1] + Claimed(store[n])
           /\ \A n \in 1 .. Len(store) : Claimed(store[n]) \in Nat
           /\ \A n \in 1 .. Len(store) : n \notin OnlineAt => Claimed(store[n]) = 0
  <1> DEFINE N == Len(store)
             a == [n \in 1 .. N |-> Claimed(store[n])]
  <1>1. N \in Nat /\ DOMAIN store = 1 .. N
    BY DEF Inv, TypeInv, MetricsInv
  <1>2. ASSUME NEW n \in 1 .. N, n \notin OnlineAt PROVE Claimed(store[n]) = 0
    <2>1. store[n] = Offline(store[n].at)
      BY <1>1, <1>2 DEF Inv, StoreInv, OnlineAt
    <2>2. store[n].prev = None
      BY <2>1 DEF Offline
    <2> QED
      BY <2>2 DEF Claimed, Rate
  <1>3. \A n \in 1 .. N : Claimed(store[n]) \in Nat
    BY <1>2, RateOfShown
  <1>4. a \in [1 .. N -> Int]
    BY <1>3
  <1>5. PICK f : f = [n \in 0 .. N |-> IF n = 0 THEN 0 ELSE f[n - 1] + a[n]]
    BY <1>1, <1>4, SumsExist
  <1>6. f = [n \in 0 .. N |-> IF n = 0 THEN 0 ELSE f[n - 1] + Claimed(store[n])]
    <2>1. \A n \in 0 .. N : n # 0 => a[n] = Claimed(store[n])
      BY <1>1
    <2> HIDE DEF a
    <2>2. \A n \in 0 .. N : (IF n = 0 THEN 0 ELSE f[n - 1] + a[n])
                             = (IF n = 0 THEN 0 ELSE f[n - 1] + Claimed(store[n]))
      BY <2>1
    <2> QED
      BY <1>5, <2>2
  <1>7. ClaimedUpTo = [n \in 0 .. N |-> IF n = 0 THEN 0 ELSE ClaimedUpTo[n - 1] + Claimed(store[n])]
    BY <1>6 DEF ClaimedUpTo
  <1> QED
    BY <1>1, <1>2, <1>3, <1>7

\* While the readings are recorded in order, the samples up to some place claim
\* no more than what was served up to the reading of the last one online.
LEMMA ClaimsAreServed ==
    ASSUME Inv, OnlineAt # {}, InOrder,
           NEW i \in OnlineAt, \A k \in OnlineAt : k <= i
    PROVE  ClaimedUpTo[Len(store)] <= store[i].seen.all - store[Min(OnlineAt)].prev.seen.all
  <1> DEFINE N == Len(store)
             first == Min(OnlineAt)
             begin == store[first].prev.seen.all
             upto(n) == ClaimedUpTo[n]
             Served(n) ==
                /\ (\A k \in OnlineAt : n < k) => upto(n) = 0
                /\ \A j \in OnlineAt :
                      j <= n /\ (\A k \in OnlineAt : ~(j < k /\ k <= n))
                         => upto(n) <= store[j].seen.all - begin
             S == {n \in 0 .. N : Served(n)}
  <1>1. /\ N \in Nat /\ OnlineAt \subseteq 1 .. N /\ OnlineAt \subseteq Nat
        /\ first \in OnlineAt /\ \A j \in OnlineAt : first <= j
    <2>1. PICK T : store \in Seq(T)
      BY DEF Inv, TypeInv, MetricsInv
    <2>2. Len(store) \in Nat /\ DOMAIN store = 1 .. Len(store)
      BY <2>1
    <2>3. OnlineAt \subseteq 1 .. N
      BY <2>2 DEF OnlineAt
    <2> QED
      BY <2>1, <2>2, <2>3, OnlineEnds
  <1>2. /\ upto(0) = 0
        /\ \A n \in 1 .. N : upto(n) = upto(n - 1) + Claimed(store[n])
        /\ \A n \in 1 .. N : n \notin OnlineAt => Claimed(store[n]) = 0
    BY ClaimsAddUp
  <1>3. ASSUME NEW j \in OnlineAt
        PROVE  /\ store[j].prev # None
               /\ store[j].seen.all \in Nat /\ store[j].prev.seen.all \in Nat
               /\ Claimed(store[j]) \in Nat
               /\ Claimed(store[j]) <= store[j].seen.all - store[j].prev.seen.all
    <2>1. store[j] \in Shown
      BY DEF Shown
    <2>2. Forward(store[j]) /\ store[j].prev.seen.all <= store[j].seen.all
      BY <2>1 DEF InOrder
    <2>3. store[j].prev # None
      BY <2>2 DEF Forward, SameBackend
    <2>4. store[j].seen.all \in Nat /\ store[j].prev.seen.all \in Nat
      BY <2>3, ShownTyped
    <2>5. Claimed(store[j]) \in Nat
      BY RateOfShown
    <2>6. CASE Rate(store[j]) = None
      BY <2>2, <2>3, <2>4, <2>5, <2>6 DEF Claimed
    <2>7. CASE Rate(store[j]) # None
      BY <2>2, <2>3, <2>4, <2>5, <2>7, RateOfShown DEF Claimed
    <2> QED
      BY <2>6, <2>7
  <1>4. \A n \in 0 .. N : upto(n) \in Nat
    <2> DEFINE U == {n \in 0 .. N : upto(n) \in Nat}
    <2>1. 0 \in U
      BY <1>1, <1>2
    <2>2. \A n \in 1 .. N : Claimed(store[n]) \in Nat
      BY ClaimsAddUp
    <2>3. ASSUME NEW n \in 0 .. N - 1, n \in U PROVE n + 1 \in U
      <3>1. n + 1 \in 1 .. N /\ (n + 1) - 1 = n
        BY <1>1
      <3>2. upto(n + 1) = upto(n) + Claimed(store[n + 1])
        BY <1>2, <3>1
      <3>3. upto(n) \in Nat /\ Claimed(store[n + 1]) \in Nat
        BY <2>2, <2>3, <3>1
      <3> HIDE DEF upto
      <3>4. upto(n + 1) \in Nat /\ n + 1 \in 0 .. N
        BY <1>1, <3>1, <3>2, <3>3
      <3> QED
        BY <3>4
    <2> HIDE DEF U
    <2>4. 0 .. N \subseteq U
      BY <1>1, <2>1, <2>3, Induction
    <2> QED
      BY <2>4 DEF U
  <1>5. begin \in Nat
    BY <1>1, <1>3
  <1> HIDE DEF N, first, begin, upto
  <1>6. 0 \in S
    BY <1>1, <1>2
  <1>7. ASSUME NEW n \in 0 .. N - 1, n \in S PROVE n + 1 \in S
    <2>0. /\ n \in Nat /\ n + 1 \in 1 .. N /\ n + 1 \in 0 .. N /\ (n + 1) - 1 = n /\ n \in 0 .. N
          /\ Served(n)
      BY <1>1, <1>7
    <2>1. upto(n + 1) = upto(n) + Claimed(store[n + 1]) /\ upto(n) \in Nat /\ upto(n + 1) \in Nat
      BY <1>2, <1>4, <2>0
    <2>2. CASE n + 1 \notin OnlineAt
      <3>1. upto(n + 1) = upto(n)
        BY <1>2, <2>0, <2>1, <2>2
      <3>2. \A k \in OnlineAt : /\ k <= n + 1 <=> k <= n
                                /\ n + 1 < k <=> n < k
        BY <1>1, <2>0, <2>2
      <3>3. Served(n + 1)
        BY <2>0, <3>1, <3>2
      <3> QED
        BY <2>0, <3>3
    <2>3. CASE n + 1 \in OnlineAt
      <3>1. upto(n + 1) <= store[n + 1].seen.all - begin
        <4>1. CASE \A k \in OnlineAt : n < k
          <5>1. upto(n) = 0
            BY <2>0, <4>1
          <5>2. first = n + 1
            BY <1>1, <2>0, <2>3, <4>1
          <5>3. store[n + 1].prev.seen.all = begin
            BY <5>2 DEF begin
          <5> QED
            BY <1>3, <1>5, <2>1, <2>3, <5>1, <5>3
        <4>2. CASE \E k \in OnlineAt : ~(n < k)
          <5> DEFINE T == {k \in OnlineAt : k <= n}
          <5>0. PICK x \in OnlineAt : ~(n < x)
            BY <4>2
          <5>7. x \in Nat /\ x <= n
            BY <1>1, <2>0, <5>0
          <5>1. T \subseteq Nat /\ T # {} /\ \A l \in T : l <= n
            BY <1>1, <5>7
          <5>2. PICK j \in T : \A k \in T : k <= j
            BY <2>0, <5>1, GreatestExists
          <5>3. /\ j \in OnlineAt /\ j <= n /\ j < n + 1
                /\ \A k \in OnlineAt : ~(j < k /\ k <= n)
                /\ \A k \in OnlineAt : ~(j < k /\ k < n + 1)
            BY <1>1, <2>0, <5>2
          <5>4. upto(n) <= store[j].seen.all - begin
            BY <2>0, <5>3
          <5>5. store[n + 1].prev = Compared(store[j])
            BY <2>3, <5>3 DEF Inv, StoreInv
          <5>6. store[n + 1].prev.seen = store[j].seen
            BY <1>3, <2>3, <5>5 DEF Compared
          <5> QED
            BY <1>3, <1>5, <2>1, <2>3, <5>3, <5>4, <5>6
        <4> QED
          BY <4>1, <4>2
      <3>2. \A j \in OnlineAt :
               j <= n + 1 /\ (\A k \in OnlineAt : ~(j < k /\ k <= n + 1)) => j = n + 1
        BY <1>1, <2>0, <2>3
      <3>3. ~(\A k \in OnlineAt : n + 1 < k)
        BY <2>0, <2>3
      <3>4. Served(n + 1)
        BY <3>1, <3>2, <3>3
      <3> QED
        BY <2>0, <3>4
    <2> QED
      BY <2>2, <2>3
  <1>8. N \in S
    <2> HIDE DEF S
    <2>1. 0 .. N \subseteq S
      BY <1>1, <1>6, <1>7, Induction
    <2> QED
      BY <1>1, <2>1
  <1>9. upto(N) <= store[i].seen.all - begin
    BY <1>1, <1>8
  <1> QED
    BY <1>9 DEF upto, N, begin, first

\* While the readings of one backend are recorded in order, no request is
\* claimed by two samples, however many samples the store keeps.
THEOREM RequestsAreCountedOnce == Spec => []CountedOnce
  <1>1. Inv => CountedOnce
    <2> SUFFICES ASSUME Inv, Shown # {}, InOrder
                 PROVE  ClaimedUpTo[Len(store)]
                           <= store[Max(OnlineAt)].seen.all - store[Min(OnlineAt)].prev.seen.all
      BY DEF CountedOnce
    <2>1. OnlineAt # {}
      BY DEF Shown
    <2>2. PICK T : store \in Seq(T)
      BY DEF Inv, TypeInv, MetricsInv
    <2>3. Max(OnlineAt) \in OnlineAt /\ \A k \in OnlineAt : k <= Max(OnlineAt)
      BY <2>1, <2>2, OnlineEnds
    <2> QED
      BY <2>1, <2>3, ClaimsAreServed
  <1> QED
    BY <1>1, Invariant, PTL

\* The interpolated bucket is the first one that reaches the target.
LEMMA QuantileIs ==
    ASSUME NEW h \in Counts, h[3] > 0, NEW num \in Nat, NEW den \in Nat,
           h[3] * den >= h[3] * num
    PROVE  Quantile(num, den, h) =
              IF h[1] * den >= h[3] * num THEN <<h[3] * num, h[1] * den>>
              ELSE IF h[2] * den >= h[3] * num
              THEN <<(h[2] - h[1]) * den + h[3] * num - h[1] * den, (h[2] - h[1]) * den>>
              ELSE <<2, 1>>
  <1> DEFINE reached == {b \in Buckets : h[b] * den >= h[3] * num}
             le == CHOOSE b \in reached : \A c \in reached : b <= c
             low == IF le = 1 THEN 0 ELSE h[le - 1]
  <1>1. /\ h[1] \in Nat /\ h[2] \in Nat /\ h[3] \in Nat
        /\ 1 \in reached <=> h[1] * den >= h[3] * num
        /\ 2 \in reached <=> h[2] * den >= h[3] * num
        /\ 3 \in reached /\ reached \subseteq {1, 2, 3}
    BY DEF Counts, Buckets
  <1>2. Quantile(num, den, h) =
           IF le = 3 THEN <<le - 1, 1>>
           ELSE <<(le - 1) * (h[le] - low) * den + h[3] * num - low * den, (h[le] - low) * den>>
    BY <1>1 DEF Quantile, Inf
  <1> HIDE DEF reached
  <1>3. le \in reached /\ \A c \in reached : le <= c
    <2>1. reached \subseteq Nat /\ reached # {}
      BY <1>1
    <2> QED
      BY <2>1, LeastExists
  <1> HIDE DEF le
  <1>4. CASE 1 \in reached
    <2>1. le = 1 /\ low = 0
      BY <1>1, <1>3, <1>4
    <2> QED
      BY <1>1, <1>2, <1>4, <2>1
  <1>5. CASE 1 \notin reached /\ 2 \in reached
    <2>1. le = 2 /\ low = h[1]
      BY <1>1, <1>3, <1>5
    <2>2. /\ (le - 1) * (h[le] - low) * den = (h[2] - h[1]) * den
          /\ low * den = h[1] * den
      BY <1>1, <2>1
    <2> QED
      BY <1>1, <1>2, <1>5, <2>1, <2>2
  <1>6. CASE 1 \notin reached /\ 2 \notin reached
    <2>1. le = 3
      BY <1>1, <1>3, <1>6
    <2> QED
      BY <1>1, <1>2, <1>6, <2>1
  <1> QED
    BY <1>4, <1>5, <1>6

LEMMA ProductOrder ==
    ASSUME NEW x \in Nat, NEW y \in Nat, NEW z \in Nat, x <= y
    PROVE  x * z <= y * z
  OBVIOUS

\* The median is below the 95th percentile, and that below the last bound.
LEMMA QuantilesOrdered ==
    ASSUME NEW h \in Counts, h[3] > 0
    PROVE  LET p == Quantile(1, 2, h)
               q == Quantile(19, 20, h)
           IN  0 <= p[1] /\ p[1] * q[2] <= q[1] * p[2] /\ q[1] <= (Inf - 1) * q[2]
  <1> DEFINE p == Quantile(1, 2, h)
             q == Quantile(19, 20, h)
             a == h[1]
             b == h[2]
             t == h[3]
  <1>1. a \in Nat /\ b \in Nat /\ t \in Nat /\ t > 0
    BY DEF Counts, Buckets
  <1>2. p = IF a * 2 >= t THEN <<t, a * 2>>
            ELSE IF b * 2 >= t THEN <<(b - a) * 2 + t - a * 2, (b - a) * 2>> ELSE <<2, 1>>
    <2>1. t * 2 >= t * 1 /\ t * 1 = t
      BY <1>1
    <2> QED
      BY <1>1, <2>1, QuantileIs
  <1>3. q = IF a * 20 >= t * 19 THEN <<t * 19, a * 20>>
            ELSE IF b * 20 >= t * 19
            THEN <<(b - a) * 20 + t * 19 - a * 20, (b - a) * 20>> ELSE <<2, 1>>
    <2>1. t * 20 >= t * 19
      BY <1>1
    <2> QED
      BY <1>1, <2>1, QuantileIs
  <1> DEFINE Goal == 0 <= p[1] /\ p[1] * q[2] <= q[1] * p[2] /\ q[1] <= 2 * q[2]
  <1> SUFFICES Goal
    BY DEF Inf
  <1> HIDE DEF p, q, a, b, t
  <1>4. CASE a * 20 >= t * 19
    <2>1. p[1] = t /\ p[2] = a * 2 /\ q[1] = t * 19 /\ q[2] = a * 20
      BY <1>1, <1>2, <1>3, <1>4
    <2>2. t * (a * 20) <= (t * 19) * (a * 2)
      <3>1. t * a \in Nat
        BY <1>1
      <3>2. t * (a * 20) = (t * a) * 20 /\ (t * 19) * (a * 2) = (t * a) * 38
        BY <1>1
      <3> QED
        BY <3>1, <3>2
    <2> QED
      BY <1>1, <1>4, <2>1, <2>2
  <1>5. CASE a * 20 < t * 19 /\ b * 20 >= t * 19
    <2> DEFINE d == b - a
    <2>0. d \in Nat /\ d > 0 /\ b = a + d
      BY <1>1, <1>5
    <2> HIDE DEF d
    <2>1. q[1] = d * 20 + t * 19 - a * 20 /\ q[2] = d * 20
      BY <1>1, <1>3, <1>5, <2>0 DEF d
    <2>2. CASE a * 2 >= t
      <3>1. p[1] = t /\ p[2] = a * 2
        BY <1>2, <2>2
      <3>2. t * (d * 20) <= (a * 2) * (d * 20)
        BY <1>1, <2>0, <2>2, ProductOrder
      <3>3. (d * 20) * (a * 2) <= (d * 20 + t * 19 - a * 20) * (a * 2)
        BY <1>1, <1>5, <2>0, ProductOrder
      <3>4. (a * 2) * (d * 20) = (d * 20) * (a * 2)
        BY <1>1, <2>0
      <3>5. t * (d * 20) \in Nat /\ (d * 20) * (a * 2) \in Nat
            /\ (d * 20 + t * 19 - a * 20) * (a * 2) \in Int
        BY <1>1, <2>0
      <3>6. t * (d * 20) <= (d * 20 + t * 19 - a * 20) * (a * 2)
        BY <3>2, <3>3, <3>4, <3>5
      <3>7. p[1] * q[2] <= q[1] * p[2]
        BY <2>1, <3>1, <3>6
      <3> QED
        BY <1>1, <1>5, <2>0, <2>1, <3>1, <3>7
    <2>3. CASE a * 2 < t
      <3>0. b * 2 >= t
        BY <1>1, <1>5
      <3>1. p[1] = d * 2 + t - a * 2 /\ p[2] = d * 2
        BY <1>1, <1>2, <2>3, <3>0 DEF d
      <3>2. (d * 2 + t - a * 2) * (d * 20) <= (d * 20 + t * 19 - a * 20) * (d * 2)
        <4> DEFINE x == d * 2 + t - a * 2
                   y == d * 20 + t * 19 - a * 20
        <4>1. x \in Nat /\ y \in Nat /\ x * 10 <= y
          BY <1>1, <1>5, <2>0, <2>3
        <4> HIDE DEF x, y
        <4>2. (x * 10) * (d * 2) <= y * (d * 2)
          BY <2>0, <4>1, ProductOrder
        <4>3. x * (d * 20) = (x * 10) * (d * 2)
          BY <2>0, <4>1
        <4> QED
          BY <4>2, <4>3 DEF x, y
      <3>3. p[1] * q[2] <= q[1] * p[2]
        BY <2>1, <3>1, <3>2
      <3> QED
        BY <1>1, <1>5, <2>0, <2>1, <2>3, <3>1, <3>3
    <2> QED
      BY <1>1, <2>2, <2>3
  <1>6. CASE a * 20 < t * 19 /\ b * 20 < t * 19
    <2>1. q[1] = 2 /\ q[2] = 1
      BY <1>1, <1>3, <1>6
    <2>2. 0 <= p[1] /\ p[1] \in Int /\ p[2] \in Int /\ p[1] <= 2 * p[2]
      BY <1>1, <1>2
    <2> QED
      BY <2>1, <2>2
  <1> QED
    BY <1>1, <1>4, <1>5, <1>6

\* What was added to the buckets since the previous sample is not negative and
\* no more than what is in them, also if another process was compared with.
LEMMA IntervalTyped ==
    ASSUME Inv, NEW i \in OnlineAt
    PROVE  /\ Interval(store[i]) \in Counts
           /\ Below(Interval(store[i]), Cumulative(store[i].seen.counts))
  <1> DEFINE s == store[i]
             whole == Cumulative(s.seen.counts)
             begin == Cumulative(s.prev.seen.counts)
             delta == [b \in Buckets |-> whole[b] - begin[b]]
  <1>1. \A c \in Counts : Cumulative(c) \in Counts
    BY DEF Cumulative, Counts, Buckets, AllOf
  <1>2. whole \in Counts /\ (s.prev # None => begin \in Counts)
    BY <1>1, ShownTyped
  <1>3. Interval(s) = IF s.prev = None THEN whole
                      ELSE IF \E b \in Buckets : delta[b] < 0 THEN whole ELSE delta
    BY DEF Interval
  <1>4. Below(whole, whole)
    BY <1>2 DEF Below, Counts
  <1>5. s.prev # None /\ (\A b \in Buckets : ~(delta[b] < 0)) =>
           delta \in Counts /\ Below(delta, whole)
    BY <1>2 DEF Below, Counts
  <1> HIDE DEF s, whole, delta, begin
  <1>6. Interval(s) \in Counts /\ Below(Interval(s), whole)
    BY <1>2, <1>3, <1>4, <1>5
  <1> QED
    BY <1>6 DEF s, whole

\* Median and 95th percentile are in order and within the finite buckets,
\* whichever processes the two readings are of.
THEOREM QuantilesAreInOrder == Spec => []QuantilesInOrder
  <1>1. Inv => QuantilesInOrder
    <2> SUFFICES ASSUME Inv, NEW i \in OnlineAt
                 PROVE  LET s == store[i]
                            h == Interval(s)
                            p50 == Quantile(1, 2, h)
                            p95 == Quantile(19, 20, h)
                        IN /\ \A b \in Buckets : 0 <= h[b] /\ h[b] <= Cumulative(s.seen.counts)[b]
                           /\ p50 # None => /\ 0 <= p50[1] /\ p50[1] * p95[2] <= p95[1] * p50[2]
                                            /\ p95[1] <= (Inf - 1) * p95[2]
      BY DEF QuantilesInOrder, Shown
    <2> DEFINE h == Interval(store[i])
    <2>1. h \in Counts /\ Below(h, Cumulative(store[i].seen.counts))
      BY IntervalTyped
    <2>2. Quantile(1, 2, h) # None => h[3] > 0
      BY <2>1 DEF Quantile, Inf, Counts, Buckets
    <2> HIDE DEF h
    <2>3. \A b \in Buckets : 0 <= h[b] /\ h[b] <= Cumulative(store[i].seen.counts)[b]
      BY <2>1 DEF Counts, Below
    <2>4. Quantile(1, 2, h) # None =>
             /\ 0 <= Quantile(1, 2, h)[1]
             /\ Quantile(1, 2, h)[1] * Quantile(19, 20, h)[2]
                   <= Quantile(19, 20, h)[1] * Quantile(1, 2, h)[2]
             /\ Quantile(19, 20, h)[1] <= (Inf - 1) * Quantile(19, 20, h)[2]
      BY <2>1, <2>2, QuantilesOrdered
    <2> QED
      BY <2>3, <2>4 DEF h
  <1> QED
    BY <1>1, Invariant, PTL
=============================================================================
