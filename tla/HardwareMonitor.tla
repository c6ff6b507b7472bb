-------------------------- MODULE HardwareMonitor --------------------------
(***************************************************************************)
(* The hardware monitor: HardwareMonitorService samples the host and the   *)
(* GPUs, folds the samples of a bucket of wall-clock time into one record  *)
(* per device, and writes them with record_hardware_buckets, which charges *)
(* the bucket to the run that is active when it is written.                *)
(*                                                                         *)
(* Of the metrics only the power reading of a GPU is kept: the energy, its *)
(* cost and the merged averages derive from it, the other metrics take the *)
(* same path.  Energies are integers, in power units times Scale.          *)
(***************************************************************************)
EXTENDS Integers, FiniteSets, FiniteSetsExt

CONSTANTS
    Gpus, Runs,
    None,           \* no bucket, no run, no average
    Absent,         \* the GPU is not in the sample (nvidia-smi failed)
    NoReading,      \* the GPU is in the sample, its power_draw_w is None
    Samples,        \* what a sample says of each GPU: Absent, NoReading, a power
    BucketLen,      \* settings.hardware_bucket_seconds, a sample per second
    Scale,          \* divisible by every number of readings in a bucket
    MaxSamples, MaxTime, MaxBack, MaxFaults, MaxStops       \* bounds

Powers == {s[g] : s \in Samples, g \in Gpus} \ {Absent, NoReading}

ASSUME MonitorAssumption ==
    /\ \A s \in Samples : DOMAIN s = Gpus
    /\ Powers \subseteq Nat /\ {Absent, NoReading} \cap Nat = {}
    /\ BucketLen \in Nat \ {0} /\ Scale \in Nat \ {0}
    /\ \A n \in 1..MaxSamples : Scale % n = 0
    /\ "host" \notin Gpus /\ IsFiniteSet(Gpus) /\ MaxTime \in Nat

\* None is told from every run, number, sample, bucket, average and usage.
ASSUME NoneAssumption ==
    /\ None \notin Runs \cup Nat
    /\ None \notin [time : Nat, power : Samples]
    /\ None \notin [start : Nat, n : Nat,
                    gpu : [Gpus -> [n : Nat, sum : Nat, count : Nat]]]
    /\ None \notin [num : Nat, den : Nat]
    /\ None \notin [buckets : Nat, host : Nat, gpu : Nat, energy : Nat,
                    average : {None} \cup [num : Nat, den : Nat],
                    first : {None} \cup Nat, last : {None} \cup Nat]

VARIABLES
    clock,      \* the wall clock, in seconds
    phase,      \* phase[r]: "waiting", "active" or "ended"
    monitor,    \* where the loop task is
    stopping,   \* the stop event
    hand,       \* the sample the current tick has collected
    bucket,     \* _current_bucket
    batch,      \* the bucket being written, after it left _current_bucket
    charged,    \* the run the batch will be charged to
    rows,       \* hardware_sample_buckets
    usage,      \* usage[r]: the job_hardware_usage row of r, or None
    taken, lost,                        \* samples collected, dropped (history)
    back, faults, stops                 \* counters for the bounds

vars == <<clock, phase, monitor, stopping, hand, bucket, batch, charged, rows,
          usage, taken, lost, back, faults, stops>>
tableVars == <<rows, usage>>
boundVars == <<back, faults, stops>>

-----------------------------------------------------------------------------
(* Samples, buckets and rows                                               *)

\* _floor_datetime
FloorTime(t) == t - (t % BucketLen)

NewBucket(start) ==
    [start |-> start, n |-> 0,
     gpu |-> [g \in Gpus |-> [n |-> 0, sum |-> 0, count |-> 0]]]

\* DeviceRollup.add_gpu and MetricRollup.add: a missing reading counts as a
\* sample but not towards the average.
AddReading(d, reading) ==
    IF reading = Absent THEN d
    ELSE IF reading = NoReading THEN [d EXCEPT !.n = @ + 1]
    ELSE [n |-> d.n + 1, sum |-> d.sum + reading, count |-> d.count + 1]

\* BucketRollup.add_sample
AddSample(b, s) ==
    [b EXCEPT !.n = @ + 1,
              !.gpu = [g \in Gpus |-> AddReading(@[g], s.power[g])]]

Lesser(a, b) == IF a < b THEN a ELSE b

\* A mutant of DeviceRow: the observed time is not capped at the bucket.
DeviceRowUncapped(b, device, n, sum, count, id) ==
    [start |-> b.start, device |-> device, run |-> id,
     n |-> n, missing |-> 0,
     energy |-> IF count = 0 THEN None ELSE (Scale * sum * n) \div count,
     sum |-> sum, count |-> count]

\* BucketRollup.to_records for one device, and _bucket_record_from_create.
DeviceRow(b, device, n, sum, count, id) ==
    [start |-> b.start, device |-> device, run |-> id,
     n |-> n,
     missing |-> IF n < BucketLen THEN BucketLen - n ELSE 0,
     energy |-> IF count = 0 THEN None
                ELSE (Scale * sum * Lesser(BucketLen, n)) \div count,
     sum |-> sum, count |-> count]

BatchRows(b, id) ==
    {DeviceRow(b, "host", b.n, 0, 0, id)}
    \cup {DeviceRow(b, g, b.gpu[g].n, b.gpu[g].sum, b.gpu[g].count, id) :
             g \in {h \in Gpus : b.gpu[h].n > 0}}

\* What counts for nothing if it is not there.
Known(x) == IF x = None THEN 0 ELSE x

\* A mutant of MergeAverage: the average of the averages.
MergeAverageUnweighted(average, n, row) ==
    IF row.count = 0 THEN average
    ELSE IF average = None \/ n = 0 THEN [num |-> row.sum, den |-> row.count]
    ELSE [num |-> average.num * row.count + row.sum * average.den,
          den |-> 2 * average.den * row.count]

\* _merge_average; an average is a fraction [num, den] or None.
MergeAverage(average, n, row) ==
    IF row.count = 0 THEN average
    ELSE IF average = None \/ n = 0 THEN [num |-> row.sum, den |-> row.count]
    ELSE [num |-> average.num * n * row.count + row.sum * row.n * average.den,
          den |-> average.den * row.count * (n + row.n)]

NoUsage == [buckets |-> 0, host |-> 0, gpu |-> 0, energy |-> 0, average |-> None,
            first |-> None, last |-> None]

\* The loop of _update_job_usage_summary over the GPU buckets of a batch.
AddGpuRow(row, u) ==
    [u EXCEPT !.average = MergeAverage(@, u.gpu, row),
              !.gpu = @ + row.n,
              !.energy = @ + Known(row.energy)]

\* A mutant of AddToUsage: a batch counts as one bucket, whatever its rows.
AddToUsagePerBatch(u, new) ==
    LET old == IF u = None THEN NoUsage ELSE u
    IN  [old EXCEPT !.buckets = @ + 1]

\* _update_job_usage_summary
AddToUsage(u, new) ==
    LET old == IF u = None THEN NoUsage ELSE u
        start == (CHOOSE r \in new : TRUE).start
        hostRow == CHOOSE r \in new : r.device = "host"
        withGpus == FoldSet(AddGpuRow, old, new \ {hostRow})
    IN  [withGpus EXCEPT
            !.buckets = @ + Cardinality(new),
            !.host = @ + hostRow.n,
            !.first = IF @ = None THEN start ELSE Lesser(@, start),
            !.last = IF @ = None \/ @ < start THEN start ELSE @]

-----------------------------------------------------------------------------
Init ==
    /\ clock = 0
    /\ phase = [r \in Runs |-> "waiting"]
    /\ monitor = "off" /\ stopping = FALSE
    /\ hand = None /\ bucket = None /\ batch = None /\ charged = None
    /\ rows = {} /\ usage = [r \in Runs |-> None]
    /\ taken = 0 /\ lost = 0 /\ back = 0 /\ faults = 0 /\ stops = 0

\* Only Collect reads the clock, so it need not move during the rest of a tick.
TimePasses ==
    /\ monitor \in {"off", "idle"}
    /\ clock < MaxTime
    /\ clock' = clock + 1
    /\ UNCHANGED <<phase, monitor, stopping, hand, bucket, batch, charged,
                   tableVars, taken, lost, boundVars>>

\* The wall clock is set back.
ClockSetBack ==
    /\ monitor \in {"off", "idle"}
    /\ back < MaxBack /\ clock >= BucketLen
    /\ clock' = clock - BucketLen
    /\ back' = back + 1
    /\ UNCHANGED <<phase, monitor, stopping, hand, bucket, batch, charged,
                   tableVars, taken, lost, faults, stops>>

\* The scheduler admits a run.
RunBegins(r) ==
    /\ phase[r] = "waiting"
    /\ phase' = [phase EXCEPT ![r] = "active"]
    /\ UNCHANGED <<clock, monitor, stopping, hand, bucket, batch, charged,
                   tableVars, taken, lost, boundVars>>

RunEnds(r) ==
    /\ phase[r] = "active"
    /\ phase' = [phase EXCEPT ![r] = "ended"]
    /\ UNCHANGED <<clock, monitor, stopping, hand, bucket, batch, charged,
                   tableVars, taken, lost, boundVars>>

Start ==
    /\ monitor = "off"
    /\ monitor' = "idle"
    /\ UNCHANGED <<clock, phase, stopping, hand, bucket, batch, charged,
                   tableVars, taken, lost, boundVars>>

\* tick() up to the return of _collect.
Collect ==
    /\ monitor = "idle" /\ ~stopping
    /\ taken < MaxSamples
    /\ \E power \in Samples :
          hand' = [time |-> clock, power |-> power]
    /\ taken' = taken + 1
    /\ monitor' = "fold"
    /\ UNCHANGED <<clock, phase, stopping, bucket, batch, charged, tableVars,
                   lost, boundVars>>

\* The rest of a tick that stays in its bucket, or starts the first one.
Fold ==
    /\ monitor = "fold"
    /\ bucket # None => bucket.start = FloorTime(hand.time)
    /\ bucket' = AddSample(IF bucket = None THEN NewBucket(FloorTime(hand.time)) ELSE bucket,
                           hand)
    /\ hand' = None
    /\ monitor' = "idle"
    /\ UNCHANGED <<clock, phase, stopping, batch, charged, tableVars, taken,
                   lost, boundVars>>

\* The sample belongs to another bucket: _flush_current_bucket takes the
\* current one away before it opens the session.
BeginFlush ==
    /\ monitor = "fold"
    /\ bucket # None /\ bucket.start # FloorTime(hand.time)
    /\ batch' = bucket
    /\ bucket' = None
    /\ monitor' = "attribute"
    /\ UNCHANGED <<clock, phase, stopping, hand, charged, tableVars, taken,
                   lost, boundVars>>

\* _single_active_run_id: nobody is charged for what several runs share.
ActiveRuns == {r \in Runs : phase[r] = "active"}

SingleActiveRun ==
    IF Cardinality(ActiveRuns) = 1 THEN CHOOSE r \in Runs : r \in ActiveRuns ELSE None

Attribute ==
    /\ monitor = "attribute"
    /\ charged' = SingleActiveRun
    /\ monitor' = "commit"
    /\ UNCHANGED <<clock, phase, stopping, hand, bucket, batch, tableVars,
                   taken, lost, boundVars>>

\* A mutant of NextBucket: the sample that closed the bucket is forgotten.
NextBucketWithoutSample ==
    /\ bucket' = NewBucket(FloorTime(hand.time))
    /\ hand' = None /\ batch' = None /\ charged' = None
    /\ monitor' = "idle"

\* tick() goes on with a new bucket for the sample in hand.
NextBucket ==
    /\ bucket' = AddSample(NewBucket(FloorTime(hand.time)), hand)
    /\ hand' = None /\ batch' = None /\ charged' = None
    /\ monitor' = "idle"

\* A mutant of Conflict: the table has no unique key.
NoConflict == FALSE

\* The unique key of hardware_sample_buckets.
Conflict == \E r \in rows : r.start = batch.start

\* The rows and the usage of the run are written in one transaction.
Commit ==
    /\ monitor = "commit" /\ ~Conflict
    /\ rows' = rows \cup BatchRows(batch, charged)
    /\ usage' = IF charged = None THEN usage
                ELSE [usage EXCEPT ![charged] =
                         AddToUsage(@, BatchRows(batch, charged))]
    /\ NextBucket
    /\ UNCHANGED <<clock, phase, stopping, taken, lost, boundVars>>

\* An SQLAlchemyError: the batch is dropped, the tick goes on.
DropBatch ==
    /\ NextBucket
    /\ lost' = lost + batch.n
    /\ UNCHANGED <<clock, phase, stopping, tableVars, taken, back, stops>>

Refused == monitor = "commit" /\ Conflict /\ DropBatch /\ UNCHANGED faults

DatabaseFails ==
    /\ monitor \in {"attribute", "commit"}
    /\ faults < MaxFaults
    /\ faults' = faults + 1
    /\ DropBatch

\* Another error (the database refuses the connection) ends the tick, so that
\* the sample in hand is dropped as well.
TickFails ==
    /\ monitor = "attribute"
    /\ faults < MaxFaults
    /\ faults' = faults + 1
    /\ lost' = lost + batch.n + 1
    /\ hand' = None /\ batch' = None
    /\ monitor' = "idle"
    /\ UNCHANGED <<clock, phase, stopping, bucket, charged, tableVars, taken,
                   back, stops>>

RequestStop ==
    /\ monitor # "off" /\ ~stopping
    /\ stops < MaxStops
    /\ stops' = stops + 1
    /\ stopping' = TRUE
    /\ UNCHANGED <<clock, phase, monitor, hand, bucket, batch, charged,
                   tableVars, taken, lost, back, faults>>

InFlight == (IF hand = None THEN 0 ELSE 1)
            + (IF bucket = None THEN 0 ELSE bucket.n)
            + (IF batch = None THEN 0 ELSE batch.n)

\* The process, or after a graceful stop the loop, is gone: what was not
\* written is dropped.
MonitorEnds ==
    /\ monitor' = "off" /\ stopping' = FALSE
    /\ hand' = None /\ bucket' = None /\ batch' = None /\ charged' = None
    /\ lost' = lost + InFlight
    /\ UNCHANGED <<clock, phase, tableVars, taken, back, faults>>

Stop ==
    /\ monitor = "idle" /\ stopping
    /\ MonitorEnds
    /\ UNCHANGED stops

Crash ==
    /\ monitor # "off"
    /\ stops < MaxStops
    /\ stops' = stops + 1
    /\ MonitorEnds

Next ==
    \/ TimePasses \/ ClockSetBack \/ \E r \in Runs : RunBegins(r) \/ RunEnds(r)
    \/ Start \/ Collect \/ Fold \/ BeginFlush \/ Attribute \/ Commit \/ Refused
    \/ DatabaseFails \/ TickFails
    \/ RequestStop \/ Stop \/ Crash

Spec == Init /\ [][Next]_vars

-----------------------------------------------------------------------------
(* Properties                                                              *)

TypeOK ==
    /\ clock \in 0..MaxTime
    /\ phase \in [Runs -> {"waiting", "active", "ended"}]
    /\ monitor \in {"off", "idle", "fold", "attribute", "commit"}
    /\ stopping \in BOOLEAN
    /\ (hand # None) = (monitor \in {"fold", "attribute", "commit"})
    /\ (batch # None) = (monitor \in {"attribute", "commit"})
    /\ bucket # None => bucket.start % BucketLen = 0 /\ bucket.n > 0
    /\ charged \in Runs \cup {None}
    /\ \A r \in rows : r.device \in Gpus \cup {"host"} /\ r.run \in Runs \cup {None}

HostRows == {r \in rows : r.device = "host"}
Charged(id) == {r \in rows : r.run = id}
GpuRows(id) == {r \in Charged(id) : r.device # "host"}
TotalOf(field, S) == FoldSet(LAMBDA r, total : total + Known(r[field]), 0, S)

\* No sample is counted twice or dropped at a change of bucket: each one is in
\* the tick, in the bucket, in the batch, in one row of the host, or was
\* dropped; and none is dropped unless the database failed, the monitor
\* stopped or the clock was set back.
SamplesAccountedFor ==
    /\ taken = InFlight + TotalOf("n", HostRows) + lost
    /\ lost > 0 => faults + stops + back > 0

\* The usage of a run is the sum of the rows charged to it: number of rows,
\* samples, energy, first and last bucket, although rows and usage are written
\* incrementally, across errors and restarts.
UsageMatchesRows ==
    \A id \in Runs :
        IF Charged(id) = {} THEN usage[id] = None
        ELSE /\ usage[id] # None
             /\ usage[id].buckets = Cardinality(Charged(id))
             /\ usage[id].host = TotalOf("n", Charged(id) \cap HostRows)
             /\ usage[id].gpu = TotalOf("n", GpuRows(id))
             /\ usage[id].energy = TotalOf("energy", GpuRows(id))
             /\ usage[id].first = Min({r.start : r \in Charged(id)})
             /\ usage[id].last = Max({r.start : r \in Charged(id)})

\* The average power of a run, merged bucket by bucket, is the average of all
\* its readings, provided that no sample lacked a reading (a sample without
\* one still counts in the weights).
AverageIsExact ==
    \A id \in Runs :
        (usage[id] # None /\ \A r \in GpuRows(id) : r.count = r.n)
            => IF GpuRows(id) = {} THEN usage[id].average = None
               ELSE usage[id].average.num * TotalOf("n", GpuRows(id))
                    = usage[id].average.den * TotalOf("sum", GpuRows(id))

\* A bucket is written whole or not at all, and once: its rows have one host
\* row among them, one row per device and one run.
BucketsAreWhole ==
    \A r \in rows :
        /\ \E h \in HostRows : h.start = r.start /\ h.run = r.run /\ r.n <= h.n
        /\ \A q \in rows : q.start = r.start /\ q.device = r.device => q = r

\* The energy of a bucket does not exceed what some reading would use in its
\* length, even if a clock that was set back put more samples in it.
EnergyIsBounded ==
    \A r \in rows :
        r.energy # None => \E p \in Powers : r.energy <= Scale * p * BucketLen

=============================================================================
