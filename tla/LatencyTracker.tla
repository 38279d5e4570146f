-------------------------- MODULE LatencyTracker --------------------------
(***************************************************************************)
(* The lock-free latency histogram of libs/utils/include/latency_tracker.h *)
(* used as tickHotLatency: the UDP thread calls record() for every tick,   *)
(* the main thread report()s and reset()s it for the dashboard, and a      *)
(* client's thread of the metrics server walks through it for a percentile *)
(* meanwhile.  Every atomic access is a step of its own.                   *)
(***************************************************************************)
EXTENDS Integers, Sequences, FiniteSetsExt

CONSTANTS
    BUCKETS,        \* 64
    Samples,        \* latencies passed to record(), negative ones included
    MaxRecords,     \* bound: record() calls in one behaviour
    MaxResets,      \* bound: reset() calls after the constructor's
    MaxWalks,       \* bound: percentile() calls of the client's thread
    Percentiles,    \* percentages asked for, in hundredths
    Infinity        \* INT64_MAX, above every sample

Hundredths == {h \in Nat : h < 10000}   \* percentages below 100

ASSUME BucketsAssumption == BUCKETS \in Nat \ {0}
ASSUME BoundsAssumption == MaxRecords \in Nat /\ MaxResets \in Nat /\ MaxWalks \in Nat
ASSUME PercentilesAssumption == Percentiles \subseteq Hundredths
ASSUME SamplesAssumption == Samples \subseteq Int
ASSUME InfinityAssumption ==
    Infinity \in Nat /\ 1 < Infinity /\ \A s \in Samples : s < Infinity

VARIABLES
    buckets, count, sum_ns, max_ns, min_ns,     \* the atomics
    r_pc, r_ns, r_cur,      \* record(): next step, ns and cur
    z_pc, z_b,              \* reset(): next store, index of the next bucket
    q_pc, q_target, q_b, q_cum, \* percentile(): next step, target, b and cum
    q_result,               \* what the last percentile() returned
    records, resets, walks, \* calls so far (bounded)
    fresh,          \* history: samples recorded since the last reset() began, by
                    \* calls that began after it ended
    r_fresh,        \* history: the running record() began after that reset() ended
    overlap,        \* history: some record() overlapped the last reset()
    ever,           \* history: all samples passed to record()
    q_cut           \* history: a reset() overlapped the running percentile()

hist == << buckets, count, sum_ns, max_ns, min_ns >>
recorder == << r_pc, r_ns, r_cur >>
resetter == << z_pc, z_b >>
reader == << q_pc, q_target, q_b, q_cum, q_result, walks, q_cut >>
history == << records, resets, fresh, r_fresh, overlap, ever >>
vars == << hist, recorder, resetter, reader, history >>

Index == 0 .. BUCKETS - 1

(* bucket_of(ns), for ns > 0: floor(log2(ns)), capped.                      *)
bucket_of(ns) == Max({b \in Index : 2^b <= ns})

Init ==
    /\ buckets = [b \in Index |-> 0]
    /\ count = 0 /\ sum_ns = 0 /\ max_ns = 0 /\ min_ns = Infinity
    /\ r_pc = "idle" /\ r_ns = 0 /\ r_cur = 0
    /\ z_pc = "idle" /\ z_b = 0
    /\ q_pc = "idle" /\ q_target = 0 /\ q_b = 0 /\ q_cum = 0 /\ q_result = 0
    /\ records = 0 /\ resets = 0 /\ walks = 0
    /\ ever = {} /\ q_cut = FALSE
    /\ fresh = {} /\ r_fresh = FALSE /\ overlap = FALSE

----------------------------------------------------------------------------
(* record(ns): a negative sample is ignored, a zero counts as 1.  The first *)
(* step is the increment of the bucket.                                     *)
RecordIgnored(ns) ==
    /\ r_pc = "idle" /\ records < MaxRecords
    /\ ns < 0
    /\ records' = records + 1
    /\ UNCHANGED << hist, recorder, resetter, reader, resets, fresh, r_fresh, overlap, ever >>

RecordBucket(ns) ==
    LET n == IF ns = 0 THEN 1 ELSE ns
    IN  /\ r_pc = "idle" /\ records < MaxRecords
        /\ ns >= 0
        /\ records' = records + 1
        /\ r_ns' = n
        /\ r_fresh' = (z_pc = "idle")
        /\ overlap' = (overlap \/ z_pc # "idle")
        /\ buckets' = [buckets EXCEPT ![bucket_of(n)] = @ + 1]
        /\ ever' = ever \cup {n}
        /\ r_pc' = "count"
        /\ UNCHANGED << count, sum_ns, max_ns, min_ns, r_cur, resetter, reader, resets, fresh >>

RecordCount ==
    /\ r_pc = "count"
    /\ count' = count + 1
    /\ r_pc' = "sum"
    /\ UNCHANGED << buckets, sum_ns, max_ns, min_ns, r_ns, r_cur, resetter, reader, history >>

RecordSum ==
    /\ r_pc = "sum"
    /\ sum_ns' = sum_ns + r_ns
    /\ r_pc' = "loadMax"
    /\ UNCHANGED << buckets, count, max_ns, min_ns, r_ns, r_cur, resetter, reader, history >>

RecordLoadMax ==
    /\ r_pc = "loadMax"
    /\ r_cur' = max_ns
    /\ r_pc' = "casMax"
    /\ UNCHANGED << hist, r_ns, resetter, reader, history >>

(* Mutant of RecordCasMax: the maximum is overwritten without a comparison. *)
RecordOverwritesMax ==
    /\ r_pc = "casMax"
    /\ max_ns' = r_ns
    /\ r_pc' = "loadMin"
    /\ UNCHANGED << buckets, count, sum_ns, min_ns, r_ns, r_cur, resetter, reader, history >>

(* One round of the compare-exchange loop; a failed exchange reloads cur.   *)
RecordCasMax ==
    /\ r_pc = "casMax"
    /\ IF r_ns > r_cur
       THEN IF max_ns = r_cur THEN /\ max_ns' = r_ns
                                   /\ r_pc' = "loadMin"
                                   /\ UNCHANGED r_cur
                              ELSE /\ r_cur' = max_ns
                                   /\ UNCHANGED << max_ns, r_pc >>
       ELSE r_pc' = "loadMin" /\ UNCHANGED << max_ns, r_cur >>
    /\ UNCHANGED << buckets, count, sum_ns, min_ns, r_ns, resetter, reader, history >>

RecordLoadMin ==
    /\ r_pc = "loadMin"
    /\ r_cur' = min_ns
    /\ r_pc' = "casMin"
    /\ UNCHANGED << hist, r_ns, resetter, reader, history >>

(* The loop for the minimum; record() returns when it is left.              *)
RecordCasMin ==
    LET done == /\ r_pc' = "idle"
                /\ fresh' = IF r_fresh THEN fresh \cup {r_ns} ELSE fresh
                /\ r_fresh' = FALSE
    IN  /\ r_pc = "casMin"
        /\ IF r_ns < r_cur
           THEN IF min_ns = r_cur
                THEN min_ns' = r_ns /\ done /\ UNCHANGED r_cur
                ELSE r_cur' = min_ns /\ UNCHANGED << min_ns, r_pc, fresh, r_fresh >>
           ELSE done /\ UNCHANGED << min_ns, r_cur >>
        /\ UNCHANGED << buckets, count, sum_ns, max_ns, r_ns, resetter, reader, records,
                        resets, overlap, ever >>

Record == \/ \E ns \in Samples : RecordIgnored(ns) \/ RecordBucket(ns)
          \/ RecordCount \/ RecordSum \/ RecordLoadMax \/ RecordCasMax
          \/ RecordLoadMin \/ RecordCasMin

----------------------------------------------------------------------------
(* reset(): the stores in program order, the buckets from 0 upwards.        *)
ResetBegin ==
    /\ z_pc = "idle" /\ resets < MaxResets
    /\ resets' = resets + 1
    /\ z_pc' = "buckets" /\ z_b' = 0
    /\ fresh' = {} /\ r_fresh' = FALSE
    /\ overlap' = (r_pc # "idle")
    /\ q_cut' = TRUE
    /\ UNCHANGED << hist, recorder, records, ever, q_pc, q_target, q_b, q_cum, q_result, walks >>

ResetBucket ==
    /\ z_pc = "buckets"
    /\ buckets' = [buckets EXCEPT ![z_b] = 0]
    /\ IF z_b + 1 \in Index THEN z_b' = z_b + 1 /\ UNCHANGED z_pc
                            ELSE z_pc' = "count" /\ UNCHANGED z_b
    /\ UNCHANGED << count, sum_ns, max_ns, min_ns, recorder, reader, history >>

ResetCount ==
    /\ z_pc = "count"
    /\ count' = 0 /\ z_pc' = "sum"
    /\ UNCHANGED << buckets, sum_ns, max_ns, min_ns, recorder, z_b, reader, history >>

(* Mutant of ResetSum: sum_ns_ is not reset.                                *)
ResetSumSkipped ==
    /\ z_pc = "sum"
    /\ z_pc' = "max"
    /\ UNCHANGED << hist, recorder, z_b, reader, history >>

ResetSum ==
    /\ z_pc = "sum"
    /\ sum_ns' = 0 /\ z_pc' = "max"
    /\ UNCHANGED << buckets, count, max_ns, min_ns, recorder, z_b, reader, history >>

ResetMax ==
    /\ z_pc = "max"
    /\ max_ns' = 0 /\ z_pc' = "min"
    /\ UNCHANGED << buckets, count, sum_ns, min_ns, recorder, z_b, reader, history >>

ResetMin ==
    /\ z_pc = "min"
    /\ min_ns' = Infinity /\ z_pc' = "idle"
    /\ UNCHANGED << buckets, count, sum_ns, max_ns, recorder, z_b, reader, history >>

Reset == ResetBegin \/ ResetBucket \/ ResetCount \/ ResetSum \/ ResetMax \/ ResetMin

----------------------------------------------------------------------------
(* The rank percentile(pct) looks for among n samples, rounded down.        *)
target(n, pct) == (n * pct) \div 10000

(* percentile(pct) of another thread: the count, then bucket after bucket.  *)
PercentileStart(pct) ==
    /\ q_pc = "idle" /\ walks < MaxWalks
    /\ walks' = walks + 1
    /\ q_cut' = (z_pc # "idle")
    /\ q_target' = target(count, pct)
    /\ q_b' = 0 /\ q_cum' = 0
    /\ IF count = 0 THEN q_result' = 0 /\ UNCHANGED q_pc
                    ELSE q_pc' = "walk" /\ UNCHANGED q_result
    /\ UNCHANGED << hist, recorder, resetter, history >>

(* Mutant of PercentileBucket: the bucket must exceed the target.           *)
PercentileBucketExceeds ==
    LET cum == q_cum + buckets[q_b]
        found == cum > q_target
    IN  /\ q_pc = "walk"
        /\ q_cum' = cum
        /\ q_result' = IF found THEN 2^q_b ELSE q_result
        /\ q_b' = IF found \/ q_b + 1 \notin Index THEN q_b ELSE q_b + 1
        /\ q_pc' = IF found THEN "idle" ELSE IF q_b + 1 \in Index THEN "walk" ELSE "max"
        /\ UNCHANGED << hist, recorder, resetter, walks, q_cut, q_target, history >>

(* Mutant of PercentileBucket: the upper end of the bucket is returned.     *)
PercentileBucketUpper ==
    LET cum == q_cum + buckets[q_b]
        found == cum >= q_target
    IN  /\ q_pc = "walk"
        /\ q_cum' = cum
        /\ q_result' = IF found THEN 2^(q_b + 1) ELSE q_result
        /\ q_b' = IF found \/ q_b + 1 \notin Index THEN q_b ELSE q_b + 1
        /\ q_pc' = IF found THEN "idle" ELSE IF q_b + 1 \in Index THEN "walk" ELSE "max"
        /\ UNCHANGED << hist, recorder, resetter, walks, q_cut, q_target, history >>

PercentileBucket ==
    LET cum == q_cum + buckets[q_b]
        found == cum >= q_target
    IN  /\ q_pc = "walk"
        /\ q_cum' = cum
        /\ q_result' = IF found THEN 2^q_b ELSE q_result
        /\ q_b' = IF found \/ q_b + 1 \notin Index THEN q_b ELSE q_b + 1
        /\ q_pc' = IF found THEN "idle" ELSE IF q_b + 1 \in Index THEN "walk" ELSE "max"
        /\ UNCHANGED << hist, recorder, resetter, walks, q_cut, q_target, history >>

(* No bucket reached the target.                                            *)
PercentileMax ==
    /\ q_pc = "max"
    /\ q_result' = max_ns
    /\ q_pc' = "idle"
    /\ UNCHANGED << hist, recorder, resetter, q_target, q_b, q_cum, walks, q_cut, history >>

Walk == PercentileBucket \/ PercentileMax \/ \E pct \in Percentiles : PercentileStart(pct)

Next == Record \/ Reset \/ Walk

Spec == Init /\ [][Next]_vars

----------------------------------------------------------------------------
(* The accessors as report() calls them on the main thread, read while      *)
(* neither reset() nor record() is in the middle.                           *)
Cumulative(b) == SumFunctionOnSet(buckets, 0 .. b)
Reaching(pct) == {b \in Index : Cumulative(b) >= target(count, pct)}
percentile(pct) ==
    IF count = 0 THEN 0
    ELSE IF Reaching(pct) = {} THEN max_ns
    ELSE 2^Min(Reaching(pct))

min == IF min_ns = Infinity THEN 0 ELSE min_ns
mean == IF count = 0 THEN 0 ELSE sum_ns \div count

(* The figures of a report, from the smallest to the greatest but for mean. *)
report == << percentile(5000), percentile(7500), percentile(9500), percentile(9900),
             percentile(9990), percentile(9999), max_ns >>

Total == Cumulative(BUCKETS - 1)
Quiet == r_pc = "idle" /\ z_pc = "idle"

(* percentile() finds its bucket unless a reset() overlaps it: count_ and   *)
(* the buckets are read at different moments, and a record() that an        *)
(* earlier reset() cut in two has left count_ one ahead of the buckets, but *)
(* the target, rounded down, is still reached.                              *)
WalkFindsItsBucket == q_pc = "max" => q_cut

(* A percentile is 0, the lower end of the first bucket, or from a sample   *)
(* that was recorded: the lower end of its bucket or the sample itself,     *)
(* however record(), reset() and the walk interleave.                       *)
PercentileComesFromASample ==
    q_result \in {0, 2^0} \/ \E s \in ever : q_result \in {s, 2^bucket_of(s)}

(* The extremes cover every sample that was recorded since the last         *)
(* reset() ended, even if another record() was cut in two by that reset().  *)
ExtremesCoverFresh ==
    z_pc = "idle" => \A s \in fresh : min_ns <= s /\ s <= max_ns

(* As long as no record() overlapped the last reset(), the histogram at     *)
(* rest is exact: count, buckets, sum and extremes describe the same        *)
(* samples, and the figures of a report are in order, so that its jitter is *)
(* not negative.                                                            *)
ExactWithoutOverlap ==
    Quiet /\ ~overlap =>
        /\ count = Total
        /\ count = 0 <=> fresh = {}
        /\ fresh # {} => /\ max_ns = Max(fresh) /\ min = Min(fresh)
                         /\ min <= mean /\ mean <= max_ns
                         /\ \A i \in 2 .. Len(report) : report[i - 1] <= report[i]
============================================================================
