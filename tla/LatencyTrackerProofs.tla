----------------------- MODULE LatencyTrackerProofs ------------------------
(* Proofs about LatencyTracker for every number of buckets, set of samples  *)
(* and number of calls.                                                     *)
EXTENDS LatencyTracker, Sums

USE BucketsAssumption

Types ==
    /\ buckets \in [Index -> Nat] /\ count \in Nat /\ max_ns \in Nat /\ min_ns \in Nat
    /\ r_ns \in Nat /\ r_cur \in Nat
    /\ ever \subseteq Nat /\ fresh \subseteq Nat
    /\ z_b \in Index /\ q_b \in Index /\ q_cum \in Nat /\ q_target \in Nat

(* Only a record() that no reset() has touched counts as fresh.  The cur it *)
(* compares with is then the atomic's value, because no other thread stores *)
(* to it, and past the first loop the maximum covers its sample.            *)
FreshInv ==
    /\ z_pc # "idle" => fresh = {} /\ ~r_fresh
    /\ r_fresh /\ r_pc = "casMax" => r_cur = max_ns
    /\ r_fresh /\ r_pc = "casMin" => r_cur = min_ns
    /\ r_fresh /\ r_pc \in {"loadMin", "casMin"} => r_ns <= max_ns
    /\ ExtremesCoverFresh

(* What is in the histogram came from a sample, and the walk has passed the *)
(* first bucket only with the target still ahead.                           *)
SampleInv ==
    /\ \A b \in Index : buckets[b] # 0 => \E s \in ever : bucket_of(s) = b
    /\ max_ns = 0 \/ max_ns \in ever
    /\ r_pc # "idle" => r_ns \in ever
    /\ q_pc = "walk" => q_b = 0 \/ q_cum < q_target
    /\ PercentileComesFromASample

IInv == Types /\ FreshInv /\ SampleInv

LEMMA InitIInv == Init => IInv
<1> SUFFICES ASSUME Init PROVE IInv
  OBVIOUS
<1>1. Types
  BY InfinityAssumption DEF Init, Types, Index
<1>2. FreshInv
  BY DEF Init, FreshInv, ExtremesCoverFresh
<1>3. SampleInv
  BY DEF Init, SampleInv, PercentileComesFromASample, Index
<1> QED
  BY <1>1, <1>2, <1>3 DEF IInv

(* fetch_add() on one entry of an array of counters.                        *)
Incremented(f, i) == [f EXCEPT ![i] = @ + 1]

LEMMA Increment ==
    ASSUME NEW S, NEW i, NEW f \in [S -> Nat], NEW g, g = Incremented(f, i)
    PROVE  /\ g \in [S -> Nat]
           /\ \A s \in S : s # i => g[s] = f[s]
<1> USE DEF Incremented
<1>1. CASE i \in S
  BY <1>1
<1>2. CASE i \notin S
  <2>1. \A s \in S : g[s] = f[s]
    BY <1>2
  <2>2. g = [s \in S |-> g[s]]
    BY Zenon, <1>2
  <2> QED
    BY Zenon, <2>1, <2>2
<1> QED
  BY <1>1, <1>2

(* A step that leaves the variables of the invariant alone.                 *)
LEMMA FrameIInv ==
    ASSUME IInv, UNCHANGED << hist, recorder, resetter, reader, fresh, r_fresh, ever >>
    PROVE  IInv'
<1> USE DEF hist, recorder, resetter, reader
<1>1. Types'
  BY DEF IInv, Types
<1>2. FreshInv'
  BY DEF IInv, FreshInv, ExtremesCoverFresh
<1>3. SampleInv'
  BY DEF IInv, SampleInv, PercentileComesFromASample
<1> QED
  BY <1>1, <1>2, <1>3 DEF IInv

----------------------------------------------------------------------------
(* record()                                                                 *)

LEMMA RecordBucketIInv ==
    ASSUME IInv, NEW ns \in Samples, RecordBucket(ns)
    PROVE  IInv'
<1> DEFINE n == IF ns = 0 THEN 1 ELSE ns
<1>1. /\ n \in Nat /\ r_ns' = n /\ ever' = ever \cup {n}
      /\ buckets' = Incremented(buckets, bucket_of(n)) /\ buckets \in [Index -> Nat]
  BY SamplesAssumption DEF RecordBucket, IInv, Types, Incremented
<1> HIDE DEF n
<1>2. \A b \in Index : b # bucket_of(n) => buckets'[b] = buckets[b]
  BY <1>1, Increment
<1>3. buckets' \in [Index -> Nat]
  BY <1>1, Increment
<1>4. Types'
  BY <1>1, <1>3 DEF RecordBucket, resetter, reader, IInv, Types
<1>5. FreshInv'
  BY Zenon DEF RecordBucket, resetter, IInv, FreshInv, ExtremesCoverFresh
<1>6. \A b \in Index : buckets'[b] # 0 => \E s \in ever' : bucket_of(s) = b
  BY <1>1, <1>2 DEF IInv, SampleInv
<1>7. PercentileComesFromASample'
  BY <1>1 DEF RecordBucket, reader, IInv, SampleInv, PercentileComesFromASample
<1>8. SampleInv'
  BY <1>1, <1>6, <1>7 DEF RecordBucket, reader, IInv, SampleInv
<1> QED
  BY <1>4, <1>5, <1>8 DEF IInv

LEMMA RecordIInv == IInv /\ Record => IInv'
<1> SUFFICES ASSUME IInv, Record PROVE IInv'
  OBVIOUS
<1>1. CASE \E ns \in Samples : RecordIgnored(ns)
  <2>1. UNCHANGED << hist, recorder, resetter, reader, fresh, r_fresh, ever >>
    BY <1>1 DEF RecordIgnored
  <2> QED
    BY <2>1, FrameIInv
<1>2. CASE RecordCount \/ RecordSum
  <2> USE <1>2 DEF RecordCount, RecordSum, resetter, reader, history
  <2>0. count' \in Nat
    BY DEF IInv, Types
  <2>1. Types'
    BY Zenon, <2>0 DEF IInv, Types
  <2>2. FreshInv'
    BY DEF IInv, FreshInv, ExtremesCoverFresh
  <2>3. SampleInv'
    BY DEF IInv, SampleInv, PercentileComesFromASample
  <2> QED
    BY <2>1, <2>2, <2>3 DEF IInv
<1>3. CASE RecordLoadMax \/ RecordLoadMin
  <2> USE <1>3 DEF RecordLoadMax, RecordLoadMin, hist, resetter, reader, history
  <2>1. Types'
    BY Zenon DEF IInv, Types
  <2>2. FreshInv'
    BY DEF IInv, FreshInv, ExtremesCoverFresh
  <2>3. SampleInv'
    BY DEF IInv, SampleInv, PercentileComesFromASample
  <2> QED
    BY <2>1, <2>2, <2>3 DEF IInv
<1>4. CASE RecordCasMax
  <2> USE <1>4 DEF RecordCasMax, resetter, reader, history
  <2>1. Types'
    BY DEF IInv, Types
  <2>2. max_ns <= max_ns' /\ (r_pc' = "loadMin" /\ r_fresh => r_ns <= max_ns')
    BY DEF IInv, Types, FreshInv
  <2>3. FreshInv'
    BY <2>2 DEF IInv, FreshInv, ExtremesCoverFresh, Types
  <2>4. SampleInv'
    BY DEF IInv, SampleInv, PercentileComesFromASample
  <2> QED
    BY <2>1, <2>3, <2>4 DEF IInv
<1>5. CASE RecordCasMin
  <2> USE <1>5 DEF RecordCasMin, resetter, reader
  <2>1. Types'
    BY Zenon DEF IInv, Types
  <2>2. /\ min_ns' <= min_ns /\ min_ns' \in Nat /\ max_ns' = max_ns /\ z_pc' = z_pc
        /\ r_pc' \in {"idle", "casMin"} /\ (r_pc' = "casMin" => r_cur' = min_ns')
        /\ (r_pc' = "casMin" => r_fresh' = r_fresh)
    BY DEF IInv, Types
  <2>3. ASSUME NEW s \in fresh' PROVE s \in fresh \/ (r_fresh /\ s = r_ns /\ min_ns' <= r_ns)
    <3>1. r_fresh => r_cur = min_ns
      BY DEF IInv, FreshInv
    <3>2. r_fresh => min_ns' <= r_ns \/ fresh' = fresh
      BY <3>1 DEF IInv, Types
    <3>3. s \in fresh \/ (r_fresh /\ s = r_ns)
      BY <2>3
    <3> QED
      BY <3>2, <3>3
  <2>4. ExtremesCoverFresh'
    <3> SUFFICES ASSUME z_pc' = "idle", NEW s \in fresh' PROVE min_ns' <= s /\ s <= max_ns'
      BY DEF ExtremesCoverFresh
    <3>1. CASE s \in fresh
      <4>1. s \in Nat /\ min_ns \in Nat /\ min_ns <= s /\ s <= max_ns
        BY <2>2, <3>1 DEF IInv, FreshInv, ExtremesCoverFresh, Types
      <4> QED
        BY <2>2, <4>1
    <3>2. CASE r_fresh /\ s = r_ns /\ min_ns' <= r_ns
      BY <2>2, <3>2 DEF IInv, FreshInv
    <3> QED
      BY <2>3, <3>1, <3>2
  <2>5. z_pc' # "idle" => fresh' = {} /\ ~r_fresh'
    BY DEF IInv, FreshInv
  <2>6. FreshInv'
    BY <2>2, <2>4, <2>5 DEF IInv, FreshInv
  <2>7. SampleInv'
    BY DEF IInv, SampleInv, PercentileComesFromASample
  <2> QED
    BY <2>1, <2>6, <2>7 DEF IInv
<1> QED
  BY <1>1, <1>2, <1>3, <1>4, <1>5, RecordBucketIInv DEF Record

----------------------------------------------------------------------------
(* reset() and percentile()                                                 *)

LEMMA ResetIInv == IInv /\ Reset => IInv'
<1> SUFFICES ASSUME IInv, Reset PROVE IInv'
  OBVIOUS
<1>1. CASE ResetBegin
  <2> USE <1>1 DEF ResetBegin, hist, recorder
  <2>1. Types'
    BY DEF IInv, Types, Index
  <2>2. FreshInv'
    BY DEF FreshInv, ExtremesCoverFresh
  <2>3. SampleInv'
    BY DEF IInv, SampleInv, PercentileComesFromASample
  <2> QED
    BY <2>1, <2>2, <2>3 DEF IInv
<1>2. CASE ResetBucket
  <2> USE <1>2 DEF ResetBucket, recorder, reader, history
  <2>1. /\ buckets' \in [Index -> Nat]
        /\ \A b \in Index : buckets'[b] = buckets[b] \/ buckets'[b] = 0
    BY DEF IInv, Types
  <2>2. Types'
    BY <2>1 DEF IInv, Types
  <2>3. FreshInv'
    BY DEF IInv, FreshInv, ExtremesCoverFresh
  <2>4. SampleInv'
    BY <2>1 DEF IInv, SampleInv, PercentileComesFromASample
  <2> QED
    BY <2>2, <2>3, <2>4 DEF IInv
<1>3. CASE ResetCount \/ ResetSum \/ ResetMax \/ ResetMin
  <2> USE <1>3 DEF ResetCount, ResetSum, ResetMax, ResetMin, recorder, reader, history
  <2>0. count' \in Nat /\ max_ns' \in Nat /\ min_ns' \in Nat
    BY InfinityAssumption DEF IInv, Types
  <2>1. Types'
    BY Zenon, <2>0 DEF IInv, Types
  <2>2. fresh' = {} /\ ~r_fresh'
    BY DEF IInv, FreshInv
  <2>3. FreshInv'
    BY <2>2 DEF FreshInv, ExtremesCoverFresh
  <2>4. SampleInv'
    BY DEF IInv, SampleInv, PercentileComesFromASample
  <2> QED
    BY <2>1, <2>3, <2>4 DEF IInv
<1> QED
  BY <1>1, <1>2, <1>3 DEF Reset

LEMMA WalkIInv == IInv /\ Walk => IInv'
<1> SUFFICES ASSUME IInv, Walk PROVE IInv'
  OBVIOUS
<1>1. UNCHANGED << hist, recorder, resetter, fresh, r_fresh, ever >>
  BY DEF Walk, PercentileBucket, PercentileMax, PercentileStart, history
<1>2. FreshInv'
  BY <1>1 DEF hist, recorder, resetter, IInv, FreshInv, ExtremesCoverFresh
<1>3. ASSUME NEW pct \in Percentiles, PercentileStart(pct)
      PROVE  Types' /\ SampleInv'
  <2>1. target(count, pct) \in Nat
    <3>1. count * pct \in Nat
      BY PercentilesAssumption DEF IInv, Types, Hundredths
    <3>2. PICK x \in Nat : x = count * pct
      BY <3>1
    <3>3. x \div 10000 \in Nat
      OBVIOUS
    <3> QED
      BY <3>2, <3>3 DEF target
  <2>2. Types'
    BY <1>1, <1>3, <2>1 DEF PercentileStart, hist, recorder, resetter, IInv, Types, Index
  <2>3. SampleInv'
    BY <1>1, <1>3 DEF PercentileStart, hist, recorder, IInv, SampleInv,
                      PercentileComesFromASample
  <2> QED
    BY <2>2, <2>3
<1>4. ASSUME PercentileBucket PROVE Types' /\ SampleInv'
  <2> DEFINE cum == q_cum + buckets[q_b]
  <2>1. /\ cum \in Nat /\ q_cum' = cum /\ q_target' = q_target
        /\ q_pc = "walk" /\ q_cum \in Nat /\ buckets[q_b] \in Nat /\ q_target \in Nat
    BY <1>4 DEF PercentileBucket, IInv, Types
  <2>2. q_b' \in Index
    BY <1>4 DEF PercentileBucket, IInv, Types
  <2>3. Types'
    BY <1>1, <2>1, <2>2 DEF hist, recorder, resetter, IInv, Types
  <2>4. q_pc' = "walk" => q_cum' < q_target'
    BY <1>4, <2>1 DEF PercentileBucket
  <2>5. PercentileComesFromASample'
    <3>1. CASE cum >= q_target
      <4>1. q_result' = 2^q_b
        BY <1>4, <3>1 DEF PercentileBucket
      <4>2. CASE q_b = 0
        BY <4>1, <4>2 DEF PercentileComesFromASample
      <4>3. CASE q_b # 0
        <5>1. buckets[q_b] # 0
          BY <2>1, <3>1, <4>3 DEF IInv, SampleInv
        <5>2. PICK s \in ever : bucket_of(s) = q_b
          BY <5>1 DEF IInv, SampleInv, Types
        <5> QED
          BY <1>1, <4>1, <5>2 DEF PercentileComesFromASample
      <4> QED
        BY <4>2, <4>3
    <3>2. CASE ~(cum >= q_target)
      <4>1. q_result' = q_result
        BY <1>4, <3>2 DEF PercentileBucket
      <4> QED
        BY <1>1, <4>1 DEF IInv, SampleInv, PercentileComesFromASample
    <3> QED
      BY <3>1, <3>2
  <2>6. SampleInv'
    BY <1>1, <2>4, <2>5 DEF hist, recorder, IInv, SampleInv
  <2> QED
    BY <2>3, <2>6
<1>5. ASSUME PercentileMax PROVE Types' /\ SampleInv'
  <2>1. Types'
    BY <1>1, <1>5 DEF PercentileMax, hist, recorder, resetter, IInv, Types
  <2>2. PercentileComesFromASample'
    BY <1>1, <1>5 DEF PercentileMax, IInv, SampleInv, PercentileComesFromASample
  <2>3. SampleInv'
    BY <1>1, <1>5, <2>2 DEF PercentileMax, hist, recorder, IInv, SampleInv
  <2> QED
    BY <2>1, <2>3
<1> QED
  BY <1>2, <1>3, <1>4, <1>5 DEF Walk, IInv

THEOREM Invariance == Spec => []IInv
<1>1. IInv /\ UNCHANGED vars => IInv'
  BY FrameIInv DEF vars, history
<1>2. IInv /\ [Next]_vars => IInv'
  BY <1>1, RecordIInv, ResetIInv, WalkIInv DEF Next
<1> QED
  BY <1>2, InitIInv, PTL DEF Spec

(* The compare-exchange loops of record() lose no sample to a concurrent    *)
(* reset(): the extremes cover what was recorded since it ended.            *)
THEOREM ExtremesCoverFreshCorrect == Spec => []ExtremesCoverFresh
<1>1. IInv => ExtremesCoverFresh
  BY DEF IInv, FreshInv
<1> QED
  BY <1>1, Invariance, PTL

(* percentile() never returns the lower end of a bucket no sample fell      *)
(* into, but for the first, nor a maximum nobody recorded.                  *)
THEOREM PercentileComesFromASampleCorrect == Spec => []PercentileComesFromASample
<1>1. IInv => PercentileComesFromASample
  BY DEF IInv, SampleInv
<1> QED
  BY <1>1, Invariance, PTL

----------------------------------------------------------------------------
(* Buckets and their sums                                                   *)

LEMMA IndexFinite == IsFiniteSet(Index) /\ \A S \in SUBSET Index : IsFiniteSet(S)
<1>1. IsFiniteSet(Index)
  BY FS_Interval DEF Index
<1> QED
  BY <1>1, FS_Subset

(* A positive sample has a bucket, whose lower end does not exceed it.      *)
LEMMA BucketOf ==
    ASSUME NEW n \in Nat, 1 <= n
    PROVE  bucket_of(n) \in Index /\ 2^bucket_of(n) <= n
<1> DEFINE T == {b \in Index : 2^b <= n}
<1>1. T \in SUBSET Nat /\ \A x \in T : x <= BUCKETS - 1
  BY DEF Index
<1>2. 0 \in T
  BY DEF Index
<1>3. PICK top \in Nat : top = BUCKETS - 1
  OBVIOUS
<1> HIDE DEF T
<1>4. Max(T) \in T
  BY <1>1, <1>2, <1>3, MaxIs
<1> QED
  BY <1>4 DEF T, bucket_of

LEMMA BucketGrows ==
    ASSUME NEW f \in [Index -> Nat], NEW b \in Index, NEW g, g = Incremented(f, b)
    PROVE  /\ SumFunctionOnSet(f, Index) \in Nat
           /\ SumFunctionOnSet(g, Index) = SumFunctionOnSet(f, Index) + 1
           /\ \A S \in SUBSET Index : SumFunctionOnSet(f, S) <= SumFunctionOnSet(g, S)
<1>1. g \in [Index -> Nat] /\ \A x \in Index : x # b => f[x] = g[x]
  BY Increment
<1>2. g[b] = f[b] + 1 /\ f[b] \in Nat
  BY DEF Incremented
<1>3. SumFunctionOnSet(f, Index) \in Nat
  <2>1. \A x \in Index : f[x] \in Nat
    OBVIOUS
  <2> QED
    BY <2>1, IndexFinite, SumNat
<1>4. SumFunctionOnSet(g, Index) = SumFunctionOnSet(f, Index) + (g[b] - f[b])
  <2>1. \A x \in Index : f[x] \in Int /\ g[x] \in Int
    BY <1>1
  <2> QED
    BY <1>1, <2>1, IndexFinite, SumChange
<1>5. ASSUME NEW S \in SUBSET Index PROVE SumFunctionOnSet(f, S) <= SumFunctionOnSet(g, S)
  <2>1. \A x \in Index : f[x] \in Int /\ g[x] \in Int /\ f[x] <= g[x]
    BY <1>1, <1>2
  <2>2. \A x \in S : f[x] \in Int /\ g[x] \in Int /\ f[x] <= g[x]
    BY <2>1
  <2> QED
    BY <2>2, IndexFinite, SumMonotone
<1> QED
  BY <1>2, <1>3, <1>4, <1>5

LEMMA TotalIs ==
    ASSUME Types
    PROVE  /\ Total = SumFunctionOnSet(buckets, Index)
           /\ Total \in Nat
           /\ \A S \in SUBSET Index : SumFunctionOnSet(buckets, S) \in Nat
<1>1. Total = SumFunctionOnSet(buckets, Index)
  BY DEF Total, Cumulative, Index
<1>2. ASSUME NEW S \in SUBSET Index PROVE SumFunctionOnSet(buckets, S) \in Nat
  <2>1. \A x \in S : buckets[x] \in Nat
    BY DEF Types
  <2> QED
    BY <2>1, IndexFinite, SumNat
<1>3. Index \in SUBSET Index
  OBVIOUS
<1> QED
  BY <1>1, <1>2, <1>3

----------------------------------------------------------------------------
(* percentile() against record(): outside the part of reset() that clears   *)
(* the buckets and the count, the count is at most one ahead of them, even  *)
(* with the pending increment of a running record().  A walk that no        *)
(* reset() overlaps therefore has its target in what is left of the walk.   *)
Pending == IF r_pc = "count" THEN 1 ELSE 0
Uncut == q_pc = "walk" /\ ~q_cut
Ahead == SumFunctionOnSet(buckets, q_b .. BUCKETS - 1)

WalkInv ==
    /\ z_pc \notin {"buckets", "count"} => count + Pending <= Total + 1
    /\ Uncut => z_pc = "idle" /\ q_target <= q_cum + Ahead
    /\ WalkFindsItsBucket

LEMMA FrameWalkInv ==
    ASSUME WalkInv, UNCHANGED << buckets, count, r_pc, z_pc, q_pc, q_cut, q_target, q_cum, q_b >>
    PROVE  WalkInv'
  BY DEF WalkInv, Pending, Total, Cumulative, Ahead, Uncut, WalkFindsItsBucket

LEMMA RecordWalkInv ==
    ASSUME Types, WalkInv, Record
    PROVE  WalkInv'
<1>1. ASSUME NEW ns \in Samples, RecordBucket(ns) PROVE WalkInv'
  <2> DEFINE n == IF ns = 0 THEN 1 ELSE ns
  <2>1. /\ n \in Nat /\ 1 <= n
        /\ buckets' = Incremented(buckets, bucket_of(n)) /\ buckets \in [Index -> Nat]
        /\ r_pc = "idle" /\ r_pc' = "count"
        /\ UNCHANGED << count, z_pc, q_pc, q_cut, q_target, q_cum, q_b >>
    BY <1>1, SamplesAssumption DEF RecordBucket, Types, Incremented, resetter, reader
  <2> HIDE DEF n
  <2>2. bucket_of(n) \in Index
    BY <2>1, BucketOf
  <2>3. PICK b \in Index : b = bucket_of(n)
    BY <2>2
  <2>4. /\ SumFunctionOnSet(buckets', Index) = SumFunctionOnSet(buckets, Index) + 1
        /\ \A S \in SUBSET Index : SumFunctionOnSet(buckets, S) <= SumFunctionOnSet(buckets', S)
    BY <2>1, <2>3, BucketGrows
  <2>5. Total' = Total + 1
    BY <2>4 DEF Total, Cumulative, Index
  <2>6. q_b .. BUCKETS - 1 \in SUBSET Index
    BY DEF Types, Index
  <2>7. \A S \in SUBSET Index : SumFunctionOnSet(buckets, S) \in Nat
    BY TotalIs
  <2>8. \A S \in SUBSET Index : SumFunctionOnSet(buckets', S) \in Int
    <3>1. \A S \in SUBSET Index : \A x \in S : buckets'[x] \in Int
      BY <2>1, <2>3, Increment
    <3> QED
      BY <3>1, IndexFinite, SumType
  <2>9. Ahead <= Ahead' /\ Ahead \in Int /\ Ahead' \in Int
    <3>1. PICK A : A = q_b .. BUCKETS - 1
      OBVIOUS
    <3>2. Ahead = SumFunctionOnSet(buckets, A) /\ Ahead' = SumFunctionOnSet(buckets', A)
      BY <2>1, <3>1 DEF Ahead
    <3>3. A \in SUBSET Index
      BY <2>6, <3>1
    <3> QED
      BY <2>4, <2>7, <2>8, <3>2, <3>3
  <2>10. Total \in Nat /\ count \in Nat /\ q_cum \in Nat /\ q_target \in Nat
    BY TotalIs DEF Types
  <2>11. (z_pc \notin {"buckets", "count"} => count + Pending <= Total + 1)'
    BY <2>1, <2>5, <2>10 DEF WalkInv, Pending
  <2>12. (Uncut => z_pc = "idle" /\ q_target <= q_cum + Ahead)'
    <3>1. (Uncut' => Uncut)
      BY <2>1 DEF Uncut
    <3>2. Uncut => z_pc = "idle" /\ q_target <= q_cum + Ahead
      BY DEF WalkInv
    <3>3. q_target <= q_cum + Ahead => q_target' <= q_cum' + Ahead'
      BY <2>1, <2>9, <2>10 DEF Ahead
    <3> QED
      BY <2>1, <3>1, <3>2, <3>3
  <2>13. WalkFindsItsBucket'
    BY <2>1 DEF WalkInv, WalkFindsItsBucket
  <2> QED
    BY <2>11, <2>12, <2>13 DEF WalkInv
<1>2. ASSUME RecordCount PROVE WalkInv'
  <2>1. /\ UNCHANGED << buckets, z_pc, q_pc, q_cut, q_target, q_cum, q_b >>
        /\ r_pc = "count" /\ r_pc' = "sum" /\ count' = count + 1 /\ count \in Nat
    BY <1>2 DEF RecordCount, resetter, reader, Types
  <2>2. Total' = Total /\ Ahead' = Ahead /\ Total \in Nat
    BY <2>1, TotalIs DEF Total, Cumulative, Ahead
  <2>3. (Uncut' => Uncut) /\ WalkFindsItsBucket'
    BY <2>1 DEF Uncut, WalkInv, WalkFindsItsBucket
  <2> QED
    BY <2>1, <2>2, <2>3 DEF WalkInv, Pending
<1>3. ASSUME \/ \E ns \in Samples : RecordIgnored(ns)
             \/ RecordSum \/ RecordLoadMax \/ RecordCasMax \/ RecordLoadMin \/ RecordCasMin
      PROVE  WalkInv'
  <2>1. /\ UNCHANGED << buckets, count, z_pc, q_pc, q_cut, q_target, q_cum, q_b >>
        /\ r_pc' = r_pc \/ (r_pc # "count" /\ r_pc' # "count")
    BY <1>3 DEF RecordIgnored, RecordSum, RecordLoadMax, RecordCasMax, RecordLoadMin,
                RecordCasMin, hist, recorder, resetter, reader
  <2>2. Total' = Total /\ Ahead' = Ahead /\ Pending' = Pending
    BY <2>1 DEF Total, Cumulative, Ahead, Pending
  <2>3. (Uncut' => Uncut) /\ WalkFindsItsBucket'
    BY <2>1 DEF Uncut, WalkInv, WalkFindsItsBucket
  <2> QED
    BY <2>1, <2>2, <2>3 DEF WalkInv
<1> QED
  BY <1>1, <1>2, <1>3 DEF Record

LEMMA ResetWalkInv ==
    ASSUME Types, Types', WalkInv, Reset
    PROVE  WalkInv'
<1>1. ASSUME ResetBegin PROVE WalkInv'
  <2>1. z_pc' = "buckets" /\ ~Uncut' /\ WalkFindsItsBucket'
    BY <1>1 DEF ResetBegin, Uncut, WalkFindsItsBucket
  <2> QED
    BY <2>1 DEF WalkInv
<1>2. ASSUME ResetBucket PROVE WalkInv'
  <2>1. z_pc = "buckets" /\ z_pc' \in {"buckets", "count"} /\ (Uncut' => Uncut)
    BY <1>2 DEF ResetBucket, reader, Uncut
  <2>2. WalkFindsItsBucket'
    BY <1>2 DEF ResetBucket, reader, WalkInv, WalkFindsItsBucket
  <2> QED
    BY <2>1, <2>2 DEF WalkInv
<1>3. ASSUME ResetCount PROVE WalkInv'
  <2>1. count' = 0 /\ Pending' <= 1 /\ Pending' \in Nat /\ Total' \in Nat
    <3>1. (Total \in Nat)'
      BY TotalIs, PTL
    <3> QED
      BY <1>3, <3>1 DEF ResetCount, Pending
  <2>2. z_pc = "count" /\ (Uncut' => Uncut)
    BY <1>3 DEF ResetCount, reader, Uncut
  <2>3. WalkFindsItsBucket'
    BY <1>3 DEF ResetCount, reader, WalkInv, WalkFindsItsBucket
  <2>4. ~Uncut'
    BY <2>2 DEF WalkInv
  <2>5. count' + Pending' <= Total' + 1
    BY <2>1 DEF Total
  <2> QED
    BY <2>3, <2>4, <2>5 DEF WalkInv
<1>4. ASSUME ResetSum \/ ResetMax \/ ResetMin PROVE WalkInv'
  <2>1. /\ UNCHANGED << buckets, count, r_pc, q_pc, q_cut, q_target, q_cum, q_b >>
        /\ z_pc \in {"sum", "max", "min"} /\ z_pc' \in {"max", "min", "idle"}
    BY <1>4 DEF ResetSum, ResetMax, ResetMin, recorder, reader
  <2>2. Total' = Total /\ Ahead' = Ahead /\ Pending' = Pending
    BY <2>1 DEF Total, Cumulative, Ahead, Pending
  <2>3. (Uncut' => Uncut) /\ WalkFindsItsBucket'
    BY <2>1 DEF Uncut, WalkInv, WalkFindsItsBucket
  <2> QED
    BY <2>1, <2>2, <2>3 DEF WalkInv
<1> QED
  BY <1>1, <1>2, <1>3, <1>4 DEF Reset

(* A percentage below 100 rounds the target down past the count.            *)
LEMMA TargetBelowCount ==
    ASSUME NEW c \in Nat, NEW pct \in Hundredths, c # 0
    PROVE  target(c, pct) \in Nat /\ target(c, pct) <= c - 1
<1>1. c * pct \in Nat /\ c * pct <= 9999 * c
  BY DEF Hundredths
<1>2. PICK x \in Nat : x = c * pct
  BY <1>1
<1>3. x <= 9999 * c
  BY <1>1, <1>2
<1>4. x \div 10000 \in Nat /\ x \div 10000 <= c - 1
  BY <1>3
<1> QED
  BY <1>2, <1>4 DEF target

LEMMA WalkWalkInv ==
    ASSUME Types, WalkInv, Walk
    PROVE  WalkInv'
<1>1. UNCHANGED << buckets, count, r_pc, z_pc >>
  BY DEF Walk, PercentileBucket, PercentileMax, PercentileStart, hist, recorder, resetter
<1>2. (z_pc \notin {"buckets", "count"} => count + Pending <= Total + 1)'
  BY <1>1 DEF WalkInv, Pending, Total, Cumulative
<1>3. ASSUME NEW pct \in Percentiles, PercentileStart(pct)
      PROVE  WalkInv'
  <2>1. WalkFindsItsBucket'
    BY <1>3 DEF PercentileStart, WalkFindsItsBucket
  <2>2. ASSUME Uncut' PROVE z_pc' = "idle" /\ q_target' <= q_cum' + Ahead'
    <3>1. /\ z_pc = "idle" /\ count # 0
          /\ q_target' = target(count, pct) /\ q_b' = 0 /\ q_cum' = 0
      <4>1. q_cut' = (z_pc # "idle") /\ ~q_cut'
        BY <1>3, <2>2 DEF PercentileStart, Uncut
      <4>2. q_pc = "idle" /\ q_pc' = "walk" /\ (count = 0 => q_pc' = q_pc)
        BY <1>3, <2>2 DEF PercentileStart, Uncut
      <4>3. q_target' = target(count, pct) /\ q_b' = 0 /\ q_cum' = 0
        BY <1>3 DEF PercentileStart
      <4> QED
        BY <4>1, <4>2, <4>3, Zenon
    <3>2. count \in Nat /\ pct \in Hundredths /\ Total \in Nat
      BY TotalIs, PercentilesAssumption DEF Types
    <3>3. target(count, pct) \in Nat /\ target(count, pct) <= count - 1
      BY <3>1, <3>2, TargetBelowCount
    <3>4. count + Pending <= Total + 1 /\ Pending \in {0, 1}
      BY <3>1 DEF WalkInv, Pending
    <3>5. Ahead' = Total
      BY <1>1, <3>1 DEF Ahead, Total, Cumulative
    <3>6. target(count, pct) <= Total
      BY <3>2, <3>3, <3>4 DEF Total, Pending
    <3> QED
      BY <1>1, <3>1, <3>2, <3>5, <3>6 DEF Total
  <2> QED
    BY <1>2, <2>1, <2>2 DEF WalkInv
<1>4. ASSUME PercentileBucket
      PROVE  WalkInv'
  <2>1. PICK A : A = q_b .. BUCKETS - 1
    OBVIOUS
  <2>2. PICK B : B = q_b + 1 .. BUCKETS - 1
    OBVIOUS
  <2>3. /\ q_b \in Index /\ buckets[q_b] \in Nat /\ q_cum \in Nat /\ q_target \in Nat
        /\ q_target' = q_target /\ q_cum' = q_cum + buckets[q_b]
    BY <1>4 DEF PercentileBucket, Types
  <2>4. A \in SUBSET Index /\ B \in SUBSET Index /\ q_b \in A /\ A \ {q_b} = B
    BY <2>1, <2>2, <2>3 DEF Index
  <2>5. Ahead = buckets[q_b] + SumFunctionOnSet(buckets, B)
    <3>1. \A x \in A : buckets[x] \in Int
      BY <2>4 DEF Types
    <3>2. SumFunctionOnSet(buckets, A) = buckets[q_b] + SumFunctionOnSet(buckets, A \ {q_b})
      BY <2>4, <3>1, IndexFinite, SumSplit
    <3>3. Ahead = SumFunctionOnSet(buckets, A)
      BY <2>1 DEF Ahead
    <3> QED
      BY <2>4, <3>2, <3>3, Zenon
  <2>6. SumFunctionOnSet(buckets, B) \in Nat
    BY <2>4, TotalIs
  <2>7. Uncut' \/ (q_pc' = "max" /\ ~q_cut') => Uncut
    BY <1>4 DEF PercentileBucket, Uncut
  <2>8. Uncut => z_pc = "idle" /\ q_target <= q_cum + Ahead
    BY DEF WalkInv
  <2>9. ASSUME Uncut, q_pc' = "max" PROVE FALSE
    <3>1. q_b + 1 \notin Index /\ ~(q_cum + buckets[q_b] >= q_target)
      BY <1>4, <2>9 DEF PercentileBucket
    <3>2. B = {}
      BY <2>2, <2>3, <3>1 DEF Index
    <3>3. SumFunctionOnSet(buckets, B) = 0
      BY <3>2, SumEmpty
    <3> QED
      BY <2>3, <2>5, <2>8, <2>9, <3>1, <3>3 DEF Ahead
  <2>10. WalkFindsItsBucket'
    BY <2>7, <2>9 DEF WalkFindsItsBucket
  <2>11. ASSUME Uncut' PROVE z_pc' = "idle" /\ q_target' <= q_cum' + Ahead'
    <3>1. q_b' = q_b + 1
      BY <1>4, <2>11 DEF PercentileBucket, Uncut
    <3>2. Ahead' = SumFunctionOnSet(buckets, B)
      BY <1>1, <2>2, <3>1 DEF Ahead
    <3>3. z_pc = "idle" /\ q_target <= q_cum + Ahead
      BY <2>7, <2>8, <2>11
    <3> QED
      BY <1>1, <2>3, <2>5, <2>6, <3>2, <3>3 DEF Ahead
  <2> QED
    BY <1>2, <2>10, <2>11 DEF WalkInv
<1>5. ASSUME PercentileMax
      PROVE  WalkInv'
  <2>1. q_pc' = "idle"
    BY <1>5 DEF PercentileMax
  <2>2. ~Uncut' /\ WalkFindsItsBucket'
    BY <2>1 DEF Uncut, WalkFindsItsBucket
  <2> QED
    BY <1>2, <2>2 DEF WalkInv
<1> QED
  BY <1>3, <1>4, <1>5 DEF Walk

(* percentile() falls through to max_ns only if a reset() overlaps it: the  *)
(* samples recorded during the walk and a record() that an earlier reset()  *)
(* cut in two do not make it miss its bucket.                               *)
THEOREM WalkFindsItsBucketCorrect == Spec => []WalkFindsItsBucket
<1>1. Init => WalkInv
  <2> SUFFICES ASSUME Init PROVE WalkInv
    OBVIOUS
  <2>1. Types
    BY InitIInv DEF IInv
  <2>2. count + Pending <= Total + 1
    BY <2>1, TotalIs DEF Init, Pending, Total
  <2>3. ~Uncut /\ WalkFindsItsBucket
    BY DEF Init, Uncut, WalkFindsItsBucket
  <2> QED
    BY <2>2, <2>3 DEF WalkInv
<1>2. IInv /\ IInv' /\ WalkInv /\ [Next]_vars => WalkInv'
  <2>1. WalkInv /\ UNCHANGED vars => WalkInv'
    BY FrameWalkInv DEF vars, hist, recorder, resetter, reader
  <2> QED
    BY <2>1, RecordWalkInv, ResetWalkInv, WalkWalkInv DEF Next, IInv
<1>3. WalkInv => WalkFindsItsBucket
  BY DEF WalkInv
<1> QED
  BY <1>1, <1>2, <1>3, Invariance, PTL DEF Spec

----------------------------------------------------------------------------
(* The histogram while no record() overlaps the last reset()                *)

SampleRange == 1 .. Infinity - 1
Recorded == fresh \cup IF r_pc = "idle" THEN {} ELSE {r_ns}
Summed == IF r_pc = "sum" THEN count - 1 ELSE count

Positive ==
    /\ sum_ns \in Nat
    /\ fresh \subseteq SampleRange
    /\ r_pc # "idle" => r_ns \in SampleRange

(* What reset() has stored so far is still there when it ends.              *)
Clearing ==
    /\ z_pc = "buckets" => \A b \in Index : b < z_b => buckets[b] = 0
    /\ z_pc \notin {"idle", "buckets"} => \A b \in Index : buckets[b] = 0
    /\ z_pc \in {"sum", "max", "min"} => count = 0
    /\ z_pc \in {"max", "min"} => sum_ns = 0
    /\ z_pc = "min" => max_ns = 0

(* Outside reset() the buckets, the count, the sum and the extremes are     *)
(* those of the samples of fresh, up to the stores a running record() has   *)
(* yet to make.                                                             *)
Counted == count + Pending = Total
Sampled == \A b \in Index : buckets[b] # 0 => \E s \in Recorded : bucket_of(s) = b
NonEmpty == fresh # {} \/ r_pc \notin {"idle", "count"} => count >= 1
Extreme ==
    /\ max_ns = 0 \/ max_ns \in fresh \/ (r_pc \in {"loadMin", "casMin"} /\ max_ns = r_ns)
    /\ min_ns = Infinity \/ min_ns \in fresh
Averaged ==
    /\ \A m \in 0 .. Infinity : (\A s \in Recorded : m <= s) => Summed * m <= sum_ns
    /\ \A m \in 0 .. Infinity : (\A s \in Recorded : s <= m) => sum_ns <= Summed * m

AtRest == Counted /\ Sampled /\ NonEmpty /\ Extreme /\ Averaged

Alone == r_pc # "idle" => z_pc = "idle" /\ r_fresh
Exact == Alone /\ Clearing /\ (z_pc = "idle" => AtRest)
ExactInv == Positive /\ (~overlap => Exact)

LEMMA PositiveStep ==
    ASSUME Types, Positive, [Next]_vars
    PROVE  Positive'
<1> USE DEF Positive, SampleRange
<1>1. ASSUME NEW ns \in Samples, RecordBucket(ns) PROVE Positive'
  <2>1. r_ns' \in SampleRange
    BY <1>1, SamplesAssumption, InfinityAssumption DEF RecordBucket
  <2>2. UNCHANGED << sum_ns, fresh >>
    BY <1>1 DEF RecordBucket
  <2> QED
    BY <2>1, <2>2
<1>2. ASSUME \E ns \in Samples : RecordIgnored(ns) PROVE Positive'
  BY <1>2 DEF RecordIgnored, hist, recorder
<1>3. ASSUME RecordCount \/ RecordLoadMax \/ RecordLoadMin PROVE Positive'
  BY Zenon, <1>3 DEF RecordCount, RecordLoadMax, RecordLoadMin, hist, history
<1>4. ASSUME RecordSum PROVE Positive'
  BY <1>4 DEF RecordSum, history, Types
<1>5. ASSUME RecordCasMax PROVE Positive'
  BY <1>5 DEF RecordCasMax, history
<1>6. ASSUME RecordCasMin PROVE Positive'
  <2>1. /\ UNCHANGED << sum_ns, r_ns >> /\ r_pc # "idle"
        /\ fresh' = fresh \/ fresh' = fresh \cup {r_ns}
    BY <1>6 DEF RecordCasMin
  <2> QED
    BY Zenon, <2>1
<1>7. ASSUME Reset PROVE Positive'
  <2>1. /\ UNCHANGED << r_pc, r_ns >> /\ (fresh' = fresh \/ fresh' = {})
        /\ sum_ns' = sum_ns \/ sum_ns' = 0
    BY <1>7 DEF Reset, ResetBegin, ResetBucket, ResetCount, ResetSum, ResetMax, ResetMin,
                recorder, history, hist
  <2>2. fresh' \subseteq SampleRange
    BY Zenon, <2>1
  <2>3. sum_ns' \in Nat /\ (r_pc' # "idle" => r_ns' \in SampleRange)
    BY <2>1
  <2> QED
    BY <2>2, <2>3
<1>8. ASSUME Walk \/ UNCHANGED vars PROVE Positive'
  <2>1. UNCHANGED << sum_ns, fresh, r_pc, r_ns >>
    BY <1>8 DEF Walk, PercentileBucket, PercentileMax, PercentileStart, hist, recorder,
                history, vars
  <2> QED
    BY <2>1
<1> QED
  BY <1>1, <1>2, <1>3, <1>4, <1>5, <1>6, <1>7, <1>8 DEF Next, Record

(* A step that leaves the histogram and record() alone.                     *)
LEMMA FrameExact ==
    ASSUME Exact, UNCHANGED << hist, recorder, resetter, fresh, r_fresh >>
    PROVE  Exact'
<1> USE DEF hist, recorder, resetter
<1>1. Alone'
  BY DEF Exact, Alone
<1>2. Clearing'
  BY DEF Exact, Clearing
<1>3. ASSUME z_pc = "idle" PROVE AtRest'
  <2>1. AtRest
    BY <1>3 DEF Exact
  <2>2. Counted'
    BY <2>1 DEF AtRest, Counted, Pending, Total, Cumulative
  <2>3. Sampled' /\ Averaged'
    BY <2>1 DEF AtRest, Sampled, Averaged, Recorded, Summed
  <2>4. NonEmpty' /\ Extreme'
    BY <2>1 DEF AtRest, NonEmpty, Extreme
  <2> QED
    BY <2>2, <2>3, <2>4 DEF AtRest
<1> QED
  BY <1>1, <1>2, <1>3 DEF Exact

LEMMA ResetExact ==
    ASSUME Types, FreshInv, Exact, Reset, z_pc # "idle"
    PROVE  Exact'
<1>1. r_pc = "idle" /\ r_pc' = r_pc /\ UNCHANGED << fresh, r_fresh >> /\ fresh = {}
  BY DEF Exact, Alone, FreshInv, Reset, ResetBegin, ResetBucket, ResetCount, ResetSum,
         ResetMax, ResetMin, recorder, history
<1>2. Alone'
  BY <1>1 DEF Alone
<1>3. ASSUME ResetBucket PROVE Exact'
  <2>1. /\ z_pc = "buckets" /\ buckets' = [buckets EXCEPT ![z_b] = 0]
        /\ z_b \in Index /\ buckets \in [Index -> Nat]
        /\ IF z_b + 1 \in Index THEN z_b' = z_b + 1 /\ z_pc' = "buckets"
                                ELSE z_pc' = "count" /\ z_b' = z_b
    BY <1>3 DEF ResetBucket, Types
  <2>2. \A b \in Index : b < z_b \/ b = z_b => buckets'[b] = 0
    BY <2>1 DEF Exact, Clearing
  <2>3. \A b \in Index : b < z_b + 1 => buckets'[b] = 0
    BY <2>1, <2>2 DEF Index
  <2>4. z_b + 1 \notin Index => \A b \in Index : buckets'[b] = 0
    BY <2>1, <2>3 DEF Index
  <2> QED
    BY <1>2, <2>1, <2>3, <2>4 DEF Exact, Clearing
<1>4. ASSUME ResetCount \/ ResetSum \/ ResetMax PROVE Exact'
  <2>1. Clearing' /\ z_pc' # "idle"
    BY <1>4 DEF ResetCount, ResetSum, ResetMax, Exact, Clearing
  <2> QED
    BY <1>2, <2>1 DEF Exact
<1>5. ASSUME ResetMin PROVE Exact'
  <2>1. /\ z_pc' = "idle" /\ min_ns' = Infinity
        /\ UNCHANGED << buckets, count, sum_ns, max_ns >>
        /\ (\A b \in Index : buckets[b] = 0) /\ count = 0 /\ sum_ns = 0 /\ max_ns = 0
    BY <1>5 DEF ResetMin, Exact, Clearing
  <2>2. Total' = 0
    <3>1. SumFunctionOnSet(buckets, Index) = 0
      BY <2>1, IndexFinite, SumZero
    <3> QED
      BY <2>1, <3>1 DEF Total, Cumulative, Index
  <2>3. Counted'
    BY <1>1, <2>1, <2>2 DEF Counted, Pending
  <2>4. Sampled' /\ NonEmpty' /\ Extreme'
    BY <1>1, <2>1 DEF Sampled, NonEmpty, Extreme
  <2>5. Averaged'
    <3>1. Summed' = 0 /\ sum_ns' = 0
      BY <1>1, <2>1 DEF Summed
    <3>2. \A m \in 0 .. Infinity : 0 * m = 0
      BY InfinityAssumption
    <3> QED
      BY <3>1, <3>2 DEF Averaged, Summed
  <2> QED
    BY <1>2, <2>1, <2>3, <2>4, <2>5 DEF Exact, Clearing, AtRest
<1>6. ~ResetBegin
  BY DEF ResetBegin
<1> QED
  BY <1>3, <1>4, <1>5, <1>6 DEF Reset

(* record(), step by step, outside reset().                                 *)
LEMMA RecordBucketExact ==
    ASSUME Types, AtRest, NEW ns \in Samples, RecordBucket(ns)
    PROVE  AtRest'
<1> DEFINE n == IF ns = 0 THEN 1 ELSE ns
<1>1. /\ n \in Nat /\ 1 <= n /\ r_ns' = n
      /\ buckets' = Incremented(buckets, bucket_of(n)) /\ buckets \in [Index -> Nat]
      /\ r_pc = "idle" /\ r_pc' = "count"
      /\ UNCHANGED << count, sum_ns, max_ns, min_ns, fresh >>
  BY SamplesAssumption DEF RecordBucket, Types, Incremented
<1> HIDE DEF n
<1>2. PICK b \in Index : b = bucket_of(n)
  BY <1>1, BucketOf
<1>3. Recorded = fresh /\ Recorded' = fresh \cup {n}
  BY <1>1 DEF Recorded
<1>4. Counted'
  <2>1. SumFunctionOnSet(buckets', Index) = SumFunctionOnSet(buckets, Index) + 1
    BY <1>1, <1>2, BucketGrows
  <2>2. Total' = Total + 1 /\ Total \in Nat /\ count \in Nat
    BY <2>1, TotalIs DEF Total, Cumulative, Index, Types
  <2> QED
    BY <1>1, <2>2 DEF AtRest, Counted, Pending, Total
<1>5. Sampled'
  <2>1. \A x \in Index : x # b => buckets'[x] = buckets[x]
    BY <1>1, <1>2, Increment
  <2> QED
    BY <1>2, <1>3, <2>1 DEF AtRest, Sampled
<1>6. NonEmpty' /\ Extreme'
  BY <1>1 DEF AtRest, NonEmpty, Extreme
<1>7. Averaged'
  <2>1. Summed' = Summed /\ UNCHANGED sum_ns
    BY <1>1 DEF Summed
  <2> QED
    BY <1>3, <2>1 DEF AtRest, Averaged, Summed
<1> QED
  BY <1>4, <1>5, <1>6, <1>7 DEF AtRest

LEMMA RecordSumAveraged ==
    ASSUME Types, Positive, AtRest, RecordSum
    PROVE  Averaged'
<1>1. /\ r_pc = "sum" /\ r_pc' = "loadMax" /\ sum_ns' = sum_ns + r_ns
      /\ UNCHANGED << count, r_ns, fresh >>
      /\ count \in Nat /\ sum_ns \in Nat /\ r_ns \in Nat
  BY DEF RecordSum, history, Types, Positive
<1>2. Recorded' = Recorded /\ r_ns \in Recorded
  BY <1>1 DEF Recorded
<1>3. Summed = count - 1 /\ Summed' = count
  BY <1>1 DEF Summed
<1>4. ASSUME NEW m \in 0 .. Infinity PROVE count * m = (count - 1) * m + m
  BY <1>1, <1>4, InfinityAssumption
<1>5. ASSUME NEW m \in 0 .. Infinity
      PROVE  count * m \in Int /\ (count - 1) * m \in Int /\ m \in Nat
  BY <1>1, <1>5, InfinityAssumption
<1>6. ASSUME NEW m \in 0 .. Infinity, \A s \in Recorded : m <= s
      PROVE  count * m <= sum_ns'
  <2>1. (count - 1) * m <= sum_ns /\ m <= r_ns
    BY <1>2, <1>3, <1>6 DEF AtRest, Averaged
  <2>2. PICK x \in Int : x = (count - 1) * m
    BY <1>5
  <2>3. x + m <= sum_ns + r_ns
    BY <1>1, <1>5, <2>1, <2>2
  <2> QED
    BY <1>1, <1>4, <2>2, <2>3
<1>7. ASSUME NEW m \in 0 .. Infinity, \A s \in Recorded : s <= m
      PROVE  sum_ns' <= count * m
  <2>1. sum_ns <= (count - 1) * m /\ r_ns <= m
    BY <1>2, <1>3, <1>7 DEF AtRest, Averaged
  <2>2. PICK x \in Int : x = (count - 1) * m
    BY <1>5
  <2>3. sum_ns + r_ns <= x + m
    BY <1>1, <1>5, <2>1, <2>2
  <2> QED
    BY <1>1, <1>4, <2>2, <2>3
<1> QED
  BY <1>2, <1>3, <1>6, <1>7 DEF Averaged

LEMMA RecordExact ==
    ASSUME Types, Positive, AtRest, r_fresh,
           \/ RecordCount \/ RecordSum \/ RecordLoadMax \/ RecordCasMax
           \/ RecordLoadMin \/ RecordCasMin
    PROVE  AtRest'
<1>1. UNCHANGED << buckets, r_ns >> /\ Total' = Total /\ Total \in Nat /\ count \in Nat
  <2>1. UNCHANGED << buckets, r_ns >>
    BY Zenon DEF RecordCount, RecordSum, RecordLoadMax, RecordCasMax, RecordLoadMin, RecordCasMin,
           hist
  <2> QED
    BY <2>1, TotalIs DEF Types, Total, Cumulative
<1>2. ASSUME RecordCount PROVE AtRest'
  <2>1. /\ r_pc = "count" /\ r_pc' = "sum" /\ count' = count + 1
        /\ UNCHANGED << sum_ns, max_ns, min_ns, fresh >>
    BY <1>2 DEF RecordCount, history
  <2>2. Counted'
    BY <1>1, <2>1 DEF AtRest, Counted, Pending, Total
  <2>3. Recorded' = Recorded /\ Summed' = Summed
    BY <1>1, <2>1 DEF Recorded, Summed
  <2>4. Sampled' /\ Averaged'
    BY <1>1, <2>1, <2>3 DEF AtRest, Sampled, Averaged, Recorded, Summed
  <2>5. NonEmpty' /\ Extreme'
    BY <1>1, <2>1 DEF AtRest, NonEmpty, Extreme
  <2> QED
    BY <2>2, <2>4, <2>5 DEF AtRest
<1>3. ASSUME RecordSum PROVE AtRest'
  <2>1. /\ r_pc = "sum" /\ r_pc' = "loadMax"
        /\ UNCHANGED << count, max_ns, min_ns, fresh >>
    BY <1>3 DEF RecordSum, history
  <2>2. Counted'
    BY <1>1, <2>1 DEF AtRest, Counted, Pending, Total
  <2>3. Sampled'
    BY <1>1, <2>1 DEF AtRest, Sampled, Recorded
  <2>4. NonEmpty' /\ Extreme'
    BY <1>1, <2>1 DEF AtRest, NonEmpty, Extreme
  <2> QED
    BY <1>3, <2>2, <2>3, <2>4, RecordSumAveraged DEF AtRest
<1>4. ASSUME RecordLoadMax \/ RecordCasMax \/ RecordLoadMin PROVE AtRest'
  <2>1. /\ r_pc \in {"loadMax", "casMax", "loadMin"} /\ r_pc' \in {"casMax", "loadMin", "casMin"}
        /\ UNCHANGED << count, sum_ns, min_ns, fresh >>
        /\ max_ns' = max_ns \/ (max_ns' = r_ns /\ r_pc' = "loadMin")
        /\ r_pc = "loadMin" => r_pc' = "casMin"
    BY Zenon, <1>4 DEF RecordLoadMax, RecordCasMax, RecordLoadMin, hist, history
  <2>2. Counted'
    BY <1>1, <2>1 DEF AtRest, Counted, Pending, Total
  <2>3. Recorded' = Recorded /\ Summed' = Summed
    BY <1>1, <2>1 DEF Recorded, Summed
  <2>4. Sampled' /\ Averaged'
    BY <1>1, <2>1, <2>3 DEF AtRest, Sampled, Averaged, Recorded, Summed
  <2>5. NonEmpty' /\ Extreme'
    BY <1>1, <2>1 DEF AtRest, NonEmpty, Extreme
  <2> QED
    BY <2>2, <2>4, <2>5 DEF AtRest
<1>5. ASSUME RecordCasMin PROVE AtRest'
  <2>1. /\ r_pc = "casMin" /\ r_pc' \in {"casMin", "idle"}
        /\ UNCHANGED << count, sum_ns, max_ns >>
        /\ r_pc' = "casMin" => fresh' = fresh /\ min_ns' = min_ns
        /\ r_pc' = "idle" => /\ fresh' = fresh \cup {r_ns}
                             /\ min_ns' = min_ns \/ min_ns' = r_ns
    BY Zenon, <1>5 DEF RecordCasMin
  <2>2. Counted'
    BY <1>1, <2>1 DEF AtRest, Counted, Pending, Total
  <2>3. Recorded' = Recorded /\ Summed' = Summed
    BY <1>1, <2>1 DEF Recorded, Summed
  <2>4. Sampled' /\ Averaged'
    BY <1>1, <2>1, <2>3 DEF AtRest, Sampled, Averaged, Recorded, Summed
  <2>5. NonEmpty' /\ Extreme'
    BY <1>1, <2>1 DEF AtRest, NonEmpty, Extreme
  <2> QED
    BY <2>2, <2>4, <2>5 DEF AtRest
<1> QED
  BY <1>2, <1>3, <1>4, <1>5

LEMMA ExactStep ==
    ASSUME IInv, ExactInv, [Next]_vars
    PROVE  ExactInv'
<1>1. Types /\ FreshInv /\ Positive
  BY DEF IInv, ExactInv
<1>2. Positive'
  BY <1>1, PositiveStep
<1> SUFFICES ASSUME ~overlap' PROVE Exact'
  BY <1>2 DEF ExactInv
<1>3. ASSUME Walk \/ UNCHANGED vars \/ \E ns \in Samples : RecordIgnored(ns) PROVE Exact'
  <2>1. UNCHANGED << hist, recorder, resetter, fresh, r_fresh >> /\ UNCHANGED overlap
    BY <1>3 DEF Walk, PercentileBucket, PercentileMax, PercentileStart, RecordIgnored,
                history, vars
  <2> QED
    BY <2>1, FrameExact DEF ExactInv
<1>4. ASSUME NEW ns \in Samples, RecordBucket(ns) PROVE Exact'
  <2>1. overlap' = (overlap \/ z_pc # "idle") /\ r_fresh' = (z_pc = "idle") /\ z_pc' = z_pc
    BY <1>4 DEF RecordBucket, resetter
  <2>2. ~overlap /\ z_pc = "idle" /\ r_fresh'
    BY Zenon, <2>1
  <2>3. AtRest
    BY <2>2 DEF ExactInv, Exact
  <2>4. AtRest'
    BY <1>1, <1>4, <2>3, RecordBucketExact
  <2>5. Alone' /\ Clearing'
    BY <2>1, <2>2 DEF Alone, Clearing
  <2> QED
    BY <2>4, <2>5 DEF Exact
<1>5. ASSUME \/ RecordCount \/ RecordSum \/ RecordLoadMax \/ RecordCasMax
             \/ RecordLoadMin \/ RecordCasMin
      PROVE  Exact'
  <2>1. UNCHANGED << overlap, z_pc >> /\ r_pc # "idle"
    BY <1>5 DEF RecordCount, RecordSum, RecordLoadMax, RecordCasMax, RecordLoadMin,
                RecordCasMin, resetter, history
  <2>2. r_pc' = "idle" \/ r_fresh' = r_fresh
    BY <1>5 DEF RecordCount, RecordSum, RecordLoadMax, RecordCasMax, RecordLoadMin,
                RecordCasMin, history
  <2>3. Exact
    BY <2>1 DEF ExactInv
  <2>4. z_pc = "idle" /\ r_fresh /\ AtRest
    BY <2>1, <2>3 DEF Exact, Alone
  <2>5. AtRest'
    BY <1>1, <1>5, <2>4, RecordExact
  <2>6. Alone' /\ Clearing'
    BY Zenon, <2>1, <2>2, <2>4 DEF Alone, Clearing
  <2> QED
    BY <2>5, <2>6 DEF Exact
<1>6. ASSUME ResetBegin PROVE Exact'
  <2>1. overlap' = (r_pc # "idle") /\ r_pc' = r_pc /\ z_pc' = "buckets" /\ z_b' = 0
    BY <1>6 DEF ResetBegin, recorder
  <2>2. r_pc' = "idle"
    BY Zenon, <2>1
  <2>3. Alone' /\ Clearing'
    BY <2>1, <2>2 DEF Alone, Clearing, Index
  <2> QED
    BY <2>1, <2>3 DEF Exact
<1>7. ASSUME Reset, ~ResetBegin PROVE Exact'
  <2>1. z_pc # "idle" /\ UNCHANGED overlap
    BY <1>7 DEF Reset, ResetBucket, ResetCount, ResetSum, ResetMax, ResetMin, history
  <2> QED
    BY <1>1, <1>7, <2>1, ResetExact DEF ExactInv
<1> QED
  BY <1>3, <1>4, <1>5, <1>6, <1>7 DEF Next, Record

----------------------------------------------------------------------------
(* The figures of a report                                                  *)

LEMMA Quotient ==
    ASSUME NEW a \in Nat, NEW c \in Nat, NEW m \in Nat, c # 0
    PROVE  /\ c * m <= a => m <= a \div c
           /\ a <= c * m => a \div c <= m
<1> DEFINE q == a \div c
<1>1. q \in Nat /\ c * q <= a /\ a < c * q + c
  OBVIOUS
<1> HIDE DEF q
<1>2. ASSUME c * m <= a, ~(m <= q) PROVE FALSE
  <2>1. q + 1 <= m
    BY <1>1, <1>2
  <2>2. c * (q + 1) <= c * m
    BY <1>1, <2>1
  <2>3. c * (q + 1) = c * q + c
    BY <1>1
  <2> QED
    BY <1>1, <1>2, <2>2, <2>3
<1>3. ASSUME a <= c * m, ~(q <= m) PROVE FALSE
  <2>1. m + 1 <= q
    BY <1>1, <1>3
  <2>2. c * (m + 1) <= c * q
    BY <1>1, <2>1
  <2>3. c * (m + 1) = c * m + c
    OBVIOUS
  <2> QED
    BY <1>1, <1>3, <2>2, <2>3
<1> QED
  BY <1>2, <1>3 DEF q

LEMMA TargetMonotone ==
    ASSUME NEW c \in Nat, NEW p \in Hundredths, NEW q \in Hundredths, p <= q
    PROVE  target(c, p) \in Nat /\ target(c, q) \in Nat /\ target(c, p) <= target(c, q)
<1>0. p \in Nat /\ q \in Nat /\ q - p \in Nat
  <2>1. p \in Nat /\ q \in Nat
    BY DEF Hundredths
  <2> QED
    BY <2>1
<1>1. c * p \in Nat /\ c * q \in Nat /\ c * p <= c * q
  <2>1. c * p \in Nat /\ c * q \in Nat /\ c * (q - p) \in Nat
    BY <1>0
  <2>2. c * q = c * p + c * (q - p)
    BY <1>0
  <2> QED
    BY <2>1, <2>2
<1>2. PICK x \in Nat, y \in Nat : x = c * p /\ y = c * q
  BY <1>1
<1>3. x <= y
  BY <1>1, <1>2
<1>4. x \div 10000 \in Nat /\ y \div 10000 \in Nat /\ x \div 10000 <= y \div 10000
  BY <1>3
<1> QED
  BY <1>2, <1>4 DEF target

LEMMA PercentileIs ==
    ASSUME Types, count = Total, count # 0, NEW p \in Hundredths
    PROVE  /\ Reaching(p) \in SUBSET Nat /\ Reaching(p) # {}
           /\ percentile(p) = 2^Min(Reaching(p))
<1>1. Total = Cumulative(BUCKETS - 1) /\ count \in Nat
  BY DEF Total, Types
<1>2. target(count, p) \in Nat /\ target(count, p) <= count - 1
  BY <1>1, TargetBelowCount
<1>3. BUCKETS - 1 \in Index /\ Index \subseteq Nat
  BY DEF Index
<1>4. Cumulative(BUCKETS - 1) >= target(count, p)
  BY <1>1, <1>2
<1>5. BUCKETS - 1 \in Reaching(p) /\ Reaching(p) \in SUBSET Nat
  BY Zenon, <1>3, <1>4 DEF Reaching
<1> QED
  BY <1>5 DEF percentile

LEMMA PercentileOrdered ==
    ASSUME Types, count = Total, count # 0,
           NEW p \in Hundredths, NEW q \in Hundredths, p <= q
    PROVE  percentile(p) <= percentile(q)
<1>1. /\ Reaching(p) \in SUBSET Nat /\ Reaching(p) # {} /\ percentile(p) = 2^Min(Reaching(p))
      /\ Reaching(q) \in SUBSET Nat /\ Reaching(q) # {} /\ percentile(q) = 2^Min(Reaching(q))
  BY PercentileIs
<1>2. target(count, p) \in Nat /\ target(count, q) \in Nat /\ target(count, p) <= target(count, q)
  <2>1. count \in Nat
    BY DEF Types
  <2> QED
    BY <2>1, TargetMonotone
<1>3. ASSUME NEW b \in Reaching(q) PROVE b \in Reaching(p)
  <2>1. b \in Index /\ Cumulative(b) >= target(count, q)
    BY DEF Reaching
  <2>2. Cumulative(b) \in Nat
    <3>1. PICK A : A = 0 .. b
      OBVIOUS
    <3>2. A \in SUBSET Index
      BY <2>1, <3>1 DEF Index
    <3>3. SumFunctionOnSet(buckets, A) \in Nat
      BY <3>2, TotalIs
    <3> QED
      BY <3>1, <3>3 DEF Cumulative
  <2>3. Cumulative(b) >= target(count, p)
    BY <1>2, <2>1, <2>2
  <2> QED
    BY <2>1, <2>3 DEF Reaching
<1>4. Min(Reaching(q)) \in Reaching(q)
  BY <1>1, MinIs
<1>5. Min(Reaching(p)) <= Min(Reaching(q)) /\ Min(Reaching(p)) \in Nat /\ Min(Reaching(q)) \in Nat
  BY <1>1, <1>3, <1>4, MinIs
<1> QED
  BY <1>1, <1>5, PowerMonotone

LEMMA PercentileBelowMax ==
    ASSUME Types, Positive, count = Total, count # 0, Sampled, Recorded = fresh, fresh # {},
           \A s \in fresh : s <= max_ns, NEW p \in Hundredths
    PROVE  percentile(p) <= max_ns
<1>1. PICK b : b = Min(Reaching(p))
  OBVIOUS
<1>2. b \in Reaching(p) /\ (\A x \in Reaching(p) : b <= x) /\ percentile(p) = 2^b
  BY <1>1, PercentileIs, MinIs
<1>3. b \in Index /\ Cumulative(b) >= target(count, p)
  BY <1>2 DEF Reaching
<1>4. max_ns \in Nat /\ \A s \in fresh : s \in Nat /\ 1 <= s /\ s <= max_ns
  BY InfinityAssumption DEF Types, Positive, SampleRange
<1>5. CASE b = 0
  <2>1. 2^b = 1
    BY <1>5
  <2>2. PICK s \in fresh : TRUE
    OBVIOUS
  <2>3. 1 <= max_ns
    BY <1>4, <2>2
  <2> QED
    BY <1>2, <2>1, <2>3
<1>6. CASE b # 0
  <2>1. PICK A, B : A = 0 .. b /\ B = 0 .. (b - 1)
    OBVIOUS
  <2>2. b - 1 \in Index /\ ~(b <= b - 1)
    BY <1>3, <1>6 DEF Index
  <2>3. ~(Cumulative(b - 1) >= target(count, p))
    BY <1>2, <2>2 DEF Reaching
  <2>4. A \in SUBSET Index /\ B \in SUBSET Index /\ b \in A /\ A \ {b} = B
    BY <1>3, <1>6, <2>1 DEF Index
  <2>5. SumFunctionOnSet(buckets, A) = buckets[b] + SumFunctionOnSet(buckets, B)
    <3>1. \A x \in A : buckets[x] \in Int
      BY <2>4 DEF Types
    <3>2. SumFunctionOnSet(buckets, A) = buckets[b] + SumFunctionOnSet(buckets, A \ {b})
      BY <2>4, <3>1, IndexFinite, SumSplit
    <3> QED
      BY <2>4, <3>2
  <2>6. Cumulative(b) = SumFunctionOnSet(buckets, A)
    BY <2>1 DEF Cumulative
  <2>7. Cumulative(b - 1) = SumFunctionOnSet(buckets, B)
    BY <2>1 DEF Cumulative
  <2>8. SumFunctionOnSet(buckets, B) \in Nat
    BY <2>4, TotalIs
  <2>9. buckets[b] # 0
    BY <1>3, <2>3, <2>5, <2>6, <2>7, <2>8
  <2>10. PICK s \in fresh : bucket_of(s) = b
    BY <1>3, <2>9 DEF Sampled
  <2>11. 2^b <= s /\ s \in Nat /\ s <= max_ns
    BY <1>4, <2>10, BucketOf
  <2>12. 2^b \in Nat
    <3>1. b \in Nat
      BY <1>3 DEF Index
    <3> QED
      BY <3>1, PowerMonotone
  <2> QED
    BY <1>2, <1>4, <2>11, <2>12
<1> QED
  BY <1>5, <1>6

LEMMA ExactFigures ==
    ASSUME IInv, Positive, Exact, Quiet
    PROVE  /\ count = Total
           /\ count = 0 <=> fresh = {}
           /\ fresh # {} => /\ max_ns = Max(fresh) /\ min = Min(fresh)
                            /\ min <= mean /\ mean <= max_ns
                            /\ \A i \in 2 .. Len(report) : report[i - 1] <= report[i]
<1>1. Types /\ r_pc = "idle" /\ z_pc = "idle" /\ AtRest
  BY DEF IInv, Quiet, Exact
<1>2. Recorded = fresh /\ Pending = 0 /\ Summed = count
  BY <1>1 DEF Recorded, Pending, Summed
<1>3. count = Total
  BY <1>1, <1>2 DEF AtRest, Counted, Pending, Types
<1>4. fresh = {} => count = 0
  <2> SUFFICES ASSUME fresh = {} PROVE count = 0
    OBVIOUS
  <2>1. \A b \in Index : buckets[b] = 0
    BY <1>1, <1>2 DEF AtRest, Sampled
  <2>2. SumFunctionOnSet(buckets, Index) = 0
    BY <2>1, IndexFinite, SumZero
  <2> QED
    BY <1>1, <1>3, <2>2, TotalIs
<1>5. fresh # {} => count # 0
  BY <1>1 DEF AtRest, NonEmpty
<1>6. ASSUME fresh # {}
      PROVE  /\ max_ns = Max(fresh) /\ min = Min(fresh)
             /\ min <= mean /\ mean <= max_ns
             /\ \A i \in 2 .. Len(report) : report[i - 1] <= report[i]
  <2>1. /\ \A s \in fresh : s \in Nat /\ 1 <= s /\ s < Infinity
        /\ \A s \in fresh : min_ns <= s /\ s <= max_ns
        /\ max_ns \in Nat /\ min_ns \in Nat /\ Infinity \in Nat
    BY <1>1, InfinityAssumption
       DEF IInv, FreshInv, ExtremesCoverFresh, Types, Positive, SampleRange
  <2>2. PICK f \in fresh : TRUE
    BY <1>6
  <2>3. max_ns \in fresh /\ min_ns \in fresh
    <3>1. max_ns # 0 /\ min_ns # Infinity
      BY <2>1, <2>2
    <3> QED
      BY <1>1, <3>1 DEF AtRest, Extreme
  <2>4. min = min_ns
    BY <2>1, <2>3 DEF min
  <2>5. max_ns = Max(fresh)
    <3>1. Max(fresh) \in fresh /\ \A x \in fresh : x <= Max(fresh)
      <4>1. fresh \in SUBSET Nat
        BY <2>1
      <4>2. PICK top \in Nat : top = max_ns
        BY <2>1
      <4> QED
        BY <1>6, <2>1, <4>1, <4>2, MaxIs
    <3>2. PICK top \in fresh : top = Max(fresh)
      BY <3>1
    <3>3. top \in Nat /\ top <= max_ns /\ max_ns <= top
      BY <2>1, <2>3, <3>1, <3>2
    <3> QED
      BY <2>1, <3>2, <3>3
  <2>6. min_ns = Min(fresh)
    <3>1. fresh \in SUBSET Nat
      BY <2>1
    <3>2. Min(fresh) \in fresh /\ \A x \in fresh : Min(fresh) <= x
      BY <1>6, <3>1, MinIs
    <3>3. PICK low \in fresh : low = Min(fresh)
      BY <3>2
    <3>4. low \in Nat /\ min_ns <= low /\ low <= min_ns
      BY <2>1, <2>3, <3>2, <3>3
    <3> QED
      BY <2>1, <3>3, <3>4
  <2>7. min <= mean /\ mean <= max_ns
    <3>1. count \in Nat /\ count # 0 /\ sum_ns \in Nat
      BY <1>1, <1>5, <1>6 DEF Types, Positive
    <3>2. max_ns \in 0 .. Infinity /\ min_ns \in 0 .. Infinity
      BY <2>1, <2>3
    <3>3. count * min_ns <= sum_ns /\ sum_ns <= count * max_ns
      BY <1>1, <1>2, <2>1, <3>2 DEF AtRest, Averaged
    <3>4. min_ns <= sum_ns \div count /\ sum_ns \div count <= max_ns
      BY <2>1, <3>1, <3>3, Quotient
    <3>5. mean = sum_ns \div count
      BY <3>1 DEF mean
    <3> QED
      BY <2>4, <3>4, <3>5
  <2>8. \A p, q \in Hundredths : p <= q => percentile(p) <= percentile(q)
    BY <1>1, <1>3, <1>5, <1>6, PercentileOrdered
  <2>9. \A p \in Hundredths : percentile(p) <= max_ns
    <3>1. \A s \in fresh : s <= max_ns
      BY <2>1
    <3>2. Sampled
      BY <1>1 DEF AtRest
    <3> QED
      BY <1>1, <1>2, <1>3, <1>5, <1>6, <3>1, <3>2, PercentileBelowMax
  <2>10. /\ percentile(5000) <= percentile(7500) /\ percentile(7500) <= percentile(9500)
         /\ percentile(9500) <= percentile(9900) /\ percentile(9900) <= percentile(9990)
         /\ percentile(9990) <= percentile(9999) /\ percentile(9999) <= max_ns
    <3>1. /\ 5000 \in Hundredths /\ 7500 \in Hundredths /\ 9500 \in Hundredths
          /\ 9900 \in Hundredths /\ 9990 \in Hundredths /\ 9999 \in Hundredths
      BY DEF Hundredths
    <3>2. percentile(5000) <= percentile(7500)
      BY <2>8, <3>1
    <3>3. percentile(7500) <= percentile(9500)
      BY <2>8, <3>1
    <3>4. percentile(9500) <= percentile(9900)
      BY <2>8, <3>1
    <3>5. percentile(9900) <= percentile(9990)
      BY <2>8, <3>1
    <3>6. percentile(9990) <= percentile(9999)
      BY <2>8, <3>1
    <3>7. percentile(9999) <= max_ns
      BY <2>9, <3>1
    <3> QED
      BY <3>2, <3>3, <3>4, <3>5, <3>6, <3>7
  <2>11. \A i \in 2 .. Len(report) : report[i - 1] <= report[i]
    BY <2>10 DEF report
  <2> QED
    BY <2>4, <2>5, <2>6, <2>7, <2>11
<1> QED
  BY <1>3, <1>4, <1>5, <1>6

(* At rest, and unless a record() overlapped the last reset(), the          *)
(* histogram is exact: count, buckets, sum and extremes describe the same   *)
(* samples, the mean lies between the extremes and the figures of report()  *)
(* are in order.                                                            *)
THEOREM ExactWithoutOverlapCorrect == Spec => []ExactWithoutOverlap
<1>1. Init => ExactInv
  <2> SUFFICES ASSUME Init PROVE ExactInv
    OBVIOUS
  <2>1. Positive /\ Alone /\ Clearing
    BY DEF Init, Positive, Alone, Clearing
  <2>2. Counted
    <3>1. \A b \in Index : buckets[b] = 0
      BY DEF Init
    <3>2. SumFunctionOnSet(buckets, Index) = 0
      BY <3>1, IndexFinite, SumZero
    <3>3. Total = 0
      BY <3>2 DEF Total, Cumulative, Index
    <3> QED
      BY <3>3 DEF Init, Counted, Pending
  <2>3. Sampled /\ NonEmpty /\ Extreme
    BY DEF Init, Sampled, NonEmpty, Extreme
  <2>4. Averaged
    <3>1. Summed = 0 /\ sum_ns = 0
      BY DEF Init, Summed
    <3>2. \A m \in 0 .. Infinity : 0 * m = 0
      BY InfinityAssumption
    <3> QED
      BY <3>1, <3>2 DEF Averaged
  <2> QED
    BY <2>1, <2>2, <2>3, <2>4 DEF ExactInv, Exact, AtRest
<1>2. IInv /\ ExactInv /\ [Next]_vars => ExactInv'
  BY ExactStep
<1>3. IInv /\ ExactInv => ExactWithoutOverlap
  BY ExactFigures DEF ExactInv, ExactWithoutOverlap
<1> QED
  BY <1>1, <1>2, <1>3, Invariance, PTL DEF Spec
============================================================================
