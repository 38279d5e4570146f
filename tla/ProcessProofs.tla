--------------------------- MODULE ProcessProofs ---------------------------
(* Proofs about the process: its three threads and their queues             *)
(* (TradingSystem), for every size of the queues and every number of        *)
(* executions, and its metrics server (MetricsServer), for every set of     *)
(* clients.                                                                 *)
EXTENDS TradingSystem, TLAPS, FiniteSetTheorems, SequenceTheorems

USE BoundsAssumption

(* What the cold loop has taken and what it will take, in that order.       *)
Delivered == applied \o execQueue
Values(s) == {s[i] : i \in 1 .. Len(s)}
Increasing(s) == \A i, j \in 1 .. Len(s) : i < j => s[i] < s[j]

(* The executions delivered and the ones dropped make up those reported:    *)
(* the deliveries in order, the counts adding up.                           *)
Accounts(s, l, n) ==
    /\ s \in Seq(1 .. MaxExecs) /\ n \in 0 .. MaxExecs
    /\ l \subseteq 1 .. n /\ Values(s) \cup l = 1 .. n /\ Values(s) \cap l = {}
    /\ Increasing(s)
    /\ IsFiniteSet(l) /\ Len(s) + Cardinality(l) = n

(* The main thread is past a join only when that thread is done.            *)
ShutdownInv ==
    /\ m_pc \in {"joinExec", "report", "exited"} => u_pc = "done"
    /\ m_pc \in {"report", "exited"} => x_pc = "done"
    /\ reported >= 0 => m_pc = "exited" /\ reported = Len(applied)

IInv == TypeOK /\ Accounts(Delivered, lost, produced) /\ ShutdownInv

----------------------------------------------------------------------------
(* Sequences.                                                               *)

LEMMA PushDelivers ==
    ASSUME NEW S, NEW a \in Seq(S), NEW q \in Seq(S), NEW e \in S
    PROVE  a \o Append(q, e) = Append(a \o q, e)
  OBVIOUS

LEMMA PopDelivers ==
    ASSUME NEW S, NEW a \in Seq(S), NEW q \in Seq(S), q # << >>
    PROVE  /\ Append(a, Head(q)) \o Tail(q) = a \o q
           /\ Append(a, Head(q)) \in Seq(S) /\ Tail(q) \in Seq(S)
           /\ Len(Tail(q)) <= Len(q)
  OBVIOUS

LEMMA AccountsPush ==
    ASSUME NEW s, NEW l, NEW n, Accounts(s, l, n), n < MaxExecs
    PROVE  Accounts(Append(s, n + 1), l, n + 1)
<1> DEFINE r == Append(s, n + 1)
<1>1. /\ s \in Seq(1 .. MaxExecs) /\ n \in Nat /\ n + 1 \in 1 .. MaxExecs
      /\ Len(s) \in Nat /\ Cardinality(l) \in Nat
  BY FS_CardinalityType DEF Accounts
<1>2. /\ r \in Seq(1 .. MaxExecs) /\ Len(r) = Len(s) + 1 /\ r[Len(s) + 1] = n + 1
      /\ \A i \in 1 .. Len(s) : r[i] = s[i]
  BY <1>1
<1>3. \A i \in 1 .. Len(r) : i \in 1 .. Len(s) \/ i = Len(s) + 1
  BY <1>1, <1>2
<1>4. \A i \in 1 .. Len(s) : s[i] \in 1 .. n
  BY DEF Accounts, Values
<1> HIDE DEF r
<1>5. Values(r) = Values(s) \cup {n + 1}
  <2>1. 1 .. Len(r) = 1 .. Len(s) \cup {Len(s) + 1}
    BY <1>1, <1>2
  <2> QED
    BY Zenon, <1>2, <2>1 DEF Values
<1>6. Increasing(r)
  <2> SUFFICES ASSUME NEW i \in 1 .. Len(r), NEW j \in 1 .. Len(r), i < j
               PROVE  r[i] < r[j]
    BY DEF Increasing
  <2>1. i \in 1 .. Len(s)
    <3>1. PICK a \in Nat : a = Len(s)
      BY Zenon, <1>1
    <3>2. i \in 1 .. a + 1 /\ j \in 1 .. a + 1
      BY Zenon, <1>2, <3>1
    <3>3. i \in 1 .. a
      BY ONLY a \in Nat, <3>2, i < j
    <3> QED
      BY Zenon, <3>1, <3>3
  <2>2. r[i] = s[i] /\ s[i] \in 1 .. n
    BY Zenon, <1>2, <1>4, <2>1
  <2>3. CASE j \in 1 .. Len(s)
    BY Zenon, <1>2, <2>1, <2>2, <2>3 DEF Increasing, Accounts
  <2>4. CASE j = Len(s) + 1
    <3>1. r[j] = n + 1
      BY Zenon, <1>2, <2>4
    <3> QED
      BY <1>1, <2>2, <3>1
  <2> QED
    BY Zenon, <1>3, <2>3, <2>4
<1>7. 1 .. n + 1 = (1 .. n) \cup {n + 1} /\ n + 1 \notin 1 .. n
  BY <1>1
<1> QED
  BY <1>1, <1>2, <1>5, <1>6, <1>7 DEF Accounts, r

LEMMA AccountsDrop ==
    ASSUME NEW s, NEW l, NEW n, Accounts(s, l, n), n < MaxExecs
    PROVE  Accounts(s, l \cup {n + 1}, n + 1)
<1>1. /\ s \in Seq(1 .. MaxExecs) /\ n \in Nat /\ n + 1 \in 1 .. MaxExecs
      /\ Len(s) \in Nat /\ Cardinality(l) \in Nat
  BY FS_CardinalityType DEF Accounts
<1>2. 1 .. n + 1 = (1 .. n) \cup {n + 1} /\ n + 1 \notin 1 .. n
  BY <1>1
<1>3. n + 1 \notin Values(s) /\ n + 1 \notin l
  BY <1>2 DEF Accounts
<1>4. IsFiniteSet(l \cup {n + 1}) /\ Cardinality(l \cup {n + 1}) = Cardinality(l) + 1
  BY Zenon, <1>3, FS_AddElement DEF Accounts
<1> QED
  BY <1>1, <1>2, <1>3, <1>4 DEF Accounts

----------------------------------------------------------------------------
(* The inductive invariant holds.                                           *)

LEMMA InitIInv == Init => IInv
<1> SUFFICES ASSUME Init PROVE IInv
  OBVIOUS
<1>1. TypeOK
  <2>1. << >> \in Seq(1 .. MaxExecs) /\ Len(<< >>) = 0
    OBVIOUS
  <2>2. running \in BOOLEAN /\ feedRunning \in BOOLEAN
    BY Zenon DEF Init
  <2>3. /\ execQueue \in Seq(1 .. MaxExecs) /\ Len(execQueue) <= ExecBound
        /\ applied \in Seq(1 .. MaxExecs)
    BY <2>1 DEF Init
  <2>4. /\ tickDepth \in 0 .. TickBound /\ produced \in 0 .. MaxExecs /\ lost = {}
        /\ maxExecQueueDepth \in 0 .. ExecBound /\ reported \in -1 .. MaxExecs
    BY DEF Init
  <2> QED
    BY <2>2, <2>3, <2>4 DEF Init, TypeOK
<1>2. ShutdownInv
  BY DEF Init, ShutdownInv
<1>3. Delivered = << >> /\ lost = {} /\ produced = 0
  BY DEF Init, Delivered
<1>4. Values(<< >>) = {} /\ 1 .. 0 = {} /\ Increasing(<< >>)
  BY DEF Values, Increasing
<1>5. IsFiniteSet({}) /\ Cardinality({}) = 0
  BY FS_EmptySet
<1> QED
  BY <1>1, <1>2, <1>3, <1>4, <1>5 DEF IInv, Accounts

(* Actions that touch neither the executions nor the report.                *)
Bystander ==
    UNCHANGED << execQueue, produced, lost, applied, reported >>

(* The execution thread reports an execution.                               *)
LEMMA ExecuteIInv == IInv /\ Execute => IInv'
<1> SUFFICES ASSUME IInv, Execute PROVE IInv'
  OBVIOUS
<1>1. /\ TypeOK /\ Accounts(Delivered, lost, produced) /\ ShutdownInv
      /\ produced < MaxExecs /\ produced' = produced + 1 /\ applied' = applied
      /\ produced + 1 \in 1 .. MaxExecs
      /\ applied \in Seq(1 .. MaxExecs) /\ execQueue \in Seq(1 .. MaxExecs)
  BY DEF IInv, Execute, TypeOK
<1>2. ShutdownInv'
  BY <1>1 DEF ShutdownInv, Execute, threads
<1>3. CASE Len(execQueue) < ExecBound
  <2>1. execQueue' = Append(execQueue, produced + 1) /\ lost' = lost
    BY <1>3 DEF Execute
  <2>2. Delivered' = Append(Delivered, produced + 1)
    BY <1>1, <2>1, PushDelivers DEF Delivered
  <2>3. Accounts(Delivered', lost', produced')
    BY <1>1, <2>1, <2>2, AccountsPush
  <2>4. execQueue' \in Seq(1 .. MaxExecs) /\ Len(execQueue') <= ExecBound
    BY <1>1, <1>3, <2>1
  <2>5. TypeOK'
    BY <1>1, <2>1, <2>4 DEF TypeOK, Execute, flags, threads
  <2> QED
    BY <1>2, <2>3, <2>5 DEF IInv
<1>4. CASE ~(Len(execQueue) < ExecBound)
  <2>1. execQueue' = execQueue /\ lost' = lost \cup {produced + 1}
    BY <1>4 DEF Execute
  <2>2. Accounts(Delivered', lost', produced')
    BY <1>1, <2>1, AccountsDrop DEF Delivered
  <2>3. TypeOK'
    BY <1>1, <2>1 DEF TypeOK, Execute, flags, threads
  <2> QED
    BY <1>2, <2>2, <2>3 DEF IInv
<1> QED
  BY <1>3, <1>4

(* The cold loop takes an execution, or finds none.                         *)
LEMMA PopExecIInv == IInv /\ PopExec => IInv'
<1> SUFFICES ASSUME IInv, PopExec PROVE IInv'
  OBVIOUS
<1>1. /\ TypeOK /\ Accounts(Delivered, lost, produced) /\ ShutdownInv
      /\ m_pc = "execs" /\ produced' = produced /\ lost' = lost
      /\ applied \in Seq(1 .. MaxExecs) /\ execQueue \in Seq(1 .. MaxExecs)
  BY DEF IInv, PopExec, TypeOK
<1>2. ShutdownInv'
  BY <1>1 DEF ShutdownInv, PopExec
<1>3. CASE execQueue # << >>
  <2>1. applied' = Append(applied, Head(execQueue)) /\ execQueue' = Tail(execQueue)
    BY <1>3 DEF PopExec
  <2>2. /\ Delivered' = Delivered /\ applied' \in Seq(1 .. MaxExecs)
        /\ execQueue' \in Seq(1 .. MaxExecs) /\ Len(execQueue') <= Len(execQueue)
    <3>1. /\ Append(applied, Head(execQueue)) \o Tail(execQueue) = applied \o execQueue
          /\ Append(applied, Head(execQueue)) \in Seq(1 .. MaxExecs)
          /\ Tail(execQueue) \in Seq(1 .. MaxExecs) /\ Len(Tail(execQueue)) <= Len(execQueue)
      BY ONLY Zenon, <1>1, <1>3, PopDelivers
    <3> QED
      BY Zenon, <2>1, <3>1 DEF Delivered
  <2>3. Len(execQueue') <= ExecBound
    BY <1>1, <2>2 DEF TypeOK
  <2>4. TypeOK'
    BY <1>1, <1>3, <2>2, <2>3 DEF TypeOK, PopExec, flags
  <2> QED
    BY <1>1, <1>2, <2>2, <2>4 DEF IInv
<1>4. CASE execQueue = << >>
  <2>1. applied' = applied /\ execQueue' = execQueue
    BY <1>4 DEF PopExec
  <2>2. TypeOK'
    BY <1>1, <1>4 DEF TypeOK, PopExec, flags
  <2> QED
    BY <1>1, <1>2, <2>1, <2>2 DEF IInv, Delivered
<1> QED
  BY <1>3, <1>4

(* The report counts what was applied.                                      *)
LEMMA WriteReportIInv == IInv /\ WriteReport => IInv'
<1> SUFFICES ASSUME IInv, WriteReport PROVE IInv'
  OBVIOUS
<1>1. /\ TypeOK /\ Accounts(Delivered, lost, produced) /\ ShutdownInv
      /\ UNCHANGED << execQueue, produced, lost, applied >>
      /\ applied \in Seq(1 .. MaxExecs) /\ execQueue \in Seq(1 .. MaxExecs)
  BY DEF IInv, WriteReport, TypeOK, execs
<1>2. Len(applied) \in 0 .. MaxExecs
  <2>1. Len(Delivered) = Len(applied) + Len(execQueue)
    BY <1>1 DEF Delivered
  <2>2. Cardinality(lost) \in Nat /\ Len(applied) \in Nat /\ Len(execQueue) \in Nat
    BY <1>1, FS_CardinalityType DEF Accounts
  <2>3. Len(Delivered) + Cardinality(lost) = produced /\ produced \in 0 .. MaxExecs
    BY <1>1 DEF Accounts
  <2> QED
    BY <2>1, <2>2, <2>3
<1>3. TypeOK'
  BY <1>1, <1>2 DEF TypeOK, WriteReport, flags, execs
<1>4. ShutdownInv'
  BY <1>1 DEF ShutdownInv, WriteReport
<1> QED
  BY <1>1, <1>3, <1>4 DEF IInv, Delivered

(* The other steps leave the executions and the report alone.               *)
LEMMA BystanderIInv ==
    ASSUME IInv, Bystander, TypeOK', ShutdownInv'
    PROVE  IInv'
  BY DEF IInv, Bystander, Delivered

LEMMA FeedIInv == IInv /\ (Feed \/ Receive) => IInv'
<1> SUFFICES ASSUME IInv, Feed \/ Receive PROVE IInv'
  OBVIOUS
<1> USE DEF Feed, Receive, FeedStart, BindFails, Die, FeedCheck, ReceiveTick, ReceiveOther,
            RecvFails, flags, execs
<1>1. Bystander
  BY DEF Bystander
<1>2. tickDepth' \in 0 .. TickBound
  BY DEF IInv, TypeOK
<1>3. TypeOK'
  BY Zenon, <1>2 DEF IInv, TypeOK
<1>4. ShutdownInv'
  BY DEF IInv, ShutdownInv, TypeOK
<1> QED
  BY <1>1, <1>3, <1>4, BystanderIInv

LEMMA ReplayIInv == IInv /\ Replay => IInv'
<1> SUFFICES ASSUME IInv, OpenFile \/ OpenFails \/ EndOfFile PROVE IInv'
  BY ExecuteIInv DEF Replay
<1> USE DEF OpenFile, OpenFails, EndOfFile, Die, flags, execs
<1>1. Bystander
  BY DEF Bystander
<1>2. TypeOK'
  BY Zenon DEF IInv, TypeOK
<1>3. ShutdownInv'
  BY DEF IInv, ShutdownInv, TypeOK
<1> QED
  BY <1>1, <1>2, <1>3, BystanderIInv

LEMMA ColdLoopIInv == IInv /\ ColdLoop => IInv'
<1> SUFFICES ASSUME IInv, ColdLoop PROVE IInv'
  OBVIOUS
<1>1. CASE MetricsStart \/ MetricsFails \/ PopTick \/ NoDashboard
  <2> USE DEF MetricsStart, MetricsFails, Die, PopTick, NoDashboard, flags, execs
  <2>1. Bystander
    BY <1>1 DEF Bystander
  <2>2. tickDepth' \in 0 .. TickBound
    BY <1>1 DEF IInv, TypeOK
  <2>3. TypeOK'
    BY Zenon, <1>1, <2>2 DEF IInv, TypeOK
  <2>4. ShutdownInv'
    BY <1>1 DEF IInv, ShutdownInv, TypeOK
  <2> QED
    BY <2>1, <2>3, <2>4, BystanderIInv
<1>2. CASE CheckRunning \/ Dashboard
  <2> USE DEF CheckRunning, Dashboard, flags, execs
  <2>1. Bystander
    BY <1>2 DEF Bystander
  <2>2. maxExecQueueDepth' \in 0 .. ExecBound
    <3>1. Len(execQueue) \in 0 .. ExecBound /\ maxExecQueueDepth \in 0 .. ExecBound
      BY DEF IInv, TypeOK
    <3>2. Max({maxExecQueueDepth, Len(execQueue)}) \in {maxExecQueueDepth, Len(execQueue)}
      BY <3>1 DEF Max
    <3> QED
      BY <1>2, <3>1, <3>2
  <2>3. TypeOK'
    BY Zenon, <1>2, <2>2 DEF IInv, TypeOK
  <2>4. ShutdownInv'
    BY <1>2 DEF IInv, ShutdownInv, TypeOK
  <2> QED
    BY <2>1, <2>3, <2>4, BystanderIInv
<1> QED
  BY <1>1, <1>2, PopExecIInv DEF ColdLoop

LEMMA ShutdownIInv == IInv /\ (SIGINT \/ Shutdown) => IInv'
<1> SUFFICES ASSUME IInv, SIGINT \/ StopFeed \/ JoinFeed \/ JoinExec PROVE IInv'
  BY WriteReportIInv DEF Shutdown
<1> USE DEF SIGINT, StopFeed, JoinFeed, JoinExec, flags, threads, execs
<1>1. Bystander
  BY DEF Bystander
<1>2. TypeOK'
  BY Zenon DEF IInv, TypeOK
<1>3. ShutdownInv'
  BY DEF IInv, ShutdownInv, TypeOK
<1> QED
  BY <1>1, <1>2, <1>3, BystanderIInv

THEOREM Invariance == Spec => []IInv
<1>1. IInv /\ UNCHANGED vars => IInv'
  BY DEF IInv, vars, flags, threads, execs, TypeOK, ShutdownInv, Delivered
<1>2. IInv /\ [Next]_vars => IInv'
  BY <1>1, FeedIInv, ReplayIInv, ColdLoopIInv, ShutdownIInv DEF Next
<1> QED
  BY <1>2, InitIInv, PTL DEF Spec

(* No execution is lost without a count, applied twice or out of order,     *)
(* whatever the three threads do and wherever SIGINT or an error strikes.   *)
THEOREM ExecutionsAccountedCorrect == Spec => []ExecutionsAccounted
<1>1. IInv => ExecutionsAccounted
  <2> SUFFICES ASSUME IInv PROVE ExecutionsAccounted
    OBVIOUS
  <2>1. /\ applied \in Seq(1 .. MaxExecs) /\ execQueue \in Seq(1 .. MaxExecs)
        /\ Accounts(Delivered, lost, produced)
    BY DEF IInv, TypeOK
  <2>2. /\ Len(applied) \in Nat /\ Len(execQueue) \in Nat
        /\ Len(Delivered) = Len(applied) + Len(execQueue)
        /\ \A i \in 1 .. Len(applied) : Delivered[i] = applied[i]
        /\ \A i \in 1 .. Len(execQueue) : Delivered[Len(applied) + i] = execQueue[i]
    BY <2>1 DEF Delivered
  <2>3. Values(Delivered) = Applied \cup Queued
    <3>1. DOMAIN applied = 1 .. Len(applied) /\ DOMAIN execQueue = 1 .. Len(execQueue)
      BY <2>1
    <3>2. ASSUME NEW v \in Values(Delivered) PROVE v \in Applied \cup Queued
      <4>1. PICK i \in 1 .. Len(Delivered) : v = Delivered[i]
        BY DEF Values
      <4>2. CASE i \in 1 .. Len(applied)
        BY <2>2, <3>1, <4>1, <4>2 DEF Applied
      <4>3. CASE i - Len(applied) \in 1 .. Len(execQueue)
        <5>1. Delivered[i] = execQueue[i - Len(applied)]
          BY <2>2, <4>3
        <5> QED
          BY <3>1, <4>1, <4>3, <5>1 DEF Queued
      <4> QED
        BY <2>2, <4>2, <4>3
    <3>3. ASSUME NEW v \in Applied PROVE v \in Values(Delivered)
      BY <2>2, <3>1 DEF Applied, Values
    <3>4. ASSUME NEW v \in Queued PROVE v \in Values(Delivered)
      <4>1. PICK i \in 1 .. Len(execQueue) : v = execQueue[i]
        BY <3>1 DEF Queued
      <4>2. Len(applied) + i \in 1 .. Len(Delivered)
        BY <2>2
      <4> QED
        BY <2>2, <4>1, <4>2 DEF Values
    <3> QED
      BY <3>2, <3>3, <3>4
  <2>4. DOMAIN Delivered = 1 .. Len(Delivered)
    BY <2>1 DEF Accounts
  <2> QED
    BY <2>1, <2>3, <2>4 DEF ExecutionsAccounted, Accounts, Increasing, Delivered
<1> QED
  BY <1>1, Invariance, PTL

(* The report is written when both producers are done, and what it leaves   *)
(* out was dropped or still waits in execQueue.                             *)
THEOREM ReportIsFinalCorrect == Spec => []ReportIsFinal
<1>1. IInv => ReportIsFinal
  <2> SUFFICES ASSUME IInv, reported >= 0
               PROVE  /\ u_pc = "done" /\ x_pc = "done"
                      /\ produced = reported + Len(execQueue) + Cardinality(lost)
    BY DEF ReportIsFinal
  <2>1. u_pc = "done" /\ x_pc = "done" /\ reported = Len(applied)
    BY DEF IInv, ShutdownInv
  <2>2. Len(Delivered) = Len(applied) + Len(execQueue)
    BY DEF IInv, TypeOK, Delivered
  <2>3. Len(Delivered) + Cardinality(lost) = produced
    BY DEF IInv, Accounts
  <2> QED
    BY <2>1, <2>2, <2>3
<1> QED
  BY <1>1, Invariance, PTL

----------------------------------------------------------------------------
(* The metrics server has threads, flags and connections of its own; owner  *)
(* is where the thread that starts and stops it stands.                     *)
CONSTANT Clients
VARIABLES serving, acceptor, a_pc, c_pc, owner

Metrics == INSTANCE MetricsServer WITH running <- serving, m_pc <- owner

(* A connection waits for its thread only between accept() and the check of *)
(* running_ that follows it in the accept loop.                             *)
QueueInv ==
    /\ c_pc \in [Clients -> {"none", "queued", "handshake", "check", "sleep", "recheck",
                             "snapshot", "write", "close", "done"}]
    /\ \A c \in Clients : c_pc[c] = "queued" => a_pc = "accepted"
    /\ owner = "start" => a_pc = "none"
    /\ owner \in {"stopped", "destroyed", "exited"} => a_pc = "done"

LEMMA QueueStep ==
    ASSUME QueueInv, [Metrics!Next]_(Metrics!vars)
    PROVE  QueueInv'
<1> USE DEF QueueInv
<1>1. ASSUME \/ Metrics!start \/ Metrics!StartFails \/ Metrics!StopFlag
             \/ Metrics!StopClose \/ Metrics!StopJoin \/ Metrics!Destroy
      PROVE  QueueInv'
  BY <1>1 DEF Metrics!start, Metrics!StartFails, Metrics!StopFlag, Metrics!StopClose,
              Metrics!StopJoin, Metrics!Destroy
<1>2. ASSUME Metrics!ProcessExit PROVE QueueInv'
  BY <1>2 DEF Metrics!ProcessExit
<1>3. ASSUME Metrics!AcceptCheck \/ Metrics!AcceptFails PROVE QueueInv'
  BY <1>3 DEF Metrics!AcceptCheck, Metrics!AcceptFails
<1>4. ASSUME NEW c \in Clients, Metrics!AcceptClient(c) PROVE QueueInv'
  BY <1>4 DEF Metrics!AcceptClient
<1>5. ASSUME Metrics!Spawn PROVE QueueInv'
  BY <1>5 DEF Metrics!Spawn
<1>6. ASSUME NEW c \in Clients, Metrics!serveClient(c) PROVE QueueInv'
  <2>1. PICK to \in {"check", "done", "sleep", "close", "recheck", "snapshot", "write"} :
          /\ c_pc' = [c_pc EXCEPT ![c] = to]
          /\ UNCHANGED << a_pc, owner >>
    BY <1>6 DEF Metrics!serveClient, Metrics!Handshake, Metrics!LoopCheck, Metrics!Sleep,
                Metrics!Recheck, Metrics!Snapshot, Metrics!Write, Metrics!Close, Metrics!Step
  <2> QED
    BY <2>1
<1>7. ASSUME UNCHANGED Metrics!vars PROVE QueueInv'
  BY <1>7 DEF Metrics!vars
<1> QED
  BY <1>1, <1>2, <1>3, <1>4, <1>5, <1>6, <1>7
     DEF Metrics!Next, Metrics!Stop, Metrics!AcceptLoop, Metrics!AcceptAborted

(* Once stop() has returned the accept thread is gone, and no accepted      *)
(* connection is left without a decision.                                   *)
THEOREM StopIsCompleteCorrect == Metrics!Spec => []Metrics!StopIsComplete
<1>1. Metrics!Init => QueueInv
  BY DEF Metrics!Init, QueueInv
<1>2. QueueInv /\ [Metrics!Next]_(Metrics!vars) => QueueInv'
  BY QueueStep
<1>3. QueueInv => Metrics!StopIsComplete
  BY DEF QueueInv, Metrics!StopIsComplete
<1> QED
  BY <1>1, <1>2, <1>3, PTL DEF Metrics!Spec
============================================================================
