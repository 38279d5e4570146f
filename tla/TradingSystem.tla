--------------------------- MODULE TradingSystem ---------------------------
(***************************************************************************)
(* The process of src/main.cpp: the UDP thread (UDPFeedSubscriber feeding  *)
(* MarketDispatcher), the execution thread (FixSessionReader feeding       *)
(* OrderBook), the cold loop on the main thread, SIGINT and the shutdown   *)
(* sequence.  The queues are the bounded FIFO queues that SpscQueue        *)
(* implements.  Ticks are not told apart, so the tick queue is its depth   *)
(* and the feed may run for ever; executions are numbered in the order in  *)
(* which the matching engine reports them.                                 *)
(***************************************************************************)
EXTENDS Integers, Sequences, FiniteSets, FiniteSetsExt

CONSTANTS
    TickBound,      \* items the tick queue can hold (99 999)
    ExecBound,      \* items the execution queue can hold (99 999)
    MaxExecs        \* bound: executions the FIX file produces at most

ASSUME BoundsAssumption == /\ TickBound \in Nat /\ ExecBound \in Nat
                           /\ MaxExecs \in Nat

VARIABLES
    running,        \* the flag handleSignal() clears
    feedRunning,    \* UDPFeedSubscriber::running_
    u_pc,           \* UDP thread: "starting", "check", "recv", "done"
    x_pc,           \* execution thread: "opening", "replaying", "done"
    m_pc,           \* main thread, see ColdLoop and Shutdown
    tickDepth,      \* unconsumed ticks in tickQueue
    execQueue,      \* execQueue
    produced,       \* executions reported by the order book so far
    lost,           \* executions counted in droppedExecs
    applied,        \* executions given to PositionManager, in order
    maxExecQueueDepth,  \* the cold loop's sample of the execution queue's depth
    reported        \* number of executions in the final report, -1 before it

threads == << u_pc, x_pc, m_pc >>
flags == << running, feedRunning >>
execs == << execQueue, produced, lost >>
vars == << flags, threads, tickDepth, execs, applied, maxExecQueueDepth, reported >>

Init ==
    /\ running = TRUE
    /\ feedRunning = FALSE
    /\ u_pc = "starting" /\ x_pc = "opening" /\ m_pc = "starting"
    /\ tickDepth = 0
    /\ execQueue = << >>
    /\ produced = 0
    /\ lost = {}
    /\ applied = << >>
    /\ maxExecQueueDepth = 0
    /\ reported = -1

(* exit() on the UDP thread, and std::terminate() for an exception nobody   *)
(* catches on the other two, end the whole process.                         *)
Die ==
    /\ u_pc' = "dead" /\ x_pc' = "dead" /\ m_pc' = "dead"
    /\ UNCHANGED << flags, tickDepth, execs, applied, maxExecQueueDepth, reported >>

SIGINT ==
    /\ running /\ m_pc # "dead"
    /\ running' = FALSE
    /\ UNCHANGED << feedRunning, threads, tickDepth, execs, applied, maxExecQueueDepth, reported >>

----------------------------------------------------------------------------
(* The UDP thread: UDPFeedSubscriber::start().                              *)

(* The socket is bound, then running_ is set, whatever stop() did before.   *)
FeedStart ==
    /\ u_pc = "starting"
    /\ feedRunning' = TRUE
    /\ u_pc' = "check"
    /\ UNCHANGED << running, x_pc, m_pc, tickDepth, execs, applied, maxExecQueueDepth, reported >>

BindFails == u_pc = "starting" /\ Die

(* Mutant of FeedCheck: the receive loop does not look at running_.         *)
FeedCheckForever ==
    /\ u_pc = "check"
    /\ u_pc' = "recv"
    /\ UNCHANGED << flags, x_pc, m_pc, tickDepth, execs, applied, maxExecQueueDepth, reported >>

FeedCheck ==
    /\ u_pc = "check"
    /\ u_pc' = IF feedRunning THEN "recv" ELSE "done"
    /\ UNCHANGED << flags, x_pc, m_pc, tickDepth, execs, applied, maxExecQueueDepth, reported >>

(* recvfrom() returns a tick of a subscribed symbol: tickCallback pushes it *)
(* or, if the queue is full, drops it.                                      *)
ReceiveTick ==
    /\ u_pc = "recv"
    /\ tickDepth' = IF tickDepth < TickBound THEN tickDepth + 1 ELSE tickDepth
    /\ u_pc' = "check"
    /\ UNCHANGED << flags, x_pc, m_pc, execs, applied, maxExecQueueDepth, reported >>

(* A short datagram, or a tick of a symbol nobody subscribed to.            *)
ReceiveOther ==
    /\ u_pc = "recv"
    /\ u_pc' = "check"
    /\ UNCHANGED << flags, x_pc, m_pc, tickDepth, execs, applied, maxExecQueueDepth, reported >>

RecvFails ==
    /\ u_pc = "recv"
    /\ u_pc' = "done"
    /\ UNCHANGED << flags, x_pc, m_pc, tickDepth, execs, applied, maxExecQueueDepth, reported >>

----------------------------------------------------------------------------
(* The execution thread: replay of the FIX file into the order book.        *)

OpenFile ==
    /\ x_pc = "opening"
    /\ x_pc' = "replaying"
    /\ UNCHANGED << flags, u_pc, m_pc, tickDepth, execs, applied, maxExecQueueDepth, reported >>

OpenFails == x_pc = "opening" /\ Die

(* Mutant of Execute: a dropped execution is not counted.                   *)
ExecuteDropsSilently ==
    /\ x_pc = "replaying"
    /\ produced < MaxExecs
    /\ produced' = produced + 1
    /\ execQueue' = IF Len(execQueue) < ExecBound THEN Append(execQueue, produced + 1)
                    ELSE execQueue
    /\ UNCHANGED << flags, threads, tickDepth, lost, applied, maxExecQueueDepth, reported >>

(* The order book reports an execution; the callback pushes or drops it.    *)
Execute ==
    /\ x_pc = "replaying"
    /\ produced < MaxExecs
    /\ produced' = produced + 1
    /\ IF Len(execQueue) < ExecBound
       THEN execQueue' = Append(execQueue, produced + 1) /\ UNCHANGED lost
       ELSE lost' = lost \cup {produced + 1} /\ UNCHANGED execQueue
    /\ UNCHANGED << flags, threads, tickDepth, applied, maxExecQueueDepth, reported >>

(* The file ends.  Nobody calls FixSessionReader::stop(): the replay goes   *)
(* on after SIGINT.                                                         *)
EndOfFile ==
    /\ x_pc = "replaying"
    /\ x_pc' = "done"
    /\ UNCHANGED << flags, u_pc, m_pc, tickDepth, execs, applied, maxExecQueueDepth, reported >>

----------------------------------------------------------------------------
(* The main thread: the cold loop drains both queues, ticks first.          *)

(* metricsServer.start(), after both threads have been started; it throws   *)
(* when its port is taken.                                                  *)
MetricsStart ==
    /\ m_pc = "starting"
    /\ m_pc' = "check"
    /\ UNCHANGED << flags, u_pc, x_pc, tickDepth, execs, applied, maxExecQueueDepth, reported >>

MetricsFails == m_pc = "starting" /\ Die

(* while (running), and the sample of the depth at the loop's top.          *)
CheckRunning ==
    /\ m_pc = "check"
    /\ IF running
       THEN /\ m_pc' = "ticks"
            /\ maxExecQueueDepth' = Max({maxExecQueueDepth, Len(execQueue)})
       ELSE /\ m_pc' = "stopFeed"
            /\ UNCHANGED maxExecQueueDepth
    /\ UNCHANGED << flags, u_pc, x_pc, tickDepth, execs, applied, reported >>

PopTick ==
    /\ m_pc = "ticks"
    /\ IF tickDepth > 0 THEN tickDepth' = tickDepth - 1 /\ UNCHANGED m_pc
                        ELSE m_pc' = "execs" /\ UNCHANGED tickDepth
    /\ UNCHANGED << flags, u_pc, x_pc, execs, applied, maxExecQueueDepth, reported >>

(* Mutant of PopExec: the last waiting execution is left in the queue.      *)
PopExecLeavesOne ==
    /\ m_pc = "execs"
    /\ IF Len(execQueue) > 1
       THEN /\ applied' = Append(applied, Head(execQueue))
            /\ execQueue' = Tail(execQueue)
            /\ UNCHANGED m_pc
       ELSE /\ m_pc' = "timer"
            /\ UNCHANGED << applied, execQueue >>
    /\ UNCHANGED << flags, u_pc, x_pc, tickDepth, produced, lost, maxExecQueueDepth, reported >>

PopExec ==
    /\ m_pc = "execs"
    /\ IF execQueue # << >>
       THEN /\ applied' = Append(applied, Head(execQueue))
            /\ execQueue' = Tail(execQueue)
            /\ UNCHANGED m_pc
       ELSE /\ m_pc' = "timer"
            /\ UNCHANGED << applied, execQueue >>
    /\ UNCHANGED << flags, u_pc, x_pc, tickDepth, produced, lost, maxExecQueueDepth, reported >>

(* Less than five seconds since the last dashboard.                         *)
NoDashboard ==
    /\ m_pc = "timer"
    /\ m_pc' = "check"
    /\ UNCHANGED << flags, u_pc, x_pc, tickDepth, execs, applied, maxExecQueueDepth, reported >>

(* The dashboard prints the sampled depth and starts the samples afresh.    *)
Dashboard ==
    /\ m_pc = "timer"
    /\ m_pc' = "check"
    /\ maxExecQueueDepth' = 0
    /\ UNCHANGED << flags, u_pc, x_pc, tickDepth, execs, applied, reported >>

ColdLoop == \/ MetricsStart \/ MetricsFails
            \/ CheckRunning \/ PopTick \/ PopExec \/ NoDashboard \/ Dashboard

(* subscriber.stop(); the metrics server has been stopped before.           *)
StopFeed ==
    /\ m_pc = "stopFeed"
    /\ feedRunning' = FALSE
    /\ m_pc' = "joinFeed"
    /\ UNCHANGED << running, u_pc, x_pc, tickDepth, execs, applied, maxExecQueueDepth, reported >>

JoinFeed ==
    /\ m_pc = "joinFeed" /\ u_pc = "done"
    /\ m_pc' = "joinExec"
    /\ UNCHANGED << flags, u_pc, x_pc, tickDepth, execs, applied, maxExecQueueDepth, reported >>

(* Mutant of JoinExec: the execution thread is not waited for.              *)
JoinExecDetaches ==
    /\ m_pc = "joinExec"
    /\ m_pc' = "report"
    /\ UNCHANGED << flags, u_pc, x_pc, tickDepth, execs, applied, maxExecQueueDepth, reported >>

JoinExec ==
    /\ m_pc = "joinExec" /\ x_pc = "done"
    /\ m_pc' = "report"
    /\ UNCHANGED << flags, u_pc, x_pc, tickDepth, execs, applied, maxExecQueueDepth, reported >>

(* final_pnl_report.txt lists the positions as they are.                    *)
WriteReport ==
    /\ m_pc = "report"
    /\ reported' = Len(applied)
    /\ m_pc' = "exited"
    /\ UNCHANGED << flags, u_pc, x_pc, tickDepth, execs, applied, maxExecQueueDepth >>

Shutdown == StopFeed \/ JoinFeed \/ JoinExec \/ WriteReport

----------------------------------------------------------------------------
Feed == FeedStart \/ BindFails \/ FeedCheck
Receive == ReceiveTick \/ ReceiveOther \/ RecvFails
Replay == OpenFile \/ OpenFails \/ Execute \/ EndOfFile

Next == SIGINT \/ Feed \/ Receive \/ Replay \/ ColdLoop \/ Shutdown

Spec == Init /\ [][Next]_vars

(* Every thread that can take a step is scheduled.  Packets are not a step  *)
(* of the process: recvfrom() may block for ever.                           *)
FairSpec ==
    /\ Spec
    /\ WF_vars(Feed) /\ WF_vars(Replay) /\ WF_vars(ColdLoop) /\ WF_vars(Shutdown)

(* The exchange keeps sending.                                              *)
BusyFeedSpec == FairSpec /\ WF_vars(Receive)
----------------------------------------------------------------------------
Queued == {execQueue[i] : i \in DOMAIN execQueue}
Applied == {applied[i] : i \in DOMAIN applied}

(* Every variable keeps its type, and the queues their bounds.              *)
TypeOK ==
    /\ running \in BOOLEAN /\ feedRunning \in BOOLEAN
    /\ u_pc \in {"starting", "check", "recv", "done", "dead"}
    /\ x_pc \in {"opening", "replaying", "done", "dead"}
    /\ m_pc \in {"starting", "check", "ticks", "execs", "timer", "stopFeed", "joinFeed",
                 "joinExec", "report", "exited", "dead"}
    /\ tickDepth \in 0..TickBound
    /\ execQueue \in Seq(1..MaxExecs) /\ Len(execQueue) <= ExecBound
    /\ produced \in 0..MaxExecs
    /\ lost \subseteq 1..MaxExecs
    /\ applied \in Seq(1..MaxExecs)
    /\ maxExecQueueDepth \in 0..ExecBound
    /\ reported \in -1..MaxExecs

(* Every execution the matching engine reported is in exactly one place:    *)
(* applied to the positions, waiting in execQueue, or counted as dropped.   *)
(* What was applied and what waits are in the order of the matches, with    *)
(* none twice, across the two threads and the shutdown.                     *)
ExecutionsAccounted ==
    /\ Applied \cup Queued \cup lost = 1..produced
    /\ (Applied \cup Queued) \cap lost = {}
    /\ LET delivered == applied \o execQueue
       IN \A i, j \in DOMAIN delivered : i < j => delivered[i] < delivered[j]

(* The report is written when both producers have ended, so no execution    *)
(* arrives after it, and every execution missing from it was either dropped *)
(* or is still queued.                                                      *)
ReportIsFinal ==
    reported >= 0 =>
        /\ u_pc = "done" /\ x_pc = "done"
        /\ produced = reported + Len(execQueue) + Cardinality(lost)

(* README.md says the process drains its queues before it writes            *)
(* final_pnl_report.txt and exits.                                          *)
DrainedBeforeReport == reported >= 0 => Queued = {} /\ tickDepth = 0

(* An execution that waits in the queue is applied, as long as the drain of *)
(* the tick queue comes to an end again and again and nobody stops the      *)
(* process: the cold loop never passes over a waiting execution.            *)
WaitingIsApplied ==
    []<>(m_pc = "execs") =>
        \A i \in 1..MaxExecs : i \in Queued ~> (i \in Applied)

(* A stop() that comes after the receive loop has begun ends it, "on its    *)
(* next iteration" (udp_feed_subscriber.h): both joins return and the       *)
(* report is written.                                                       *)
StopIsHeard ==
    (m_pc = "stopFeed" /\ u_pc # "starting") ~> (m_pc \in {"exited", "dead"})

(* udp_feed_subscriber.h: start() "runs until stop() is called".  After     *)
(* stop() the UDP thread ends.                                              *)
StopEndsTheFeed == (m_pc = "joinFeed") ~> (u_pc \in {"done", "dead"})
============================================================================
