---------------------------- MODULE SpscMonitor ----------------------------
(***************************************************************************)
(* SpscQueue with the third thread that touches it: a metrics client calls *)
(* size() for its JSON snapshot while producer and consumer run.  The two  *)
(* relaxed loads of size() are separate steps and may take effect in       *)
(* either order.                                                           *)
(***************************************************************************)
EXTENDS SpscQueue

VARIABLES
    m_tail,         \* loaded tail_, or -1 before the load
    m_head,         \* loaded head_, or -1 before the load
    sampled,        \* the last result of size() on the metrics thread
    m_quiet         \* history: neither index moved since the first of the loads

mvars == << m_tail, m_head, sampled, m_quiet >>

MInit == Init /\ m_tail = -1 /\ m_head = -1 /\ sampled = 0 /\ m_quiet = TRUE

MonitorLoadTail ==
    /\ m_tail = -1
    /\ m_tail' = tail
    /\ UNCHANGED << vars, m_head, sampled, m_quiet >>

MonitorLoadHead ==
    /\ m_head = -1
    /\ m_head' = head
    /\ UNCHANGED << vars, m_tail, sampled, m_quiet >>

MonitorReturn ==
    /\ m_tail # -1 /\ m_head # -1
    /\ sampled' = SizeOf(m_tail, m_head)
    /\ m_tail' = -1 /\ m_head' = -1 /\ m_quiet' = TRUE
    /\ UNCHANGED vars

Monitor == MonitorLoadTail \/ MonitorLoadHead \/ MonitorReturn

(* A step of the producer or the consumer.                                  *)
QueueStep ==
    /\ Next
    /\ m_quiet' = (m_quiet /\ (\/ m_tail = -1 /\ m_head = -1
                               \/ UNCHANGED << head, tail >>))
    /\ UNCHANGED << m_tail, m_head, sampled >>

MNext == QueueStep \/ Monitor

(* The fairness of the two threads; the monitor may never come.             *)
MSpec == MInit /\ [][MNext]_<< vars, mvars >> /\ Fairness

----------------------------------------------------------------------------
(* A sample during which neither index moved is the exact depth, wrapped    *)
(* ring or not, in whichever order the two loads took effect.               *)
QuietSampleIsExact ==
    [][MonitorReturn /\ m_quiet => sampled' = InFlight]_<< vars, mvars >>
============================================================================
