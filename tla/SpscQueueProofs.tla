-------------------------- MODULE SpscQueueProofs --------------------------
(* Proofs about SpscQueue and SpscMonitor for every capacity, item set and  *)
(* number of calls.                                                         *)
EXTENDS SpscMonitor, TLAPS

USE CapacityAssumption, MaxPushAssumption, NoItemAssumption

(* The two sums that bound what each thread can miss.  Every pop that the   *)
(* producer has not seen leaves InFlight + unseenPops as it was, which is   *)
(* why a stale head_ can only make push() refuse and never overwrite.       *)
ViewInv ==
    /\ InFlight \in Nat
    /\ unseenPushes <= InFlight
    /\ InFlight + unseenPops <= Capacity - 1
    /\ p_pc \in {"write", "publish"} => InFlight + unseenPops < Capacity - 1
    /\ c_pc \in {"read", "release"} => unseenPushes < InFlight

(* The ring between head_ and tail_ holds the unconsumed items in order.    *)
RingInv ==
    /\ tail = SlotOf(InFlight + 1)
    /\ \A i \in 1 .. InFlight : buffer[SlotOf(i)] = pushed[Len(popped) + i]
    /\ p_pc = "publish" => buffer[tail] = p_item
    /\ c_pc = "release" => c_item = buffer[head]

(* The inductive invariant.                                                 *)
IInv == TypeOK /\ ViewInv /\ RingInv /\ Fifo

----------------------------------------------------------------------------
(* Lengths and elements of an appended sequence, in the form SMT needs.     *)
LEMMA AppendFacts ==
    ASSUME NEW S, NEW s \in Seq(S), NEW e \in S
    PROVE  /\ Append(s, e) \in Seq(S)
           /\ Len(s) \in Nat
           /\ Len(Append(s, e)) = Len(s) + 1
           /\ \A i \in 1 .. Len(s) : Append(s, e)[i] = s[i]
           /\ Append(s, e)[Len(s) + 1] = e
OBVIOUS

(* Init establishes the invariant.                                          *)
LEMMA InitIInv == Init => IInv
<1> SUFFICES ASSUME Init PROVE IInv
  OBVIOUS
<1>1. TypeOK
  BY DEF Init, TypeOK, Index
<1>2. InFlight = 0
  BY DEF Init, InFlight
<1>3. ViewInv
  BY <1>2 DEF Init, ViewInv
<1>4. RingInv
  BY <1>2 DEF Init, RingInv, SlotOf
<1>5. Fifo
  BY DEF Init, Fifo
<1> QED
  BY <1>1, <1>3, <1>4, <1>5 DEF IInv

(* Every step preserves the types.                                          *)
LEMMA NextTypeOK == IInv /\ [Next]_vars => TypeOK'
<1> SUFFICES ASSUME IInv, [Next]_vars PROVE TypeOK'
  OBVIOUS
<1> USE DEF IInv, TypeOK
<1>1. ASSUME NEW x \in Items, PushBegin(x) PROVE TypeOK'
  BY <1>1 DEF PushBegin
<1>2. ASSUME NEW n \in Index, PushCheck(n) PROVE TypeOK'
  BY <1>2 DEF PushCheck, Index
<1>3. CASE PushWrite
  BY <1>3 DEF PushWrite
<1>4. CASE PushPublish
  BY <1>4, AppendFacts DEF PushPublish, NextIndex, Index
<1>5. CASE PopBegin
  BY <1>5 DEF PopBegin
<1>6. ASSUME NEW n \in Index, PopCheck(n) PROVE TypeOK'
  BY <1>6 DEF PopCheck, Index
<1>7. CASE PopRead
  BY <1>7 DEF PopRead
<1>8. CASE PopRelease
  BY <1>8, AppendFacts DEF PopRelease, NextIndex, Index
<1>9. ASSUME NEW n \in Index, Size(n) PROVE TypeOK'
  BY <1>9 DEF Size, SizeOf, Behind, Index
<1>10. CASE UNCHANGED vars
  BY <1>10 DEF vars
<1> QED
  BY <1>1, <1>2, <1>3, <1>4, <1>5, <1>6, <1>7, <1>8, <1>9, <1>10
     DEF Next, Producer, Pop

(* How the lengths of the histories, and so InFlight, move.                 *)
LEMMA InFlightMoves ==
    ASSUME IInv
    PROVE  /\ InFlight \in Int
           /\ PushPublish => InFlight' = InFlight + 1
           /\ PopRelease => InFlight' = InFlight - 1
           /\ UNCHANGED << pushed, popped >> => InFlight' = InFlight
<1>1. PushPublish => InFlight' = InFlight + 1
  BY AppendFacts DEF IInv, TypeOK, InFlight, PushPublish
<1>2. PopRelease => InFlight' = InFlight - 1
  BY AppendFacts DEF IInv, TypeOK, InFlight, PopRelease
<1> QED
  BY <1>1, <1>2 DEF IInv, TypeOK, InFlight

(* What the producer's and the consumer's index comparisons decide.         *)
LEMMA FullCheck ==
    ASSUME IInv, NEW n \in Index, n <= unseenPops
    PROVE  NextIndex(tail) = Behind(head, n) <=> InFlight + n = Capacity - 1
BY DEF IInv, TypeOK, ViewInv, RingInv, NextIndex, Behind, SlotOf, Index

LEMMA EmptyCheck ==
    ASSUME IInv, NEW n \in Index, n <= unseenPushes
    PROVE  head = Behind(tail, n) <=> InFlight = n
BY DEF IInv, TypeOK, ViewInv, RingInv, Behind, SlotOf, Index

(* Every step preserves the bounds on what the threads can miss.            *)
LEMMA NextViewInv == IInv /\ [Next]_vars => ViewInv'
<1> SUFFICES ASSUME IInv, [Next]_vars PROVE ViewInv'
  OBVIOUS
<1> USE InFlightMoves DEF IInv, TypeOK, ViewInv
<1>1. ASSUME NEW x \in Items, PushBegin(x) PROVE ViewInv'
  BY <1>1 DEF PushBegin
<1>2. ASSUME NEW n \in Index, PushCheck(n) PROVE ViewInv'
  BY <1>2, FullCheck DEF PushCheck, Index
<1>3. CASE PushWrite
  BY <1>3 DEF PushWrite
<1>4. CASE PushPublish
  BY <1>4 DEF PushPublish
<1>5. CASE PopBegin
  BY <1>5 DEF PopBegin
<1>6. ASSUME NEW n \in Index, PopCheck(n) PROVE ViewInv'
  BY <1>6, EmptyCheck DEF PopCheck, Index
<1>7. CASE PopRead
  BY <1>7 DEF PopRead
<1>8. CASE PopRelease
  BY <1>8 DEF PopRelease
<1>9. ASSUME NEW n \in Index, Size(n) PROVE ViewInv'
  BY <1>9 DEF Size, Index
<1>10. CASE UNCHANGED vars
  BY <1>10 DEF vars
<1> QED
  BY <1>1, <1>2, <1>3, <1>4, <1>5, <1>6, <1>7, <1>8, <1>9, <1>10
     DEF Next, Producer, Pop

(* Every step preserves the contents of the ring.                           *)
LEMMA NextRingInv == IInv /\ [Next]_vars => RingInv'
<1> SUFFICES ASSUME IInv, [Next]_vars PROVE RingInv'
  OBVIOUS
<1> USE InFlightMoves DEF IInv, TypeOK, ViewInv, RingInv, SlotOf, Index
<1>1. ASSUME NEW x \in Items, PushBegin(x) PROVE RingInv'
  BY Zenon, <1>1 DEF PushBegin
<1>2. ASSUME NEW n \in Index, PushCheck(n) PROVE RingInv'
  BY Zenon, <1>2 DEF PushCheck
<1>3. CASE PushWrite
  <2>1. InFlight' = InFlight /\ InFlight < Capacity - 1
    BY <1>3 DEF PushWrite
  <2>2. \A i \in 1 .. InFlight : SlotOf(i) \in Index \ {tail}
    BY <2>1
  <2>3. \A i \in 1 .. InFlight : buffer'[SlotOf(i)] = buffer[SlotOf(i)]
    BY <1>3, <2>2 DEF PushWrite
  <2>4. /\ buffer'[tail] = p_item
        /\ c_pc # "release" \/ buffer'[head] = buffer[head]
    BY <1>3, <2>1 DEF PushWrite
  <2> QED
    BY Zenon, <1>3, <2>1, <2>3, <2>4 DEF PushWrite
<1>4. CASE PushPublish
  <2>0. InFlight' = InFlight + 1 /\ InFlight < Capacity - 1 /\ head' = head
    BY <1>4 DEF PushPublish
  <2>1. tail' = SlotOf(InFlight + 1)'
    <3>1. tail' = NextIndex(SlotOf(InFlight + 1))
      BY <1>4 DEF PushPublish
    <3>2. SlotOf(InFlight + 1)' = SlotOf(InFlight + 2)
      <4>1. head \in Int /\ InFlight \in Int
        OBVIOUS
      <4>2. head' + (InFlight' + 1) = head + (InFlight + 2)
        BY <2>0, <4>1
      <4> QED
        BY ONLY <2>0, <4>1, <4>2, CapacityAssumption DEF SlotOf
    <3> QED
      BY <2>0, <3>1, <3>2 DEF NextIndex
  <2>2. ASSUME NEW i \in 1 .. InFlight'
        PROVE  (buffer[SlotOf(i)] = pushed[Len(popped) + i])'
    <3>0. SlotOf(i)' = SlotOf(i) /\ Len(popped)' = Len(popped)
      BY <1>4 DEF PushPublish
    <3>1. CASE i <= InFlight
      <4>1. Len(popped) + i \in 1 .. Len(pushed)
        BY <3>1 DEF InFlight
      <4>2. pushed'[Len(popped) + i] = pushed[Len(popped) + i]
        BY <1>4, <4>1, AppendFacts DEF PushPublish
      <4>3. i \in 1 .. InFlight
        BY <2>0, <3>1
      <4>4. buffer[SlotOf(i)] = pushed[Len(popped) + i]
        BY ONLY Zenon, IInv, <4>3 DEF IInv, RingInv
      <4> QED
        BY <1>4, <3>0, <4>2, <4>4 DEF PushPublish
    <3>2. CASE i = InFlight + 1
      <4>1. pushed'[Len(pushed) + 1] = p_item
        BY <1>4, AppendFacts DEF PushPublish
      <4>2. Len(popped) + i = Len(pushed) + 1
        BY <3>2 DEF InFlight
      <4> QED
        BY <1>4, <3>0, <3>2, <4>1, <4>2 DEF PushPublish
    <3> QED
      BY <2>0, <3>1, <3>2
  <2> QED
    BY Zenon, <1>4, <2>1, <2>2 DEF PushPublish
<1>5. CASE PopBegin
  BY Zenon, <1>5 DEF PopBegin
<1>6. ASSUME NEW n \in Index, PopCheck(n) PROVE RingInv'
  BY Zenon, <1>6 DEF PopCheck
<1>7. CASE PopRead
  BY Zenon, <1>7 DEF PopRead
<1>8. CASE PopRelease
  <2>0. InFlight' = InFlight - 1 /\ InFlight > 0 /\ head' = NextIndex(head)
    BY <1>8 DEF PopRelease
  <2>1. tail' = SlotOf(InFlight + 1)'
    BY <1>8, <2>0 DEF PopRelease, NextIndex
  <2>2. ASSUME NEW i \in 1 .. InFlight'
        PROVE  (buffer[SlotOf(i)] = pushed[Len(popped) + i])'
    <3>0. head \in Index /\ i \in 1 .. InFlight - 1 /\ InFlight \in 0 .. Capacity - 1
      BY <2>0
    <3>1. SlotOf(i)' = SlotOf(i + 1)
      BY ONLY <2>0, <3>0, CapacityAssumption DEF NextIndex, SlotOf, Index
    <3>2. Len(popped)' + i = Len(popped) + (i + 1) /\ i + 1 \in 1 .. InFlight
      BY <1>8, <2>0, AppendFacts DEF PopRelease
    <3> QED
      BY Zenon, <1>8, <3>1, <3>2 DEF PopRelease
  <2> QED
    BY Zenon, <1>8, <2>1, <2>2 DEF PopRelease
<1>9. ASSUME NEW n \in Index, Size(n) PROVE RingInv'
  BY Zenon, <1>9 DEF Size
<1>10. CASE UNCHANGED vars
  BY Zenon, <1>10 DEF vars
<1> QED
  BY <1>1, <1>2, <1>3, <1>4, <1>5, <1>6, <1>7, <1>8, <1>9, <1>10
     DEF Next, Producer, Pop

(* Every step preserves the order of delivery.                              *)
LEMMA NextFifo == IInv /\ [Next]_vars => Fifo'
<1> SUFFICES ASSUME IInv, [Next]_vars PROVE Fifo'
  OBVIOUS
<1>1. CASE PushPublish
  BY <1>1, AppendFacts DEF PushPublish, IInv, TypeOK, Fifo
<1>2. CASE PopRelease
  <2>1. InFlight \in Nat /\ InFlight > 0
    BY <1>2 DEF PopRelease, IInv, TypeOK, ViewInv
  <2>2. Len(popped) + 1 <= Len(pushed)
    BY <2>1 DEF InFlight, IInv, TypeOK
  <2>3. c_item = pushed[Len(popped) + 1]
    <3>1. SlotOf(1) = head
      BY DEF SlotOf, IInv, TypeOK, Index
    <3>2. buffer[SlotOf(1)] = pushed[Len(popped) + 1]
      BY <2>1 DEF IInv, RingInv
    <3> QED
      BY <1>2, <3>1, <3>2 DEF PopRelease, IInv, RingInv
  <2> QED
    BY <1>2, <2>2, <2>3, AppendFacts DEF PopRelease, IInv, TypeOK, Fifo
<1>3. CASE UNCHANGED << pushed, popped >>
  BY <1>3 DEF IInv, Fifo
<1> QED
  BY <1>1, <1>2, <1>3 DEF Next, Producer, Pop, vars, PushBegin, PushCheck,
     PushWrite, PopBegin, PopCheck, PopRead, Size

(* The invariant is inductive and holds throughout.                         *)
THEOREM Invariance == Spec => []IInv
<1>1. IInv /\ [Next]_vars => IInv'
  BY NextTypeOK, NextViewInv, NextRingInv, NextFifo DEF IInv
<1> QED
  BY InitIInv, <1>1, PTL DEF Spec

(* push()'s and pop()'s fields and locals keep their types.                 *)
THEOREM TypeCorrect == Spec => []TypeOK
BY Invariance, PTL DEF IInv

(* pop() returns exactly what push() accepted, in order, for every          *)
(* capacity and every interleaving, stale loads included.                   *)
THEOREM FifoCorrect == Spec => []Fifo
BY Invariance, PTL DEF IInv

(* At most capacity_ - 1 items are in flight.                               *)
THEOREM OneSlotStaysFreeCorrect == Spec => []OneSlotStaysFree
<1>1. IInv => OneSlotStaysFree
  BY DEF IInv, TypeOK, ViewInv, RingInv, OneSlotStaysFree, SizeOf, SlotOf, Index
<1> QED
  BY Invariance, <1>1, PTL

(* The plain accesses to a slot never race.                                 *)
THEOREM NoSlotRaceCorrect == Spec => []NoSlotRace
<1>1. IInv => NoSlotRace
  BY DEF IInv, TypeOK, ViewInv, RingInv, NoSlotRace, SlotOf, Index
<1> QED
  BY Invariance, <1>1, PTL

(* push() refuses an item only when the ring is full in the producer's      *)
(* view.                                                                    *)
THEOREM DropOnlyWhenFullCorrect == Spec => DropOnlyWhenFull
<1>1. IInv /\ [Next]_vars
        => [(p_pc = "check" /\ p_pc' = "idle")
                => InFlight + unseenPops' = Capacity - 1]_vars
  <2> SUFFICES ASSUME IInv, Next, p_pc = "check", p_pc' = "idle"
               PROVE  InFlight + unseenPops' = Capacity - 1
    BY DEF vars
  <2>1. PICK n \in Index : PushCheck(n)
    BY DEF Next, Producer, Pop, PushBegin, PushWrite, PushPublish, PopBegin,
       PopCheck, PopRead, PopRelease, Size
  <2> QED
    BY <2>1, FullCheck DEF PushCheck
<1> QED
  BY Invariance, <1>1, PTL DEF Spec, DropOnlyWhenFull

(* The ring implements BoundedFifo with room for capacity_ - 1 items.       *)
THEOREM Refinement == Spec => ImplementsBoundedFifo
<1>1. Init => Abstract!Init
  BY DEF Init, Abstract!Init
<1>2. IInv /\ [Next]_vars => [Abstract!Next]_<< pushed, popped >>
  <2> SUFFICES ASSUME IInv, [Next]_vars
               PROVE  [Abstract!Next]_<< pushed, popped >>
    OBVIOUS
  <2>1. CASE PushPublish
    <3>1. Abstract!Held < Capacity - 1 /\ p_item \in Items
      BY <2>1 DEF PushPublish, IInv, TypeOK, ViewInv, InFlight, Abstract!Held
    <3> QED
      BY <2>1, <3>1 DEF PushPublish, Abstract!Next, Abstract!Push
  <2>2. CASE PopRelease
    <3>1. Abstract!Held > 0
      BY <2>2 DEF PopRelease, IInv, TypeOK, ViewInv, InFlight, Abstract!Held
    <3>2. c_item = pushed[Len(popped) + 1]
      <4>1. SlotOf(1) = head
        BY DEF SlotOf, IInv, TypeOK, Index
      <4>2. buffer[SlotOf(1)] = pushed[Len(popped) + 1]
        BY <2>2 DEF PopRelease, IInv, TypeOK, ViewInv, RingInv
      <4> QED
        BY <2>2, <4>1, <4>2 DEF PopRelease, IInv, RingInv
    <3> QED
      BY <2>2, <3>1, <3>2 DEF PopRelease, Abstract!Next, Abstract!Pop
  <2>3. CASE UNCHANGED << pushed, popped >>
    BY <2>3
  <2> QED
    BY <2>1, <2>2, <2>3 DEF Next, Producer, Pop, vars, PushBegin, PushCheck,
       PushWrite, PopBegin, PopCheck, PopRead, Size
<1> QED
  BY Invariance, <1>1, <1>2, PTL DEF Spec, ImplementsBoundedFifo, Abstract!Spec

----------------------------------------------------------------------------
(* The metrics thread                                                       *)

(* size() on the metrics thread only reads: with it the queue behaves as    *)
(* without, and every theorem above holds of MSpec.                         *)
THEOREM MonitorOnlyReads == MSpec => FairSpec
<1>1. MInit => Init
  BY DEF MInit
<1>2. [MNext]_<< vars, mvars >> => [Next]_vars
  BY DEF MNext, QueueStep, Monitor, MonitorLoadTail, MonitorLoadHead, MonitorReturn
<1> QED
  BY <1>1, <1>2, PTL DEF MSpec, FairSpec, Spec

(* As long as no index has moved, what was loaded is still current.         *)
QuietTail == m_quiet /\ m_tail # -1 => m_tail = tail
QuietHead == m_quiet /\ m_head # -1 => m_head = head
QuietInv == QuietTail /\ QuietHead

LEMMA QuietStep ==
    ASSUME QuietInv, [MNext]_<< vars, mvars >>
    PROVE  QuietInv'
<1>1. ASSUME QueueStep PROVE QuietInv'
  <2>1. /\ UNCHANGED << m_tail, m_head >>
        /\ m_quiet' => m_quiet /\ (\/ m_tail = -1 /\ m_head = -1
                                   \/ UNCHANGED << head, tail >>)
    BY Zenon, <1>1 DEF QueueStep
  <2>2. QuietTail'
    BY <2>1 DEF QuietInv, QuietTail
  <2>3. QuietHead'
    BY <2>1 DEF QuietInv, QuietHead
  <2> QED
    BY <2>2, <2>3 DEF QuietInv
<1>2. ASSUME MonitorLoadTail PROVE QuietInv'
  BY <1>2 DEF MonitorLoadTail, vars, QuietInv, QuietTail, QuietHead
<1>3. ASSUME MonitorLoadHead PROVE QuietInv'
  BY <1>3 DEF MonitorLoadHead, vars, QuietInv, QuietTail, QuietHead
<1>4. ASSUME MonitorReturn PROVE QuietInv'
  BY <1>4 DEF MonitorReturn, QuietInv, QuietTail, QuietHead
<1>5. ASSUME UNCHANGED << vars, mvars >> PROVE QuietInv'
  BY <1>5 DEF vars, mvars, QuietInv, QuietTail, QuietHead
<1> QED
  BY <1>1, <1>2, <1>3, <1>4, <1>5 DEF MNext, Monitor

(* The depth the metrics thread reports is exact whenever neither index     *)
(* moved between the two loads, in whichever order they took effect.        *)
THEOREM QuietSampleIsExactCorrect == MSpec => QuietSampleIsExact
<1>1. MInit => QuietInv
  BY DEF MInit, QuietInv, QuietTail, QuietHead
<1>2. QuietInv /\ [MNext]_<< vars, mvars >> => QuietInv'
  BY QuietStep
<1>3. OneSlotStaysFree /\ QuietInv
        => [MonitorReturn /\ m_quiet => sampled' = InFlight]_<< vars, mvars >>
  <2> SUFFICES ASSUME OneSlotStaysFree, QuietInv, MonitorReturn, m_quiet
               PROVE  sampled' = InFlight
    OBVIOUS
  <2>1. m_tail = tail /\ m_head = head
    BY DEF MonitorReturn, QuietInv, QuietTail, QuietHead
  <2>2. sampled' = SizeOf(m_tail, m_head)
    BY DEF MonitorReturn
  <2> QED
    BY <2>1, <2>2 DEF OneSlotStaysFree
<1> QED
  BY <1>1, <1>2, <1>3, MonitorOnlyReads, OneSlotStaysFreeCorrect, PTL
     DEF MSpec, FairSpec, QuietSampleIsExact
============================================================================
