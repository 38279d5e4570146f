----------------------------- MODULE SpscQueue -----------------------------
(***************************************************************************)
(* The lock-free single-producer single-consumer ring of                   *)
(* libs/utils/include/spsc_queue.h, one action per atomic load, atomic     *)
(* store or plain slot access.                                             *)
(*                                                                         *)
(* head_ and tail_ are C++ atomics.  A thread that loads the index the     *)
(* other thread stores need not see the newest store: coherence only       *)
(* forbids it to go back behind a store it has already seen.  `unseenPops' *)
(* counts the stores to head_ that the producer has not observed,          *)
(* `unseenPushes' the stores to tail_ that the consumer has not; a load    *)
(* lowers the count to any smaller value.  A thread always sees its own    *)
(* index exactly.                                                          *)
(***************************************************************************)
EXTENDS Integers, Sequences

CONSTANTS
    Capacity,       \* capacity_, fixed by the constructor
    Items,          \* the values that travel through the queue
    NoItem,         \* content of a slot or a local before its first write
    MaxPush         \* bound: push() calls in one behaviour

ASSUME CapacityAssumption == Capacity \in Nat \ {0}
ASSUME MaxPushAssumption == MaxPush \in Nat
ASSUME NoItemAssumption == NoItem \notin Items

VARIABLES
    head,           \* head_
    tail,           \* tail_
    buffer,         \* buffer_
    unseenPops,     \* stores to head_ the producer has not observed
    unseenPushes,   \* stores to tail_ the consumer has not observed
    p_pc,           \* producer: "idle", "check", "write", "publish"
    p_item,         \* argument of push()
    c_pc,           \* consumer: "idle", "check", "read", "release"
    c_item,         \* pop()'s out parameter
    calls,          \* number of push() calls so far (bounded by MaxPush)
    pushed,         \* history: items whose push() returned true
    popped,         \* history: items whose pop() returned true
    reported        \* the consumer's last size() result

vars == << head, tail, buffer, unseenPops, unseenPushes, p_pc, p_item, c_pc,
           c_item, calls, pushed, popped, reported >>

Index == 0 .. Capacity - 1

(* (i + 1) % capacity_ and its inverse, for an index i.                     *)
NextIndex(i) == IF i + 1 = Capacity THEN 0 ELSE i + 1

(* The index n stores before index i, for n < capacity_: what a load that   *)
(* misses the last n stores returns.                                        *)
Behind(i, n) == IF n <= i THEN i - n ELSE i - n + Capacity

(* Mutant of SizeOf: the wrapped case subtracts the wrong way round.        *)
SizeOfUnwrapped(t, h) == IF t >= h THEN t - h ELSE h - t

(* size() on a given pair of loaded indices.                                *)
SizeOf(t, h) == IF t >= h THEN t - h ELSE Capacity - h + t

Init ==
    /\ head = 0 /\ tail = 0
    /\ buffer = [i \in Index |-> NoItem]
    /\ unseenPops = 0 /\ unseenPushes = 0
    /\ p_pc = "idle" /\ p_item = NoItem
    /\ c_pc = "idle" /\ c_item = NoItem
    /\ calls = 0
    /\ pushed = << >> /\ popped = << >>
    /\ reported = 0

----------------------------------------------------------------------------
(* The producer: push(item).                                                *)

(* push() is entered; the relaxed load of tail_ is of the producer's own    *)
(* index and is exact.                                                      *)
PushBegin(x) ==
    /\ p_pc = "idle"
    /\ calls < MaxPush
    /\ calls' = calls + 1
    /\ p_item' = x
    /\ p_pc' = "check"
    /\ UNCHANGED << head, tail, buffer, unseenPops, unseenPushes, c_pc,
                    c_item, pushed, popped, reported >>

(* Mutant of PushCheck: push() does not look for a full ring.               *)
PushCheckIgnoresFull(n) ==
    /\ p_pc = "check"
    /\ n <= unseenPops
    /\ unseenPops' = n
    /\ p_pc' = "write"
    /\ UNCHANGED << head, tail, buffer, unseenPushes, p_item, c_pc, c_item,
                    calls, pushed, popped, reported >>

(* Mutant of PushCheck: two slots are kept free.                            *)
PushCheckKeepsTwo(n) ==
    /\ p_pc = "check"
    /\ n <= unseenPops
    /\ unseenPops' = n
    /\ p_pc' = IF Behind(head, n) \in {NextIndex(tail), NextIndex(NextIndex(tail))}
               THEN "idle" ELSE "write"
    /\ UNCHANGED << head, tail, buffer, unseenPushes, p_item, c_pc, c_item,
                    calls, pushed, popped, reported >>

(* The acquire load of head_ misses the last n stores; a full ring makes    *)
(* push() return false.                                                     *)
PushCheck(n) ==
    /\ p_pc = "check"
    /\ n <= unseenPops
    /\ unseenPops' = n
    /\ p_pc' = IF NextIndex(tail) = Behind(head, n) THEN "idle" ELSE "write"
    /\ UNCHANGED << head, tail, buffer, unseenPushes, p_item, c_pc, c_item,
                    calls, pushed, popped, reported >>

PushWrite ==
    /\ p_pc = "write"
    /\ buffer' = [buffer EXCEPT ![tail] = p_item]
    /\ p_pc' = "publish"
    /\ UNCHANGED << head, tail, unseenPops, unseenPushes, p_item, c_pc,
                    c_item, calls, pushed, popped, reported >>

(* The release store of tail_; push() returns true.                         *)
PushPublish ==
    /\ p_pc = "publish"
    /\ tail' = NextIndex(tail)
    /\ unseenPushes' = unseenPushes + 1
    /\ pushed' = Append(pushed, p_item)
    /\ p_pc' = "idle"
    /\ UNCHANGED << head, buffer, unseenPops, p_item, c_pc, c_item, calls,
                    popped, reported >>

----------------------------------------------------------------------------
(* The consumer: pop(item) and, between pops, size().                       *)

PopBegin ==
    /\ c_pc = "idle"
    /\ c_pc' = "check"
    /\ UNCHANGED << head, tail, buffer, unseenPops, unseenPushes, p_pc,
                    p_item, c_item, calls, pushed, popped, reported >>

(* Mutant of PopCheck: pop() does not look for an empty ring.               *)
PopCheckIgnoresEmpty(n) ==
    /\ c_pc = "check"
    /\ n <= unseenPushes
    /\ unseenPushes' = n
    /\ c_pc' = "read"
    /\ UNCHANGED << head, tail, buffer, unseenPops, p_pc, p_item, c_item,
                    calls, pushed, popped, reported >>

(* Mutant of PopCheck: the last item counts as none.                        *)
PopCheckLeavesOne(n) ==
    /\ c_pc = "check"
    /\ n <= unseenPushes
    /\ unseenPushes' = n
    /\ c_pc' = IF Behind(tail, n) \in {head, NextIndex(head)} THEN "idle" ELSE "read"
    /\ UNCHANGED << head, tail, buffer, unseenPops, p_pc, p_item, c_item,
                    calls, pushed, popped, reported >>

(* The acquire load of tail_ misses the last n stores; an empty ring makes  *)
(* pop() return false.                                                      *)
PopCheck(n) ==
    /\ c_pc = "check"
    /\ n <= unseenPushes
    /\ unseenPushes' = n
    /\ c_pc' = IF head = Behind(tail, n) THEN "idle" ELSE "read"
    /\ UNCHANGED << head, tail, buffer, unseenPops, p_pc, p_item, c_item,
                    calls, pushed, popped, reported >>

(* Mutant of PopRead: the item comes from the slot after head_.             *)
PopReadAhead ==
    /\ c_pc = "read"
    /\ c_item' = buffer[NextIndex(head)]
    /\ c_pc' = "release"
    /\ UNCHANGED << head, tail, buffer, unseenPops, unseenPushes, p_pc,
                    p_item, calls, pushed, popped, reported >>

PopRead ==
    /\ c_pc = "read"
    /\ c_item' = buffer[head]
    /\ c_pc' = "release"
    /\ UNCHANGED << head, tail, buffer, unseenPops, unseenPushes, p_pc,
                    p_item, calls, pushed, popped, reported >>

(* The release store of head_; pop() returns true.                          *)
PopRelease ==
    /\ c_pc = "release"
    /\ head' = NextIndex(head)
    /\ unseenPops' = unseenPops + 1
    /\ popped' = Append(popped, c_item)
    /\ c_pc' = "idle"
    /\ UNCHANGED << tail, buffer, unseenPushes, p_pc, p_item, c_item, calls,
                    pushed, reported >>

(* size() called on the consumer's thread, as the cold loop does to sample  *)
(* the queue depth: tail_ may be stale, head_ is its own.                   *)
Size(n) ==
    /\ c_pc = "idle"
    /\ n <= unseenPushes
    /\ unseenPushes' = n
    /\ reported' = SizeOf(Behind(tail, n), head)
    /\ UNCHANGED << head, tail, buffer, unseenPops, p_pc, p_item, c_pc,
                    c_item, calls, pushed, popped >>

----------------------------------------------------------------------------
Producer ==
    \/ \E x \in Items : PushBegin(x)
    \/ \E n \in Index : PushCheck(n)
    \/ PushWrite
    \/ PushPublish

Pop ==
    \/ PopBegin
    \/ \E n \in Index : PopCheck(n)
    \/ PopRead
    \/ PopRelease

Next == Producer \/ Pop \/ \E n \in Index : Size(n)

Spec == Init /\ [][Next]_vars

(* Both threads run for as long as the program does: the producer finishes  *)
(* a push() it has begun and the cold loop polls pop() again and again.     *)
(* Stores become visible to other threads in finite time, so a load cannot  *)
(* miss the newest store for ever.                                          *)
Fairness ==
    /\ WF_vars(PushWrite \/ PushPublish \/ \E n \in Index : PushCheck(n))
    /\ WF_vars(Pop)
    /\ SF_vars(PopCheck(0))

FairSpec == Spec /\ Fairness

----------------------------------------------------------------------------
(* Items published by a push() and not yet given back by a pop().           *)
InFlight == Len(pushed) - Len(popped)

(* The slot that holds the i-th unconsumed item.                            *)
SlotOf(i) == IF head + i - 1 < Capacity THEN head + i - 1
                                        ELSE head + i - 1 - Capacity

(* Types of the queue's fields and of the locals of push() and pop().       *)
TypeOK ==
    /\ head \in Index /\ tail \in Index
    /\ buffer \in [Index -> Items \cup {NoItem}]
    /\ unseenPops \in Nat /\ unseenPushes \in Nat
    /\ p_pc \in {"idle", "check", "write", "publish"}
    /\ p_item \in Items \cup {NoItem}
    /\ (p_pc # "idle" => p_item \in Items)
    /\ c_pc \in {"idle", "check", "read", "release"}
    /\ c_item \in Items \cup {NoItem}
    /\ calls \in 0 .. MaxPush
    /\ pushed \in Seq(Items)
    /\ popped \in Seq(Items \cup {NoItem})
    /\ reported \in Nat

(* push() keeps one slot free, so that a full ring and an empty one have    *)
(* different indices: at most capacity_ - 1 items are in flight, and the    *)
(* two indices are exactly that far apart.                                  *)
OneSlotStaysFree ==
    /\ InFlight \in 0 .. Capacity - 1
    /\ InFlight = SizeOf(tail, head)

(* Items come out in the order in which push() accepted them, none is lost, *)
(* duplicated or torn: what pop() returned is a prefix of what push() took. *)
Fifo ==
    /\ Len(popped) <= Len(pushed)
    /\ \A i \in 1 .. Len(popped) : popped[i] = pushed[i]

(* The plain, non-atomic slot accesses never race.  The slot push() writes  *)
(* is none that pop() may be reading, not even as seen through the stale    *)
(* head_ that the check used; and pop() reads a slot only after observing   *)
(* the store of tail_ that published it.                                    *)
NoSlotRace ==
    /\ p_pc = "write" => /\ InFlight + unseenPops < Capacity - 1
                         /\ \A i \in 1 .. InFlight : SlotOf(i) # tail
    /\ c_pc \in {"read", "release"} => unseenPushes < InFlight

(* push() drops an item only when the ring was full when last observed: no  *)
(* item is turned away while the producer can see a free slot.              *)
DropOnlyWhenFull ==
    [][(p_pc = "check" /\ p_pc' = "idle")
            => InFlight + unseenPops' = Capacity - 1]_vars

(* Whatever push() accepted is handed to the cold path in the end, however  *)
(* late the consumer's loads see the producer's stores.                     *)
EverythingIsDelivered ==
    \A k \in 1 .. MaxPush : (Len(pushed) >= k) ~> (Len(popped) >= k)

(* What the queue promises, independent of indices, slots and stale loads.  *)
Abstract == INSTANCE BoundedFifo WITH Bound <- Capacity - 1,
                                      accepted <- pushed, consumed <- popped

(* The ring implements the bounded FIFO queue.                              *)
ImplementsBoundedFifo == Abstract!Spec
============================================================================
