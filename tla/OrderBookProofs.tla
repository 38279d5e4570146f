------------------------- MODULE OrderBookProofs ---------------------------
(* Proofs about OrderBook for every number of ticks, symbols, slots and     *)
(* orders, and for every integer price and quantity.  The lemmas about the  *)
(* data structures come first (best ticks, the intrusive lists of the price *)
(* levels, the free stack of the pool, the orders in it), then the          *)
(* inductive invariant, then one iteration of matchOrders() and the         *)
(* theorems.                                                                *)
EXTENDS OrderBook, Sums

USE MaxTicksAssumption, UnitAssumption, CapacityAssumption, NilAssumption

----------------------------------------------------------------------------
(* Best ticks.                                                              *)

(* A set of ticks has a best one for either side, or is empty.              *)
LEMMA BestExists ==
    ASSUME NEW d \in Sides, NEW S \in SUBSET Ticks
    PROVE  \E t \in S \cup {NoTick(d)} : \A u \in S : ~Better(d, u, t)
<1>1. CASE S = {}
  BY <1>1
<1>2. CASE S # {} /\ d = "SELL"
  <2>1. S \in SUBSET Nat
    BY DEF Ticks
  <2>2. PICK x \in S : \A y \in S : x <= y
    BY <1>2, <2>1, LeastElement
  <2> QED
    BY <1>2, <2>1, <2>2 DEF Better
<1>3. CASE S # {} /\ d = "BUY"
  <2> DEFINE T == {n \in Nat : MAX_TICKS - 1 - n \in S}
  <2>1. PICK s \in S : TRUE
    BY <1>3
  <2>2. MAX_TICKS - 1 - s \in T
    BY <2>1 DEF Ticks
  <2>3. PICK x \in T : \A y \in T : x <= y
    BY Zenon, <2>2, LeastElement
  <2>4. ASSUME NEW u \in S PROVE ~(u > MAX_TICKS - 1 - x)
    <3>1. MAX_TICKS - 1 - u \in T
      BY DEF Ticks
    <3> QED
      BY <2>3, <3>1 DEF Ticks
  <2> QED
    BY <1>3, <2>3, <2>4 DEF Better
<1> QED
  BY <1>1, <1>2, <1>3 DEF Sides

(* What BestTick returns.                                                   *)
LEMMA BestTickFacts ==
    ASSUME NEW d \in Sides, NEW S \in SUBSET Ticks
    PROVE  /\ BestTick(d, S) \in S \cup {NoTick(d)}
           /\ \A u \in S : ~Better(d, u, BestTick(d, S))
           /\ S # {} => BestTick(d, S) \in S
           /\ BestTick(d, S) = NoTick(d) <=> S = {}
           /\ NoTick(d) \notin Ticks
           /\ BestTick(d, S) \in -1 .. MAX_TICKS
<1>1. /\ BestTick(d, S) \in S \cup {NoTick(d)}
      /\ \A u \in S : ~Better(d, u, BestTick(d, S))
  BY BestExists DEF BestTick
<1>2. ASSUME NEW u \in S PROVE Better(d, u, NoTick(d)) /\ u # NoTick(d)
  BY DEF Better, NoTick, Ticks, Sides
<1>3. NoTick(d) \notin Ticks /\ NoTick(d) \in -1 .. MAX_TICKS
  BY DEF NoTick, Ticks
<1>4. S # {} => BestTick(d, S) \in S
  BY <1>1, <1>2
<1>5. BestTick(d, S) \in -1 .. MAX_TICKS
  <2>1. \A t \in S : t \in -1 .. MAX_TICKS
    BY DEF Ticks
  <2> QED
    BY <1>1, <1>3, <2>1
<1>6. BestTick(d, S) = NoTick(d) <=> S = {}
  BY <1>1, <1>2, <1>4
<1> QED
  BY <1>1, <1>3, <1>4, <1>5, <1>6

(* A member that no member is better than is the best one.                  *)
LEMMA BestTickIs ==
    ASSUME NEW d \in Sides, NEW S \in SUBSET Ticks, NEW x \in S,
           \A u \in S : ~Better(d, u, x)
    PROVE  BestTick(d, S) = x
<1>1. BestTick(d, S) \in S /\ ~Better(d, x, BestTick(d, S))
  BY BestTickFacts
<1>2. ~Better(d, BestTick(d, S), x)
  BY <1>1
<1> DEFINE b == BestTick(d, S)
<1>3. b \in Int /\ x \in Int
  <2>1. \A t \in S : t \in Int
    BY DEF Ticks
  <2> QED
    BY <1>1, <2>1
<1> HIDE DEF b
<1>4. ~Better(d, b, x) /\ ~Better(d, x, b)
  BY <1>1, <1>2 DEF b
<1>5. b = x
  BY <1>3, <1>4 DEF Better
<1> QED
  BY <1>5 DEF b

----------------------------------------------------------------------------
(* Lists.                                                                   *)

(* A list is empty just when its head is null.                              *)
LEMMA FifoEmpty ==
    ASSUME NEW S \in SUBSET Slots, NEW h, NEW l, NEW nx, NEW id,
           FifoList(S, h, l, nx, id)
    PROVE  h = Nil <=> S = {}
BY DEF FifoList

(* A list does not depend on links and ids of slots outside it.             *)
LEMMA FifoFrame ==
    ASSUME NEW S, NEW h, NEW l, NEW nx, NEW id, NEW nx2, NEW id2,
           FifoList(S, h, l, nx, id),
           \A s \in S : nx2[s] = nx[s] /\ id2[s] = id[s]
    PROVE  FifoList(S, h, l, nx2, id2)
BY DEF FifoList

(* S2 and h2 are the slots and the head after slot o, the newest by id, is  *)
(* linked behind the list of S.                                             *)
Appended(S, h, l, nx, id, o, S2, h2, nx2, id2) ==
    /\ S \in SUBSET Slots /\ o \in Slots \ S
    /\ FifoList(S, h, l, nx, id)
    /\ \A s \in S : id2[s] = id[s] /\ id[s] \in Nat /\ id[s] < id2[o]
    /\ id2[o] \in Nat
    /\ S2 = S \cup {o}
    /\ h2 = IF h = Nil THEN o ELSE h
    /\ \A s \in S \cup {o} : nx2[s] = IF s = o THEN Nil
                                       ELSE IF h # Nil /\ s = l THEN o ELSE nx[s]

(* PriceLevel::push() of a slot with a new id keeps the list in order.      *)
LEMMA FifoPush ==
    ASSUME NEW S, NEW h, NEW l, NEW nx, NEW id, NEW o,
           NEW S2, NEW h2, NEW nx2, NEW id2,
           Appended(S, h, l, nx, id, o, S2, h2, nx2, id2)
    PROVE  FifoList(S2, h2, o, nx2, id2)
<1> USE DEF Appended
<1>1. CASE S = {}
  BY <1>1 DEF FifoList
<1>2. CASE S # {}
  <2>1. h \in S /\ l \in S /\ h # Nil
    BY <1>2 DEF FifoList
  <2>2. ASSUME NEW s \in S, s # l
        PROVE  /\ nx2[s] = nx[s] /\ nx2[s] \in S
               /\ id2[s] < id2[nx2[s]]
               /\ \A u \in S \cup {o} : id2[u] <= id2[s] \/ id2[nx2[s]] <= id2[u]
    <3>1. nx2[s] = nx[s] /\ nx[s] \in S /\ id[s] < id[nx[s]]
      BY <2>1, <2>2 DEF FifoList
    <3>2. \A u \in S : id[u] <= id[s] \/ id[nx[s]] <= id[u]
      BY <2>2 DEF FifoList
    <3> QED
      BY <3>1, <3>2
  <2>3. nx2[l] = o /\ id2[l] < id2[o]
    BY <2>1
  <2>4. \A u \in S : id2[u] <= id2[l] /\ id2[h] <= id2[u]
    BY <2>1 DEF FifoList
  <2>5. nx2[o] = Nil
    OBVIOUS
  <2>6. ASSUME NEW s \in S \cup {o}
        PROVE  /\ id2[h] <= id2[s] /\ id2[s] <= id2[o]
               /\ s = o => nx2[s] = Nil
               /\ s # o => /\ nx2[s] \in S \cup {o}
                           /\ id2[s] < id2[nx2[s]]
                           /\ \A u \in S \cup {o} : id2[u] <= id2[s] \/ id2[nx2[s]] <= id2[u]
    <3>1. id2[h] <= id2[s] /\ id2[s] <= id2[o]
      BY <2>1, <2>4
    <3>2. CASE s = o
      BY <3>1, <3>2, <2>5
    <3>3. CASE s = l
      BY <3>1, <3>3, <2>1, <2>3, <2>4
    <3>4. CASE s # o /\ s # l
      BY <3>1, <3>4, <2>2
    <3> QED
      BY <3>2, <3>3, <3>4
  <2> QED
    BY <2>1, <2>6 DEF FifoList
<1> QED
  BY <1>1, <1>2

(* Ids are naturals and tell the slots in S apart.                          *)
Distinct(id, S) ==
    /\ \A s \in S : id[s] \in Nat
    /\ \A s, u \in S : s # u => id[s] # id[u]

(* PriceLevel::pop_front() keeps the rest of the list in order, and empties *)
(* it just when the first slot had no successor.                            *)
LEMMA FifoPop ==
    ASSUME NEW S \in SUBSET Slots, NEW h, NEW l, NEW nx, NEW id,
           S # {}, FifoList(S, h, l, nx, id), Distinct(id, S)
    PROVE  /\ h \in S
           /\ nx[h] = Nil <=> S = {h}
           /\ nx[h] \in Slots \cup {Nil}
           /\ FifoList(S \ {h}, nx[h], IF nx[h] = Nil THEN Nil ELSE l, nx, id)
<1> USE DEF Distinct
<1>1. h \in S /\ l \in S
  BY DEF FifoList
<1>2. CASE h = l
  <2>1. \A s \in S : id[h] <= id[s] /\ id[s] <= id[h]
    BY <1>2 DEF FifoList
  <2>2. S = {h}
    BY <1>1, <2>1
  <2>3. nx[h] = Nil
    BY <1>1, <1>2 DEF FifoList
  <2> QED
    BY <1>1, <2>2, <2>3 DEF FifoList
<1>3. CASE h # l
  <2>1. /\ nx[h] \in S /\ id[h] < id[nx[h]]
        /\ \A u \in S : id[u] <= id[h] \/ id[nx[h]] <= id[u]
    BY <1>1, <1>3 DEF FifoList
  <2>2. nx[h] # Nil /\ nx[h] # h /\ l \in S \ {h}
    BY <1>1, <1>3, <2>1
  <2>3. \A u \in S \ {h} : id[h] < id[u] /\ id[nx[h]] <= id[u] /\ id[u] <= id[l]
    BY <1>1, <2>1 DEF FifoList
  <2>4. ASSUME NEW s \in S \ {h}, s # l PROVE nx[s] \in S \ {h}
    <3>1. nx[s] \in S /\ id[s] < id[nx[s]]
      BY <2>4 DEF FifoList
    <3>2. id[h] < id[s]
      BY <2>3
    <3> QED
      BY <1>1, <3>1, <3>2
  <2>5. FifoList(S \ {h}, nx[h], l, nx, id)
    BY <2>1, <2>2, <2>3, <2>4 DEF FifoList
  <2> QED
    BY <1>1, <2>1, <2>2, <2>5
<1> QED
  BY <1>2, <1>3

----------------------------------------------------------------------------
(* The pool.                                                                *)

(* The pool has CAPACITY slots.                                             *)
LEMMA SlotsFinite == IsFiniteSet(Slots) /\ Cardinality(Slots) = CAPACITY
BY FS_Interval DEF Slots

(* The first n entries of the stack fs, and that they are n different slots.*)
Contents(fs, n) == {fs[i] : i \in 0 .. n - 1}

StackOK(fs, n) ==
    /\ fs \in [0 .. CAPACITY - 1 -> Slots] /\ n \in 0 .. CAPACITY
    /\ \A i, j \in 0 .. n - 1 : i # j => fs[i] # fs[j]
    /\ Cardinality(Contents(fs, n)) = n

Pushed(fs, n, s) == [fs EXCEPT ![n] = s]

(* ObjectPool::release() of a slot that is not on the stack finds room and  *)
(* adds just that slot.                                                     *)
LEMMA StackPush ==
    ASSUME NEW fs, NEW n, StackOK(fs, n), NEW s \in Slots, s \notin Contents(fs, n)
    PROVE  /\ StackOK(Pushed(fs, n, s), n + 1)
           /\ Contents(Pushed(fs, n, s), n + 1) = Contents(fs, n) \cup {s}
<1> DEFINE C == Contents(fs, n)
           fs2 == Pushed(fs, n, s)
<1>1. C \in SUBSET Slots /\ n \in Nat
  BY DEF StackOK, Contents
<1>2. IsFiniteSet(C) /\ IsFiniteSet(C \cup {s}) /\ C \cup {s} \subseteq Slots
  BY <1>1, SlotsFinite, FS_Subset
<1>3. Cardinality(C \cup {s}) = n + 1
  BY <1>2, FS_AddElement DEF StackOK
<1>4. n + 1 <= CAPACITY
  BY <1>2, <1>3, SlotsFinite, FS_Subset
<1>5. /\ n \in 0 .. CAPACITY - 1 /\ n + 1 \in 0 .. CAPACITY
      /\ 0 .. (n + 1) - 1 = (0 .. n - 1) \cup {n} /\ n \notin 0 .. n - 1
      /\ 0 .. n - 1 \subseteq 0 .. CAPACITY - 1
  BY <1>1, <1>4
<1>6. /\ fs2 \in [0 .. CAPACITY - 1 -> Slots] /\ fs2[n] = s
      /\ \A i \in 0 .. n - 1 : fs2[i] = fs[i] /\ fs[i] # s
  BY <1>5 DEF StackOK, Contents, Pushed
<1>7. Contents(fs2, n + 1) = C \cup {s}
  BY <1>5, <1>6 DEF Contents
<1>8. \A i, j \in 0 .. (n + 1) - 1 : i # j => fs2[i] # fs2[j]
  BY <1>5, <1>6 DEF StackOK
<1> QED
  BY Zenon, <1>3, <1>5, <1>6, <1>7, <1>8 DEF StackOK

(* A trade changes an order's quantity and nothing else of it.              *)
LEMMA OrderUpdate ==
    ASSUME NEW r \in Order, NEW x \in Int
    PROVE  LET r2 == [r EXCEPT !.quantity = @ - x]
           IN  /\ r2 \in Order
               /\ r2.id = r.id /\ r2.symbol = r.symbol
               /\ r2.side = r.side /\ r2.price = r.price
BY DEF Order

----------------------------------------------------------------------------
(* The inductive invariant.                                                 *)

Submission == [symbol : Symbols, side : Sides, price : Prices,
               quantity : Quantities, placed : BOOLEAN]

(* An id is the number of the call that brought the order, and the free     *)
(* stack is as high as it has slots.                                        *)
Bookkeeping ==
    /\ submitted \in Seq(Submission)
    /\ \A s \in Allocated : slab[s].id <= Len(submitted)
    /\ Cardinality(Free) = top

Uncrossed(y) == best[y]["BUY"] < best[y]["SELL"]

(* Only the incoming order can cross the book: if it does, it is alone on   *)
(* its level, and no other level of its side reaches the passive side.      *)
OnlyIncomingCrosses ==
    /\ At(BestLevel(aggressor)) = {agg}
    /\ \A t \in bits[book][aggressor] \ {best[book][aggressor]} :
            Better(aggressor, best[book][Passive], t)

CrossInv ==
    /\ \A y \in Symbols : agg = Nil \/ y # book => Uncrossed(y)
    /\ agg # Nil => Uncrossed(book) \/ OnlyIncomingCrosses

IInv == /\ TypeOK /\ Bookkeeping /\ PoolPartition /\ LevelsAreFifo
        /\ IndexMatchesLevels /\ CrossInv

(* Init establishes the invariant.                                          *)
LEMMA InitIInv == Init => IInv
<1> SUFFICES ASSUME Init PROVE IInv
  OBVIOUS
<1>1. \A d \in Sides : BestTick(d, {}) = NoTick(d) /\ NoTick(d) \in -1 .. MAX_TICKS
  BY BestTickFacts DEF NoTick
<1>2. TypeOK
  <2>1. BlankOrder \in Order
    BY DEF BlankOrder, Order, Sides
  <2>2. \A i \in 0 .. CAPACITY - 1 : i + 1 \in Slots
    BY DEF Slots
  <2> QED
    BY <1>1, <2>1, <2>2 DEF Init, TypeOK, Sides
<1>3. Free = Slots
  <2>1. \A s \in Slots : s - 1 \in 0 .. CAPACITY - 1 /\ free_stack[s - 1] = s
    BY DEF Init, Slots
  <2>2. \A i \in 0 .. top - 1 : free_stack[i] \in Slots
    BY DEF Init, Slots
  <2>3. Slots \subseteq Free
    BY Zenon, <2>1 DEF Free, Init
  <2> QED
    BY <2>2, <2>3 DEF Free
<1>4. Allocated = {} /\ \A k \in Levels : At(k) = {}
  BY <1>3 DEF Allocated, At
<1>5. Bookkeeping
  BY <1>3, <1>4, SlotsFinite DEF Init, Bookkeeping
<1>6. PoolPartition
  BY <1>4 DEF Init, PoolPartition
<1>7. LevelsAreFifo
  BY Zenon, <1>4, FS_EmptySet DEF Init, LevelsAreFifo, FifoList
<1>8. IndexMatchesLevels
  BY <1>1 DEF Init, IndexMatchesLevels, Levels
<1>9. CrossInv
  BY DEF Init, CrossInv, Uncrossed, NoTick, Sides
<1> QED
  BY <1>2, <1>5, <1>6, <1>7, <1>8, <1>9 DEF IInv

(* What the invariant says of levels, bits and best ticks, in the form the  *)
(* steps use.                                                               *)
LEMMA StateFacts ==
    ASSUME IInv
    PROVE  /\ \A k \in Levels : /\ At(k) \in SUBSET Slots
                                /\ IsFiniteSet(At(k))
                                /\ head[k] = Nil <=> At(k) = {}
           /\ \A y \in Symbols, d \in Sides :
                /\ bits[y][d] \in SUBSET Ticks
                /\ best[y][d] \in bits[y][d] \cup {NoTick(d)}
                /\ best[y][d] = NoTick(d) <=> bits[y][d] = {}
                /\ \A u \in bits[y][d] : ~Better(d, u, best[y][d])
           /\ \A y \in Symbols, d \in Sides, t \in Ticks :
                t \in bits[y][d] <=> At(<< y, d, t >>) # {}
           /\ \A y \in Symbols : /\ best[y]["BUY"] \in -1 .. MAX_TICKS - 1
                                 /\ best[y]["SELL"] \in 0 .. MAX_TICKS
<1>1. ASSUME NEW k \in Levels
      PROVE  /\ At(k) \in SUBSET Slots
             /\ IsFiniteSet(At(k))
             /\ head[k] = Nil <=> At(k) = {}
  <2>1. At(k) \in SUBSET Slots
    BY DEF At, Allocated
  <2>2. FifoList(At(k), head[k], tail[k], next, Ids)
    BY DEF IInv, LevelsAreFifo
  <2> QED
    BY <2>1, <2>2, FifoEmpty, SlotsFinite, FS_Subset
<1>2. ASSUME NEW y \in Symbols, NEW d \in Sides
      PROVE  /\ bits[y][d] \in SUBSET Ticks
             /\ best[y][d] \in bits[y][d] \cup {NoTick(d)}
             /\ best[y][d] = NoTick(d) <=> bits[y][d] = {}
             /\ \A u \in bits[y][d] : ~Better(d, u, best[y][d])
  <2>1. bits[y][d] \in SUBSET Ticks
    BY DEF IInv, TypeOK
  <2>2. best[y][d] = BestTick(d, bits[y][d])
    BY DEF IInv, IndexMatchesLevels
  <2> QED
    BY <2>1, <2>2, BestTickFacts
<1>3. ASSUME NEW y \in Symbols, NEW d \in Sides, NEW t \in Ticks
      PROVE  t \in bits[y][d] <=> At(<< y, d, t >>) # {}
  <2>1. << y, d, t >> \in Levels
    BY DEF Levels
  <2> QED
    BY <1>1, <2>1 DEF IInv, IndexMatchesLevels
<1>4. ASSUME NEW y \in Symbols
      PROVE  best[y]["BUY"] \in -1 .. MAX_TICKS - 1 /\ best[y]["SELL"] \in 0 .. MAX_TICKS
  <2>1. \A d \in Sides : best[y][d] \in Ticks \cup {NoTick(d)}
    BY <1>2
  <2> QED
    BY <2>1 DEF Sides, NoTick, Ticks
<1> QED
  BY <1>1, <1>2, <1>3, <1>4

----------------------------------------------------------------------------
(* What alloc() and the assignment to the slot do to the pool.              *)
LEMMA PlaceFacts ==
    ASSUME IInv, NEW y, NEW d, NEW p, NEW q, Place(y, d, p, q)
    PROVE  LET o == free_stack[top - 1]
           IN  /\ o \in Slots /\ o \in Free /\ o \notin Allocated
               /\ top \in 1 .. CAPACITY /\ top' = top - 1 /\ free_stack' = free_stack
               /\ Free' = Free \ {o}
               /\ Allocated' = Allocated \cup {o} /\ Allocated \subseteq Slots
               /\ agg' = o /\ book' = y /\ aggressor' = d
               /\ slab'[o] = [id |-> Len(submitted) + 1, symbol |-> y, side |-> d,
                              price |-> p, quantity |-> q]
               /\ \A s \in Slots : s # o => slab'[s] = slab[s]
<1> DEFINE o == free_stack[top - 1]
<1>1. top \in 1 .. CAPACITY /\ top' = top - 1 /\ free_stack' = free_stack /\ o \in Slots
  BY DEF IInv, TypeOK, Place
<1>2. Free' = Free \ {o} /\ o \in Free
  <2>1. \A i, j \in 0 .. top - 1 : i # j => free_stack[i] # free_stack[j]
    BY DEF IInv, PoolPartition
  <2>2. top - 1 \in 0 .. top - 1 /\ top' - 1 = top - 2
    BY <1>1
  <2>3. o \in Free
    BY <2>2 DEF Free
  <2>4. \A i \in 0 .. top - 1 : free_stack[i] # o <=> i # top - 1
    BY <2>1, <2>2
  <2>5. \A i \in 0 .. top - 1 : i # top - 1 <=> i \in 0 .. top - 2
    BY <1>1
  <2>6. 0 .. top - 2 \subseteq 0 .. top - 1
    BY <1>1
  <2>7. Free' = {free_stack[i] : i \in 0 .. top - 2}
    BY <1>1, <2>2 DEF Free
  <2> QED
    BY <2>3, <2>4, <2>5, <2>6, <2>7 DEF Free
<1>3. Allocated' = Allocated \cup {o} /\ o \notin Allocated /\ Allocated \subseteq Slots
  BY <1>1, <1>2 DEF Allocated
<1>4. agg' = o /\ book' = y /\ aggressor' = d
  BY DEF Place
<1>5. /\ slab'[o] = [id |-> Len(submitted) + 1, symbol |-> y, side |-> d,
                     price |-> p, quantity |-> q]
      /\ \A s \in Slots : s # o => slab'[s] = slab[s]
  BY <1>1 DEF Place, IInv, TypeOK
<1> QED
  BY <1>1, <1>2, <1>3, <1>4, <1>5

(* A new order is placed.                                                   *)
LEMMA PlaceIInv ==
    ASSUME IInv, agg = Nil,
           NEW y \in Symbols, NEW d \in Sides, NEW p \in Prices, NEW q \in Quantities,
           Place(y, d, p, q),
           NEW e \in Submission, submitted' = Append(submitted, e)
    PROVE  IInv'
<1> DEFINE t == priceToTick(p)
           k == << y, d, t >>
           n == Len(submitted) + 1
           rec == [id |-> n, symbol |-> y, side |-> d, price |-> p, quantity |-> q]
<1>1. PICK o \in Slots : o = free_stack[top - 1]
  BY DEF IInv, TypeOK, Place
<1>2. t \in Ticks /\ k \in Levels /\ p \in Int /\ q \in Int
  BY PricesAssumption, QuantitiesAssumption DEF Place, Levels
<1>3. n \in Nat /\ n = Len(submitted') /\ submitted' \in Seq(Submission)
  BY DEF IInv, Bookkeeping
<1> HIDE DEF t, n
<1>4. top \in 1 .. CAPACITY /\ top' = top - 1 /\ free_stack' = free_stack
  BY DEF IInv, TypeOK, Place
<1>5. slab' = [slab EXCEPT ![o] = rec]
  BY <1>1 DEF Place, n
<1>6. Push(k, o) /\ agg' = o /\ book' = y /\ aggressor' = d
  BY <1>1 DEF Place, t
<1>7. /\ bits' = [bits EXCEPT ![y][d] = @ \cup {t}]
      /\ best' = [best EXCEPT ![y][d] = IF Better(d, t, @) THEN t ELSE @]
  BY DEF Place, t
<1>8. Free' = Free \ {o} /\ o \in Free
  BY Zenon, <1>1, PlaceFacts
<1>9. Allocated' = Allocated \cup {o} /\ o \notin Allocated /\ Allocated \subseteq Slots
  BY Zenon, <1>1, PlaceFacts
<1>10. /\ slab'[o] = rec
       /\ \A s \in Slots : s # o => slab'[s] = slab[s]
  BY <1>1, PlaceFacts DEF n
<1>11. At(k)' = At(k) \cup {o} /\ \A m \in Levels : m # k => At(m)' = At(m)
  <2>1. LevelOf(o)' = k
    BY <1>10 DEF LevelOf, t
  <2>2. \A s \in Allocated : LevelOf(s)' = LevelOf(s)
    BY <1>9, <1>10 DEF LevelOf
  <2> QED
    BY <1>9, <2>1, <2>2 DEF At
<1>12. \A m \in Levels : At(m) \subseteq Allocated /\ o \notin At(m)
  BY <1>9 DEF At
<1>13. TypeOK'
  <2>1. rec \in Order
    BY <1>2, <1>3 DEF Order
  <2>2. slab' \in [Slots -> Order]
    BY <1>5, <2>1 DEF IInv, TypeOK
  <2>3. /\ next' \in [Slots -> Slots \cup {Nil}]
        /\ head' \in [Levels -> Slots \cup {Nil}]
        /\ tail' \in [Levels -> Slots \cup {Nil}]
        /\ count' \in [Levels -> Nat]
    BY <1>2, <1>6 DEF IInv, TypeOK, Push
  <2>4. bits' \in [Symbols -> [Sides -> SUBSET Ticks]]
    BY <1>2, <1>7 DEF IInv, TypeOK
  <2>5. t \in -1 .. MAX_TICKS
    BY <1>2 DEF Ticks
  <2>6. best' \in [Symbols -> [Sides -> -1 .. MAX_TICKS]]
    BY <1>7, <2>5 DEF IInv, TypeOK
  <2>7. free_stack' \in [0 .. CAPACITY - 1 -> Slots] /\ top' \in 0 .. CAPACITY
    BY <1>4 DEF IInv, TypeOK
  <2> QED
    BY <1>6, <2>2, <2>3, <2>4, <2>6, <2>7 DEF TypeOK
<1>14. Bookkeeping'
  <2>1. Cardinality(Free') = Cardinality(Free) - 1
    <3>1. IsFiniteSet(Free)
      <4>1. Free \in SUBSET Slots
        BY <1>4 DEF Free, IInv, TypeOK
      <4> QED
        BY <4>1, SlotsFinite, FS_Subset
    <3> QED
      BY Zenon, <1>8, <3>1, FS_RemoveElement
  <2>2. Cardinality(Free') = top'
    BY <1>4, <2>1 DEF IInv, Bookkeeping
  <2>3. ASSUME NEW s \in Allocated' PROVE slab'[s].id <= Len(submitted')
    <3>1. CASE s = o
      BY <1>3, <1>10, <3>1
    <3>2. CASE s # o
      <4>1. s \in Allocated /\ slab'[s] = slab[s] /\ slab[s].id \in Nat
        BY Zenon, <1>9, <1>10, <3>2 DEF IInv, TypeOK, Order
      <4>2. slab[s].id <= Len(submitted)
        BY <4>1 DEF IInv, Bookkeeping
      <4>3. Len(submitted) \in Nat
        BY DEF IInv, Bookkeeping
      <4> QED
        BY <1>3, <4>1, <4>2, <4>3 DEF n
    <3> QED
      BY <3>1, <3>2
  <2> QED
    BY <1>3, <2>2, <2>3 DEF Bookkeeping
<1>15. \A s \in Allocated : slab[s].id \in Nat /\ slab[s].id < n
  <2>1. \A s \in Allocated : slab[s].id \in Nat /\ slab[s].id <= Len(submitted)
    BY <1>9 DEF IInv, TypeOK, Order, Bookkeeping
  <2>2. Len(submitted) \in Nat
    BY DEF IInv, Bookkeeping
  <2> QED
    BY <2>1, <2>2 DEF n
<1>16. PoolPartition'
  <2>1. \A i, j \in 0 .. top' - 1 : i # j => free_stack'[i] # free_stack'[j]
    BY <1>4 DEF IInv, PoolPartition
  <2>2. \A s \in Allocated' : LevelOf(s)' \in Levels
    BY <1>2, <1>9, <1>10 DEF IInv, PoolPartition, LevelOf, t
  <2>3. ASSUME NEW s \in Allocated', NEW u \in Allocated', s # u
        PROVE  slab'[s].id # slab'[u].id
    <3>1. slab'[o].id = n
      BY <1>10
    <3>2. CASE s = o
      BY <1>9, <1>10, <1>15, <2>3, <3>1, <3>2
    <3>3. CASE u = o
      BY <1>9, <1>10, <1>15, <2>3, <3>1, <3>3
    <3>4. CASE s # o /\ u # o
      BY <1>9, <1>10, <2>3, <3>4 DEF IInv, PoolPartition
    <3> QED
      BY <3>2, <3>3, <3>4
  <2> QED
    BY <2>1, <2>2, <2>3 DEF PoolPartition
<1>17. LevelsAreFifo'
  <2> SUFFICES ASSUME NEW m \in Levels
               PROVE  /\ FifoList(At(m)', head'[m], tail'[m], next', Ids')
                      /\ count'[m] = Cardinality(At(m)')
    BY DEF LevelsAreFifo
  <2>1. /\ FifoList(At(m), head[m], tail[m], next, Ids)
        /\ count[m] = Cardinality(At(m))
    BY DEF IInv, LevelsAreFifo
  <2>2. \A s \in Slots : Ids[s] = slab[s].id /\ Ids'[s] = slab'[s].id
    BY DEF Ids
  <2>3. \A s \in Slots : next'[s] = IF s = o THEN Nil
                        ELSE IF head[k] # Nil /\ s = tail[k] THEN o ELSE next[s]
    BY <1>6 DEF Push
  <2>4. CASE m = k
    <3>1. /\ head'[k] = IF head[k] = Nil THEN o ELSE head[k]
          /\ tail'[k] = o /\ count'[k] = count[k] + 1
      BY <1>2, <1>6 DEF Push, IInv, TypeOK
    <3>2. At(k) \in SUBSET Slots /\ o \notin At(k) /\ IsFiniteSet(At(k))
      BY <1>2, <1>12, StateFacts
    <3>3. \A s \in At(k) : Ids'[s] = Ids[s] /\ Ids[s] \in Nat /\ Ids[s] < Ids'[o]
      BY <1>2, <1>10, <1>12, <1>15, <2>2, <3>2
    <3>4. Ids'[o] \in Nat
      BY <1>3, <1>10, <2>2
    <3>5. \A s \in At(k) \cup {o} : next'[s] = IF s = o THEN Nil
                        ELSE IF head[k] # Nil /\ s = tail[k] THEN o ELSE next[s]
      BY <2>3, <3>2
    <3>6. FifoList(At(k)', head'[k], o, next', Ids')
      <4> HIDE DEF k
      <4>1. FifoList(At(k), head[k], tail[k], next, Ids)
        BY <2>1, <2>4
      <4>2. At(k)' = At(k) \cup {o} /\ head'[k] = IF head[k] = Nil THEN o ELSE head[k]
        BY <1>11, <3>1
      <4>3. Appended(At(k), head[k], tail[k], next, Ids, o, At(k)', head'[k], next', Ids')
        BY Zenon, <3>2, <3>3, <3>4, <3>5, <4>1, <4>2 DEF Appended
      <4> QED
        BY Zenon, <4>3, FifoPush
    <3>7. Cardinality(At(k) \cup {o}) = Cardinality(At(k)) + 1
      BY Zenon, <3>2, FS_AddElement
    <3> QED
      BY Zenon, <1>11, <2>1, <2>4, <3>1, <3>6, <3>7
  <2>5. CASE m # k
    <3>1. head'[m] = head[m] /\ tail'[m] = tail[m] /\ count'[m] = count[m]
      BY <1>2, <1>6, <2>5 DEF Push, IInv, TypeOK
    <3>2. ASSUME NEW s \in At(m) PROVE next'[s] = next[s] /\ Ids'[s] = Ids[s]
      <4>1. s \in Slots /\ s # o /\ s \in Allocated
        <5>1. s \in Allocated /\ s # o
          BY <1>12
        <5> QED
          BY <1>9, <5>1
      <4>2. head[k] # Nil => tail[k] \in At(k)
        BY Zenon, <1>2, StateFacts DEF IInv, LevelsAreFifo, FifoList
      <4>3. s \notin At(k)
        BY <2>5 DEF At
      <4> QED
        <5>1. Ids'[s] = Ids[s]
          BY <1>10, <2>2, <4>1
        <5>2. ~(head[k] # Nil /\ s = tail[k])
          BY <4>2, <4>3
        <5>3. next'[s] = next[s]
          BY <2>3, <4>1, <5>2
        <5> QED
          BY <5>1, <5>3
    <3>3. FifoList(At(m), head[m], tail[m], next', Ids')
      BY <2>1, <3>2, FifoFrame
    <3> QED
      BY Zenon, <1>11, <2>1, <2>5, <3>1, <3>3
  <2> QED
    BY <2>4, <2>5
<1>18. IndexMatchesLevels'
  <2> SUFFICES ASSUME NEW z \in Symbols, NEW f \in Sides
               PROVE  /\ bits'[z][f] = {u \in Ticks : head'[<< z, f, u >>] # Nil}
                      /\ best'[z][f] = BestTick(f, bits'[z][f])
    BY DEF IndexMatchesLevels
  <2>1. \A m \in Levels : head'[m] = IF m = k /\ head[m] = Nil THEN o ELSE head[m]
    BY Zenon, <1>2, <1>6 DEF Push, IInv, TypeOK
  <2>2. /\ bits[z][f] = {u \in Ticks : head[<< z, f, u >>] # Nil}
        /\ best[z][f] = BestTick(f, bits[z][f])
        /\ bits[z][f] \in SUBSET Ticks
    BY DEF IInv, IndexMatchesLevels, TypeOK
  <2>3. \A u \in Ticks : << z, f, u >> \in Levels
    BY DEF Levels
  <2>4. CASE z = y /\ f = d
    <3>1. /\ bits'[z][f] = bits[z][f] \cup {t}
          /\ best'[z][f] = IF Better(d, t, best[z][f]) THEN t ELSE best[z][f]
      BY <1>7, <2>4 DEF IInv, TypeOK
    <3>2. \A u \in Ticks : head'[<< z, f, u >>] # Nil <=> head[<< z, f, u >>] # Nil \/ u = t
      <4> SUFFICES ASSUME NEW u \in Ticks
                   PROVE  head'[<< z, f, u >>] # Nil <=> head[<< z, f, u >>] # Nil \/ u = t
        OBVIOUS
      <4>1. << z, f, u >> = k <=> u = t
        BY <2>4
      <4> QED
        BY <2>1, <2>3, <4>1
    <3>3. bits'[z][f] = {u \in Ticks : head'[<< z, f, u >>] # Nil}
      BY <1>2, <2>2, <3>1, <3>2
    <3> DEFINE S == bits[z][f] \cup {t}
               b == IF Better(d, t, best[z][f]) THEN t ELSE best[z][f]
    <3>4. S \in SUBSET Ticks
      BY <1>2, <2>2
    <3>5. \A u \in bits[z][f] : ~Better(d, u, best[z][f])
      BY <2>4, StateFacts
    <3>6. best[z][f] \in bits[z][f] \cup {NoTick(d)}
      BY <2>4, StateFacts
    <3>7. Better(d, t, NoTick(d))
      BY <1>2 DEF Better, NoTick, Ticks, Sides
    <3>8. b \in S
      BY <3>6, <3>7
    <3>9. ASSUME NEW u \in S PROVE ~Better(d, u, b)
      <4>1. t \in Int /\ u \in Int /\ best[z][f] \in Int
        BY <1>2, <3>4 DEF Ticks, IInv, TypeOK
      <4> QED
        BY <3>5, <3>9, <4>1 DEF Better
    <3>10. BestTick(d, S) = b
      BY Zenon, <3>4, <3>8, <3>9, BestTickIs
    <3> QED
      BY <2>4, <3>1, <3>3, <3>10
  <2>5. CASE ~(z = y /\ f = d)
    <3>1. bits'[z][f] = bits[z][f] /\ best'[z][f] = best[z][f]
      BY <1>7, <2>5 DEF IInv, TypeOK
    <3>2. \A u \in Ticks : head'[<< z, f, u >>] = head[<< z, f, u >>]
      <4> SUFFICES ASSUME NEW u \in Ticks PROVE head'[<< z, f, u >>] = head[<< z, f, u >>]
        OBVIOUS
      <4>1. << z, f, u >> # k
        BY <2>5
      <4> QED
        BY <2>1, <2>3, <4>1
    <3> QED
      BY <2>2, <3>1, <3>2
  <2> QED
    BY <2>4, <2>5
<1>19. CrossInv'
  <2>1. \A z \in Symbols : Uncrossed(z)
    BY DEF IInv, CrossInv
  <2>2. \A z \in Symbols : z # y => best'[z] = best[z]
    BY <1>7 DEF IInv, TypeOK
  <2>3. agg' # Nil /\ \A z \in Symbols : z # book' => Uncrossed(z)'
    BY <1>6, <2>1, <2>2 DEF Uncrossed
  <2>4. \A f \in Sides : f # d => best'[y][f] = best[y][f]
    BY <1>7 DEF IInv, TypeOK
  <2>5. /\ best'[y][d] = IF Better(d, t, best[y][d]) THEN t ELSE best[y][d]
        /\ bits'[y][d] = bits[y][d] \cup {t}
    BY <1>7 DEF IInv, TypeOK
  <2>6. CASE ~Better(d, t, best[y][d])
    <3>1. best'[y]["BUY"] = best[y]["BUY"] /\ best'[y]["SELL"] = best[y]["SELL"]
      BY <2>4, <2>5, <2>6 DEF Sides
    <3> QED
      BY <1>6, <2>1, <2>3, <3>1 DEF CrossInv, Uncrossed
  <2>7. CASE Better(d, t, best[y][d])
    <3>1. t \notin bits[y][d]
      BY <2>7, StateFacts
    <3>2. At(k)' = {o}
      BY Zenon, <1>2, <1>11, <3>1, StateFacts
    <3>3. At(BestLevel(aggressor))' = {o}
      <4>1. BestLevel(aggressor)' = k
        BY <1>6, <2>5, <2>7 DEF BestLevel
      <4> QED
        BY <3>2, <4>1 DEF At
    <3>4. ASSUME NEW u \in bits'[y][d] \ {t}
          PROVE  Better(d, best'[y][Passive'], u)
      <4>1. u \in bits[y][d] /\ ~Better(d, u, best[y][d])
        BY <2>5, StateFacts
      <4>2. u \in Int /\ \A f \in Sides : best[y][f] \in Int
        <5>1. bits[y][d] \in SUBSET Ticks /\ \A f \in Sides : best[y][f] \in -1 .. MAX_TICKS
          BY DEF IInv, TypeOK
        <5>2. u \in Ticks
          BY <4>1, <5>1
        <5> QED
          BY <5>1, <5>2 DEF Ticks
      <4>3. Passive' = (IF d = "BUY" THEN "SELL" ELSE "BUY") /\ Passive' \in Sides
        BY <1>6 DEF Passive, Sides
      <4>4. best'[y][Passive'] = best[y][IF d = "BUY" THEN "SELL" ELSE "BUY"]
        BY <2>4, <4>3 DEF Sides
      <4>5. best[y]["BUY"] < best[y]["SELL"]
        BY <2>1 DEF Uncrossed
      <4> QED
        BY <4>1, <4>2, <4>4, <4>5 DEF Better, Sides
    <3>5. OnlyIncomingCrosses'
      BY <1>6, <2>5, <2>7, <3>3, <3>4 DEF OnlyIncomingCrosses
    <3> QED
      BY <2>3, <3>5 DEF CrossInv
  <2> QED
    BY <2>6, <2>7
<1> QED
  BY <1>13, <1>14, <1>16, <1>17, <1>18, <1>19 DEF IInv

----------------------------------------------------------------------------
(* The lists do not depend on the caller's variables.                       *)
LEMMA LevelsFrame ==
    ASSUME LevelsAreFifo, UNCHANGED << slab, free_stack, top, next, head, tail, count >>
    PROVE  LevelsAreFifo'
<1>1. Allocated' = Allocated /\ Ids' = Ids
  BY DEF Allocated, Free, Ids
<1>2. \A k \in Levels : At(k)' = At(k)
  BY <1>1 DEF At, LevelOf
<1> QED
  BY <1>1, <1>2 DEF LevelsAreFifo

(* matchOrders() returns: the loop's condition failed, so the book is not   *)
(* crossed.                                                                 *)
LEMMA ReturnIInv ==
    ASSUME IInv, Return
    PROVE  IInv'
<1>1. UNCHANGED << pool, levels, index, book, aggressor, submitted >> /\ agg' = Nil
  BY DEF Return
<1>2. Uncrossed(book)
  <2>1. book \in Symbols /\ "BUY" \in Sides /\ "SELL" \in Sides
    BY DEF IInv, TypeOK, Sides
  <2>2. /\ best[book]["BUY"] \in -1 .. MAX_TICKS - 1
        /\ best[book]["SELL"] \in 0 .. MAX_TICKS
    BY <2>1, StateFacts
  <2>3. \/ best[book]["BUY"] = -1 \/ best[book]["SELL"] = MAX_TICKS
        \/ ~(best[book]["BUY"] >= best[book]["SELL"])
    BY DEF Return, Crossed, Sides, NoTick
  <2> QED
    BY <2>2, <2>3 DEF Uncrossed
<1>3. TypeOK' /\ Bookkeeping' /\ PoolPartition' /\ IndexMatchesLevels'
  BY <1>1 DEF IInv, TypeOK, Bookkeeping, PoolPartition, IndexMatchesLevels,
              Free, Allocated, LevelOf, pool, levels, index
<1>4. LevelsAreFifo'
  BY <1>1, LevelsFrame DEF IInv, pool, levels
<1>5. CrossInv'
  BY <1>1, <1>2 DEF IInv, CrossInv, Uncrossed, index
<1> QED
  BY <1>3, <1>4, <1>5 DEF IInv

(* An order that is dropped leaves the book as it was.                      *)
LEMMA DropIInv ==
    ASSUME IInv, NEW p \in Prices, Drop(p), agg = Nil,
           NEW e \in Submission, submitted' = Append(submitted, e)
    PROVE  IInv'
<1>1. UNCHANGED << pool, levels, index, call >>
  BY DEF Drop
<1>2. Bookkeeping'
  <2>1. Len(submitted') = Len(submitted) + 1 /\ submitted' \in Seq(Submission)
        /\ Len(submitted) \in Nat
    BY DEF IInv, Bookkeeping
  <2>2. Allocated' = Allocated /\ Free' = Free /\ slab' = slab /\ top' = top
    BY <1>1 DEF Allocated, Free, pool
  <2>3. \A s \in Allocated : slab[s].id \in Nat /\ slab[s].id <= Len(submitted)
    BY DEF IInv, Bookkeeping, TypeOK, Order, Allocated
  <2> QED
    BY <2>1, <2>2, <2>3 DEF IInv, Bookkeeping
<1>3. TypeOK' /\ PoolPartition' /\ IndexMatchesLevels'
  BY <1>1 DEF IInv, TypeOK, PoolPartition, IndexMatchesLevels,
              Free, Allocated, LevelOf, pool, levels, index, call
<1>4. LevelsAreFifo'
  BY <1>1, LevelsFrame DEF IInv, pool, levels
<1>5. CrossInv'
  BY <1>1 DEF IInv, CrossInv, Uncrossed, index, call
<1> QED
  BY <1>2, <1>3, <1>4, <1>5 DEF IInv

(* A step that changes nothing.                                             *)
LEMMA StutterIInv ==
    ASSUME IInv, UNCHANGED vars
    PROVE  IInv'
<1> USE DEF vars, pool, levels, index, call
<1>1. TypeOK' /\ Bookkeeping' /\ PoolPartition' /\ IndexMatchesLevels'
  BY DEF IInv, TypeOK, Bookkeeping, PoolPartition, IndexMatchesLevels,
         Free, Allocated, LevelOf
<1>2. LevelsAreFifo'
  BY LevelsFrame DEF IInv
<1>3. CrossInv'
  <2>1. CrossInv /\ (\A y \in Symbols : Uncrossed(y)' <=> Uncrossed(y))
    BY DEF IInv, Uncrossed
  <2>2. OnlyIncomingCrosses' <=> OnlyIncomingCrosses
    BY DEF OnlyIncomingCrosses, BestLevel, Passive, At, Allocated, Free, LevelOf
  <2>3. Uncrossed(book)' <=> Uncrossed(book)
    BY DEF Uncrossed
  <2> QED
    BY <2>1, <2>2, <2>3 DEF CrossInv
<1> QED
  BY <1>1, <1>2, <1>3 DEF IInv

----------------------------------------------------------------------------
(* One iteration of matchOrders().                                          *)

(* What matchOrders() finds at the top of a crossed book.                   *)
LEMMA CrossedFacts ==
    ASSUME IInv, agg # Nil, Crossed
    PROVE  /\ \A d \in Sides : /\ best[book][d] \in bits[book][d]
                               /\ BestLevel(d) \in Levels
                               /\ Front(d) \in At(BestLevel(d))
                               /\ Front(d) \in Slots \ Free
           /\ Front("BUY") # Front("SELL")
           /\ TradeQty \in Int
           /\ Filled \in SUBSET Sides /\ Filled # {}
           /\ OnlyIncomingCrosses
           /\ Front(aggressor) = agg
<1>1. ASSUME NEW d \in Sides
      PROVE  /\ best[book][d] \in bits[book][d]
             /\ BestLevel(d) \in Levels
             /\ Front(d) \in At(BestLevel(d))
             /\ Front(d) \in Slots \ Free
  <2>1. book \in Symbols /\ best[book][d] # NoTick(d)
    BY DEF Crossed, IInv, TypeOK
  <2>2. best[book][d] \in bits[book][d] /\ best[book][d] \in Ticks
    BY <2>1, StateFacts
  <2>3. BestLevel(d) \in Levels
    BY <2>1, <2>2 DEF BestLevel, Levels
  <2>4. At(BestLevel(d)) # {}
    BY <2>1, <2>2, StateFacts DEF BestLevel
  <2>5. Front(d) \in At(BestLevel(d))
    BY <2>3, <2>4 DEF IInv, LevelsAreFifo, FifoList, Front
  <2> QED
    BY <2>2, <2>3, <2>5 DEF At, Allocated
<1>2. "BUY" \in Sides /\ "SELL" \in Sides
  BY DEF Sides
<1>3. Front("BUY") # Front("SELL")
  <2>1. LevelOf(Front("BUY")) = BestLevel("BUY") /\ LevelOf(Front("SELL")) = BestLevel("SELL")
    BY <1>1, <1>2 DEF At
  <2>2. BestLevel("BUY") # BestLevel("SELL")
    BY DEF BestLevel
  <2> QED
    BY <2>1, <2>2
<1>4. \A d \in Sides : slab[Front(d)].quantity \in Int
  BY <1>1 DEF IInv, TypeOK, Order
<1>5. TradeQty \in Int
  BY <1>2, <1>4 DEF TradeQty
<1>6. Filled \in SUBSET Sides /\ Filled # {}
  BY <1>2, <1>4 DEF Filled, TradeQty
<1>7. OnlyIncomingCrosses
  <2>1. best[book]["BUY"] \in Int /\ best[book]["SELL"] \in Int
    BY <1>2 DEF IInv, TypeOK
  <2>2. ~Uncrossed(book)
    BY <2>1 DEF Crossed, Uncrossed
  <2> QED
    BY <2>2 DEF IInv, CrossInv
<1>8. Front(aggressor) = agg
  BY <1>1, <1>7 DEF OnlyIncomingCrosses, IInv, TypeOK
<1> QED
  BY <1>1, <1>3, <1>5, <1>6, <1>7, <1>8

(* The slots of the filled orders go back to the pool, and there is one.    *)
LEMMA ReleaseFacts ==
    ASSUME IInv, agg # Nil, Crossed, Release
    PROVE  /\ StackOK(free_stack, top)'
           /\ Free' = Free \cup {Front(d) : d \in Filled}
           /\ top' > top
<1> DEFINE fs1 == IF "BUY" \in Filled THEN Pushed(free_stack, top, Front("BUY")) ELSE free_stack
           mid == IF "BUY" \in Filled THEN top + 1 ELSE top
           C1 == IF "BUY" \in Filled THEN Free \cup {Front("BUY")} ELSE Free
<1>1. StackOK(free_stack, top) /\ Free = Contents(free_stack, top) /\ top \in Nat
  BY DEF StackOK, Contents, Free, IInv, TypeOK, Bookkeeping, PoolPartition
<1>2. /\ Front("BUY") \in Slots /\ Front("SELL") \in Slots
      /\ Front("BUY") \notin Free /\ Front("SELL") \notin Free
      /\ Front("BUY") # Front("SELL")
      /\ Filled \in SUBSET Sides /\ Filled # {}
  BY CrossedFacts DEF Sides
<1>3. StackOK(fs1, mid) /\ Contents(fs1, mid) = C1
  <2>1. /\ StackOK(Pushed(free_stack, top, Front("BUY")), top + 1)
        /\ Contents(Pushed(free_stack, top, Front("BUY")), top + 1) = Free \cup {Front("BUY")}
    BY <1>1, <1>2, StackPush
  <2> QED
    BY <1>1, <2>1
<1>4. /\ free_stack' = IF "SELL" \in Filled THEN Pushed(fs1, mid, Front("SELL")) ELSE fs1
      /\ top' = IF "SELL" \in Filled THEN mid + 1 ELSE mid
  BY DEF Release, Pushed
<1>5. top' > top
  <2>1. "BUY" \in Filled \/ "SELL" \in Filled
    BY Zenon, <1>2 DEF Sides
  <2> QED
    BY <1>1, <1>4, <2>1
<1>6. /\ StackOK(free_stack', top')
      /\ Contents(free_stack', top') = IF "SELL" \in Filled THEN C1 \cup {Front("SELL")} ELSE C1
  <2> HIDE DEF fs1, mid
  <2>1. Front("SELL") \notin Contents(fs1, mid)
    BY <1>2, <1>3
  <2>2. /\ StackOK(Pushed(fs1, mid, Front("SELL")), mid + 1)
        /\ Contents(Pushed(fs1, mid, Front("SELL")), mid + 1)
                = Contents(fs1, mid) \cup {Front("SELL")}
    BY <1>2, <1>3, <2>1, StackPush
  <2> QED
    BY <1>3, <1>4, <2>2
<1>7. Free' = Contents(free_stack', top')
  BY DEF Free, Contents
<1>8. Free' = Free \cup {Front(d) : d \in Filled}
  BY <1>2, <1>6, <1>7 DEF Sides
<1>9. StackOK(free_stack, top)'
  BY Zenon, <1>6 DEF StackOK, Contents
<1> QED
  BY <1>5, <1>8, <1>9

(* What an iteration does to the orders of a level.                         *)
LEMMA MatchLevels ==
    ASSUME IInv, Match
    PROVE  /\ slab' \in [Slots -> Order] /\ Ids' = Ids
           /\ Allocated' \subseteq Allocated
           /\ \A s \in Slots : LevelOf(s)' = LevelOf(s)
           /\ \A k \in Levels, d \in Filled : k = BestLevel(d) => At(k)' = At(k) \ {Front(d)}
           /\ \A k \in Levels : k \notin {BestLevel(d) : d \in Filled} => At(k)' = At(k)
<1> USE DEF Match
<1>1. ASSUME NEW s \in Slots
      PROVE  /\ slab'[s] \in Order /\ slab'[s].id = slab[s].id
             /\ slab'[s].symbol = slab[s].symbol /\ slab'[s].side = slab[s].side
             /\ slab'[s].price = slab[s].price
  <2>1. slab[s] \in Order /\ TradeQty \in Int
    BY CrossedFacts DEF IInv, TypeOK
  <2>2. CASE s \in {Front(d) : d \in Sides}
    <3>1. slab'[s] = [slab[s] EXCEPT !.quantity = @ - TradeQty]
      BY <2>2
    <3> QED
      BY <2>1, <3>1, OrderUpdate
  <2>3. CASE s \notin {Front(d) : d \in Sides}
    BY <2>1, <2>3
  <2> QED
    BY <2>2, <2>3
<1>2. slab' \in [Slots -> Order]
  BY <1>1
<1>3. Ids' = Ids
  BY <1>1 DEF Ids
<1>4. \A s \in Slots : LevelOf(s)' = LevelOf(s)
  BY <1>1 DEF LevelOf
<1>5. Allocated' = Allocated \ {Front(d) : d \in Filled}
  BY ReleaseFacts DEF Allocated
<1>6. \A k \in Levels : At(k)' = At(k) \ {Front(d) : d \in Filled}
  BY <1>4, <1>5 DEF At, Allocated
<1>7. \A d \in Filled : /\ d \in Sides /\ BestLevel(d) \in Levels
                        /\ Front(d) \in At(BestLevel(d)) /\ LevelOf(Front(d)) = BestLevel(d)
  BY CrossedFacts DEF At
<1>8. \A d, f \in Filled : BestLevel(d) = BestLevel(f) => d = f
  BY DEF BestLevel
<1>9. ASSUME NEW k \in Levels, NEW d \in Filled, k = BestLevel(d)
      PROVE  At(k)' = At(k) \ {Front(d)}
  <2>1. \A f \in Filled : Front(f) \in At(k) => f = d
    BY <1>7, <1>8, <1>9 DEF At
  <2> QED
    BY <1>6, <1>7, <2>1
<1>10. ASSUME NEW k \in Levels, k \notin {BestLevel(d) : d \in Filled}
       PROVE  At(k)' = At(k)
  <2>1. \A f \in Filled : Front(f) \notin At(k)
    BY <1>7, <1>10 DEF At
  <2> QED
    BY Zenon, <1>6, <2>1
<1> QED
  BY <1>2, <1>3, <1>4, <1>5, <1>9, <1>10
(* The lists after an iteration, and when one is empty.                     *)
LEMMA MatchFifo ==
    ASSUME IInv, Match
    PROVE  /\ LevelsAreFifo'
           /\ \A k \in Levels : head'[k] \in Slots \cup {Nil} /\ tail'[k] \in Slots \cup {Nil}
           /\ \A d \in Filled : next[Front(d)] = Nil <=> At(BestLevel(d)) = {Front(d)}
           /\ \A k \in Levels : head'[k] = IF k \in {BestLevel(d) : d \in Filled}
                                           THEN next[head[k]] ELSE head[k]
<1> DEFINE popped == {BestLevel(d) : d \in Filled}
<1>1. \A k \in Levels :
        /\ head'[k] = IF k \in popped THEN next[head[k]] ELSE head[k]
        /\ tail'[k] = IF k \in popped /\ next[head[k]] = Nil THEN Nil ELSE tail[k]
        /\ count'[k] = IF k \in popped THEN count[k] - 1 ELSE count[k]
  BY DEF Match, PopFilled
<1>2. next' = next /\ Ids' = Ids
  BY MatchLevels DEF Match, PopFilled
<1>3. ASSUME NEW k \in Levels, NEW d \in Filled, k = BestLevel(d)
      PROVE  /\ head[k] = Front(d) /\ head[k] \in At(k)
             /\ next[head[k]] = Nil <=> At(k) = {head[k]}
             /\ next[head[k]] \in Slots \cup {Nil}
             /\ FifoList(At(k) \ {head[k]}, next[head[k]],
                         IF next[head[k]] = Nil THEN Nil ELSE tail[k], next, Ids)
  <2>1. head[k] = Front(d)
    BY <1>3 DEF Front
  <2>2. At(k) \in SUBSET Slots /\ At(k) # {}
    BY <1>3, CrossedFacts, StateFacts DEF Match
  <2>3. FifoList(At(k), head[k], tail[k], next, Ids)
    BY DEF IInv, LevelsAreFifo
  <2>4. Distinct(Ids, At(k))
    BY DEF Distinct, Ids, At, Allocated, IInv, TypeOK, Order, PoolPartition
  <2> QED
    BY Zenon, <2>1, <2>2, <2>3, <2>4, FifoPop
<1>4. ASSUME NEW k \in Levels
      PROVE  /\ FifoList(At(k)', head'[k], tail'[k], next', Ids')
             /\ count'[k] = Cardinality(At(k)')
             /\ head'[k] \in Slots \cup {Nil} /\ tail'[k] \in Slots \cup {Nil}
  <2>1. /\ FifoList(At(k), head[k], tail[k], next, Ids)
        /\ count[k] = Cardinality(At(k))
        /\ head[k] \in Slots \cup {Nil} /\ tail[k] \in Slots \cup {Nil}
    BY DEF IInv, TypeOK, LevelsAreFifo
  <2>2. CASE k \in popped
    <3>1. PICK d \in Filled : k = BestLevel(d)
      BY <2>2
    <3>2. At(k)' = At(k) \ {head[k]} /\ head[k] \in At(k)
      <4>1. head[k] = Front(d) /\ head[k] \in At(k)
        BY Zenon, <1>3, <3>1
      <4>2. At(k)' = At(k) \ {Front(d)}
        BY <3>1, MatchLevels
      <4> QED
        BY <4>1, <4>2
    <3>3. Cardinality(At(k)') = Cardinality(At(k)) - 1
      <4>1. IsFiniteSet(At(k))
        BY StateFacts
      <4>2. Cardinality(At(k) \ {head[k]}) = Cardinality(At(k)) - 1
        BY Zenon, <3>2, <4>1, FS_RemoveElement
      <4> QED
        BY <3>2, <4>2
    <3>4. /\ head'[k] = next[head[k]]
          /\ tail'[k] = IF next[head[k]] = Nil THEN Nil ELSE tail[k]
          /\ count'[k] = count[k] - 1
      BY <1>1, <2>2
    <3>5. FifoList(At(k)', head'[k], tail'[k], next', Ids')
      BY <1>2, <1>3, <3>1, <3>2, <3>4
    <3> QED
      BY Zenon, <1>3, <2>1, <3>1, <3>3, <3>4, <3>5
  <2>3. CASE k \notin popped
    <3>1. At(k)' = At(k)
      BY <2>3, MatchLevels
    <3>2. head'[k] = head[k] /\ tail'[k] = tail[k] /\ count'[k] = count[k]
      BY <1>1, <2>3
    <3> QED
      BY <1>2, <2>1, <3>1, <3>2
  <2> QED
    BY <2>2, <2>3
<1>5. LevelsAreFifo'
  BY <1>4 DEF LevelsAreFifo
<1>6. \A d \in Filled : next[Front(d)] = Nil <=> At(BestLevel(d)) = {Front(d)}
  <2> SUFFICES ASSUME NEW d \in Filled
               PROVE  next[Front(d)] = Nil <=> At(BestLevel(d)) = {Front(d)}
    OBVIOUS
  <2>1. BestLevel(d) \in Levels
    BY CrossedFacts DEF Match
  <2>2. PICK k \in Levels : k = BestLevel(d)
    BY <2>1
  <2>3. head[k] = Front(d) /\ (next[head[k]] = Nil <=> At(k) = {head[k]})
    BY Zenon, <1>3, <2>2
  <2> QED
    BY <2>2, <2>3
<1> QED
  BY Zenon, <1>1, <1>4, <1>5, <1>6

(* The occupancy bits and the best ticks after an iteration; a best tick    *)
(* never improves.                                                          *)
LEMMA MatchIndex ==
    ASSUME IInv, Match
    PROVE  /\ IndexMatchesLevels'
           /\ bits' \in [Symbols -> [Sides -> SUBSET Ticks]]
           /\ best' \in [Symbols -> [Sides -> -1 .. MAX_TICKS]]
           /\ \A y \in Symbols : y # book => best'[y] = best[y]
           /\ \A d \in Sides : /\ ~Better(d, best'[book][d], best[book][d])
                               /\ best'[book][d] \in bits'[book][d] \cup {NoTick(d)}
                               /\ d \in Emptied => bits'[book][d] = bits[book][d] \ {best[book][d]}
                               /\ d \notin Emptied => /\ bits'[book][d] = bits[book][d]
                                                      /\ best'[book][d] = best[book][d]
<1> DEFINE left(d) == IF d \in Emptied THEN bits[book][d] \ {best[book][d]} ELSE bits[book][d]
<1>1. book \in Symbols
  BY DEF IInv, TypeOK
<1>2. \A d \in Sides : /\ best[book][d] \in bits[book][d] /\ bits[book][d] \in SUBSET Ticks
                       /\ \A u \in bits[book][d] : ~Better(d, u, best[book][d])
                       /\ BestTick(d, bits[book][d]) = best[book][d]
  BY <1>1, CrossedFacts, StateFacts DEF Match, IInv, IndexMatchesLevels
<1>3. /\ bits' = [bits EXCEPT ![book] = [d \in Sides |-> left(d)]]
      /\ best' = [best EXCEPT ![book] = [d \in Sides |->
                        IF d \in Emptied THEN Rescan(d, left(d), best[book][d])
                                         ELSE best[book][d]]]
  BY DEF Match, ClearEmptied
<1>4. \A y \in Symbols : y # book => best'[y] = best[y] /\ bits'[y] = bits[y]
  BY <1>3 DEF IInv, TypeOK
<1>5. ASSUME NEW d \in Sides
      PROVE  /\ bits'[book][d] = left(d) /\ left(d) \in SUBSET Ticks
             /\ best'[book][d] = BestTick(d, left(d))
  <2>1. /\ bits'[book][d] = left(d)
        /\ best'[book][d] = IF d \in Emptied THEN Rescan(d, left(d), best[book][d])
                                              ELSE best[book][d]
    BY <1>1, <1>3 DEF IInv, TypeOK
  <2>2. left(d) \in SUBSET Ticks /\ left(d) \subseteq bits[book][d]
    BY Zenon, <1>2
  <2>3. {t \in left(d) : ~Better(d, t, best[book][d])} = left(d)
    BY Zenon, <1>2, <2>2
  <2>4. Rescan(d, left(d), best[book][d]) = BestTick(d, left(d))
    BY <2>3 DEF Rescan
  <2> QED
    BY Zenon, <1>2, <2>1, <2>2, <2>4
<1>6. ASSUME NEW d \in Sides
      PROVE  /\ best'[book][d] \in bits'[book][d] \cup {NoTick(d)}
             /\ best'[book][d] \in -1 .. MAX_TICKS
             /\ ~Better(d, best'[book][d], best[book][d])
  <2>1. /\ best'[book][d] \in bits'[book][d] \cup {NoTick(d)}
        /\ best'[book][d] \in -1 .. MAX_TICKS
    <3> HIDE DEF left
    <3>1. left(d) \in SUBSET Ticks
      BY <1>5
    <3>2. BestTick(d, left(d)) \in left(d) \cup {NoTick(d)} /\ BestTick(d, left(d)) \in -1 .. MAX_TICKS
      BY <3>1, BestTickFacts
    <3> QED
      BY <1>5, <3>2
  <2>2. bits'[book][d] \subseteq bits[book][d]
    BY Zenon, <1>5
  <2>3. ~Better(d, NoTick(d), best[book][d])
    <3>1. best[book][d] \in Ticks
      BY <1>2
    <3> QED
      BY <3>1 DEF Better, NoTick, Ticks
  <2> QED
    BY <1>2, <2>1, <2>2, <2>3
<1>7. bits' \in [Symbols -> [Sides -> SUBSET Ticks]]
  <2>1. [d \in Sides |-> left(d)] \in [Sides -> SUBSET Ticks]
    BY Zenon, <1>5
  <2> QED
    BY <1>3, <2>1 DEF IInv, TypeOK
<1>8. best' \in [Symbols -> [Sides -> -1 .. MAX_TICKS]]
  <2> DEFINE b == [d \in Sides |-> IF d \in Emptied THEN Rescan(d, left(d), best[book][d])
                                                   ELSE best[book][d]]
  <2>1. best'[book] = b
    BY <1>1, <1>3 DEF IInv, TypeOK
  <2>2. b \in [Sides -> -1 .. MAX_TICKS]
    <3>1. \A d \in Sides : b[d] \in -1 .. MAX_TICKS
      BY <1>6, <2>1
    <3> QED
      BY <3>1
  <2> QED
    BY Zenon, <1>3, <2>2 DEF IInv, TypeOK
<1>9. IndexMatchesLevels'
  <2> SUFFICES ASSUME NEW y \in Symbols, NEW d \in Sides
               PROVE  /\ bits'[y][d] = {t \in Ticks : head'[<< y, d, t >>] # Nil}
                      /\ best'[y][d] = BestTick(d, bits'[y][d])
    BY DEF IndexMatchesLevels
  <2>1. /\ bits[y][d] = {t \in Ticks : head[<< y, d, t >>] # Nil}
        /\ best[y][d] = BestTick(d, bits[y][d])
    BY DEF IInv, IndexMatchesLevels
  <2>2. \A t \in Ticks : << y, d, t >> \in Levels
    BY DEF Levels
  <2>3. \A t \in Ticks : << y, d, t >> \in {BestLevel(f) : f \in Filled}
                        <=> y = book /\ d \in Filled /\ t = best[book][d]
    BY DEF BestLevel
  <2>4. \A t \in Ticks : ~(y = book /\ d \in Filled /\ t = best[book][d])
                        => head'[<< y, d, t >>] = head[<< y, d, t >>]
    BY <2>2, <2>3, MatchFifo
  <2>5. CASE y # book
    BY Zenon, <1>4, <2>1, <2>4, <2>5
  <2>6. CASE y = book
    <3>1. best[book][d] \in Ticks
      BY <1>2
    <3>2. d \in Filled => head'[BestLevel(d)] = next[Front(d)]
      BY <2>2, <2>6, <3>1, MatchFifo DEF BestLevel, Front
    <3>3. \A t \in Ticks : head'[<< y, d, t >>] # Nil <=>
                head[<< y, d, t >>] # Nil /\ ~(d \in Emptied /\ t = best[book][d])
      <4> SUFFICES ASSUME NEW t \in Ticks
                   PROVE  head'[<< y, d, t >>] # Nil <=>
                head[<< y, d, t >>] # Nil /\ ~(d \in Emptied /\ t = best[book][d])
        OBVIOUS
      <4>1. CASE d \in Filled /\ t = best[book][d]
        <5>1. << y, d, t >> = BestLevel(d)
          BY <2>6, <4>1 DEF BestLevel
        <5>2. head[<< y, d, t >>] # Nil
          BY <1>2, <2>1, <2>6, <4>1
        <5> QED
          BY <3>2, <4>1, <5>1, <5>2 DEF Emptied
      <4>2. CASE ~(d \in Filled /\ t = best[book][d])
        BY <2>4, <4>2 DEF Emptied
      <4> QED
        BY <4>1, <4>2
    <3>4. bits'[y][d] = {t \in Ticks : head'[<< y, d, t >>] # Nil}
      <4>1. bits'[y][d] = IF d \in Emptied THEN bits[y][d] \ {best[book][d]} ELSE bits[y][d]
        BY <1>5, <2>6
      <4> QED
        BY <2>1, <3>3, <4>1
    <3>5. best'[y][d] = BestTick(d, bits'[y][d])
      <4> HIDE DEF left
      <4> QED
        BY <1>5, <2>6
    <3> QED
      BY <3>4, <3>5
  <2> QED
    BY <2>5, <2>6
<1> QED
  BY Zenon, <1>2, <1>4, <1>5, <1>6, <1>7, <1>8, <1>9

(* After an iteration either the incoming order still leads its side, or    *)
(* the book is no longer crossed.                                           *)
LEMMA MatchCross ==
    ASSUME IInv, Match
    PROVE  CrossInv'
<1>1. /\ agg' = agg /\ book' = book /\ aggressor' = aggressor /\ agg # Nil
      /\ book \in Symbols /\ aggressor \in Sides
  BY DEF Match, call, IInv, TypeOK
<1>2. OnlyIncomingCrosses /\ Front(aggressor) = agg
  BY CrossedFacts DEF Match
<1>3. \A y \in Symbols : y # book => Uncrossed(y)'
  BY <1>1, MatchIndex DEF IInv, CrossInv, Uncrossed
<1>4. /\ Passive' = Passive /\ Passive \in Sides
      /\ Passive = IF aggressor = "BUY" THEN "SELL" ELSE "BUY"
  BY <1>1 DEF Passive, Sides
<1>5. \A d \in Sides : /\ best[book][d] \in -1 .. MAX_TICKS
                       /\ best'[book][d] \in -1 .. MAX_TICKS
                       /\ bits[book][d] \in SUBSET Ticks
                       /\ ~Better(d, best'[book][d], best[book][d])
                       /\ best'[book][d] \in bits'[book][d] \cup {NoTick(d)}
                       /\ d \in Emptied => bits'[book][d] = bits[book][d] \ {best[book][d]}
                       /\ d \notin Emptied => /\ bits'[book][d] = bits[book][d]
                                              /\ best'[book][d] = best[book][d]
  BY <1>1, MatchIndex DEF IInv, TypeOK
<1>6. \A t \in bits[book][aggressor] \ {best[book][aggressor]} :
            Better(aggressor, best'[book][Passive], t)
  <2> SUFFICES ASSUME NEW t \in bits[book][aggressor] \ {best[book][aggressor]}
               PROVE  Better(aggressor, best'[book][Passive], t)
    OBVIOUS
  <2>1. Better(aggressor, best[book][Passive], t)
    BY <1>2 DEF OnlyIncomingCrosses
  <2>2. ~Better(Passive, best'[book][Passive], best[book][Passive])
    BY <1>4, <1>5
  <2>3. t \in Int
    <3>1. t \in Ticks
      BY <1>1, <1>5
    <3> QED
      BY <3>1 DEF Ticks
  <2>4. best[book][Passive] \in Int /\ best'[book][Passive] \in Int
    BY <1>4, <1>5
  <2> QED
    BY <1>1, <1>4, <2>1, <2>2, <2>3, <2>4 DEF Better, Sides
<1>7. CASE aggressor \in Filled
  <2>1. aggressor \in Emptied
    BY <1>2, <1>7, MatchFifo DEF Emptied, OnlyIncomingCrosses
  <2>2. best'[book][aggressor] \in (bits[book][aggressor] \ {best[book][aggressor]})
                                        \cup {NoTick(aggressor)}
    BY <1>1, <1>5, <2>1
  <2>3. IndexMatchesLevels' /\ best'[book][Passive] = BestTick(Passive, bits'[book][Passive])
    BY <1>1, <1>4, MatchIndex DEF IndexMatchesLevels
  <2>4. best'[book][Passive] \in Ticks \cup {NoTick(Passive)}
    BY <1>4, <1>5
  <2>5. Better(aggressor, best'[book][Passive], best'[book][aggressor])
    <3>1. CASE best'[book][aggressor] = NoTick(aggressor)
      BY <1>1, <1>4, <2>4, <3>1 DEF Better, NoTick, Sides, Ticks
    <3> QED
      BY <1>6, <2>2, <3>1
  <2>6. Uncrossed(book)'
    <3>1. \A d \in Sides : best'[book][d] \in Int
      BY <1>5
    <3> QED
      BY <1>1, <1>4, <2>5, <3>1 DEF Uncrossed, Better, Sides
  <2> QED
    BY <1>1, <1>3, <2>6 DEF CrossInv
<1>8. CASE aggressor \notin Filled
  <2>1. aggressor \notin Emptied
    BY <1>8 DEF Emptied
  <2>2. /\ best'[book][aggressor] = best[book][aggressor]
        /\ bits'[book][aggressor] = bits[book][aggressor]
    BY <1>1, <1>5, <2>1
  <2>3. PICK k \in Levels : k = BestLevel(aggressor)
    BY <1>1, CrossedFacts DEF Match
  <2>4. k \notin {BestLevel(d) : d \in Filled}
    BY <1>8, <2>3 DEF BestLevel
  <2>5. At(k)' = {agg}
    <3>1. At(k)' = At(k)
      BY <2>4, MatchLevels
    <3> QED
      BY <1>2, <2>3, <3>1 DEF OnlyIncomingCrosses
  <2>6. BestLevel(aggressor)' = k
    BY <1>1, <2>2, <2>3 DEF BestLevel
  <2>7. At(BestLevel(aggressor))' = {agg}
    BY <2>5, <2>6 DEF At
  <2>8. OnlyIncomingCrosses'
    BY <1>1, <1>4, <1>6, <2>2, <2>7 DEF OnlyIncomingCrosses
  <2> QED
    BY <1>1, <1>3, <2>8 DEF CrossInv
<1> QED
  BY <1>7, <1>8

(* An iteration of matchOrders() keeps the invariant.                       *)
LEMMA MatchIInv ==
    ASSUME IInv, Match
    PROVE  IInv'
<1>1. /\ StackOK(free_stack, top)' /\ Free' = Contents(free_stack, top)'
  BY ReleaseFacts DEF Match, Free, Contents
<1>2. LevelsAreFifo' /\ IndexMatchesLevels' /\ CrossInv'
  BY MatchFifo, MatchIndex, MatchCross
<1>3. Bookkeeping'
  <2>1. \A s \in Allocated' : slab'[s].id <= Len(submitted')
    <3>1. \A s \in Slots : slab'[s].id = slab[s].id
      <4>1. \A s \in Slots : Ids[s] = slab[s].id /\ Ids'[s] = slab'[s].id
        BY DEF Ids
      <4> QED
        BY <4>1, MatchLevels
    <3> QED
      BY <3>1, MatchLevels DEF IInv, Bookkeeping, Match, Allocated
  <2> QED
    BY Zenon, <1>1, <2>1 DEF Bookkeeping, IInv, Match, StackOK
<1>4. PoolPartition'
  <2>1. \A i, j \in 0 .. top' - 1 : i # j => free_stack'[i] # free_stack'[j]
    BY Zenon, <1>1 DEF StackOK
  <2>2. Allocated' \subseteq Allocated /\ Allocated \subseteq Slots
    BY MatchLevels DEF Allocated
  <2>3. \A s \in Allocated' : LevelOf(s)' \in Levels
    BY <2>2, MatchLevels DEF IInv, PoolPartition
  <2>4. \A s, u \in Allocated' : s # u => slab'[s].id # slab'[u].id
    <3>1. \A s \in Slots : Ids[s] = slab[s].id /\ Ids'[s] = slab'[s].id
      BY DEF Ids
    <3>2. \A s \in Slots : slab'[s].id = slab[s].id
      BY <3>1, MatchLevels
    <3> QED
      BY <2>2, <3>2 DEF IInv, PoolPartition
  <2> QED
    BY <2>1, <2>3, <2>4 DEF PoolPartition
<1>5. TypeOK'
  <2>1. slab' \in [Slots -> Order]
    BY MatchLevels
  <2>2. next' \in [Slots -> Slots \cup {Nil}]
    BY DEF IInv, TypeOK, Match, PopFilled
  <2>3. free_stack' \in [0 .. CAPACITY - 1 -> Slots] /\ top' \in 0 .. CAPACITY
    BY <1>1 DEF StackOK
  <2>4. head' \in [Levels -> Slots \cup {Nil}] /\ tail' \in [Levels -> Slots \cup {Nil}]
    BY MatchFifo DEF Match, PopFilled
  <2>5. count' \in [Levels -> Nat]
    <3>1. ASSUME NEW k \in Levels PROVE count'[k] \in Nat
      <4>1. At(k)' \in SUBSET Slots
        BY DEF At, Allocated
      <4>2. Cardinality(At(k)') \in Nat
        BY <4>1, SlotsFinite, FS_Subset, FS_CardinalityType
      <4> QED
        BY <1>2, <4>2 DEF LevelsAreFifo
    <3> QED
      BY <3>1 DEF Match, PopFilled
  <2>6. /\ bits' \in [Symbols -> [Sides -> SUBSET Ticks]]
        /\ best' \in [Symbols -> [Sides -> -1 .. MAX_TICKS]]
    BY MatchIndex
  <2>7. agg' \in Slots \cup {Nil} /\ book' \in Symbols /\ aggressor' \in Sides
    BY DEF IInv, TypeOK, Match, call
  <2> QED
    BY <2>1, <2>2, <2>3, <2>4, <2>5, <2>6, <2>7 DEF TypeOK
<1> QED
  BY <1>2, <1>3, <1>4, <1>5 DEF IInv

(* Every step of the engine keeps the invariant.                            *)
LEMMA NextIInv == IInv /\ [Next]_vars => IInv'
<1> SUFFICES ASSUME IInv, [Next]_vars PROVE IInv'
  OBVIOUS
<1>1. ASSUME NEW y \in Symbols, NEW d \in Sides, NEW p \in Prices, NEW q \in Quantities,
             acceptNewOrder(y, d, p, q)
      PROVE  IInv'
  <2>1. PICK e \in Submission : submitted' = Append(submitted, e)
    <3>1. [symbol |-> y, side |-> d, price |-> p, quantity |-> q,
           placed |-> priceToTick(p) \in Ticks /\ top > 0] \in Submission
      BY DEF Submission
    <3> QED
      BY <1>1, <3>1 DEF acceptNewOrder
  <2>2. CASE Place(y, d, p, q)
    BY <1>1, <2>1, <2>2, PlaceIInv DEF acceptNewOrder
  <2>3. CASE Drop(p)
    BY <1>1, <2>1, <2>3, DropIInv DEF acceptNewOrder
  <2> QED
    BY <1>1, <2>2, <2>3 DEF acceptNewOrder
<1>2. CASE Match
  BY <1>2, MatchIInv
<1>3. CASE Return
  BY <1>3, ReturnIInv
<1>4. CASE UNCHANGED vars
  BY <1>4, StutterIInv
<1> QED
  BY <1>1, <1>2, <1>3, <1>4 DEF Next

----------------------------------------------------------------------------
(* The invariant holds in every state of acceptNewOrder() and               *)
(* matchOrders(), for a pool, a tick range and a price scale of any size.   *)
THEOREM Invariance == Spec => []IInv
BY InitIInv, NextIInv, PTL DEF Spec

(* Every field keeps its type; release() never writes past the end of       *)
(* free_stack_ and alloc() never reads below its bottom.                    *)
THEOREM TypeCorrect == Spec => []TypeOK
<1>1. IInv => TypeOK
  BY DEF IInv
<1> QED
  BY <1>1, Invariance, PTL

(* release() never gets a slot twice, and no slot leaks: a slot is on the   *)
(* free stack once or holds an order of a level.                            *)
THEOREM PoolPartitionCorrect == Spec => []PoolPartition
<1>1. IInv => PoolPartition
  BY DEF IInv
<1> QED
  BY <1>1, Invariance, PTL

(* The intrusive list of every price level runs through exactly the live    *)
(* orders of that level in arrival order, and count is their number.        *)
THEOREM LevelsAreFifoCorrect == Spec => []LevelsAreFifo
<1>1. IInv => LevelsAreFifo
  BY DEF IInv
<1> QED
  BY <1>1, Invariance, PTL

(* The occupancy bits and the cached best ticks always agree with the       *)
(* lists of the price levels.                                               *)
THEOREM IndexMatchesLevelsCorrect == Spec => []IndexMatchesLevels
<1>1. IInv => IndexMatchesLevels
  BY DEF IInv
<1> QED
  BY <1>1, Invariance, PTL

(* acceptNewOrder() never returns with a crossed book.                      *)
THEOREM UncrossedBetweenCallsCorrect == Spec => []UncrossedBetweenCalls
<1>1. IInv => UncrossedBetweenCalls
  BY DEF IInv, CrossInv, Uncrossed, UncrossedBetweenCalls
<1> QED
  BY <1>1, Invariance, PTL

(* While matchOrders() trades, the slot its symbol pointer points into is   *)
(* live and the front of the aggressor's side.                              *)
THEOREM AggressorIsFrontCorrect == Spec => []AggressorIsFront
<1>1. IInv => AggressorIsFront
  <2> SUFFICES ASSUME IInv, agg # Nil PROVE AggressorIsFront
    BY DEF AggressorIsFront
  <2>1. ASSUME Crossed PROVE Front(aggressor) = agg /\ agg \in Allocated
    <3>1. aggressor \in Sides
      BY DEF IInv, TypeOK
    <3> QED
      BY <2>1, <3>1, CrossedFacts DEF Allocated
  <2>2. \A y \in Symbols \ {book} : best[y]["BUY"] < best[y]["SELL"]
    BY DEF IInv, CrossInv, Uncrossed
  <2> QED
    BY <2>1, <2>2 DEF AggressorIsFront
<1> QED
  BY <1>1, Invariance, PTL

(* Every iteration of matchOrders() gives at least one slot back to the     *)
(* pool, whatever the quantities, so the loop is bounded by the orders in   *)
(* the book.                                                                *)
THEOREM EveryTradeFillsAnOrderCorrect == Spec => EveryTradeFillsAnOrder
<1>1. IInv => [Match => top' > top]_vars
  BY ReleaseFacts DEF Match
<1> QED
  BY <1>1, Invariance, PTL DEF EveryTradeFillsAnOrder, Spec

(* Once acceptNewOrder() returns with no slot left, no slot ever comes back *)
(* and every later order is dropped.                                        *)
THEOREM ExhaustionIsPermanentCorrect == Spec => ExhaustionIsPermanent
<1>1. agg = Nil /\ top = 0 /\ [Next]_vars => (agg = Nil /\ top = 0)'
  <2> SUFFICES ASSUME agg = Nil, top = 0, [Next]_vars PROVE agg' = Nil /\ top' = 0
    OBVIOUS
  <2>1. ASSUME NEW y \in Symbols, NEW d \in Sides, NEW p \in Prices, NEW q \in Quantities,
               acceptNewOrder(y, d, p, q)
        PROVE  agg' = Nil /\ top' = 0
    <3>1. ~Place(y, d, p, q)
      BY DEF Place
    <3> QED
      BY <2>1, <3>1 DEF acceptNewOrder, Drop, pool, call
  <2>2. ~Match /\ ~Return
    BY DEF Match, Return
  <2>3. CASE UNCHANGED vars
    BY <2>3 DEF vars, pool, call
  <2> QED
    BY <2>1, <2>2, <2>3 DEF Next
<1>2. [Next]_vars => [agg = Nil /\ top = 0 => agg' = Nil /\ top' = 0]_vars
  BY <1>1
<1> QED
  BY <1>2, PTL DEF Spec, ExhaustionIsPermanent
============================================================================
