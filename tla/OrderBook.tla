----------------------------- MODULE OrderBook -----------------------------
(***************************************************************************)
(* The matching engine: OrderBook, SymbolBook and PriceLevel of            *)
(* libs/order-book and the ObjectPool that holds its orders.               *)
(*                                                                         *)
(* The two sides of a book run through mirrored code; here a side is an    *)
(* argument.  bids[t] and asks[t] of a symbol's book are one price level   *)
(* <<symbol, side, t>>, and an occupancy bitset is the set of its 1 bits   *)
(* (module OccupancyBitset has the words).  The code's symbol is the       *)
(* 8-byte key of the book.                                                 *)
(***************************************************************************)
EXTENDS Orders, FiniteSets, FiniteSetsExt, Functions, Sequences

CONSTANTS
    Symbols,        \* keys of books_
    CAPACITY,       \* slots of the pool (65536)
    Prices,         \* prices of incoming orders
    Quantities,     \* quantities of incoming orders, as parsed: 0 is possible
    MaxOrders,      \* bound: acceptNewOrder() calls in one behaviour
    Nil             \* nullptr

Slots == 1 .. CAPACITY

ASSUME CapacityAssumption == CAPACITY \in Nat \ {0}
ASSUME SymbolsAssumption == Symbols # {}
ASSUME PricesAssumption == Prices \subseteq Int
ASSUME QuantitiesAssumption == Quantities \subseteq Int
ASSUME MaxOrdersAssumption == MaxOrders \in Nat
ASSUME NilAssumption == Nil \notin Slots /\ Nil \notin Symbols

VARIABLES
    slab,           \* slab_: the orders in the pool's slots
    next,           \* Order::next of every slot
    free_stack,     \* free_stack_
    top,            \* top_
    head, tail, count,  \* the fields of every price level
    bits,           \* bid_bits and ask_bits of every book
    best,           \* best_bid_tick and best_ask_tick of every book
    agg,            \* o in acceptNewOrder() while it is matched, Nil between calls
    book,           \* matchOrders(): the book it works on
    aggressor,      \* matchOrders(): the side of the incoming order
    submitted,      \* history: orders passed to acceptNewOrder()
    executions      \* history: executions passed to onExecution_

pool == << slab, free_stack, top >>
levels == << next, head, tail, count >>
index == << bits, best >>
call == << agg, book, aggressor >>
vars == << pool, levels, index, call, submitted, executions >>

Levels == Symbols \X Sides \X Ticks

(* A zero-initialised Order.                                                *)
BlankOrder == [id |-> 0, symbol |-> Nil, side |-> "BUY", price |-> 0, quantity |-> 0]

Init ==
    /\ slab = [s \in Slots |-> BlankOrder]
    /\ next = [s \in Slots |-> Nil]
    /\ free_stack = [i \in 0 .. CAPACITY - 1 |-> i + 1]
    /\ top = CAPACITY
    /\ head = [k \in Levels |-> Nil]
    /\ tail = [k \in Levels |-> Nil]
    /\ count = [k \in Levels |-> 0]
    /\ bits = [y \in Symbols |-> [d \in Sides |-> {}]]
    /\ best = [y \in Symbols |-> [d \in Sides |-> NoTick(d)]]
    /\ agg = Nil
    /\ book \in Symbols
    /\ aggressor = "BUY"
    /\ submitted = << >>
    /\ executions = << >>

----------------------------------------------------------------------------
(* Mutant of Push: tail is not moved on when the level is occupied.         *)
PushForgetsTail(k, o) ==
    /\ next' = [s \in Slots |->
                    IF s = o THEN Nil
                    ELSE IF head[k] # Nil /\ s = tail[k] THEN o ELSE next[s]]
    /\ head' = [head EXCEPT ![k] = IF @ = Nil THEN o ELSE @]
    /\ tail' = [tail EXCEPT ![k] = IF @ = Nil THEN o ELSE @]
    /\ count' = [count EXCEPT ![k] = @ + 1]

(* Mutant of Push: the order goes to the front of the level.                *)
PushAtFront(k, o) ==
    /\ next' = [next EXCEPT ![o] = head[k]]
    /\ head' = [head EXCEPT ![k] = o]
    /\ tail' = [tail EXCEPT ![k] = IF @ = Nil THEN o ELSE @]
    /\ count' = [count EXCEPT ![k] = @ + 1]

(* PriceLevel::push() of slot o at level k.                                 *)
Push(k, o) ==
    /\ next' = [s \in Slots |->
                    IF s = o THEN Nil
                    ELSE IF head[k] # Nil /\ s = tail[k] THEN o ELSE next[s]]
    /\ head' = [head EXCEPT ![k] = IF @ = Nil THEN o ELSE @]
    /\ tail' = [tail EXCEPT ![k] = o]
    /\ count' = [count EXCEPT ![k] = @ + 1]

(* acceptNewOrder(), as far as the call of matchOrders(): the tick decides  *)
(* whether the order is taken at all, then the pool does.                   *)
Place(y, d, p, q) ==
    LET t == priceToTick(p)
        o == free_stack[top - 1]
        k == << y, d, t >>
    IN  /\ t \in Ticks
        /\ top > 0
        /\ top' = top - 1
        /\ slab' = [slab EXCEPT ![o] = [id |-> Len(submitted) + 1, symbol |-> y,
                                        side |-> d, price |-> p, quantity |-> q]]
        /\ Push(k, o)
        /\ bits' = [bits EXCEPT ![y][d] = @ \cup {t}]
        /\ best' = [best EXCEPT ![y][d] = IF Better(d, t, @) THEN t ELSE @]
        /\ agg' = o /\ book' = y /\ aggressor' = d
        /\ UNCHANGED free_stack

(* Mutant of Drop: an exhausted pool starts again from the bottom.          *)
DropRecycles(p) ==
    /\ priceToTick(p) \notin Ticks \/ top = 0
    /\ top' = IF top = 0 THEN CAPACITY ELSE top
    /\ UNCHANGED << slab, free_stack, levels, index, call >>

(* An order outside the tick range, or one that finds the pool exhausted,   *)
(* is dropped without a trace and without matching.                         *)
Drop(p) ==
    /\ priceToTick(p) \notin Ticks \/ top = 0
    /\ UNCHANGED << pool, levels, index, call >>

acceptNewOrder(y, d, p, q) ==
    /\ agg = Nil
    /\ Len(submitted) < MaxOrders
    /\ \/ Place(y, d, p, q)
       \/ Drop(p)
    /\ submitted' = Append(submitted,
            [symbol |-> y, side |-> d, price |-> p, quantity |-> q,
             placed |-> priceToTick(p) \in Ticks /\ top > 0])
    /\ UNCHANGED executions

----------------------------------------------------------------------------
(* The level matchOrders() takes the front of on side d.                    *)
BestLevel(d) == << book, d, best[book][d] >>

Front(d) == head[BestLevel(d)]

(* Mutant of Crossed: equal ticks do not cross.                             *)
CrossedStrictly ==
    /\ \A d \in Sides : best[book][d] # NoTick(d)
    /\ best[book]["BUY"] > best[book]["SELL"]

Crossed ==
    /\ \A d \in Sides : best[book][d] # NoTick(d)
    /\ best[book]["BUY"] >= best[book]["SELL"]

(* Mutant of TradeQty: the larger quantity trades.                          *)
TradeQtyLarger ==
    LET a == slab[Front("SELL")].quantity
        b == slab[Front("BUY")].quantity
    IN  IF b < a THEN a ELSE b

TradeQty ==
    LET a == slab[Front("SELL")].quantity
        b == slab[Front("BUY")].quantity
    IN  IF b < a THEN b ELSE a

Passive == IF aggressor = "BUY" THEN "SELL" ELSE "BUY"

(* Mutant of buildExecution: the price is the incoming order's.             *)
buildExecutionAtAggressor ==
    [side |-> aggressor, symbol |-> slab[agg].symbol, quantity |-> TradeQty,
     buy_id |-> slab[Front("BUY")].id, sell_id |-> slab[Front("SELL")].id,
     trade_price |-> slab[Front(aggressor)].price,
     order_arrival |-> slab[Front(aggressor)].id]

(* The symbol is read through the pointer into the aggressor's slot, the    *)
(* price is the resting order's, the arrival stamp the aggressor's.         *)
buildExecution ==
    [side |-> aggressor, symbol |-> slab[agg].symbol, quantity |-> TradeQty,
     buy_id |-> slab[Front("BUY")].id, sell_id |-> slab[Front("SELL")].id,
     trade_price |-> slab[Front(Passive)].price,
     order_arrival |-> slab[Front(aggressor)].id]

(* Mutant of Filled: an order is filled only by a positive quantity.        *)
FilledIfPositive ==
    {d \in Sides : slab[Front(d)].quantity = TradeQty /\ TradeQty > 0}

(* Mutant of Filled: both orders leave the book.                            *)
FilledBoth == Sides

(* Sides whose front order this trade fills, and those it leaves without    *)
(* an order at their best level.                                            *)
Filled == {d \in Sides : slab[Front(d)].quantity = TradeQty}
Emptied == {d \in Filled : next[Front(d)] = Nil}

(* Mutant of Release: top_ moves by two even for one order.                 *)
ReleaseCountsTwo ==
    /\ free_stack' = [i \in DOMAIN free_stack |->
                        IF i = top THEN Front(CHOOSE d \in Filled : TRUE)
                                   ELSE free_stack[i]]
    /\ top' = top + 2

(* Mutant of Release: both orders are written to the same entry.            *)
ReleaseOverwrites ==
    /\ free_stack' = [free_stack EXCEPT ![top] = Front(CHOOSE d \in Filled : TRUE)]
    /\ top' = top + Cardinality(Filled)

(* release() of the filled orders, the bid before the ask.                  *)
Release ==
    LET bought == IF "BUY" \in Filled
                  THEN [free_stack EXCEPT ![top] = Front("BUY")] ELSE free_stack
        mid == IF "BUY" \in Filled THEN top + 1 ELSE top
    IN  /\ free_stack' = IF "SELL" \in Filled
                         THEN [bought EXCEPT ![mid] = Front("SELL")] ELSE bought
        /\ top' = IF "SELL" \in Filled THEN mid + 1 ELSE mid

(* pop_front() of the filled orders; the popped slot keeps its next link.   *)
PopFilled ==
    LET popped == {BestLevel(d) : d \in Filled}
    IN  /\ head' = [k \in Levels |-> IF k \in popped THEN next[head[k]] ELSE head[k]]
        /\ tail' = [k \in Levels |-> IF k \in popped /\ next[head[k]] = Nil
                                     THEN Nil ELSE tail[k]]
        /\ count' = [k \in Levels |-> IF k \in popped THEN count[k] - 1 ELSE count[k]]
        /\ UNCHANGED next

(* highest_bid() and lowest_ask(): the best occupied tick no better than    *)
(* the one just cleared.                                                    *)
Rescan(d, S, from) == BestTick(d, {t \in S : ~Better(d, t, from)})

(* Mutant of ClearEmptied: the bit of an emptied level stays set.           *)
ClearEmptiedKeepsBit ==
    LET left(d) == IF d \in Emptied THEN bits[book][d] \ {best[book][d]}
                                    ELSE bits[book][d]
    IN  /\ best' = [best EXCEPT ![book] = [d \in Sides |->
                        IF d \in Emptied THEN Rescan(d, left(d), best[book][d])
                                         ELSE best[book][d]]]
        /\ UNCHANGED bits

(* The bit of an emptied level is cleared and the side's best tick sought.  *)
ClearEmptied ==
    LET left(d) == IF d \in Emptied THEN bits[book][d] \ {best[book][d]}
                                    ELSE bits[book][d]
    IN  /\ bits' = [bits EXCEPT ![book] = [d \in Sides |-> left(d)]]
        /\ best' = [best EXCEPT ![book] = [d \in Sides |->
                        IF d \in Emptied THEN Rescan(d, left(d), best[book][d])
                                         ELSE best[book][d]]]

(* One iteration of the loop in matchOrders().                              *)
Match ==
    /\ agg # Nil
    /\ Crossed
    /\ executions' = Append(executions, buildExecution)
    /\ slab' = [s \in Slots |-> IF s \in {Front(d) : d \in Sides}
                                THEN [slab[s] EXCEPT !.quantity = @ - TradeQty]
                                ELSE slab[s]]
    /\ PopFilled
    /\ Release
    /\ ClearEmptied
    /\ UNCHANGED << call, submitted >>

(* Mutant of Return: matchOrders() returns while the book is crossed.       *)
ReturnEarly ==
    /\ agg # Nil
    /\ agg' = Nil
    /\ UNCHANGED << pool, levels, index, book, aggressor, submitted, executions >>

(* matchOrders() returns: a side is empty or the book is no longer crossed. *)
Return ==
    /\ agg # Nil
    /\ ~Crossed
    /\ agg' = Nil
    /\ UNCHANGED << pool, levels, index, book, aggressor, submitted, executions >>

Next ==
    \/ \E y \in Symbols, d \in Sides, p \in Prices, q \in Quantities :
            acceptNewOrder(y, d, p, q)
    \/ Match
    \/ Return

Spec == Init /\ [][Next]_vars

----------------------------------------------------------------------------
(* Slots handed out by alloc() and not yet released.                        *)
Free == {free_stack[i] : i \in 0 .. top - 1}
Allocated == Slots \ Free

LevelOf(s) == << slab[s].symbol, slab[s].side, priceToTick(slab[s].price) >>

At(k) == {s \in Allocated : LevelOf(s) = k}

Order == [id : Nat, symbol : Symbols \cup {Nil}, side : Sides, price : Int,
          quantity : Int]

(* Types of the fields; top within the stack is also that release() never   *)
(* writes past free_stack_'s end.                                           *)
TypeOK ==
    /\ slab \in [Slots -> Order]
    /\ next \in [Slots -> Slots \cup {Nil}]
    /\ free_stack \in [0 .. CAPACITY - 1 -> Slots]
    /\ top \in 0 .. CAPACITY
    /\ head \in [Levels -> Slots \cup {Nil}]
    /\ tail \in [Levels -> Slots \cup {Nil}]
    /\ count \in [Levels -> Nat]
    /\ bits \in [Symbols -> [Sides -> SUBSET Ticks]]
    /\ best \in [Symbols -> [Sides -> -1 .. MAX_TICKS]]
    /\ agg \in Slots \cup {Nil}
    /\ book \in Symbols
    /\ aggressor \in Sides

(* release() is never called twice for an order, nor for one that is still  *)
(* listed: no slot is on the free stack twice, and every slot off the stack *)
(* holds an order of some level, with an id of its own.                     *)
PoolPartition ==
    /\ \A i, j \in 0 .. top - 1 : i # j => free_stack[i] # free_stack[j]
    /\ \A s \in Allocated : LevelOf(s) \in Levels
    /\ \A s, u \in Allocated : s # u => slab[s].id # slab[u].id

(* A list with head h, last element l and links nx runs through exactly the *)
(* slots in S, from the oldest to the newest by id.                         *)
FifoList(S, h, l, nx, id) ==
    /\ S = {} => h = Nil /\ l = Nil
    /\ S # {} => h \in S /\ l \in S
    /\ \A s \in S :
        /\ id[h] <= id[s] /\ id[s] <= id[l]
        /\ s = l => nx[s] = Nil
        /\ s # l => /\ nx[s] \in S
                    /\ id[s] < id[nx[s]]
                    /\ \A u \in S : id[u] <= id[s] \/ id[nx[s]] <= id[u]

Ids == [s \in Slots |-> slab[s].id]

(* No order is lost or reached through the wrong level: the lists stay      *)
(* linked in arrival order through every mix of push and pop, although a    *)
(* popped slot keeps its old next link until it is reused.                  *)
LevelsAreFifo ==
    \A k \in Levels : /\ FifoList(At(k), head[k], tail[k], next, Ids)
                      /\ count[k] = Cardinality(At(k))

(* The occupancy bits and the cached best ticks agree with the lists.       *)
IndexMatchesLevels ==
    \A y \in Symbols, d \in Sides :
        /\ bits[y][d] = {t \in Ticks : head[<< y, d, t >>] # Nil}
        /\ best[y][d] = BestTick(d, bits[y][d])

(* acceptNewOrder() never returns with a crossed book, in any symbol.       *)
UncrossedBetweenCalls ==
    agg = Nil => \A y \in Symbols : best[y]["BUY"] < best[y]["SELL"]

(* While matchOrders() still trades, the incoming order is the front of its *)
(* side: the symbol it reads through the pointer into the slot is that of a *)
(* live order, never of one already released, and the arrival stamp of the  *)
(* execution is the incoming order's.  No other book is crossed meanwhile.  *)
AggressorIsFront ==
    agg # Nil =>
        /\ Crossed => Front(aggressor) = agg /\ agg \in Allocated
        /\ \A y \in Symbols \ {book} : best[y]["BUY"] < best[y]["SELL"]

(* Every iteration of the loop in matchOrders() gives an order back to the  *)
(* pool, whatever the quantities (0 and negative ones included), so the     *)
(* loop ends after at most as many iterations as orders are resting.        *)
EveryTradeFillsAnOrder == [][Match => top' > top]_vars

(* Once a call returns with the pool exhausted the engine is dead: orders   *)
(* are dropped before they can match, so nothing is ever released again.    *)
ExhaustionIsPermanent ==
    [][agg = Nil /\ top = 0 => agg' = Nil /\ top' = 0]_vars

----------------------------------------------------------------------------
(* Executions of order i, the quantity they filled, and what still rests.   *)
FillsOf(i) == {n \in DOMAIN executions :
                    i \in {executions[n].buy_id, executions[n].sell_id}}
FilledQty(i) ==
    SumFunctionOnSet([n \in DOMAIN executions |-> executions[n].quantity], FillsOf(i))
RestingQty(i) ==
    SumFunctionOnSet([s \in Slots |-> slab[s].quantity], {s \in Allocated : slab[s].id = i})

(* No quantity appears or disappears over a run: what an accepted order     *)
(* asked for is what its executions filled plus what still rests, and a     *)
(* dropped order never trades.                                              *)
QuantityConserved ==
    \A i \in DOMAIN submitted :
        IF submitted[i].placed
        THEN submitted[i].quantity = FilledQty(i) + RestingQty(i)
        ELSE FillsOf(i) = {}

(* As long as no order came with a negative quantity, matchOrders() never   *)
(* takes more from a resting order than it has: its quantity stays between  *)
(* 0 and what was asked for, so that the 32-bit subtraction cannot wrap.    *)
RestingNeverGrows ==
    (\A i \in DOMAIN submitted : submitted[i].quantity >= 0) =>
        \A s \in Allocated : /\ 0 <= slab[s].quantity
                             /\ slab[s].quantity <= submitted[slab[s].id].quantity

(* How far beyond its limit an order can trade.  Matching compares ticks,   *)
(* so a limit is honoured up to the rounding: less than one tick, or two    *)
(* for the slightly negative prices that truncate to tick 0.                *)
Slack(p) == IF p >= 0 THEN UNIT ELSE 2 * UNIT

(* An execution pairs a buyer and a seller of its own symbol, at the price  *)
(* of the one that came first, beyond neither limit by more than rounding.  *)
ExecutionsAreJustified ==
    \A n \in DOMAIN executions :
        LET e == executions[n]
            buy == submitted[e.buy_id]
            sell == submitted[e.sell_id]
            first == Min({e.buy_id, e.sell_id})
        IN  /\ buy.side = "BUY" /\ sell.side = "SELL"
            /\ buy.symbol = e.symbol /\ sell.symbol = e.symbol
            /\ e.order_arrival = Max({e.buy_id, e.sell_id})
            /\ e.trade_price = submitted[first].price
            /\ sell.price - buy.price < Slack(buy.price)

----------------------------------------------------------------------------
(* The engine implements price-time priority matching.                      *)
Abstract == INSTANCE PriceTimeBook WITH
    resting <- {slab[s] : s \in Allocated},
    working <- IF agg = Nil THEN 0 ELSE slab[agg].id

ImplementsPriceTimeBook == Abstract!Spec
============================================================================
