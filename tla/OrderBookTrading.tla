------------------------- MODULE OrderBookTrading --------------------------
(* Proofs about what OrderBook does with the orders it accepts, for every   *)
(* value of the constants: what an execution is justified by, that no       *)
(* quantity is lost, and that OrderBook implements PriceTimeBook.           *)
EXTENDS OrderBookProofs

USE MaxTicksAssumption, UnitAssumption, CapacityAssumption, NilAssumption

----------------------------------------------------------------------------
(* The invariant on the history.                                            *)

(* A resting order is the order that was submitted under its id, but for    *)
(* its quantity.                                                            *)
SameOrder(o, e) == o.symbol = e.symbol /\ o.side = e.side /\ o.price = e.price

RestingWasSubmitted ==
    \A s \in Allocated : /\ slab[s].id \in 1 .. Len(submitted)
                         /\ SameOrder(slab[s], submitted[slab[s].id])

(* The incoming order is the latest one, also when its slot has already     *)
(* been released.                                                           *)
IncomingIsLatest ==
    agg # Nil => /\ slab[agg].id = Len(submitted) /\ Len(submitted) # 0
                 /\ slab[agg].symbol = book /\ slab[agg].side = aggressor
                 /\ \A s \in Allocated : s # agg => slab[s].id # Len(submitted)

HInv == IInv /\ RestingWasSubmitted /\ IncomingIsLatest

(* What the history says when an order is appended to it.                   *)
LEMMA AppendFacts ==
    ASSUME IInv, NEW e, submitted' = Append(submitted, e)
    PROVE  /\ Len(submitted) \in Nat /\ Len(submitted') = Len(submitted) + 1
           /\ submitted'[Len(submitted) + 1] = e
           /\ \A i \in 1 .. Len(submitted) : submitted'[i] = submitted[i]
  BY DEF IInv, Bookkeeping

(* An iteration of matchOrders() takes the traded quantity from the two     *)
(* fronts and touches nothing else of an order.                             *)
LEMMA MatchOrders ==
    ASSUME IInv, Match
    PROVE  /\ Allocated' = Allocated \ {Front(d) : d \in Filled}
           /\ Allocated \subseteq Slots
           /\ \A s \in Slots : s \notin {Front("BUY"), Front("SELL")} => slab'[s] = slab[s]
           /\ \A s \in {Front("BUY"), Front("SELL")} :
                /\ slab[s] \in Order
                /\ slab'[s] = [slab[s] EXCEPT !.quantity = @ - TradeQty]
           /\ \A s \in Slots : /\ slab'[s].id = slab[s].id /\ slab'[s].symbol = slab[s].symbol
                               /\ slab'[s].side = slab[s].side /\ slab'[s].price = slab[s].price
<1>1. Allocated' = Allocated \ {Front(d) : d \in Filled} /\ Allocated \subseteq Slots
  BY ReleaseFacts DEF Match, Allocated
<1>2. Front("BUY") \in Slots /\ Front("SELL") \in Slots /\ TradeQty \in Int
  BY CrossedFacts DEF Match, Sides
<1>3. {Front(d) : d \in Sides} = {Front("BUY"), Front("SELL")}
  BY DEF Sides
<1>4. \A s \in Slots : slab'[s] = IF s \in {Front("BUY"), Front("SELL")}
                                  THEN [slab[s] EXCEPT !.quantity = @ - TradeQty]
                                  ELSE slab[s]
  BY Zenon, <1>3 DEF Match
<1>5. \A s \in Slots : slab[s] \in Order
  BY DEF IInv, TypeOK
<1>6. ASSUME NEW s \in Slots
      PROVE  /\ slab'[s].id = slab[s].id /\ slab'[s].symbol = slab[s].symbol
             /\ slab'[s].side = slab[s].side /\ slab'[s].price = slab[s].price
  <2>1. CASE s \in {Front("BUY"), Front("SELL")}
    <3>1. slab'[s] = [slab[s] EXCEPT !.quantity = @ - TradeQty]
      BY <1>4, <2>1
    <3> QED
      BY <1>2, <1>5, <3>1, OrderUpdate
  <2>2. CASE s \notin {Front("BUY"), Front("SELL")}
    BY Zenon, <1>4, <2>2
  <2> QED
    BY <2>1, <2>2
<1> QED
  BY Zenon, <1>1, <1>2, <1>4, <1>5, <1>6

(* The invariant on the history holds.                                      *)
LEMMA HistoryInit == Init => HInv
<1> SUFFICES ASSUME Init PROVE HInv
  OBVIOUS
<1>1. IInv
  BY InitIInv
<1>2. Len(submitted) = 0
  BY DEF Init
<1>3. \A s \in Allocated : FALSE
  <2>1. \A s \in Slots : s - 1 \in 0 .. top - 1 /\ free_stack[s - 1] = s
    BY DEF Init, Slots
  <2> QED
    BY <2>1 DEF Allocated, Free
<1> QED
  BY <1>1, <1>3 DEF HInv, RestingWasSubmitted, IncomingIsLatest, Init

LEMMA HistoryPlace ==
    ASSUME HInv, NEW y, NEW d, NEW p, NEW q, Place(y, d, p, q),
           NEW e, submitted' = Append(submitted, e),
           e.symbol = y, e.side = d, e.price = p
    PROVE  RestingWasSubmitted' /\ IncomingIsLatest'
<1> DEFINE o == free_stack[top - 1]
           n == Len(submitted) + 1
<1>0. IInv
  BY DEF HInv
<1>1. /\ o \in Slots /\ Allocated' = Allocated \cup {o} /\ Allocated \subseteq Slots
      /\ o \notin Allocated /\ agg' = o /\ book' = y /\ aggressor' = d
      /\ \A s \in Slots : s # o => slab'[s] = slab[s]
      /\ slab'[o].id = n /\ slab'[o].symbol = y /\ slab'[o].side = d /\ slab'[o].price = p
  <2>1. slab'[o] = [id |-> n, symbol |-> y, side |-> d, price |-> p, quantity |-> q]
    BY <1>0, PlaceFacts
  <2>2. slab'[o].id = n /\ slab'[o].symbol = y /\ slab'[o].side = d /\ slab'[o].price = p
    BY <2>1
  <2> QED
    BY Zenon, <1>0, <2>2, PlaceFacts
<1>2. /\ n \in Nat /\ n # 0 /\ Len(submitted') = n /\ submitted'[n] = e
      /\ \A i \in 1 .. n - 1 : submitted'[i] = submitted[i]
  BY <1>0, AppendFacts
<1>3. \A s \in Allocated : /\ slab[s].id \in 1 .. n - 1 /\ slab'[s] = slab[s]
                           /\ SameOrder(slab[s], submitted[slab[s].id])
  <2>1. n - 1 = Len(submitted)
    BY <1>0, AppendFacts
  <2> QED
    BY <1>1, <2>1 DEF HInv, RestingWasSubmitted
<1> HIDE DEF o, n
<1>4. RestingWasSubmitted'
  <2> SUFFICES ASSUME NEW s \in Allocated'
               PROVE  slab'[s].id \in 1 .. n /\ SameOrder(slab'[s], submitted'[slab'[s].id])
    BY <1>2 DEF RestingWasSubmitted, SameOrder
  <2>1. CASE s = o
    BY <1>1, <1>2, <2>1 DEF SameOrder
  <2>2. CASE s # o
    <3>1. s \in Allocated
      BY <1>1, <2>2
    <3>2. slab'[s] = slab[s] /\ slab[s].id \in 1 .. n - 1
      BY <1>3, <3>1
    <3>3. submitted'[slab[s].id] = submitted[slab[s].id]
      BY <1>2, <3>2
    <3> QED
      BY <1>2, <1>3, <3>1, <3>2, <3>3
  <2> QED
    BY Zenon, <2>1, <2>2
<1>5. IncomingIsLatest'
  <2>1. \A s \in Allocated' : s # o => slab'[s].id # n
    BY <1>1, <1>2, <1>3
  <2> QED
    BY <1>1, <1>2, <2>1 DEF IncomingIsLatest
<1> QED
  BY <1>4, <1>5

LEMMA HistoryMatch ==
    ASSUME HInv, Match
    PROVE  RestingWasSubmitted' /\ IncomingIsLatest'
<1>1. IInv
  BY DEF HInv
<1>2. /\ Allocated' \subseteq Allocated /\ Allocated \subseteq Slots
      /\ \A s \in Slots : /\ slab'[s].id = slab[s].id /\ slab'[s].symbol = slab[s].symbol
                          /\ slab'[s].side = slab[s].side /\ slab'[s].price = slab[s].price
  BY <1>1, MatchOrders
<1>3. submitted' = submitted /\ agg' = agg /\ book' = book /\ aggressor' = aggressor
  BY DEF Match, call
<1>4. agg # Nil => agg \in Slots
  BY <1>1 DEF IInv, TypeOK
<1>5. RestingWasSubmitted'
  BY <1>2, <1>3 DEF HInv, RestingWasSubmitted, SameOrder
<1>6. IncomingIsLatest'
  BY <1>2, <1>3, <1>4 DEF HInv, IncomingIsLatest
<1> QED
  BY <1>5, <1>6

LEMMA HistoryNext == HInv /\ [Next]_vars => HInv'
<1> SUFFICES ASSUME HInv, [Next]_vars PROVE HInv'
  OBVIOUS
<1>1. IInv /\ IInv'
  BY NextIInv DEF HInv
<1>2. ASSUME NEW y \in Symbols, NEW d \in Sides, NEW p \in Prices, NEW q \in Quantities,
             acceptNewOrder(y, d, p, q)
      PROVE  RestingWasSubmitted' /\ IncomingIsLatest'
  <2> DEFINE e == [symbol |-> y, side |-> d, price |-> p, quantity |-> q,
                   placed |-> priceToTick(p) \in Ticks /\ top > 0]
  <2>1. submitted' = Append(submitted, e) /\ agg = Nil
    BY <1>2 DEF acceptNewOrder
  <2>2. e.symbol = y /\ e.side = d /\ e.price = p
    OBVIOUS
  <2> HIDE DEF e
  <2>3. CASE Place(y, d, p, q)
    BY <2>1, <2>2, <2>3, HistoryPlace
  <2>4. CASE Drop(p)
    <3>1. slab' = slab /\ Allocated' = Allocated /\ agg' = Nil
      BY <2>1, <2>4 DEF Drop, pool, call, Allocated, Free
    <3>2. /\ Len(submitted) \in Nat /\ Len(submitted') = Len(submitted) + 1
          /\ \A i \in 1 .. Len(submitted) : submitted'[i] = submitted[i]
      BY <1>1, <2>1, AppendFacts
    <3>3. RestingWasSubmitted'
      BY <3>1, <3>2 DEF HInv, RestingWasSubmitted
    <3> QED
      BY <3>1, <3>3 DEF IncomingIsLatest
  <2> QED
    BY <1>2, <2>3, <2>4 DEF acceptNewOrder
<1>3. CASE Match
  BY <1>1, <1>3, HistoryMatch DEF HInv
<1>4. CASE Return
  <2>1. slab' = slab /\ Allocated' = Allocated /\ agg' = Nil /\ submitted' = submitted
    BY <1>4 DEF Return, pool, Allocated, Free
  <2> QED
    BY <1>1, <2>1 DEF HInv, RestingWasSubmitted, IncomingIsLatest
<1>5. CASE UNCHANGED vars
  <2>1. /\ slab' = slab /\ Allocated' = Allocated /\ agg' = agg /\ book' = book
        /\ aggressor' = aggressor /\ submitted' = submitted
    BY <1>5 DEF vars, pool, call, Allocated, Free
  <2> QED
    BY <1>1, <2>1 DEF HInv, RestingWasSubmitted, IncomingIsLatest
<1> QED
  BY <1>1, <1>2, <1>3, <1>4, <1>5 DEF Next, HInv

(* A resting order keeps the symbol, the side and the price it was passed   *)
(* to acceptNewOrder() with, and the order that is being matched is the     *)
(* latest one.                                                              *)
THEOREM HistoryInvariance == Spec => []HInv
BY HistoryInit, HistoryNext, PTL DEF Spec

----------------------------------------------------------------------------
(* Quantities of resting orders.                                            *)
NoneNegative == \A i \in DOMAIN submitted : submitted[i].quantity >= 0
WithinSubmitted(s) == /\ 0 <= slab[s].quantity
                      /\ slab[s].quantity <= submitted[slab[s].id].quantity

LEMMA QuantityNext ==
    ASSUME HInv, RestingNeverGrows, [Next]_vars
    PROVE  RestingNeverGrows'
<1> SUFFICES ASSUME NoneNegative', NEW s \in Allocated' PROVE WithinSubmitted(s)'
  BY DEF RestingNeverGrows, NoneNegative, WithinSubmitted
<1>1. IInv /\ Len(submitted) \in Nat /\ DOMAIN submitted = 1 .. Len(submitted)
  BY DEF HInv, IInv, Bookkeeping
<1>2. ASSUME NoneNegative, NEW u \in Allocated
      PROVE  WithinSubmitted(u) /\ u \in Slots /\ slab[u].id \in DOMAIN submitted
  BY <1>1, <1>2 DEF RestingNeverGrows, NoneNegative, WithinSubmitted, HInv,
                    RestingWasSubmitted, Allocated
<1>3. ASSUME slab' = slab, Allocated' = Allocated,
             \A i \in DOMAIN submitted : i \in DOMAIN submitted' /\ submitted'[i] = submitted[i]
      PROVE  WithinSubmitted(s)'
  BY <1>2, <1>3 DEF NoneNegative, WithinSubmitted
<1>4. ASSUME NEW y \in Symbols, NEW d \in Sides, NEW p \in Prices, NEW q \in Quantities,
             acceptNewOrder(y, d, p, q)
      PROVE  WithinSubmitted(s)'
  <2> DEFINE e == [symbol |-> y, side |-> d, price |-> p, quantity |-> q,
                   placed |-> priceToTick(p) \in Ticks /\ top > 0]
             n == Len(submitted) + 1
  <2>1. submitted' = Append(submitted, e)
    BY <1>4 DEF acceptNewOrder
  <2>2. e.quantity = q
    OBVIOUS
  <2> HIDE DEF e
  <2>3. /\ n \in Nat /\ DOMAIN submitted' = 1 .. n /\ submitted'[n] = e
        /\ \A i \in DOMAIN submitted : i \in 1 .. n /\ submitted'[i] = submitted[i]
    BY <1>1, <2>1, AppendFacts
  <2>4. CASE Drop(p)
    <3>1. slab' = slab /\ Allocated' = Allocated
      BY <2>4 DEF Drop, pool, Allocated, Free
    <3> QED
      BY <1>3, <2>3, <3>1
  <2>5. CASE Place(y, d, p, q)
    <3> DEFINE o == free_stack[top - 1]
    <3>1. /\ Allocated' = Allocated \cup {o} /\ Allocated \subseteq Slots
          /\ \A u \in Slots : u # o => slab'[u] = slab[u]
      BY Zenon, <1>1, <2>5, PlaceFacts
    <3>2. slab'[o].id = n /\ slab'[o].quantity = q
      <4>1. slab'[o] = [id |-> n, symbol |-> y, side |-> d, price |-> p, quantity |-> q]
        BY <1>1, <2>5, PlaceFacts
      <4> QED
        BY <4>1
    <3> HIDE DEF o, n
    <3>3. CASE s = o
      <4>1. q \in Int /\ n \in DOMAIN submitted' /\ submitted'[n].quantity = q
        BY <1>1, <2>2, <2>3, QuantitiesAssumption DEF n
      <4>2. q >= 0
        BY <4>1 DEF NoneNegative
      <4> QED
        BY <3>2, <3>3, <4>1, <4>2 DEF WithinSubmitted
    <3>4. CASE s # o
      <4>1. s \in Allocated /\ slab'[s] = slab[s]
        BY <3>1, <3>4
      <4>2. NoneNegative
        BY <2>3 DEF NoneNegative
      <4>3. WithinSubmitted(s) /\ submitted'[slab[s].id] = submitted[slab[s].id]
        BY <1>2, <2>3, <4>1, <4>2
      <4> QED
        BY <4>1, <4>3 DEF WithinSubmitted
    <3> QED
      BY <3>3, <3>4
  <2> QED
    BY <1>4, <2>4, <2>5 DEF acceptNewOrder
<1>5. CASE Match
  <2>1. submitted' = submitted /\ s \in Allocated /\ s \in Slots /\ slab'[s].id = slab[s].id
    BY <1>1, <1>5, MatchOrders DEF Match
  <2>2. NoneNegative
    BY <2>1 DEF NoneNegative
  <2>3. WithinSubmitted(s)
    BY <1>2, <2>1, <2>2
  <2>4. CASE s \notin {Front("BUY"), Front("SELL")}
    BY <1>1, <1>5, <2>1, <2>3, <2>4, MatchOrders DEF WithinSubmitted
  <2>5. CASE s \in {Front("BUY"), Front("SELL")}
    <3>1. ASSUME NEW d \in Sides
          PROVE  slab[Front(d)].quantity \in Int /\ slab[Front(d)].quantity >= 0
      <4>1. Front(d) \in Allocated
        BY <1>1, <1>5, CrossedFacts DEF Match, Allocated
      <4>2. slab[Front(d)] \in Order /\ WithinSubmitted(Front(d))
        BY <1>1, <1>2, <2>2, <4>1 DEF IInv, TypeOK
      <4> QED
        BY <4>2 DEF Order, WithinSubmitted
    <3>2. /\ TradeQty \in Int /\ 0 <= TradeQty
          /\ slab[s].quantity \in Int /\ TradeQty <= slab[s].quantity
      BY <2>5, <3>1 DEF TradeQty, Sides
    <3>3. slab'[s].quantity = slab[s].quantity - TradeQty
      <4>1. slab[s] \in Order /\ slab'[s] = [slab[s] EXCEPT !.quantity = @ - TradeQty]
        BY <1>1, <1>5, <2>5, MatchOrders
      <4> QED
        BY <4>1 DEF Order
    <3>4. submitted[slab[s].id].quantity \in Int
      <4>1. submitted[slab[s].id] \in Submission
        BY <1>1, <1>2, <2>1, <2>2 DEF IInv, Bookkeeping
      <4> QED
        BY Zenon, <4>1, QuantitiesAssumption DEF Submission
    <3> QED
      BY <2>1, <2>3, <3>2, <3>3, <3>4 DEF WithinSubmitted
  <2> QED
    BY <2>4, <2>5
<1>6. CASE Return
  BY <1>3, <1>6 DEF Return, pool, Allocated, Free
<1>7. CASE UNCHANGED vars
  BY <1>3, <1>7 DEF vars, pool, Allocated, Free
<1> QED
  BY <1>4, <1>5, <1>6, <1>7 DEF Next

(* As long as no order came with a negative quantity, the subtraction in    *)
(* matchOrders() leaves every resting order between 0 and what was asked    *)
(* for.                                                                     *)
THEOREM RestingNeverGrowsCorrect == Spec => []RestingNeverGrows
<1>1. Init => RestingNeverGrows
  <2> SUFFICES ASSUME Init, NEW s \in Allocated PROVE FALSE
    BY DEF RestingNeverGrows
  <2>1. \A u \in Slots : u - 1 \in 0 .. top - 1 /\ free_stack[u - 1] = u
    BY DEF Init, Slots
  <2> QED
    BY <2>1 DEF Allocated, Free
<1>2. HInv /\ RestingNeverGrows /\ [Next]_vars => RestingNeverGrows'
  BY QuantityNext
<1> QED
  BY <1>1, <1>2, HistoryInvariance, PTL DEF Spec

----------------------------------------------------------------------------
(* Executions.                                                              *)

(* Where a resting order is to be found.                                    *)
LEMMA OrderFacts ==
    ASSUME HInv, NEW s \in Allocated
    PROVE  /\ s \in Slots /\ slab[s] \in Order /\ slab[s].id \in Nat
           /\ slab[s].symbol \in Symbols /\ slab[s].side \in Sides
           /\ priceToTick(slab[s].price) \in bits[slab[s].symbol][slab[s].side]
           /\ priceToTick(slab[s].price) \in Ticks
           /\ s \in At(LevelOf(s))
           /\ \A u \in Allocated : u # s => slab[u].id # slab[s].id
<1>1. IInv /\ s \in Slots
  BY DEF HInv, Allocated
<1>2. slab[s] \in Order /\ slab[s].id \in Nat
  BY <1>1 DEF IInv, TypeOK, Order
<1>3. LevelOf(s) \in Levels /\ \A u \in Allocated : u # s => slab[u].id # slab[s].id
  BY <1>1 DEF IInv, PoolPartition
<1>4. /\ slab[s].symbol \in Symbols /\ slab[s].side \in Sides
      /\ priceToTick(slab[s].price) \in Ticks
  BY <1>3 DEF LevelOf, Levels
<1>5. s \in At(LevelOf(s))
  BY DEF At
<1>6. priceToTick(slab[s].price) \in bits[slab[s].symbol][slab[s].side]
  BY <1>1, <1>4, <1>5, StateFacts DEF LevelOf
<1> QED
  BY <1>1, <1>2, <1>3, <1>4, <1>5, <1>6

(* Rounding to ticks: an order that reaches the tick of another passes its  *)
(* limit by less than Slack.                                                *)
LEMMA Rounding ==
    ASSUME NEW a \in Int, NEW b \in Int, priceToTick(a) \in Nat, priceToTick(b) \in Nat,
           priceToTick(a) <= priceToTick(b)
    PROVE  a - b < Slack(b)
<1> DEFINE D == 2 * UNIT
           x == 2 * a + UNIT
           y == 2 * b + UNIT
<1>0. D \in Nat /\ D > 0 /\ x \in Int /\ y \in Int
  OBVIOUS
<1>1. ASSUME NEW z \in Int
      PROVE  z \div D \in Int /\ D * (z \div D) <= z /\ z < D * (z \div D) + D
  BY <1>0
<1>2. ASSUME NEW i \in Int, NEW j \in Int, i <= j
      PROVE  D * i \in Int /\ D * j \in Int /\ D * i <= D * j
  BY <1>0, <1>2
<1>3. priceToTick(a) = TruncDiv(x, D) /\ priceToTick(b) = TruncDiv(y, D)
  BY DEF priceToTick
<1> DEFINE t == priceToTick(a)
           v == priceToTick(b)
<1>4. D * t \in Int /\ D * v \in Int /\ 0 <= D * t /\ D * t <= D * v
  <2>1. 0 \in Int /\ t \in Int /\ v \in Int /\ 0 <= t /\ D * 0 = 0
    BY <1>0
  <2> QED
    BY <1>2, <2>1
<1>5. x < D * t + D
  <2>1. CASE x >= 0
    BY <1>0, <1>1, <1>3, <2>1 DEF TruncDiv
  <2>2. CASE x < 0
    BY <1>0, <1>4, <2>2
  <2> QED
    BY <1>0, <2>1, <2>2
<1>6. CASE y >= 0
  <2>1. D * v <= y
    BY <1>0, <1>1, <1>3, <1>6 DEF TruncDiv
  <2>2. x - y < D
    BY <1>0, <1>4, <1>5, <2>1
  <2> QED
    BY <2>2 DEF Slack
<1>7. CASE y < 0
  <2>1. (-y) \div D \in Int /\ D * ((-y) \div D) <= -y /\ -y < D * ((-y) \div D) + D
    BY <1>0, <1>1
  <2>2. v = -((-y) \div D)
    BY <1>0, <1>3, <1>7 DEF TruncDiv
  <2>3. (-y) \div D <= 0
    BY <2>1, <2>2
  <2>4. D * ((-y) \div D) <= D * 0 /\ D * 0 = 0
    BY <1>0, <1>2, <2>1, <2>3
  <2>5. v = 0
    <3>1. (-y) \div D >= 0
      BY <1>0, <1>7, <2>1
    <3> QED
      BY <2>1, <2>2, <2>3, <3>1
  <2>6. x < D
    <3>1. D * v = 0
      BY <2>5
    <3> QED
      BY <1>0, <1>4, <1>5, <3>1
  <2>7. -y < D
    BY <1>0, <2>1, <2>4
  <2> QED
    BY <1>7, <2>6, <2>7 DEF Slack
<1> QED
  BY <1>0, <1>6, <1>7

LEMMA MinMaxOfTwo ==
    ASSUME NEW a \in Int, NEW b \in Int, a < b
    PROVE  Min({a, b}) = a /\ Max({a, b}) = b /\ Min({b, a}) = a /\ Max({b, a}) = b
  BY DEF Min, Max

Execution == [side : Sides, symbol : Symbols, quantity : Int, buy_id : Nat, sell_id : Nat,
              trade_price : Int, order_arrival : Nat]

(* i is the id of an order passed to acceptNewOrder().                      *)
Submitted(i) == i \in 1 .. Len(submitted)

(* What ExecutionsAreJustified says of one execution.                       *)
Justified(e) ==
    LET buy == submitted[e.buy_id]
        sell == submitted[e.sell_id]
        first == Min({e.buy_id, e.sell_id})
    IN  /\ buy.side = "BUY" /\ sell.side = "SELL"
        /\ buy.symbol = e.symbol /\ sell.symbol = e.symbol
        /\ e.order_arrival = Max({e.buy_id, e.sell_id})
        /\ e.trade_price = submitted[first].price
        /\ sell.price - buy.price < Slack(buy.price)

JustifiedHistory ==
    /\ executions \in Seq(Execution)
    /\ \A n \in 1 .. Len(executions) :
            /\ Submitted(executions[n].buy_id) /\ Submitted(executions[n].sell_id)
            /\ executions[n].buy_id # executions[n].sell_id
            /\ Justified(executions[n])

(* The execution matchOrders() builds is justified.                         *)
LEMMA ExecutionJustified ==
    ASSUME HInv, Match
    PROVE  /\ buildExecution \in Execution /\ Justified(buildExecution)
           /\ Submitted(buildExecution.buy_id) /\ Submitted(buildExecution.sell_id)
           /\ buildExecution.buy_id # buildExecution.sell_id
<1> DEFINE f == Front(Passive)
           B == Front("BUY")
           S == Front("SELL")
<1>1. IInv /\ agg # Nil /\ Crossed /\ aggressor \in Sides /\ book \in Symbols
  BY DEF HInv, Match, IInv, TypeOK
<1>2. /\ B \in Allocated /\ S \in Allocated /\ B # S /\ TradeQty \in Int
      /\ Front(aggressor) = agg
      /\ B \in At(BestLevel("BUY")) /\ S \in At(BestLevel("SELL"))
  BY <1>1, CrossedFacts DEF Allocated, Sides
<1>3. {agg, f} = {B, S} /\ agg # f
  BY <1>1, <1>2 DEF Sides, Passive
<1>4. /\ slab[B].symbol = book /\ slab[B].side = "BUY"
      /\ priceToTick(slab[B].price) = best[book]["BUY"]
      /\ slab[S].symbol = book /\ slab[S].side = "SELL"
      /\ priceToTick(slab[S].price) = best[book]["SELL"]
  BY <1>2 DEF At, LevelOf, BestLevel
<1>5. ASSUME NEW s \in {B, S}
      PROVE  /\ Submitted(slab[s].id) /\ SameOrder(slab[s], submitted[slab[s].id])
             /\ slab[s].price \in Int /\ slab[s].id \in Nat
             /\ priceToTick(slab[s].price) \in Nat
  BY <1>2, OrderFacts DEF HInv, RestingWasSubmitted, Submitted, Order, Ticks
<1>6. slab[f].id < slab[agg].id
  <2>1. slab[agg].id = Len(submitted) /\ slab[f].id # Len(submitted)
    BY <1>1, <1>2, <1>3 DEF HInv, IncomingIsLatest
  <2>2. slab[f].id <= Len(submitted) /\ slab[f].id \in Nat /\ Len(submitted) \in Nat
    BY <1>1, <1>3, <1>5 DEF Submitted, IInv, Bookkeeping
  <2> QED
    BY <2>1, <2>2
<1>7. slab[agg].symbol = book
  BY <1>3, <1>4
<1> DEFINE e == buildExecution
<1>8. /\ e.side = aggressor /\ e.symbol = book /\ e.quantity = TradeQty
      /\ e.buy_id = slab[B].id /\ e.sell_id = slab[S].id
      /\ e.trade_price = slab[f].price /\ e.order_arrival = slab[agg].id
  BY <1>2, <1>7 DEF buildExecution
<1>9. e \in Execution
  BY <1>1, <1>2, <1>3, <1>5, <1>7 DEF buildExecution, Execution
<1> HIDE DEF e
<1>10. /\ Min({e.buy_id, e.sell_id}) = slab[f].id
       /\ Max({e.buy_id, e.sell_id}) = slab[agg].id
  <2>1. slab[f].id \in Int /\ slab[agg].id \in Int
    BY <1>3, <1>5
  <2>2. {e.buy_id, e.sell_id} = {slab[f].id, slab[agg].id}
    BY <1>3, <1>8
  <2>3. /\ Min({slab[f].id, slab[agg].id}) = slab[f].id
        /\ Max({slab[f].id, slab[agg].id}) = slab[agg].id
    BY <1>6, <2>1, MinMaxOfTwo
  <2> QED
    BY <2>2, <2>3
<1>11. slab[S].price - slab[B].price < Slack(slab[B].price)
  BY <1>1, <1>4, <1>5, Rounding DEF Crossed
<1>12. Justified(e)
  BY <1>3, <1>4, <1>5, <1>8, <1>10, <1>11 DEF Justified, SameOrder
<1>13. e.buy_id # e.sell_id
  BY <1>2, <1>8, OrderFacts
<1> QED
  BY <1>5, <1>8, <1>9, <1>12, <1>13 DEF e

LEMMA JustifiedNext ==
    ASSUME HInv, JustifiedHistory, [Next]_vars
    PROVE  JustifiedHistory'
<1>1. Len(submitted) \in Nat /\ Len(executions) \in Nat /\ executions \in Seq(Execution)
  BY DEF HInv, IInv, Bookkeeping, JustifiedHistory
<1>2. /\ \A i \in 1 .. Len(submitted) : submitted'[i] = submitted[i]
      /\ Len(submitted') \in Nat /\ Len(submitted) <= Len(submitted')
  <2>1. ASSUME submitted' = submitted
        PROVE  <1>2
    BY <1>1, <2>1
  <2>2. ASSUME NEW y \in Symbols, NEW d \in Sides, NEW p \in Prices, NEW q \in Quantities,
               acceptNewOrder(y, d, p, q)
        PROVE  <1>2
    <3> DEFINE r == [symbol |-> y, side |-> d, price |-> p, quantity |-> q,
                     placed |-> priceToTick(p) \in Ticks /\ top > 0]
    <3>1. submitted' = Append(submitted, r)
      BY <2>2 DEF acceptNewOrder
    <3> HIDE DEF r
    <3> QED
      BY <1>1, <3>1, AppendFacts DEF HInv
  <2> QED
    BY <2>1, <2>2 DEF Next, Match, Return, vars
<1>3. ASSUME NEW e \in Execution, Submitted(e.buy_id), Submitted(e.sell_id),
             e.buy_id # e.sell_id, Justified(e)
      PROVE  Submitted(e.buy_id)' /\ Submitted(e.sell_id)' /\ Justified(e)'
  <2>1. e.buy_id \in Int /\ e.sell_id \in Int
    BY DEF Execution
  <2>2. Min({e.buy_id, e.sell_id}) \in {e.buy_id, e.sell_id}
    <3>1. e.buy_id < e.sell_id \/ e.sell_id < e.buy_id
      BY <1>3, <2>1
    <3> QED
      BY <2>1, <3>1, MinMaxOfTwo
  <2>3. \A i \in {e.buy_id, e.sell_id} : submitted'[i] = submitted[i] /\ Submitted(i)'
    BY <1>1, <1>2, <1>3 DEF Submitted
  <2> QED
    BY <1>3, <2>2, <2>3 DEF Justified
<1>4. CASE executions' = executions
  BY <1>1, <1>3, <1>4 DEF JustifiedHistory
<1>5. CASE Match
  <2> DEFINE e == buildExecution
  <2>1. executions' = Append(executions, e)
    BY <1>5 DEF Match
  <2>2. /\ e \in Execution /\ Justified(e) /\ Submitted(e.buy_id) /\ Submitted(e.sell_id)
        /\ e.buy_id # e.sell_id
    BY <1>5, ExecutionJustified
  <2> HIDE DEF e
  <2>3. PICK x : x = e
    OBVIOUS
  <2>4. /\ executions' \in Seq(Execution) /\ Len(executions') = Len(executions) + 1
        /\ executions'[Len(executions) + 1] = x
        /\ \A n \in 1 .. Len(executions) : executions'[n] = executions[n]
    BY <1>1, <2>1, <2>2, <2>3
  <2>5. \A n \in 1 .. Len(executions') : n \in 1 .. Len(executions) \/ n = Len(executions) + 1
    BY <1>1, <2>4
  <2>6. Submitted(x.buy_id)' /\ Submitted(x.sell_id)' /\ Justified(x)'
    BY <1>3, <2>2, <2>3
  <2> QED
    BY <1>1, <1>3, <2>2, <2>3, <2>4, <2>5, <2>6 DEF JustifiedHistory
<1> QED
  BY Zenon, <1>4, <1>5 DEF Next, acceptNewOrder, Return, vars

(* Every execution pairs a buyer and a seller of its own symbol, at the     *)
(* price of the one that came first, beyond neither limit by more than the  *)
(* rounding of priceToTick().                                               *)
THEOREM ExecutionsAreJustifiedCorrect == Spec => []ExecutionsAreJustified
<1>1. Init => JustifiedHistory
  BY DEF Init, JustifiedHistory
<1>2. HInv /\ JustifiedHistory /\ [Next]_vars => JustifiedHistory'
  BY JustifiedNext
<1>3. JustifiedHistory => ExecutionsAreJustified
  <2>1. JustifiedHistory => \A n \in DOMAIN executions : Justified(executions[n])
    BY DEF JustifiedHistory
  <2> QED
    BY <2>1 DEF ExecutionsAreJustified, Justified
<1> QED
  BY <1>1, <1>2, <1>3, HistoryInvariance, PTL DEF Spec

----------------------------------------------------------------------------
(* Quantities are conserved.                                                *)

(* A resting order was taken by acceptNewOrder().                           *)
RestingWasPlaced == \A s \in Allocated : submitted[slab[s].id].placed = TRUE

(* The ledger of order i: the quantity it came with is filled or resting.   *)
Balanced(i) == submitted[i].quantity = FilledQty(i) + RestingQty(i)

CInv == RestingWasPlaced /\ QuantityConserved

(* Ids are unique, so at most one slot counts for an order's resting        *)
(* quantity.                                                                *)
RestingTotals ==
    /\ \A s \in Allocated : \A i : slab[s].id = i => RestingQty(i) = slab[s].quantity
    /\ \A i : (\A s \in Allocated : slab[s].id # i) => RestingQty(i) = 0

LEMMA RestingIs == IInv => RestingTotals
<1> SUFFICES ASSUME IInv PROVE RestingTotals
  OBVIOUS
<1> DEFINE f == [s \in Slots |-> slab[s].quantity]
<1>1. ASSUME NEW s \in Allocated, NEW i, slab[s].id = i PROVE RestingQty(i) = slab[s].quantity
  <2>1. {u \in Allocated : slab[u].id = i} = {s}
    BY <1>1 DEF IInv, PoolPartition
  <2>2. s \in Slots /\ f[s] = slab[s].quantity /\ slab[s] \in Order
    BY DEF Allocated, IInv, TypeOK
  <2>3. f[s] \in Int
    BY <2>2 DEF Order
  <2>4. RestingQty(i) = SumFunctionOnSet(f, {s})
    BY Zenon, <2>1 DEF RestingQty
  <2> HIDE DEF f
  <2>5. SumFunctionOnSet(f, {} \cup {s}) = f[s] + SumFunctionOnSet(f, {})
    <3>1. IsFiniteSet({}) /\ s \notin {} /\ \A x \in {} \cup {s} : f[x] \in Int
      BY <2>3, FS_EmptySet
    <3> QED
      BY <3>1, SumAdd
  <2>6. {} \cup {s} = {s} /\ SumFunctionOnSet(f, {}) = 0
    BY SumEmpty
  <2> QED
    BY <2>2, <2>3, <2>4, <2>5, <2>6
<1>2. ASSUME NEW i, \A s \in Allocated : slab[s].id # i PROVE RestingQty(i) = 0
  <2>1. {u \in Allocated : slab[u].id = i} = {}
    BY <1>2
  <2> QED
    BY Zenon, <2>1, SumEmpty DEF RestingQty
<1> QED
  BY <1>1, <1>2 DEF RestingTotals

(* What an execution adds to the filled quantity of the orders it names.    *)
FillsIn(ex, i) == {n \in DOMAIN ex : i \in {ex[n].buy_id, ex[n].sell_id}}
FilledIn(ex, i) == SumFunctionOnSet([n \in DOMAIN ex |-> ex[n].quantity], FillsIn(ex, i))

LEMMA FilledAppend ==
    ASSUME NEW ex \in Seq(Execution), NEW e \in Execution, NEW i
    PROVE  /\ FilledIn(ex, i) \in Int
           /\ i \in {e.buy_id, e.sell_id} =>
                FilledIn(Append(ex, e), i) = FilledIn(ex, i) + e.quantity
           /\ i \notin {e.buy_id, e.sell_id} =>
                /\ FilledIn(Append(ex, e), i) = FilledIn(ex, i)
                /\ FillsIn(Append(ex, e), i) = FillsIn(ex, i)
<1> DEFINE f == [n \in DOMAIN ex |-> ex[n].quantity]
           g == [n \in DOMAIN Append(ex, e) |-> Append(ex, e)[n].quantity]
           S == FillsIn(ex, i)
           m == Len(ex) + 1
<1>1. /\ Len(ex) \in Nat /\ DOMAIN ex = 1 .. Len(ex) /\ DOMAIN Append(ex, e) = 1 .. m
      /\ Append(ex, e)[m] = e /\ \A n \in 1 .. Len(ex) : Append(ex, e)[n] = ex[n]
  OBVIOUS
<1>2. \A n \in 1 .. m : n \in 1 .. Len(ex) \/ n = m
  BY <1>1
<1>3. m \in 1 .. m /\ m \notin 1 .. Len(ex) /\ \A n \in 1 .. Len(ex) : n \in 1 .. m
  BY <1>1
<1>4. S \subseteq 1 .. Len(ex) /\ IsFiniteSet(S) /\ m \notin S
  <2>1. S \subseteq 1 .. Len(ex) /\ m \notin S
    BY <1>1, <1>3 DEF FillsIn
  <2>2. IsFiniteSet(1 .. Len(ex))
    BY <1>1, FS_Interval
  <2>3. IsFiniteSet(S)
    BY <2>1, <2>2, FS_Subset
  <2> QED
    BY <2>1, <2>3
<1>5. \A n \in S : f[n] \in Int /\ f[n] = g[n]
  <2>1. ASSUME NEW n \in 1 .. Len(ex) PROVE ex[n].quantity \in Int
    <3>1. ex[n] \in Execution
      BY <1>1
    <3> QED
      BY Zenon, <3>1 DEF Execution
  <2> QED
    BY <1>1, <1>3, <1>4, <2>1
<1>6. g[m] = e.quantity /\ e.quantity \in Int
  BY <1>1, <1>3 DEF Execution
<1>7. /\ i \in {e.buy_id, e.sell_id} => FillsIn(Append(ex, e), i) = S \cup {m}
      /\ i \notin {e.buy_id, e.sell_id} => FillsIn(Append(ex, e), i) = S
  BY <1>1, <1>2, <1>3 DEF FillsIn
<1>8. /\ FilledIn(ex, i) = SumFunctionOnSet(f, S)
      /\ FilledIn(Append(ex, e), i) = SumFunctionOnSet(g, FillsIn(Append(ex, e), i))
  BY DEF FilledIn
<1> HIDE DEF f, g, S, m
<1>9. SumFunctionOnSet(f, S) \in Int
  BY Zenon, <1>4, <1>5, SumType
<1>10. SumFunctionOnSet(f, S) = SumFunctionOnSet(g, S)
  BY Zenon, <1>4, <1>5, SumCongruent
<1>11. SumFunctionOnSet(g, S \cup {m}) = g[m] + SumFunctionOnSet(g, S)
  <2>1. \A n \in S \cup {m} : g[n] \in Int
    BY <1>5, <1>6
  <2> QED
    BY Zenon, <1>4, <2>1, SumAdd
<1>12. /\ i \in {e.buy_id, e.sell_id} =>
            FilledIn(Append(ex, e), i) = SumFunctionOnSet(g, S \cup {m})
       /\ i \notin {e.buy_id, e.sell_id} =>
            FilledIn(Append(ex, e), i) = SumFunctionOnSet(g, S)
  BY Zenon, <1>7, <1>8
<1>13. i \notin {e.buy_id, e.sell_id} => FillsIn(Append(ex, e), i) = FillsIn(ex, i)
  BY <1>7 DEF S
<1> QED
  BY <1>6, <1>8, <1>9, <1>10, <1>11, <1>12, <1>13

LEMMA ConservedPlace ==
    ASSUME HInv, HInv', JustifiedHistory, CInv,
           NEW y, NEW d, NEW p, NEW q \in Int, Place(y, d, p, q), executions' = executions,
           NEW e, submitted' = Append(submitted, e), e.quantity = q, e.placed = TRUE
    PROVE  CInv'
<1> DEFINE o == free_stack[top - 1]
<1>1. IInv /\ IInv' /\ Len(submitted) \in Nat /\ DOMAIN submitted = 1 .. Len(submitted)
  BY DEF HInv, IInv, Bookkeeping
<1>0. PICK n : n = Len(submitted) + 1
  OBVIOUS
<1>2. /\ n \in Nat /\ DOMAIN submitted' = 1 .. n /\ submitted'[n] = e /\ n \notin 1 .. Len(submitted)
      /\ \A i \in 1 .. n : i = n \/ i \in 1 .. Len(submitted)
      /\ \A i \in 1 .. Len(submitted) : submitted'[i] = submitted[i]
  BY <1>0, <1>1, AppendFacts
<1>3. /\ Allocated' = Allocated \cup {o} /\ Allocated \subseteq Slots /\ o \notin Allocated
      /\ \A s \in Slots : s # o => slab'[s] = slab[s]
  BY Zenon, <1>1, PlaceFacts
<1>4. slab'[o].id = n /\ slab'[o].quantity = q
  <2>1. slab'[o] = [id |-> n, symbol |-> y, side |-> d, price |-> p, quantity |-> q]
    BY <1>0, <1>1, PlaceFacts
  <2> QED
    BY <2>1
<1>5. \A s \in Allocated : slab[s].id \in 1 .. Len(submitted) /\ slab'[s] = slab[s]
  BY <1>3 DEF HInv, RestingWasSubmitted
<1>6. /\ \A s \in Allocated' : \A j : slab'[s].id = j => RestingQty(j)' = slab'[s].quantity
      /\ \A j : (\A s \in Allocated' : slab'[s].id # j) => RestingQty(j)' = 0
  <2>1. IInv' => RestingTotals'
    BY RestingIs, PTL
  <2> QED
    BY <1>1, <2>1 DEF RestingTotals
<1> HIDE DEF o
<1>7. RestingWasPlaced'
  BY <1>2, <1>3, <1>4, <1>5 DEF RestingWasPlaced, CInv
<1>8. \A i : FilledQty(i)' = FilledQty(i) /\ FillsOf(i)' = FillsOf(i)
  BY DEF FilledQty, FillsOf
<1>9. ASSUME NEW i \in 1 .. Len(submitted) PROVE RestingQty(i)' = RestingQty(i)
  <2>1. CASE \E s \in Allocated : slab[s].id = i
    <3>1. PICK s \in Allocated : slab[s].id = i
      BY <2>1
    <3>2. RestingQty(i) = slab[s].quantity
      BY <1>1, <3>1, RestingIs DEF RestingTotals
    <3>3. RestingQty(i)' = slab'[s].quantity
      BY <1>3, <1>5, <1>6, <3>1
    <3> QED
      BY <1>5, <3>1, <3>2, <3>3
  <2>2. CASE \A s \in Allocated : slab[s].id # i
    <3>1. \A s \in Allocated' : slab'[s].id # i
      BY <1>2, <1>3, <1>4, <1>5, <2>2
    <3>2. RestingQty(i)' = 0
      BY <1>6, <3>1
    <3>3. RestingQty(i) = 0
      BY <1>1, <2>2, RestingIs DEF RestingTotals
    <3> QED
      BY <3>2, <3>3
  <2> QED
    BY <2>1, <2>2
<1>10. FilledQty(n) = 0
  <2>1. FillsOf(n) = {}
    BY <1>2 DEF JustifiedHistory, Submitted, FillsOf
  <2> QED
    BY <2>1, SumEmpty DEF FilledQty
<1>11. RestingQty(n)' = q
  BY <1>3, <1>4, <1>6
<1>12. ASSUME NEW i \in DOMAIN submitted'
       PROVE  IF submitted'[i].placed THEN Balanced(i)' ELSE FillsOf(i)' = {}
  <2>1. CASE i = n
    <3>1. FilledQty(n)' = 0
      BY <1>8, <1>10
    <3>2. Balanced(n)'
      BY <1>2, <1>11, <3>1 DEF Balanced
    <3> QED
      BY <1>2, <2>1, <3>2
  <2>2. CASE i \in 1 .. Len(submitted)
    <3>1. IF submitted[i].placed THEN Balanced(i) ELSE FillsOf(i) = {}
      BY <1>1, <2>2 DEF CInv, QuantityConserved, Balanced
    <3> QED
      BY <1>2, <1>8, <1>9, <2>2, <3>1 DEF Balanced
  <2> QED
    BY <1>2, <2>1, <2>2
<1> QED
  BY <1>7, <1>12 DEF CInv, QuantityConserved, Balanced

(* What an iteration of matchOrders() takes from a resting order.           *)
LEMMA RestingAfterTrade ==
    ASSUME HInv, HInv', Match, NEW i
    PROVE  RestingQty(i)' = IF i \in {slab[Front("BUY")].id, slab[Front("SELL")].id}
                            THEN RestingQty(i) - TradeQty ELSE RestingQty(i)
<1> DEFINE B == Front("BUY")
           S == Front("SELL")
<1>1. IInv /\ IInv' /\ agg # Nil /\ Crossed
  BY DEF HInv, Match
<1>2. /\ B \in Allocated /\ S \in Allocated /\ B \in Slots /\ S \in Slots /\ B # S
      /\ TradeQty \in Int /\ Filled \in SUBSET Sides
  BY <1>1, CrossedFacts DEF Allocated, Sides
<1>3. /\ Allocated' = Allocated \ {Front(d) : d \in Filled} /\ Allocated \subseteq Slots
      /\ \A s \in Slots : s \notin {B, S} => slab'[s] = slab[s]
      /\ \A s \in Slots : slab'[s].id = slab[s].id
  BY <1>1, MatchOrders
<1>4. \A s, u \in Allocated : s # u => slab[s].id # slab[u].id
  BY <1>1 DEF IInv, PoolPartition
<1>5. ASSUME NEW s \in {B, S}
      PROVE  slab[s].quantity \in Int /\ slab'[s].quantity = slab[s].quantity - TradeQty
  <2>1. slab[s] \in Order /\ slab'[s] = [slab[s] EXCEPT !.quantity = @ - TradeQty]
    BY <1>1, MatchOrders
  <2> QED
    BY <2>1 DEF Order
<1>6. ASSUME NEW s \in {B, S}, s \notin Allocated'
      PROVE  slab[s].quantity = TradeQty
  <2>1. PICK d \in Filled : s = Front(d)
    BY <1>2, <1>3, <1>6
  <2> QED
    BY <2>1 DEF Filled
<1>7. \A s \in Allocated : s \notin {B, S} => s \in Allocated'
  <2>1. \A d \in Filled : Front(d) \in {B, S}
    BY <1>2 DEF Sides
  <2> QED
    BY <1>3, <2>1
<1>8. /\ \A s \in Allocated' : \A j : slab'[s].id = j => RestingQty(j)' = slab'[s].quantity
      /\ \A j : (\A s \in Allocated' : slab'[s].id # j) => RestingQty(j)' = 0
  <2>1. IInv' => RestingTotals'
    BY RestingIs, PTL
  <2> QED
    BY <1>1, <2>1 DEF RestingTotals
<1>9. Allocated' \subseteq Allocated
  BY <1>3
<1> HIDE DEF B, S
<1>10. ASSUME NEW s \in Allocated, slab[s].id = i
       PROVE  /\ RestingQty(i) = slab[s].quantity
              /\ s \in Allocated' => RestingQty(i)' = slab'[s].quantity
              /\ s \notin Allocated' => RestingQty(i)' = 0
  <2>1. RestingQty(i) = slab[s].quantity
    BY <1>1, <1>10, RestingIs DEF RestingTotals
  <2>2. ASSUME s \in Allocated' PROVE RestingQty(i)' = slab'[s].quantity
    <3>1. slab'[s].id = i
      BY <1>3, <1>10
    <3> QED
      BY <1>8, <2>2, <3>1
  <2>3. ASSUME s \notin Allocated' PROVE RestingQty(i)' = 0
    <3>1. \A u \in Allocated' : slab'[u].id # i
      BY <1>3, <1>4, <1>9, <1>10, <2>3
    <3> QED
      BY <1>8, <3>1
  <2> QED
    BY <2>1, <2>2, <2>3
<1>11. ASSUME NEW s \in {B, S}, slab[s].id = i
       PROVE  RestingQty(i)' = RestingQty(i) - TradeQty
  <2>1. s \in Allocated
    BY <1>2
  <2> QED
    BY <1>2, <1>5, <1>6, <1>10, <1>11, <2>1
<1>12. ASSUME i \notin {slab[B].id, slab[S].id}
       PROVE  RestingQty(i)' = RestingQty(i)
  <2>1. ASSUME NEW s \in Allocated, slab[s].id = i PROVE RestingQty(i)' = RestingQty(i)
    <3>1. s \notin {B, S}
      BY <1>12, <2>1
    <3> QED
      BY <1>3, <1>7, <1>10, <2>1, <3>1
  <2>2. ASSUME \A s \in Allocated : slab[s].id # i PROVE RestingQty(i)' = RestingQty(i)
    <3>1. \A s \in Allocated' : slab'[s].id # i
      BY <1>3, <1>9, <2>2
    <3>2. RestingQty(i)' = 0
      BY <1>8, <3>1
    <3>3. RestingQty(i) = 0
      BY <1>1, <2>2, RestingIs DEF RestingTotals
    <3> QED
      BY <3>2, <3>3
  <2> QED
    BY <2>1, <2>2
<1> QED
  BY <1>11, <1>12 DEF B, S

LEMMA ConservedMatch ==
    ASSUME HInv, HInv', JustifiedHistory, CInv, Match
    PROVE  CInv'
<1>1. PICK x : x = buildExecution
  OBVIOUS
<1>2. x \in Execution /\ x.buy_id # x.sell_id /\ x.quantity \in Int
  BY <1>1, ExecutionJustified DEF Execution
<1>3. /\ x.buy_id = slab[Front("BUY")].id /\ x.sell_id = slab[Front("SELL")].id
      /\ x.quantity = TradeQty
  BY <1>1 DEF buildExecution
<1>4. executions' = Append(executions, x) /\ submitted' = submitted /\ agg # Nil /\ Crossed
  BY <1>1 DEF Match
<1>5. executions \in Seq(Execution)
  BY DEF JustifiedHistory
<1>6. IInv /\ Allocated' \subseteq Allocated /\ Allocated \subseteq Slots
      /\ \A s \in Slots : slab'[s].id = slab[s].id
  BY MatchOrders DEF HInv
<1>7. RestingWasPlaced'
  BY <1>4, <1>6 DEF CInv, RestingWasPlaced
<1>8. ASSUME NEW i
      PROVE  /\ FilledQty(i) \in Int
             /\ i \in {x.buy_id, x.sell_id} => FilledQty(i)' = FilledQty(i) + x.quantity
             /\ i \notin {x.buy_id, x.sell_id} => /\ FilledQty(i)' = FilledQty(i)
                                                  /\ FillsOf(i)' = FillsOf(i)
  <2>1. /\ FilledQty(i) = FilledIn(executions, i)
        /\ FilledQty(i)' = FilledIn(Append(executions, x), i)
        /\ FillsOf(i) = FillsIn(executions, i)
        /\ FillsOf(i)' = FillsIn(Append(executions, x), i)
    BY <1>4 DEF FilledQty, FilledIn, FillsOf, FillsIn
  <2> QED
    BY <1>2, <1>5, <2>1, FilledAppend
<1>9. ASSUME NEW i
      PROVE  /\ i \in {x.buy_id, x.sell_id} => RestingQty(i)' = RestingQty(i) - x.quantity
             /\ i \notin {x.buy_id, x.sell_id} => RestingQty(i)' = RestingQty(i)
  BY <1>3, RestingAfterTrade
<1>10. ASSUME NEW d \in Sides, NEW i, i = slab[Front(d)].id
       PROVE  submitted[i].placed = TRUE /\ RestingQty(i) \in Int
  <2>1. Front(d) \in Allocated
    BY <1>4, <1>6, CrossedFacts DEF Allocated
  <2>2. slab[Front(d)].quantity \in Int
    BY <1>6, <2>1 DEF IInv, TypeOK, Order
  <2>3. RestingQty(i) = slab[Front(d)].quantity
    BY <1>6, <1>10, <2>1, RestingIs DEF RestingTotals
  <2> QED
    BY <1>10, <2>1, <2>2, <2>3 DEF CInv, RestingWasPlaced
<1>11. ASSUME NEW i \in {x.buy_id, x.sell_id}
       PROVE  submitted[i].placed = TRUE /\ RestingQty(i) \in Int
  BY Zenon, <1>3, <1>10 DEF Sides
<1>12. ASSUME NEW i \in DOMAIN submitted
       PROVE  IF submitted'[i].placed THEN Balanced(i)' ELSE FillsOf(i)' = {}
  <2>1. IF submitted[i].placed THEN Balanced(i) ELSE FillsOf(i) = {}
    BY DEF CInv, QuantityConserved, Balanced
  <2>2. CASE i \in {x.buy_id, x.sell_id}
    <3>1. Balanced(i) /\ submitted[i].placed = TRUE
      BY Zenon, <1>11, <2>1, <2>2
    <3>2. Balanced(i)'
      BY <1>2, <1>4, <1>8, <1>9, <1>11, <2>2, <3>1 DEF Balanced
    <3> QED
      BY <1>4, <3>1, <3>2
  <2>3. CASE i \notin {x.buy_id, x.sell_id}
    BY <1>4, <1>8, <1>9, <2>1, <2>3 DEF Balanced
  <2> QED
    BY <2>2, <2>3
<1> QED
  BY <1>4, <1>7, <1>12 DEF CInv, QuantityConserved, Balanced

LEMMA ConservedDrop ==
    ASSUME HInv, JustifiedHistory, CInv, NEW p, Drop(p), executions' = executions,
           NEW e, submitted' = Append(submitted, e), e.placed = FALSE
    PROVE  CInv'
<1>1. Len(submitted) \in Nat /\ DOMAIN submitted = 1 .. Len(submitted) /\ IInv
  BY DEF HInv, IInv, Bookkeeping
<1>2. PICK n : n = Len(submitted) + 1
  OBVIOUS
<1>3. /\ n \in Nat /\ DOMAIN submitted' = 1 .. n /\ submitted'[n] = e /\ n \notin 1 .. Len(submitted)
      /\ \A i \in 1 .. n : i = n \/ i \in 1 .. Len(submitted)
      /\ \A i \in 1 .. Len(submitted) : submitted'[i] = submitted[i]
  BY <1>1, <1>2, AppendFacts
<1>4. slab' = slab /\ Allocated' = Allocated
  BY DEF Drop, pool, Allocated, Free
<1>5. \A i : /\ FilledQty(i)' = FilledQty(i) /\ FillsOf(i)' = FillsOf(i)
             /\ RestingQty(i)' = RestingQty(i)
  BY <1>4 DEF FilledQty, FillsOf, RestingQty
<1>6. RestingWasPlaced'
  BY <1>3, <1>4 DEF CInv, RestingWasPlaced, HInv, RestingWasSubmitted
<1>7. FillsOf(n) = {}
  BY <1>3 DEF JustifiedHistory, Submitted, FillsOf
<1>8. ASSUME NEW i \in DOMAIN submitted'
      PROVE  IF submitted'[i].placed THEN Balanced(i)' ELSE FillsOf(i)' = {}
  <2>1. CASE i = n
    BY <1>3, <1>5, <1>7, <2>1
  <2>2. CASE i \in 1 .. Len(submitted)
    <3>1. IF submitted[i].placed THEN Balanced(i) ELSE FillsOf(i) = {}
      BY <1>1, <2>2 DEF CInv, QuantityConserved, Balanced
    <3> QED
      BY <1>3, <1>5, <2>2, <3>1 DEF Balanced
  <2> QED
    BY <1>3, <2>1, <2>2
<1> QED
  BY <1>6, <1>8 DEF CInv, QuantityConserved, Balanced

LEMMA ConservedNext ==
    ASSUME HInv, HInv', JustifiedHistory, CInv, [Next]_vars
    PROVE  CInv'
<1>1. ASSUME NEW y \in Symbols, NEW d \in Sides, NEW p \in Prices, NEW q \in Quantities,
             acceptNewOrder(y, d, p, q)
      PROVE  CInv'
  <2> DEFINE e == [symbol |-> y, side |-> d, price |-> p, quantity |-> q,
                   placed |-> priceToTick(p) \in Ticks /\ top > 0]
  <2>1. submitted' = Append(submitted, e) /\ executions' = executions
    BY <1>1 DEF acceptNewOrder
  <2>2. e.quantity = q /\ e.placed = (priceToTick(p) \in Ticks /\ top > 0) /\ q \in Int
    BY QuantitiesAssumption
  <2> HIDE DEF e
  <2>3. CASE Place(y, d, p, q)
    <3>1. priceToTick(p) \in Ticks /\ top > 0
      BY <2>3 DEF Place
    <3>2. e.placed = TRUE
      BY Zenon, <2>2, <3>1
    <3> QED
      BY Zenon, <2>1, <2>2, <2>3, <3>2, ConservedPlace
  <2>4. CASE Drop(p)
    <3>1. ~(priceToTick(p) \in Ticks /\ top > 0)
      BY <2>4 DEF Drop
    <3>2. e.placed = FALSE
      BY Zenon, <2>2, <3>1
    <3> QED
      BY Zenon, <2>1, <2>4, <3>2, ConservedDrop
  <2> QED
    BY <1>1, <2>3, <2>4 DEF acceptNewOrder
<1>2. CASE Match
  BY <1>2, ConservedMatch
<1>3. CASE Return \/ UNCHANGED vars
  <2>1. slab' = slab /\ Allocated' = Allocated /\ submitted' = submitted /\ executions' = executions
    BY <1>3 DEF Return, vars, pool, Allocated, Free
  <2>2. \A i : /\ FilledQty(i)' = FilledQty(i) /\ FillsOf(i)' = FillsOf(i)
               /\ RestingQty(i)' = RestingQty(i)
    BY <2>1 DEF FilledQty, FillsOf, RestingQty
  <2> QED
    BY <2>1, <2>2 DEF CInv, QuantityConserved, RestingWasPlaced
<1> QED
  BY <1>1, <1>2, <1>3 DEF Next

(* No quantity appears or disappears, over any number of calls: what an     *)
(* order that acceptNewOrder() took asked for is what its executions filled *)
(* plus what still rests, and an order it dropped is in no execution.       *)
THEOREM QuantityConservedCorrect == Spec => []QuantityConserved
<1>1. Init => JustifiedHistory /\ CInv
  <2>1. Init => JustifiedHistory /\ QuantityConserved
    <3>1. Init => submitted = << >> /\ executions = << >>
      BY DEF Init
    <3>2. executions = << >> => JustifiedHistory
      BY DEF JustifiedHistory
    <3>3. submitted = << >> => QuantityConserved
      BY DEF QuantityConserved
    <3> QED
      BY <3>1, <3>2, <3>3
  <2>2. Init => \A s \in Slots : s - 1 \in 0 .. top - 1 /\ free_stack[s - 1] = s
    BY DEF Init, Slots
  <2>3. Init => RestingWasPlaced
    BY <2>2 DEF RestingWasPlaced, Allocated, Free
  <2> QED
    BY <2>1, <2>3 DEF CInv
<1>2. HInv /\ JustifiedHistory /\ [Next]_vars => JustifiedHistory'
  BY JustifiedNext
<1>3. HInv /\ HInv' /\ JustifiedHistory /\ CInv /\ [Next]_vars => CInv'
  BY ConservedNext
<1>4. CInv => QuantityConserved
  BY DEF CInv
<1> QED
  BY <1>1, <1>2, <1>3, <1>4, HistoryInvariance, PTL DEF Spec

----------------------------------------------------------------------------
(* Proof that OrderBook implements PriceTimeBook: the orders in the         *)
(* allocated slots are the resting orders, and the one being matched is     *)
(* named by its id.                                                         *)

Resting == {slab[s] : s \in Allocated}
Working == IF agg = Nil THEN 0 ELSE slab[agg].id

(* The vocabulary of the two specifications is the same.                    *)
LEMMA SameVocabulary ==
    /\ Abstract!Sides = Sides /\ Abstract!Ticks = Ticks
    /\ \A p : Abstract!priceToTick(p) = priceToTick(p)
    /\ \A d, t, u : Abstract!Better(d, t, u) <=> Better(d, t, u)
    /\ \A S : Abstract!Cardinality(S) = Cardinality(S)
<1>1. Abstract!Sides = Sides /\ Abstract!Ticks = Ticks
  BY DEF Abstract!Sides, Sides, Abstract!Ticks, Ticks
<1>2. \A p : Abstract!priceToTick(p) = priceToTick(p)
  BY DEF Abstract!priceToTick, priceToTick, Abstract!TruncDiv, TruncDiv
<1>3. \A d, t, u : Abstract!Better(d, t, u) <=> Better(d, t, u)
  BY DEF Abstract!Better, Better
<1>4. \A S : Abstract!Cardinality(S) = Cardinality(S)
  BY DEF Abstract!Cardinality, Cardinality, Abstract!IsFiniteSet, IsFiniteSet
<1> QED
  BY <1>1, <1>2, <1>3, <1>4

(* The pool has a free slot exactly when fewer than CAPACITY orders rest.   *)
LEMMA RestingCard ==
    ASSUME IInv
    PROVE  Cardinality(Resting) = CAPACITY - top
<1>1. Free \subseteq Slots /\ top \in Nat /\ Cardinality(Free) = top
  BY DEF IInv, TypeOK, Bookkeeping, Free
<1>2. IsFiniteSet(Allocated) /\ Cardinality(Allocated) = CAPACITY - top
  <2>1. Slots \cap Free = Free
    BY <1>1
  <2> QED
    BY Zenon, <1>1, <2>1, SlotsFinite, FS_Difference DEF Allocated
<1>3. ExistsBijection(Allocated, Resting)
  <2> DEFINE f == [s \in Allocated |-> slab[s]]
  <2>1. f \in [Allocated -> Resting]
    BY DEF Resting
  <2>2. \A s, u \in Allocated : f[s] = f[u] => s = u
    BY DEF IInv, PoolPartition
  <2>3. \A r \in Resting : \E s \in Allocated : f[s] = r
    BY DEF Resting
  <2>4. DOMAIN f = Allocated
    OBVIOUS
  <2> HIDE DEF f
  <2>5. f \in Injection(Allocated, Resting)
    BY Zenon, <2>1, <2>2, <2>4 DEF Injection, IsInjective
  <2>6. f \in Surjection(Allocated, Resting)
    BY Zenon, <2>1, <2>3 DEF Surjection
  <2> QED
    BY Zenon, <2>5, <2>6 DEF ExistsBijection, Bijection
<1> QED
  BY <1>2, <1>3, FS_Bijection

(* Before any order, both are empty.                                        *)
LEMMA RefineInit == Init => Abstract!Init
<1> SUFFICES ASSUME Init PROVE Abstract!Init
  OBVIOUS
<1>1. \A s \in Slots : s - 1 \in 0 .. top - 1 /\ free_stack[s - 1] = s
  BY DEF Init, Slots
<1>2. Allocated = {}
  BY <1>1 DEF Allocated, Free
<1> QED
  BY <1>2 DEF Init, Abstract!Init

(* acceptNewOrder() up to matchOrders() is Submit.                          *)
LEMMA RefineSubmit ==
    ASSUME HInv, NEW y \in Symbols, NEW d \in Sides, NEW p \in Prices, NEW q \in Quantities,
           acceptNewOrder(y, d, p, q)
    PROVE  Abstract!Submit(y, d, p, q)
<1> DEFINE n == Len(submitted) + 1
           r == [id |-> n, symbol |-> y, side |-> d, price |-> p, quantity |-> q]
           taken == priceToTick(p) \in Ticks /\ top > 0
           inside == Abstract!priceToTick(p) \in Abstract!Ticks
           room == inside /\ Abstract!Cardinality(Resting) < CAPACITY
           entry(b) == [symbol |-> y, side |-> d, price |-> p, quantity |-> q, placed |-> b]
<1>1. IInv /\ agg = Nil /\ Len(submitted) < MaxOrders /\ executions' = executions
  BY DEF HInv, acceptNewOrder
<1>2. submitted' = Append(submitted, entry(taken))
  BY DEF acceptNewOrder
<1>3. room = taken
  <2>1. top \in Nat
    BY <1>1 DEF IInv, TypeOK
  <2>2. Abstract!Cardinality(Resting) = CAPACITY - top
    BY <1>1, RestingCard, SameVocabulary
  <2>3. Abstract!Cardinality(Resting) < CAPACITY <=> top > 0
    BY <2>1, <2>2, CapacityAssumption
  <2>4. inside <=> priceToTick(p) \in Ticks
    BY SameVocabulary
  <2> QED
    BY <2>3, <2>4
<1>4. submitted' = Append(submitted, entry(room))
  BY <1>2, <1>3
<1>5. ASSUME Resting' = IF room THEN Resting \cup {r} ELSE Resting,
             Working' = IF room THEN n ELSE 0
      PROVE  Abstract!Submit(y, d, p, q)
  <2>1. Working = 0
    BY <1>1 DEF Working
  <2> QED
    BY Zenon, <1>1, <1>4, <1>5, <2>1 DEF Abstract!Submit, Resting, Working
<1>6. CASE Place(y, d, p, q)
  <2> DEFINE o == free_stack[top - 1]
  <2>1. /\ o \in Slots /\ Allocated' = Allocated \cup {o} /\ Allocated \subseteq Slots
        /\ o \notin Allocated /\ agg' = o /\ slab'[o] = r
        /\ \A s \in Slots : s # o => slab'[s] = slab[s]
    BY Zenon, <1>1, <1>6, PlaceFacts
  <2>2. taken
    BY <1>6 DEF Place
  <2>3. r.id = n
    OBVIOUS
  <2> HIDE DEF o, r
  <2>4. Resting' = Resting \cup {r}
    <3>1. \A s \in Allocated : slab'[s] = slab[s]
      BY <2>1
    <3> QED
      BY <2>1, <3>1 DEF Resting
  <2>5. Working' = n
    BY <2>1, <2>3 DEF Working
  <2> QED
    BY <1>3, <1>5, <2>2, <2>4, <2>5
<1>7. CASE Drop(p)
  <2>1. ~taken
    BY <1>1, <1>7 DEF Drop, IInv, TypeOK
  <2>2. Resting' = Resting /\ agg' = Nil
    BY <1>1, <1>7 DEF Drop, pool, call, Resting, Allocated, Free
  <2> QED
    BY <1>3, <1>5, <2>1, <2>2 DEF Working
<1> QED
  BY <1>6, <1>7 DEF acceptNewOrder

(* The order matchOrders() takes from the passive side is first in line.    *)
LEMMA FrontIsFirst ==
    ASSUME HInv, agg # Nil, Crossed
    PROVE  /\ Abstract!FirstAgainst(slab[agg], slab[Front(Passive)])
           /\ Abstract!CanTrade(slab[agg], slab[Front(Passive)])
<1> DEFINE f == Front(Passive)
           b == best[book][Passive]
<1>1. IInv /\ aggressor \in Sides /\ Passive \in Sides /\ book \in Symbols
  BY DEF HInv, IInv, TypeOK, Passive, Sides
<1>2. /\ agg \in Allocated /\ f \in Allocated /\ f \in At(BestLevel(Passive))
      /\ agg \in At(BestLevel(aggressor)) /\ BestLevel(Passive) \in Levels
  BY Zenon, <1>1, CrossedFacts DEF Allocated
<1>3. /\ slab[f].symbol = book /\ slab[f].side = Passive /\ priceToTick(slab[f].price) = b
      /\ priceToTick(slab[agg].price) = best[book][aggressor]
      /\ slab[agg].symbol = book /\ slab[agg].side = aggressor
  BY <1>2 DEF At, LevelOf, BestLevel
<1>4. best[book]["BUY"] \in Int /\ best[book]["SELL"] \in Int
  BY <1>1 DEF IInv, TypeOK, Sides
<1>5. ASSUME NEW s \in Allocated, slab[s].symbol = book, slab[s].side # aggressor, s # f
      PROVE  Abstract!Before(slab[f], slab[s])
  <2> DEFINE t == priceToTick(slab[s].price)
  <2>1. slab[s].side = Passive /\ t \in bits[book][Passive] /\ t \in Int
    BY <1>1, <1>5, OrderFacts DEF Passive, Sides, Ticks
  <2>2. ~Better(Passive, t, b)
    BY <1>1, <2>1, StateFacts
  <2>3. CASE t # b
    <3>1. Better(Passive, b, t)
      BY <1>1, <1>4, <2>1, <2>2, <2>3 DEF Better, Sides
    <3> QED
      BY <1>3, <3>1, SameVocabulary DEF Abstract!Before
  <2>4. CASE t = b
    <3>1. s \in At(BestLevel(Passive)) /\ s \in Slots /\ f \in Slots
      BY <1>2, <1>5, <2>1, <2>4 DEF At, LevelOf, BestLevel, Allocated
    <3>2. Ids[f] <= Ids[s]
      BY Zenon, <1>1, <1>2, <3>1 DEF IInv, LevelsAreFifo, FifoList, Front
    <3>3. slab[f].id <= slab[s].id /\ slab[f].id # slab[s].id
      BY <1>2, <1>5, <3>1, <3>2, OrderFacts DEF Ids
    <3>4. slab[f].id < slab[s].id
      BY <1>2, <3>3, OrderFacts
    <3> QED
      BY Zenon, <1>3, <2>4, <3>4, SameVocabulary DEF Abstract!Before
  <2> QED
    BY <2>3, <2>4
<1>6. Passive # aggressor
  BY DEF Passive
<1>7. Abstract!FirstAgainst(slab[agg], slab[f])
  BY <1>2, <1>3, <1>5, <1>6 DEF Abstract!FirstAgainst
<1>8. ~Better(aggressor, b, best[book][aggressor])
  BY <1>1, <1>4 DEF Crossed, Better, Sides, Passive
<1> QED
  BY <1>3, <1>7, <1>8, SameVocabulary DEF Abstract!CanTrade

(* What a trade leaves of the two orders.                                   *)
LEMMA RestingAfterMatch ==
    ASSUME HInv, Match
    PROVE  LET w == slab[agg]
               o == slab[Front(Passive)]
           IN  Resting' = (Resting \ {w, o}) \cup Abstract!Reduced(w, TradeQty)
                                            \cup Abstract!Reduced(o, TradeQty)
<1> DEFINE f == Front(Passive)
<1>1. IInv /\ agg # Nil /\ Crossed /\ aggressor \in Sides
  BY DEF HInv, Match, IInv, TypeOK
<1>2. Sides = {aggressor, Passive} /\ Front(aggressor) = agg
  BY <1>1, CrossedFacts DEF Sides, Passive
<1>3. agg \in Allocated /\ f \in Allocated /\ agg # f
  BY <1>1, <1>2, CrossedFacts DEF Allocated, Passive, Sides
<1>4. {Front("BUY"), Front("SELL")} = {agg, f}
  BY <1>1, <1>2 DEF Sides, Passive
<1>5. /\ \A s \in Allocated : s \notin {agg, f} => slab'[s] = slab[s]
      /\ slab'[agg] = [slab[agg] EXCEPT !.quantity = @ - TradeQty]
      /\ slab'[f] = [slab[f] EXCEPT !.quantity = @ - TradeQty]
  BY Zenon, <1>1, <1>4, MatchOrders
<1>6. /\ \A s \in Allocated : s \notin {agg, f} => s \in Allocated'
      /\ agg \in Allocated' <=> slab[agg].quantity # TradeQty
      /\ f \in Allocated' <=> slab[f].quantity # TradeQty
      /\ Allocated' \subseteq Allocated
  <2>1. Allocated' = Allocated \ {Front(d) : d \in Filled}
    BY <1>1, MatchOrders
  <2>2. {Front(d) : d \in Filled} \subseteq {agg, f}
    BY <1>2 DEF Filled
  <2>3. agg \in {Front(d) : d \in Filled} <=> slab[agg].quantity = TradeQty
    BY <1>2, <1>3 DEF Filled
  <2>4. f \in {Front(d) : d \in Filled} <=> slab[f].quantity = TradeQty
    BY <1>2, <1>3 DEF Filled
  <2> QED
    BY <1>3, <2>1, <2>2, <2>3, <2>4
<1>7. \A s \in Allocated : /\ slab[s] = slab[agg] <=> s = agg
                           /\ slab[s] = slab[f] <=> s = f
  BY <1>3, OrderFacts
<1> DEFINE W == Abstract!Reduced(slab[agg], TradeQty)
           O == Abstract!Reduced(slab[f], TradeQty)
<1>8. /\ W = IF agg \in Allocated' THEN {slab'[agg]} ELSE {}
      /\ O = IF f \in Allocated' THEN {slab'[f]} ELSE {}
  BY <1>5, <1>6 DEF Abstract!Reduced
<1>9. Resting \ {slab[agg], slab[f]} = {slab[s] : s \in Allocated \ {agg, f}}
  BY <1>7 DEF Resting
<1>10. Resting' = {slab'[s] : s \in Allocated'}
  BY DEF Resting
<1> HIDE DEF W, O, f
<1>11. Resting' = {slab[s] : s \in Allocated \ {agg, f}} \cup W \cup O
  BY <1>5, <1>6, <1>8, <1>10
<1> QED
  BY <1>9, <1>11 DEF W, O, f

(* An iteration of matchOrders() is Trade.                                  *)
LEMMA RefineMatch ==
    ASSUME HInv, Match
    PROVE  \E w, o \in Resting : Abstract!Trade(w, o)
<1> DEFINE f == Front(Passive)
<1>1. IInv /\ agg # Nil /\ Crossed /\ aggressor \in Sides /\ Passive \in Sides
  BY DEF HInv, Match, IInv, TypeOK, Passive, Sides
<1>2. agg \in Allocated /\ f \in Allocated /\ Front(aggressor) = agg
  BY <1>1, CrossedFacts DEF Allocated
<1>3. PICK w \in Resting, o \in Resting : w = slab[agg] /\ o = slab[f]
  BY <1>2 DEF Resting
<1> DEFINE qty == IF w.quantity < o.quantity THEN w.quantity ELSE o.quantity
           buy == IF w.side = "BUY" THEN w ELSE o
           sell == IF w.side = "BUY" THEN o ELSE w
<1>4. w.quantity \in Int /\ o.quantity \in Int /\ w.side = aggressor
  BY <1>1, <1>2, <1>3, OrderFacts DEF Order, HInv, IncomingIsLatest
<1>5. /\ slab[Front("BUY")] = buy /\ slab[Front("SELL")] = sell
  BY <1>1, <1>2, <1>3, <1>4 DEF Passive, Sides
<1>6. TradeQty = qty
  BY <1>1, <1>4, <1>5 DEF TradeQty
<1>7. executions' = Append(executions,
            [side |-> w.side, symbol |-> w.symbol, quantity |-> qty,
             buy_id |-> buy.id, sell_id |-> sell.id,
             trade_price |-> o.price, order_arrival |-> w.id])
  BY <1>2, <1>3, <1>4, <1>5, <1>6 DEF Match, buildExecution
<1>8. Working = w.id /\ Working' = Working /\ submitted' = submitted
  <2>1. agg' = agg /\ agg \in Slots /\ submitted' = submitted
    BY <1>2 DEF Match, call, Allocated
  <2>2. slab'[agg].id = slab[agg].id
    BY <1>1, <2>1, MatchOrders
  <2> QED
    BY <1>1, <1>3, <2>1, <2>2 DEF Working
<1>9. Resting' = (Resting \ {w, o}) \cup Abstract!Reduced(w, qty) \cup Abstract!Reduced(o, qty)
  BY <1>3, <1>6, RestingAfterMatch
<1>10. Abstract!FirstAgainst(w, o) /\ Abstract!CanTrade(w, o)
  BY <1>1, <1>3, FrontIsFirst
<1>11. Abstract!Trade(w, o)
  BY Zenon, <1>7, <1>8, <1>9, <1>10 DEF Abstract!Trade, Resting, Working
<1> QED
  BY <1>11

(* matchOrders() returns only when the incoming order has nothing to trade  *)
(* with: Finish.                                                            *)
LEMMA RefineReturn ==
    ASSUME HInv, Return
    PROVE  Abstract!Finish
<1>1. /\ IInv /\ agg # Nil /\ ~Crossed /\ agg' = Nil /\ aggressor \in Sides
      /\ Passive \in Sides /\ book \in Symbols
      /\ submitted' = submitted /\ executions' = executions
  BY DEF HInv, Return, IInv, TypeOK, Passive, Sides
<1>2. Resting' = Resting /\ Working' = 0
  BY <1>1 DEF Return, pool, Resting, Working, Allocated, Free
<1>3. Working = Len(submitted) /\ Working # 0
  BY <1>1 DEF Working, HInv, IncomingIsLatest
<1>4. ASSUME NEW w \in Resting, NEW o \in Resting, w.id = Working,
             Abstract!FirstAgainst(w, o)
      PROVE  ~Abstract!CanTrade(w, o)
  <2> SUFFICES ASSUME Abstract!CanTrade(w, o) PROVE FALSE
    OBVIOUS
  <2>1. PICK s \in Allocated : w = slab[s]
    BY DEF Resting
  <2>2. PICK u \in Allocated : o = slab[u]
    BY DEF Resting
  <2>3. s = agg /\ w.symbol = book /\ w.side = aggressor
    BY <1>1, <1>3, <1>4, <2>1 DEF HInv, IncomingIsLatest
  <2>4. o.symbol = book /\ o.side = Passive
    BY <1>1, <1>4, <2>2, <2>3, OrderFacts DEF Abstract!FirstAgainst, Passive, Sides
  <2> DEFINE t == priceToTick(w.price)
             v == priceToTick(o.price)
  <2>5. /\ t \in bits[book][aggressor] /\ v \in bits[book][Passive]
        /\ t \in Int /\ v \in Int
    BY <2>1, <2>2, <2>3, <2>4, OrderFacts DEF Ticks
  <2>6. ~Better(aggressor, v, t)
    BY <2>3, SameVocabulary DEF Abstract!CanTrade
  <2> HIDE DEF t, v
  <2>7. /\ ~Better(aggressor, t, best[book][aggressor])
        /\ ~Better(Passive, v, best[book][Passive])
        /\ best[book][aggressor] # NoTick(aggressor) /\ best[book][Passive] # NoTick(Passive)
    BY Zenon, <1>1, <2>5, StateFacts
  <2>8. best[book]["BUY"] \in Int /\ best[book]["SELL"] \in Int
    BY <1>1 DEF IInv, TypeOK, Sides
  <2> QED
    BY <1>1, <2>5, <2>6, <2>7, <2>8 DEF Crossed, Better, Passive, Sides
<1> QED
  BY Zenon, <1>1, <1>2, <1>3, <1>4 DEF Abstract!Finish, Resting, Working

(* The engine implements price-time priority: every call and every          *)
(* iteration of matchOrders() is a step PriceTimeBook allows, whatever the  *)
(* pool, the lists, the bitsets and the cached best ticks do.               *)
THEOREM Refinement == Spec => ImplementsPriceTimeBook
<1>1. Init => Abstract!Init
  BY RefineInit
<1>2. HInv /\ [Next]_vars => [Abstract!Next]_(Abstract!vars)
  <2> SUFFICES ASSUME HInv, [Next]_vars PROVE [Abstract!Next]_(Abstract!vars)
    OBVIOUS
  <2>1. ASSUME NEW y \in Symbols, NEW d \in Sides, NEW p \in Prices, NEW q \in Quantities,
               acceptNewOrder(y, d, p, q)
        PROVE  Abstract!Next
    <3>1. Abstract!Submit(y, d, p, q) /\ d \in Abstract!Sides
      BY <2>1, RefineSubmit, SameVocabulary
    <3> QED
      BY <3>1 DEF Abstract!Next
  <2>2. CASE Match
    BY <2>2, RefineMatch DEF Abstract!Next, Resting
  <2>3. CASE Return
    BY <2>3, RefineReturn DEF Abstract!Next
  <2>4. CASE UNCHANGED vars
    <3>1. Resting' = Resting /\ Working' = Working /\ UNCHANGED << submitted, executions >>
      BY <2>4 DEF vars, pool, call, Resting, Working, Allocated, Free
    <3> QED
      BY <3>1 DEF Abstract!vars, Resting, Working
  <2> QED
    BY <2>1, <2>2, <2>3, <2>4 DEF Next
<1> QED
  BY <1>1, <1>2, HistoryInvariance, PTL DEF Spec, ImplementsPriceTimeBook, Abstract!Spec
============================================================================
