--------------------------- MODULE PriceTimeBook ---------------------------
(***************************************************************************)
(* What the matching engine promises, without pool, lists, bitsets or      *)
(* cached best ticks: a set of resting orders, price-time priority by tick *)
(* and arrival, trades at the resting order's price, and room for CAPACITY *)
(* orders in all books together.                                           *)
(***************************************************************************)
EXTENDS Orders, FiniteSets, Sequences

CONSTANTS Symbols, CAPACITY, Prices, Quantities, MaxOrders

VARIABLES
    resting,        \* orders in the books
    working,        \* id of the order being matched, 0 between calls
    submitted,      \* history: orders passed to acceptNewOrder()
    executions      \* history: executions reported

vars == << resting, working, submitted, executions >>

Init ==
    /\ resting = {}
    /\ working = 0
    /\ submitted = << >>
    /\ executions = << >>

Submit(y, d, p, q) ==
    LET taken == priceToTick(p) \in Ticks /\ Cardinality(resting) < CAPACITY
        id == Len(submitted) + 1
    IN  /\ working = 0
        /\ Len(submitted) < MaxOrders
        /\ submitted' = Append(submitted, [symbol |-> y, side |-> d, price |-> p,
                                           quantity |-> q, placed |-> taken])
        /\ resting' = IF taken
                      THEN resting \cup {[id |-> id, symbol |-> y, side |-> d,
                                          price |-> p, quantity |-> q]}
                      ELSE resting
        /\ working' = IF taken THEN id ELSE 0
        /\ UNCHANGED executions

(* Order o goes before order u of the same side.                            *)
Before(o, u) ==
    LET t == priceToTick(o.price)
        v == priceToTick(u.price)
    IN  Better(o.side, t, v) \/ (t = v /\ o.id < u.id)

(* o is the order of the other side of w's book that is first in line.      *)
FirstAgainst(w, o) ==
    LET against == {u \in resting : u.symbol = w.symbol /\ u.side # w.side}
    IN  o \in against /\ \A u \in against \ {o} : Before(o, u)

CanTrade(w, o) == ~Better(w.side, priceToTick(o.price), priceToTick(w.price))

Reduced(o, q) == IF o.quantity = q THEN {} ELSE {[o EXCEPT !.quantity = @ - q]}

(* The incoming order w trades with the first order o against it.           *)
Trade(w, o) ==
    LET q == IF w.quantity < o.quantity THEN w.quantity ELSE o.quantity
        buy == IF w.side = "BUY" THEN w ELSE o
        sell == IF w.side = "BUY" THEN o ELSE w
    IN  /\ w.id = working
        /\ FirstAgainst(w, o)
        /\ CanTrade(w, o)
        /\ executions' = Append(executions,
                [side |-> w.side, symbol |-> w.symbol, quantity |-> q,
                 buy_id |-> buy.id, sell_id |-> sell.id,
                 trade_price |-> o.price, order_arrival |-> w.id])
        /\ resting' = (resting \ {w, o}) \cup Reduced(w, q) \cup Reduced(o, q)
        /\ UNCHANGED << working, submitted >>

(* Matching ends when the incoming order is gone or nothing crosses it.     *)
Finish ==
    /\ working # 0
    /\ \A w, o \in resting : w.id = working /\ FirstAgainst(w, o) => ~CanTrade(w, o)
    /\ working' = 0
    /\ UNCHANGED << resting, submitted, executions >>

Next ==
    \/ \E y \in Symbols, d \in Sides, p \in Prices, q \in Quantities :
            Submit(y, d, p, q)
    \/ \E w, o \in resting : Trade(w, o)
    \/ Finish

Spec == Init /\ [][Next]_vars
============================================================================
