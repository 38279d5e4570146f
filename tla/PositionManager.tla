-------------------------- MODULE PositionManager --------------------------
(***************************************************************************)
(* libs/position_manager: net quantity, average entry price and realised   *)
(* P&L per symbol, updated by every execution the cold path takes from the *)
(* execution queue.                                                        *)
(***************************************************************************)
EXTENDS Rationals

CONSTANTS
    Symbols,
    Prices,         \* trade prices, in price units
    Quantities,     \* quantities of executions; 0 when an order had none
    MaxExecs        \* bound: executions in one behaviour

ASSUME PricesAssumption == Prices \subseteq Int
ASSUME QuantitiesAssumption == Quantities \subseteq Int
ASSUME MaxExecsAssumption == MaxExecs \in Nat

VARIABLES
    positions,      \* positions_
    cash,           \* history: money received minus money paid, per symbol
    net,            \* history: bought minus sold, per symbol
    entries,        \* history: prices of the fills that built the open position
    execs           \* number of executions so far (bounded by MaxExecs)

history == << cash, net, entries, execs >>
vars == << positions, history >>

(* A value-initialised Position, as positions_[sym] creates it.             *)
Flat == [quantity |-> 0, averageEntryPrice |-> Zero, realisedPnl |-> Zero]

Init ==
    /\ positions = [y \in Symbols |-> Flat]
    /\ cash = [y \in Symbols |-> 0]
    /\ net = [y \in Symbols |-> 0]
    /\ entries = [y \in Symbols |-> {}]
    /\ execs = 0

Least(i, j) == IF j < i THEN j ELSE i

(* The VWAP after adding q at price p to n held at average avg, n > 0 or    *)
(* n = 0: (n * avg + q * p) / (n + q).                                      *)
Vwap(n, avg, q, p) == Over(Add(Times(n, avg), OfInt(q * p)), n + q)

(* An execution whose aggressor bought.                                     *)
CoverShort(pos, q, p) ==
    LET coverQty == Least(q, -pos.quantity)
    IN  [quantity |-> pos.quantity + q,
         realisedPnl |-> Add(pos.realisedPnl,
                             Times(coverQty, Sub(pos.averageEntryPrice, OfInt(p)))),
         averageEntryPrice |-> IF pos.quantity + q > 0 THEN OfInt(p)
                               ELSE pos.averageEntryPrice]

AddToLong(pos, q, p) ==
    [pos EXCEPT !.quantity = @ + q,
                !.averageEntryPrice = Vwap(pos.quantity, @, q, p)]

OnBuy(pos, q, p) ==
    IF pos.quantity < 0 THEN CoverShort(pos, q, p) ELSE AddToLong(pos, q, p)

(* Mutant of CloseLong: a flip to short keeps the average of the long.      *)
CloseLongKeepsAverage(pos, q, p) ==
    LET remainder == q - pos.quantity
    IN  [quantity |-> -remainder,
         realisedPnl |-> Add(pos.realisedPnl,
                Times(pos.quantity, Sub(OfInt(p), pos.averageEntryPrice))),
         averageEntryPrice |-> IF remainder > 0 THEN pos.averageEntryPrice ELSE Zero]

(* An execution whose aggressor sold.                                       *)
CloseLong(pos, q, p) ==
    LET remainder == q - pos.quantity
    IN  [quantity |-> -remainder,
         realisedPnl |-> Add(pos.realisedPnl,
                Times(pos.quantity, Sub(OfInt(p), pos.averageEntryPrice))),
         averageEntryPrice |-> IF remainder > 0 THEN OfInt(p) ELSE Zero]

ReduceLong(pos, q, p) ==
    [pos EXCEPT !.quantity = @ - q,
                !.realisedPnl = Add(@, Times(q, Sub(OfInt(p), pos.averageEntryPrice)))]

OpenShort(pos, q, p) ==
    [pos EXCEPT !.quantity = -q, !.averageEntryPrice = OfInt(p)]

(* Mutant of AddToShort: the negative quantity is used as a weight.         *)
AddToShortSigned(pos, q, p) ==
    [pos EXCEPT !.quantity = @ - q,
                !.averageEntryPrice = Vwap(pos.quantity, @, q, p)]

AddToShort(pos, q, p) ==
    [pos EXCEPT !.quantity = @ - q,
                !.averageEntryPrice = Vwap(-pos.quantity, @, q, p)]

OnSell(pos, q, p) ==
    IF pos.quantity > 0
    THEN IF q >= pos.quantity THEN CloseLong(pos, q, p) ELSE ReduceLong(pos, q, p)
    ELSE IF pos.quantity = 0 THEN OpenShort(pos, q, p) ELSE AddToShort(pos, q, p)

(* How the history of an open position's entry prices goes on: it starts    *)
(* afresh when the position opens or changes sign, and grows when fills add *)
(* to it.                                                                   *)
Entries(y, signed, p) ==
    LET old == net[y]
        new == net[y] + signed
    IN  IF new = 0 THEN {}
        ELSE IF old * new <= 0 THEN {p}
        ELSE IF old * signed > 0 THEN entries[y] \cup {p}
        ELSE entries[y]

onExecution(y, side, q, p) ==
    LET signed == IF side = "BUY" THEN q ELSE -q
    IN  /\ execs < MaxExecs
        /\ positions' = [positions EXCEPT ![y] =
                            IF side = "BUY" THEN OnBuy(@, q, p) ELSE OnSell(@, q, p)]
        /\ cash' = [cash EXCEPT ![y] = @ - signed * p]
        /\ net' = [net EXCEPT ![y] = @ + signed]
        /\ entries' = [entries EXCEPT ![y] = Entries(y, signed, p)]
        /\ execs' = execs + 1

Next == \E y \in Symbols, side \in {"BUY", "SELL"}, q \in Quantities, p \in Prices :
            onExecution(y, side, q, p)

Spec == Init /\ [][Next]_vars

----------------------------------------------------------------------------
(* No money appears or disappears: what has been realised is the cash flow  *)
(* of all fills plus the open position at its entry price.  A wrong average *)
(* after any sequence of partial closes, flips and additions breaks this.   *)
PnlAccountsForCash ==
    \A y \in Symbols :
        LET pos == positions[y]
        IN  pos.realisedPnl = Add(OfInt(cash[y]),
                                  Times(pos.quantity, pos.averageEntryPrice))

(* The average entry price of an open position lies between the lowest and  *)
(* the highest price of the fills that built it.                            *)
AverageIsBracketed ==
    \A y \in Symbols : positions[y].quantity # 0 =>
        /\ \E p \in entries[y] : LessEq(OfInt(p), positions[y].averageEntryPrice)
        /\ \E p \in entries[y] : LessEq(positions[y].averageEntryPrice, OfInt(p))

(* "VWAP of all fills building this position" (position.h:32): the average  *)
(* entry price is a number.                                                 *)
AverageIsANumber == \A y \in Symbols : positions[y].averageEntryPrice # NaN
============================================================================
