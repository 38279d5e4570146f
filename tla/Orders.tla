------------------------------- MODULE Orders -------------------------------
(***************************************************************************)
(* Vocabulary shared by the matching engine and its abstract               *)
(* specification: sides, prices and ticks (order.h, order_book.h).         *)
(*                                                                         *)
(* A price is an integer number of sub-tick units, UNIT of them to the     *)
(* tick of 0.01: the parser accepts prices between two ticks (the          *)
(* instrument file itself lists a tick size of 0.0001).                    *)
(***************************************************************************)
EXTENDS Integers

CONSTANTS
    MAX_TICKS,      \* ticks of a book are 0 .. MAX_TICKS - 1
    UNIT            \* price units per tick

ASSUME MaxTicksAssumption == MAX_TICKS \in Nat \ {0}
ASSUME UnitAssumption == UNIT \in Nat \ {0}

Sides == {"BUY", "SELL"}

Ticks == 0 .. MAX_TICKS - 1

(* static_cast<int>(x): truncation towards zero, of the quotient a / b.     *)
TruncDiv(a, b) == IF a >= 0 THEN a \div b ELSE -((-a) \div b)

(* static_cast<int>(p * 100.0 + 0.5)                                        *)
priceToTick(p) == TruncDiv(2 * p + UNIT, 2 * UNIT)

(* best_bid_tick = -1 and best_ask_tick = MAX_TICKS stand for an empty side *)
NoTick(d) == IF d = "BUY" THEN -1 ELSE MAX_TICKS

(* A higher bid is better, a lower ask is better.                           *)
Better(d, t, u) == IF d = "BUY" THEN t > u ELSE t < u

(* The best tick of side d among the ticks in S.                            *)
BestTick(d, S) ==
    CHOOSE t \in S \cup {NoTick(d)} : \A u \in S : ~Better(d, u, t)
=============================================================================
