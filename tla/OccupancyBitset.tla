-------------------------- MODULE OccupancyBitset --------------------------
(***************************************************************************)
(* The occupancy bitset of SymbolBook (order_book.h) word by word: setting *)
(* and clearing the bit of a tick, and the two scans that find the next    *)
(* occupied tick.  Words are unsigned integers of W bits (64 in the code), *)
(* shifts and subtractions wrap modulo 2^W.                                *)
(***************************************************************************)
EXTENDS Integers, Bitwise, FiniteSetsExt

CONSTANTS
    W,              \* bits in a word
    MAX_TICKS       \* bits in use; the last word may be partly unused

ASSUME WordAssumption == W \in Nat \ {0}
ASSUME TicksAssumption == MAX_TICKS \in Nat \ {0}

VARIABLES
    bits,           \* bid_bits or ask_bits
    occupied        \* the ticks whose level holds orders

vars == << bits, occupied >>

Ticks == 0 .. MAX_TICKS - 1
BITSET_WORDS == (MAX_TICKS + W - 1) \div W
Words == 0 .. BITSET_WORDS - 1

(* ~x on a W-bit word *)
Complement(x) == 2^W - 1 - x

(* 1ULL << (t & 63) *)
Bit(t) == 2^(t % W)

Init == bits = [w \in Words |-> 0] /\ occupied = {}

(* bid_set() and ask_set(); a tick may be set again.                        *)
Set(t) ==
    /\ bits' = [bits EXCEPT ![t \div W] = @ | Bit(t)]
    /\ occupied' = occupied \cup {t}

(* bid_clear() and ask_clear()                                              *)
Clear(t) ==
    /\ bits' = [bits EXCEPT ![t \div W] = @ & Complement(Bit(t))]
    /\ occupied' = occupied \ {t}

Next == \E t \in Ticks : Set(t) \/ (t \in occupied /\ Clear(t))

Spec == Init /\ [][Next]_vars

----------------------------------------------------------------------------
(* 63 - __builtin_clzll(m) and __builtin_ctzll(m), for m # 0                *)
HighBit(m) == Max({b \in 0 .. W - 1 : (m \div 2^b) % 2 = 1})
LowBit(m) == Min({b \in 0 .. W - 1 : (m \div 2^b) % 2 = 1})

(* while (mask == 0 && w > 0) mask = bid_bits[--w]; and what follows it     *)
RECURSIVE ScanDown(_, _)
ScanDown(mask, w) ==
    IF mask = 0 /\ w > 0 THEN ScanDown(bits[w - 1], w - 1)
    ELSE IF mask = 0 THEN -1
    ELSE w * W + HighBit(mask)

(* Mutant of highest_bid: 1ULL << instead of 2ULL <<, which leaves out the  *)
(* tick itself.                                                             *)
highest_bid_exclusive(from) ==
    IF from < 0 THEN -1
    ELSE LET w == from \div W
         IN  ScanDown(bits[w] & (Bit(from) - 1), w)

highest_bid(from) ==
    IF from < 0 THEN -1
    ELSE LET w == from \div W
             low == (((2 * Bit(from)) % 2^W) - 1) % 2^W   \* 2ULL << 63 wraps to 0
         IN  ScanDown(bits[w] & low, w)

(* while (mask == 0 && w < max_w) mask = ask_bits[++w]; and what follows it *)
RECURSIVE ScanUp(_, _)
ScanUp(mask, w) ==
    IF mask = 0 /\ w < (MAX_TICKS - 1) \div W THEN ScanUp(bits[w + 1], w + 1)
    ELSE IF mask = 0 THEN MAX_TICKS
    ELSE w * W + LowBit(mask)

lowest_ask(from) ==
    IF from >= MAX_TICKS THEN MAX_TICKS
    ELSE LET w == from \div W
         IN  ScanUp(bits[w] & Complement(Bit(from) - 1), w)

----------------------------------------------------------------------------
(* highest_bid() finds the highest occupied tick at or below its argument,  *)
(* lowest_ask() the lowest at or above it: at word boundaries, across empty *)
(* words, and in spite of the unused bits of the last word.                 *)
ScansFindTheNextTick ==
    \A from \in -1 .. MAX_TICKS :
        /\ from < MAX_TICKS =>
            highest_bid(from) = Max({t \in occupied : t <= from} \cup {-1})
        /\ from >= 0 =>
            lowest_ask(from) = Min({t \in occupied : t >= from} \cup {MAX_TICKS})
============================================================================
