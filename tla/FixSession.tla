---------------------------- MODULE FixSession ----------------------------
(***************************************************************************)
(* libs/fix_session: FixSessionReader maps an order file into memory,      *)
(* walks through it line by line and hands one Order per line to a         *)
(* callback.                                                               *)
(*                                                                         *)
(* A text is a sequence of characters, except that a two-character tag is  *)
(* one element ("38").  A price is written in units of its last digit: the *)
(* decimal point is left out.                                              *)
(***************************************************************************)
EXTENDS Integers, Sequences, FiniteSetsExt, Functions

CONSTANTS
    SYMBOL_BYTES,   \* sizeof(Order::symbol) = 8
    ID_BYTES,       \* sizeof(Order::id) = 16
    PRICE_BYTES,    \* sizeof(buf) = 32
    INT_RANGE,      \* number of values of an int32_t: 2^32
    Code,           \* c - '0' for every character c
    NUL, LF,        \* '\0' and '\n'
    NoFile          \* the path does not exist

ASSUME BytesAssumption ==
    SYMBOL_BYTES \in Nat \ {0} /\ ID_BYTES \in Nat \ {0} /\ PRICE_BYTES \in Nat \ {0}

VARIABLES
    file,           \* what the path holds
    data,           \* the mapping: the file as it was when it was mapped
    p,              \* position of the next line in data
    running_,       \* running_
    r_pc,           \* "idle", "loop", "line", "done", "dead" (an exception escaped)
    handed          \* orders passed to the callback

svars == << file, data, p, running_, r_pc, handed >>

(* memchr(): the first c in s from i on, or the end of s.                   *)
memchr(s, c, i) ==
    LET hits == {j \in i .. Len(s) : s[j] = c}
    IN  IF hits = {} THEN Len(s) + 1 ELSE Min(hits)

Cut(s, n) == SubSeq(s, 1, IF Len(s) < n THEN Len(s) ELSE n)

(* What a reader of a char array sees of it: everything before the first    *)
(* NUL.                                                                     *)
CString(bytes) == SubSeq(bytes, 1, memchr(bytes, NUL, 1) - 1)

(* Signed arithmetic as the build does it: modulo INT_RANGE.                *)
Wrap(x) == ((x + INT_RANGE \div 2) % INT_RANGE) - INT_RANGE \div 2

(* Mutant of Quantity: the accumulated value is not shifted.                *)
QuantitySum(val) ==
    LET q[n \in 0 .. Len(val)] == IF n = 0 THEN 0 ELSE Wrap(q[n - 1] + Code[val[n]])
    IN  q[Len(val)]

(* The loop for tag 38 takes every character for a digit.                   *)
Quantity(val) ==
    LET q[n \in 0 .. Len(val)] == IF n = 0 THEN 0 ELSE Wrap(q[n - 1] * 10 + Code[val[n]])
    IN  q[Len(val)]

(* atof() of a text with at most one sign: it stops at the first character  *)
(* that is no digit.                                                        *)
atof(text) ==
    LET sign == IF text # << >> /\ text[1] = "-" THEN 1 ELSE 0
        digits == {j \in sign + 1 .. Len(text) :
                        \A i \in sign + 1 .. j : Code[text[i]] \in 0 .. 9}
        v[n \in 0 .. Cardinality(digits)] ==
            IF n = 0 THEN 0 ELSE v[n - 1] * 10 + Code[text[sign + n]]
    IN  IF sign = 1 THEN -v[Cardinality(digits)] ELSE v[Cardinality(digits)]

(* Mutant of SymbolBytes: the last byte is a character too.                 *)
SymbolBytesFull(old, val) ==
    [i \in 1 .. SYMBOL_BYTES |-> IF i <= Len(val) THEN val[i] ELSE NUL]

(* memcpy() of at most SYMBOL_BYTES - 1 characters and the terminator; the  *)
(* bytes after it stay as an earlier tag 55 of the line left them.          *)
SymbolBytes(old, val) ==
    LET n == Len(Cut(val, SYMBOL_BYTES - 1))
    IN  [i \in 1 .. SYMBOL_BYTES |->
            IF i <= n THEN val[i] ELSE IF i = n + 1 THEN NUL ELSE old[i]]

(* Order order{}: all zero, and 0 is OrderType::BUY.                        *)
ZeroOrder == [id |-> << >>, symbol |-> [i \in 1 .. SYMBOL_BYTES |-> NUL],
              order_type |-> "BUY", price |-> 0, quantity |-> 0]

(* The dispatch on the tag: other tags, and texts of another length in      *)
(* place of a tag, are ignored.                                             *)
SetField(o, tag, val) ==
    CASE tag = << "11" >> -> [o EXCEPT !.id = Cut(val, ID_BYTES - 1)]
      [] tag = << "55" >> -> [o EXCEPT !.symbol = SymbolBytes(@, val)]
      [] tag = << "54" >> -> [o EXCEPT !.order_type =
                                IF val # << >> /\ val[1] = "1" THEN "BUY" ELSE "SELL"]
      [] tag = << "44" >> -> [o EXCEPT !.price = atof(Cut(val, PRICE_BYTES - 1))]
      [] tag = << "38" >> -> [o EXCEPT !.quantity = Quantity(val)]
      [] OTHER -> o

(* The loop of parseFixLine(): the tags and values of a line.  A field      *)
(* without '=' runs into the next one.                                      *)
FixFields(line) ==
    LET from[i \in 1 .. Len(line) + 2] ==
            LET eq == memchr(line, "=", i)
                sep == memchr(line, "|", eq + 1)
            IN  IF eq > Len(line) THEN << >>
                ELSE << [tag |-> SubSeq(line, i, eq - 1),
                         val |-> SubSeq(line, eq + 1, sep - 1)] >> \o from[sep + 1]
    IN  from[1]

(* The fields are applied one after the other.                              *)
parseFixLine(line) ==
    LET fields == FixFields(line)
        order[n \in 0 .. Len(fields)] ==
            IF n = 0 THEN ZeroOrder ELSE SetField(order[n - 1], fields[n].tag, fields[n].val)
    IN  order[Len(fields)]

----------------------------------------------------------------------------
SInit ==
    /\ data = << >> /\ p = 1
    /\ running_ = FALSE
    /\ r_pc = "idle"
    /\ handed = << >>

(* start(): a missing file, or an fstat() or mmap() that fails, throws; an  *)
(* empty file returns at once.                                              *)
StartFails ==
    /\ r_pc = "idle"
    /\ r_pc' = "dead"
    /\ UNCHANGED << file, data, p, running_, handed >>

StartEmpty ==
    /\ r_pc = "idle" /\ file = << >>
    /\ r_pc' = "done"
    /\ UNCHANGED << file, data, p, running_, handed >>

(* running_ is set whatever stop() did before.                              *)
StartMapped ==
    /\ r_pc = "idle" /\ file \notin {NoFile, << >>}
    /\ data' = file /\ p' = 1
    /\ running_' = TRUE
    /\ r_pc' = "loop"
    /\ UNCHANGED << file, handed >>

(* while (p < end && running_)                                              *)
LoopCheck ==
    /\ r_pc = "loop"
    /\ r_pc' = IF p <= Len(data) /\ running_ THEN "line" ELSE "done"
    /\ UNCHANGED << file, data, p, running_, handed >>

(* Mutant of HandLine: p stays on the line's end.                           *)
HandLineAgain ==
    LET line_end == memchr(data, LF, p)
        line == SubSeq(data, p, line_end - 1)
    IN  /\ r_pc = "line"
        /\ handed' = IF line = << >> THEN handed ELSE Append(handed, parseFixLine(line))
        /\ p' = line_end
        /\ r_pc' = "loop"
        /\ UNCHANGED << file, data, running_ >>

(* One line is parsed and, unless it is empty, handed to the callback.      *)
HandLine ==
    LET line_end == memchr(data, LF, p)
        line == SubSeq(data, p, line_end - 1)
    IN  /\ r_pc = "line"
        /\ handed' = IF line = << >> THEN handed ELSE Append(handed, parseFixLine(line))
        /\ p' = line_end + 1
        /\ r_pc' = "loop"
        /\ UNCHANGED << file, data, running_ >>

stop ==
    /\ running_' = FALSE
    /\ UNCHANGED << file, data, p, r_pc, handed >>

Reader == StartEmpty \/ StartMapped \/ LoopCheck \/ HandLine
============================================================================
