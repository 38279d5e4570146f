------------------------- MODULE MarketDispatcher -------------------------
(***************************************************************************)
(* libs/market_data: subscriptions by symbol name and the routing of a     *)
(* tick to the callbacks of its symbol.  A key is the 8 bytes of a         *)
(* char[8], read as one integer; here it is the sequence of the bytes.     *)
(***************************************************************************)
EXTENDS Integers, Sequences

CONSTANTS
    KEY_BYTES,      \* sizeof(Tick::symbol) = 8
    NUL             \* '\0'

VARIABLE callbacks  \* callbacks_: the subscribers of every key that has some

(* memcpy() of at most n characters into a zeroed char array.               *)
Padded(name, n) ==
    [i \in 1 .. KEY_BYTES |-> IF i <= n /\ i <= Len(name) THEN name[i] ELSE NUL]

(* The key under which a name is subscribed and counted.                    *)
SubscribeKey(name) == Padded(name, KEY_BYTES)

Callbacks(key) == IF key \in DOMAIN callbacks THEN callbacks[key] ELSE << >>

(* An empty name is ignored.                                                *)
subscribe(name, cb) ==
    LET key == SubscribeKey(name)
    IN  callbacks' = IF name = << >> THEN callbacks
                     ELSE [k \in DOMAIN callbacks \cup {key} |->
                            IF k = key THEN Append(Callbacks(key), cb) ELSE callbacks[k]]

(* Mutant of dispatch: the symbol is compared with a name up to the name's  *)
(* end only.                                                                *)
dispatchByPrefix(symbol) ==
    LET keys == {k \in DOMAIN callbacks : \A i \in DOMAIN k : k[i] \in {symbol[i], NUL}}
    IN  IF keys = {} THEN << >> ELSE callbacks[CHOOSE k \in keys : TRUE]

(* The callbacks dispatch() calls for a tick, in order.                     *)
dispatch(symbol) == Callbacks(symbol)

subscriberCount(name) == Len(Callbacks(SubscribeKey(name)))
============================================================================
