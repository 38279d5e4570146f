------------------------------ MODULE Ingest ------------------------------
(***************************************************************************)
(* What gets into the process, and under which names: main() loads the     *)
(* reference data, subscribes its symbols and starts the threads; the      *)
(* order simulator writes the file that FixSessionReader replays into the  *)
(* book; the tick simulator and other senders address the UDP port, the    *)
(* dispatcher routes ticks to the queue, and the cold loop files prices by *)
(* name for the positions the orders build.                                *)
(***************************************************************************)
EXTENDS FixSession, FiniteSets

CONSTANTS
    Names,          \* symbols in the simulators' and main()'s tables
    Prices,         \* the order simulator's prices after a step of its walk
    UNIT,           \* price units to a cent, the last digit written
    Quantities,     \* order sizes: less than 100
    BUFFER,         \* characters the simulator's stream collects before a write
    MaxGenerated,   \* bound: orders the simulator generates (10 000)
    ForeignFiles,   \* order files that the simulator has not written
    ForeignSymbols, \* symbol bytes in ticks of other senders
    InstrumentFiles, SurfaceFiles,  \* rows of the CSV files, headers left out
    Numbers, Dates, ShortTexts, Nullopt, Throws, Unread,    \* of InstrumentStore
    NaN, DefaultVol                                         \* of VolSurface

(* The symbols of the tables are texts that fit into a Tick with their NUL. *)
ASSUME NamesAssumption ==
    \A name \in Names :
        /\ name \in Seq(Range(name)) /\ NUL \notin Range(name)
        /\ Len(name) \in 1 .. SYMBOL_BYTES - 1

(* A row is a sequence of texts, or of numbers and things that are none.    *)
ASSUME FilesAssumption ==
    /\ InstrumentFiles \subseteq Seq(Seq(STRING))
    /\ SurfaceFiles \subseteq Seq(Seq(Int \cup {NaN}))
    /\ NaN \notin Int \X Int

VARIABLES
    g_pc,           \* order simulator: "idle", "writing", "broken", "closed"
    generated,      \* orders it has formatted so far
    flushed,        \* how much of their text is on disk
    i_file, v_file, \* instruments.csv and vol_surface.csv; empty if missing
    nextRow,        \* main(): the row that loadFromCSV() reads next
    instruments, volatilities, rows,    \* of InstrumentStore and VolSurface
    m_pc,           \* main(): "instruments", "surface", "subscribing", "threads", "dead"
    callbacks,      \* MarketDispatcher::callbacks_
    tickQueue,      \* symbols of the ticks on their way to the cold loop
    latestPrices    \* names under which RiskEngine holds a price

gvars == << g_pc, generated, flushed >>
refdata == << i_file, v_file, nextRow, instruments, volatilities, rows >>
feed == << callbacks, tickQueue, latestPrices >>
mvars == << m_pc, refdata, feed >>
vars == << svars, gvars, mvars >>

Store == INSTANCE InstrumentStore
Surface == INSTANCE VolSurface
Dispatcher == INSTANCE MarketDispatcher WITH KEY_BYTES <- SYMBOL_BYTES

----------------------------------------------------------------------------
(* The order simulator.                                                     *)

Digit == << "1", "2", "3", "4", "5", "6", "7", "8", "9" >>
DigitText(d) == IF d = 0 THEN "0" ELSE Digit[d]
DecimalText(n) == IF n < 10 THEN << DigitText(n) >>
                            ELSE << DigitText(n \div 10), DigitText(n % 10) >>

(* "Floor at $0.01", then setprecision(2).                                  *)
Floored(price) == IF price < UNIT THEN UNIT ELSE price
Cents(price) == (2 * price + UNIT) \div (2 * UNIT)

(* One New Order Single line.                                               *)
Text(o) ==
    << "11", "=", "O" >> \o DecimalText(o.id)
        \o << "|", "35", "=", "D", "|", "55", "=" >> \o o.symbol
        \o << "|", "54", "=", IF o.side = "BUY" THEN "1" ELSE "2">>
        \o << "|", "44", "=" >> \o DecimalText(o.price)
        \o << "|", "38", "=" >> \o DecimalText(o.quantity) \o << LF >>

Written ==
    LET text[n \in 0 .. Len(generated)] ==
            IF n = 0 THEN << >> ELSE text[n - 1] \o Text(generated[n])
    IN  text[Len(generated)]

(* The ofstream truncates the file; if it cannot be opened the simulator    *)
(* gives up.                                                                *)
OpenOut ==
    /\ g_pc = "idle"
    /\ g_pc' = "writing"
    /\ file' = << >>
    /\ UNCHANGED << data, p, running_, r_pc, handed, generated, flushed, mvars >>

OpenOutFails ==
    /\ g_pc = "idle"
    /\ g_pc' = "closed"
    /\ UNCHANGED << svars, generated, flushed, mvars >>

(* Mutant of Generate: the price is not floored.                            *)
GenerateUnfloored(name, price, side, qty) ==
    /\ g_pc \in {"writing", "broken"}
    /\ Len(generated) < MaxGenerated
    /\ generated' = Append(generated,
            [id |-> Len(generated) + 1, symbol |-> name, side |-> side,
             price |-> Cents(price), quantity |-> qty])
    /\ UNCHANGED << svars, g_pc, flushed, mvars >>

Generate(name, price, side, qty) ==
    /\ g_pc \in {"writing", "broken"}
    /\ Len(generated) < MaxGenerated
    /\ generated' = Append(generated,
            [id |-> Len(generated) + 1, symbol |-> name, side |-> side,
             price |-> Cents(Floored(price)), quantity |-> qty])
    /\ UNCHANGED << svars, g_pc, flushed, mvars >>

(* A full buffer goes to disk, in general not at the end of a line.  Once a *)
(* write has failed nothing more is written; nobody looks at the stream's   *)
(* state.                                                                   *)
WriteTo(n) ==
    /\ flushed' = n
    /\ file' = SubSeq(Written, 1, n)

FlushBuffer ==
    /\ g_pc = "writing"
    /\ flushed + BUFFER <= Len(Written)
    /\ WriteTo(flushed + BUFFER)
    /\ UNCHANGED << data, p, running_, r_pc, handed, g_pc, generated, mvars >>

WriteFails ==
    /\ g_pc = "writing"
    /\ g_pc' = "broken"
    /\ UNCHANGED << svars, generated, flushed, mvars >>

(* close() writes what is left.                                             *)
CloseOut ==
    /\ Len(generated) = MaxGenerated
    /\ \/ /\ g_pc = "writing" /\ WriteTo(Len(Written))
          /\ UNCHANGED << data, p, running_, r_pc, handed >>
       \/ g_pc = "broken" /\ UNCHANGED << svars, flushed >>
    /\ g_pc' = "closed"
    /\ UNCHANGED << generated, mvars >>

Simulator ==
    \/ OpenOut \/ OpenOutFails \/ FlushBuffer \/ WriteFails \/ CloseOut
    \/ \E name \in Names, price \in Prices, side \in {"BUY", "SELL"}, qty \in Quantities :
            Generate(name, price, side, qty)

----------------------------------------------------------------------------
(* main(), up to the start of the threads.  An exception ends the process.  *)

(* The read loop of loadFromCSV() in phase pc, and what follows it.         *)
Reads(pc, rowsOfFile) == m_pc = pc /\ nextRow <= Len(rowsOfFile)
NextRow ==
    /\ nextRow' = nextRow + 1
    /\ UNCHANGED << svars, gvars, m_pc, i_file, v_file, feed >>
LoadFails ==
    /\ m_pc' = "dead"
    /\ UNCHANGED << svars, gvars, refdata, feed >>
Loaded(pc, rowsOfFile, nextPc) ==
    /\ m_pc = pc /\ nextRow > Len(rowsOfFile)
    /\ m_pc' = nextPc
    /\ nextRow' = 1
    /\ UNCHANGED << svars, gvars, i_file, v_file, instruments, volatilities, rows, feed >>

LoadInstruments ==
    \/ /\ Reads("instruments", i_file)
       /\ Store!StoreRow(i_file[nextRow]) /\ NextRow /\ UNCHANGED << volatilities, rows >>
    \/ Reads("instruments", i_file) /\ Store!RowFails(i_file[nextRow]) /\ LoadFails
    \/ Loaded("instruments", i_file, "surface")

LoadSurface ==
    \/ /\ Reads("surface", v_file)
       /\ Surface!StoreRow(v_file[nextRow]) /\ NextRow /\ UNCHANGED instruments
    \/ /\ Reads("surface", v_file)
       /\ Surface!RowSkipped(v_file[nextRow]) /\ NextRow
       /\ UNCHANGED << instruments, volatilities, rows >>
    \/ Reads("surface", v_file) /\ Surface!RowFails(v_file[nextRow]) /\ LoadFails
    \/ Loaded("surface", v_file, "subscribing")

Subscribe(name) ==
    /\ m_pc = "subscribing"
    /\ Dispatcher!subscriberCount(name) = 0
    /\ Dispatcher!subscribe(name, "tickCallback")
    /\ UNCHANGED << svars, gvars, m_pc, refdata, tickQueue, latestPrices >>

StartThreads ==
    /\ m_pc = "subscribing"
    /\ \A name \in Names : Dispatcher!subscriberCount(name) = 1
    /\ m_pc' = "threads"
    /\ UNCHANGED << svars, gvars, refdata, feed >>

Main == LoadInstruments \/ LoadSurface \/ StartThreads \/ \E name \in Names : Subscribe(name)

----------------------------------------------------------------------------
(* The threads.                                                             *)

Alive == m_pc = "threads" /\ r_pc # "dead"

(* The tick simulator copies all but one byte of the name.                  *)
SimulatedSymbol(name) == Dispatcher!Padded(name, SYMBOL_BYTES - 1)

(* A tick arrives; each callback pushes it.  (The queue of module           *)
(* SpscQueue; a full one drops the tick.)                                   *)
Receive(symbol) ==
    /\ Alive /\ tickQueue = << >>
    /\ tickQueue' = [i \in DOMAIN Dispatcher!dispatch(symbol) |-> symbol]
    /\ UNCHANGED << svars, gvars, m_pc, refdata, callbacks, latestPrices >>

(* RiskEngine::onTick() makes a std::string of the symbol: it ends at the   *)
(* first NUL, and without one the bytes after the symbol go along.          *)
NameOfTick(symbol) ==
    IF NUL \in Range(symbol) THEN CString(symbol) ELSE symbol \o << "?" >>

OnTick ==
    /\ Alive /\ tickQueue # << >>
    /\ latestPrices' = latestPrices \cup {NameOfTick(Head(tickQueue))}
    /\ tickQueue' = Tail(tickQueue)
    /\ UNCHANGED << svars, gvars, m_pc, refdata, callbacks >>

Feed ==
    \/ OnTick
    \/ \E symbol \in {SimulatedSymbol(name) : name \in Names} \cup ForeignSymbols :
            Receive(symbol)

----------------------------------------------------------------------------
(* One of the inputs is out of the ordinary, the others are missing.        *)
Init ==
    /\ SInit
    /\ \/ file = NoFile /\ g_pc = "idle" /\ i_file = << >> /\ v_file = << >>
       \/ file \in ForeignFiles /\ g_pc = "closed" /\ i_file = << >> /\ v_file = << >>
       \/ file = NoFile /\ g_pc = "closed" /\ i_file \in InstrumentFiles /\ v_file = << >>
       \/ file = NoFile /\ g_pc = "closed" /\ i_file = << >> /\ v_file \in SurfaceFiles
    /\ generated = << >> /\ flushed = 0
    /\ nextRow = 1 /\ instruments = << >> /\ volatilities = << >> /\ rows = << >>
    /\ m_pc = "instruments"
    /\ callbacks = << >> /\ tickQueue = << >> /\ latestPrices = {}

Replay == Alive /\ (Reader \/ StartFails \/ stop) /\ UNCHANGED << gvars, mvars >>

Next == Main \/ Replay \/ Simulator \/ Feed

(* The reader's thread is scheduled: weak fairness of LoopCheck \/ HandLine, *)
(* which is enabled exactly inside the loop.                                *)
ReaderIsScheduled == []<>(r_pc \notin {"loop", "line"}) \/ []<><<LoopCheck \/ HandLine>>_svars

Spec == Init /\ [][Next]_vars /\ ReaderIsScheduled

----------------------------------------------------------------------------
(* The non-empty lines of a text, and the parts of a line between its bars, *)
(* by position.                                                             *)
Starts(s, c) == {1} \cup {j + 1 : j \in {i \in DOMAIN s : s[i] = c}}
Part(s, c, i) == SubSeq(s, i, memchr(s, c, i) - 1)
LinesOf(s) ==
    LET starts == {i \in Starts(s, LF) : Part(s, LF, i) # << >>}
        nth(n) == CHOOSE i \in starts : Cardinality({j \in starts : j <= i}) = n
    IN  [n \in 1 .. Cardinality(starts) |-> Part(s, LF, nth(n))]

(* What FIX calls the fields of a line, but for one thing: a part without   *)
(* '=' spoils the part after it.                                            *)
HasEq(line, i) == "=" \in Range(Part(line, "|", i))
PartsOf(line) ==
    LET starts == Starts(line, "|")
        before(i) == {j \in starts : j < i}
    IN  {i \in starts : HasEq(line, i) /\ (i # 1 => HasEq(line, Max(before(i))))}

(* The values of a tag in a line, by position; the last one counts.         *)
Uses(line, tag) ==
    {i \in PartsOf(line) : SubSeq(line, i, memchr(line, "=", i) - 1) = << tag >>}
ValueAt(line, i) == SubSeq(line, memchr(line, "=", i) + 1, memchr(line, "|", i) - 1)
Value(line, tag) == ValueAt(line, Max(Uses(line, tag)))

(* Order o is what the line says, where the line says something, and zero   *)
(* elsewhere.                                                               *)
Describes(line, o) ==
    LET fields == PartsOf(line)
        uses(tag) == {i \in fields : SubSeq(line, i, memchr(line, "=", i) - 1) = << tag >>}
        Said(tag, meaning(_), unsaid) ==
            IF uses(tag) = {} THEN unsaid ELSE meaning(ValueAt(line, Max(uses(tag))))
        number(text) == Range(text) \subseteq {DigitText(d) : d \in 0 .. 9}
    IN  /\ o.id = Said("11", LAMBDA v : Cut(v, ID_BYTES - 1), << >>)
        /\ CString(o.symbol) = Said("55", LAMBDA v : Cut(v, SYMBOL_BYTES - 1), << >>)
        /\ o.order_type = Said("54", LAMBDA v : IF Cut(v, 1) = << "1" >> THEN "BUY" ELSE "SELL",
                               "BUY")
        /\ o.price = Said("44", atof, 0)
        /\ o.quantity = Said("38", LAMBDA v : IF number(v) /\ atof(v) < INT_RANGE \div 2
                                             THEN atof(v) ELSE o.quantity, 0)

(* Every non-empty line gives exactly one order, in the order of the file,  *)
(* whether or not it is a New Order Single, and the order holds the last    *)
(* value of each tag; a replay that nobody stopped has handed over all.     *)
ReplayMatchesFile ==
    LET lines == LinesOf(data)
    IN  /\ Len(handed) <= Len(lines)
        /\ \A i \in DOMAIN handed : Describes(lines[i], handed[i])
        /\ r_pc = "done" /\ running_ => Len(handed) = Len(lines)

(* The order that generated order o should become.                          *)
Delivered(o) ==
    [id |-> << "O" >> \o DecimalText(o.id), order_type |-> o.side, price |-> o.price,
     symbol |-> Dispatcher!Padded(o.symbol, SYMBOL_BYTES), quantity |-> o.quantity]

(* The book is given exactly the orders that the simulator generated, from  *)
(* the first on, at prices of at least a cent.  A simulator that is still   *)
(* writing, or whose disk is full, can spoil the last line only.            *)
ReplayFollowsGenerator ==
    flushed > 0 =>
        /\ Len(handed) <= Len(generated)
        /\ \A i \in DOMAIN handed :
            i < Len(handed) \/ p <= Len(data) \/ data[Len(data)] = LF =>
                handed[i] = Delivered(generated[i]) /\ handed[i].price >= 1

(* A replay that has begun ends, whatever the file holds.                   *)
ReplayEnds == (r_pc = "loop") ~> (r_pc = "done")

(* The key under which bestBid() and bestAsk() look for a name's book.      *)
QuoteKey(name) == Dispatcher!Padded(name, SYMBOL_BYTES - 1)

(* The quote for a name is read from the book its orders have gone to, also *)
(* for names too long for an Order, if the line names its symbol once.      *)
QuotesFindTheBook ==
    LET lines == LinesOf(data)
    IN  \A i \in DOMAIN handed : Cardinality(Uses(lines[i], "55")) = 1 =>
            QuoteKey(Value(lines[i], "55")) = handed[i].symbol

(* A position is valued by ticks of its own symbol.  Prices are filed under *)
(* the subscribed names only: symbol bytes without a NUL, or with text      *)
(* behind it, match no subscription.  And the name a position is filed      *)
(* under has a price only if it is its order's symbol in full.              *)
ValuedByOwnTicks ==
    LET lines == LinesOf(data)
    IN  /\ latestPrices \subseteq Names
        /\ \A i \in DOMAIN handed :
            CString(handed[i].symbol) \in latestPrices =>
                Value(lines[i], "55") = CString(handed[i].symbol)

(* "Fully initialised ... by the time the hot and cold paths begin"         *)
(* (instrument_store.h:18): once a thread runs, every row has been taken,   *)
(* the last one for a symbol counts, and nothing else is in the store.  One *)
(* row that cannot be read keeps the process from starting at all; only a   *)
(* short row can leave arbitrary values behind.                             *)
FullyLoadedBeforeThreads ==
    m_pc = "threads" =>
        LET symbolOf(n) == Store!FieldsOf(i_file[n])[1]
            symbols == {symbolOf(n) : n \in DOMAIN i_file}
        IN  /\ Store!size = Cardinality(symbols)
            /\ \A n \in DOMAIN i_file :
                \/ Store!IsShort(i_file[n])
                \/ \E later \in n + 1 .. Len(i_file) : symbolOf(later) = symbolOf(n)
                \/ /\ Store!lookup(symbolOf(n)) = Store!Instrument(Store!FieldsOf(i_file[n]))
                   /\ Throws \notin Range(Store!lookup(symbolOf(n)))

(* getVol() answers from the file's rows, exactly on the grid and from an   *)
(* adjacent strike off it, after every row of the loading.                  *)
SurfaceAnswersFromTheFile == Surface!SurfaceAnswersFromTheFile
============================================================================
