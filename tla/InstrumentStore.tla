-------------------------- MODULE InstrumentStore --------------------------
(***************************************************************************)
(* libs/reference-data: the instruments of a CSV file, by symbol.  A row   *)
(* is the sequence of its comma-separated texts.  What stod() and stoi()   *)
(* make of a text is the text itself, if it is a number at all.            *)
(***************************************************************************)
EXTENDS Integers, FiniteSets, Sequences, Functions

CONSTANTS
    Numbers,        \* texts that stod() accepts
    Dates,          \* texts of ten characters in which parseDate() finds numbers
    ShortTexts,     \* texts of fewer than ten characters
    Nullopt,        \* std::nullopt
    Throws,         \* the conversion throws
    Unread          \* what memory behind the end of a vector happens to hold

VARIABLE instruments    \* instruments_

(* trim(): one kind of blank text stands for all.                           *)
trim(text) == IF text = " " THEN "" ELSE text

(* getline() with ',' does not report an empty text at the end of a row;    *)
(* an empty line has no field at all.                                       *)
FieldsOf(row) ==
    LET kept == IF row # << >> /\ row[Len(row)] = "" THEN SubSeq(row, 1, Len(row) - 1)
                                                     ELSE row
    IN  [i \in DOMAIN kept |-> trim(kept[i])]

stod(text) == IF text \in Numbers \cup {Unread} THEN text ELSE Throws

parseAssetClass(text) ==
    IF text \in {"Equity", "Future", "Option", "FX", Unread} THEN text ELSE Throws

parseOptionType(text) ==
    IF text = "" THEN Nullopt ELSE IF text \in {"Call", "Put"} THEN text ELSE Throws

parseOptionStyle(text) ==
    IF text = "" THEN Nullopt
    ELSE IF text \in {"European", "American"} THEN text ELSE Throws

(* Whatever is too short for a date counts as none.                         *)
parseDate(text) ==
    IF text \in ShortTexts THEN Nullopt ELSE IF text \in Dates THEN text ELSE Throws

(* fields[c], which nobody keeps within the row for the first six columns,  *)
(* and a column that need not be there.                                     *)
Field(fields, c) == IF c \in DOMAIN fields THEN fields[c] ELSE Unread
Optional(fields, c) == IF c \in DOMAIN fields THEN fields[c] ELSE ""

Instrument(fields) ==
    [symbol |-> Field(fields, 1),
     description |-> Field(fields, 2),
     assetClass |-> parseAssetClass(Field(fields, 3)),
     currency |-> Field(fields, 4),
     tickSize |-> stod(Field(fields, 5)),
     contractSize |-> stod(Field(fields, 6)),
     strike |-> IF Optional(fields, 7) = "" THEN Nullopt ELSE stod(fields[7]),
     optionType |-> parseOptionType(Optional(fields, 8)),
     optionStyle |-> parseOptionStyle(Optional(fields, 9)),
     underlying |-> IF Optional(fields, 10) = "" THEN Nullopt ELSE fields[10],
     expiry |-> parseDate(Optional(fields, 11))]

IsShort(row) == Len(FieldsOf(row)) < 6

(* The row ends the process: an exception, or a read behind the vector.     *)
RowFails(row) ==
    \/ IsShort(row)
    \/ Field(FieldsOf(row), 1) = ""
    \/ Throws \in Range(Instrument(FieldsOf(row)))

(* Mutant of Stored: emplace(), which keeps an instrument that is there.    *)
StoredOnce(inst) ==
    [y \in DOMAIN instruments \cup {inst.symbol} |->
        IF y \in DOMAIN instruments THEN instruments[y] ELSE inst]

Stored(inst) ==
    [y \in DOMAIN instruments \cup {inst.symbol} |->
        IF y = inst.symbol THEN inst ELSE instruments[y]]

(* The row goes into the map, in place of an earlier one for its symbol.    *)
(* For a short row that is one of the outcomes, with arbitrary values where *)
(* it has none.                                                             *)
StoreRow(row) ==
    LET inst == Instrument(FieldsOf(row))
    IN  /\ inst.symbol \notin {"", Unread}
        /\ Throws \notin Range(inst)
        /\ instruments' = Stored(inst)

lookup(symbol) == IF symbol \in DOMAIN instruments THEN instruments[symbol] ELSE Throws

size == Cardinality(DOMAIN instruments)
============================================================================
