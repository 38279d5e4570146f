------------------------------ MODULE MCIngest ------------------------------
(* Ingest for TLC.  With SYMBOL_BYTES = 4 a name of two characters stands   *)
(* for the six of "GBPUSD", one of four for an option like                  *)
(* "AAPL240119C150" that does not fit into an Order.                        *)
EXTENDS Ingest, SequencesExt

CodeTable ==
    [c \in {"-", "\r", "A", "B", "D", "O", "X"} |->
        CASE c = "-" -> -3 [] c = "\r" -> -35 [] c = "A" -> 17 [] c = "B" -> 18
          [] c = "D" -> 20 [] c = "O" -> 31 [] c = "X" -> 40]
    @@ [c \in {DigitText(d) : d \in 0 .. 9} |-> CHOOSE d \in 0 .. 9 : DigitText(d) = c]

TableNames == {<< "A" >>, << "A", "B" >>}

(* tag = val *)
F(tag, val) == << tag, "=" >> \o val

Bars(fields) == FoldLeft(LAMBDA line, f : line \o << "|" >> \o f, Head(fields), Tail(fields))

ForeignLines ==
    {Bars(<< F("11", << "X" >>), F("35", << "D" >>), F("55", << "A", "B" >>),
             F("54", << "2" >>), F("44", << "1", "2" >>), F("38", << "3" >>) >>),
     Bars(<< F("35", << "0" >>), F("55", << "A", "B", "B", "A" >>) >>),
     Bars(<< F("11", << "X" >>), << "55" >>, F("44", << "7" >>), F("38", << "2" >>) >>),
     Bars(<< F("55", << "A", "B", "B", "A" >>), F("55", << "A" >>), F("38", << "-", "1" >>) >>),
     Bars(<< F("54", << >>), F("44", << "-", "1" >>), F("38", << "1", "2", "\r" >>), << >> >>),
     Bars(<< F("55", << "B", "A", "A", "B" >>), F("38", << "9", "9", "9", "9" >>) >>),
     << "D" >>}

(* Two lines, the second with or without its '\n', and an empty line.       *)
SomeForeignFiles ==
    {l \o << LF >> \o k : l, k \in ForeignLines}
        \cup {l \o << LF, LF >> \o l \o << LF >> : l \in ForeignLines}

SomeForeignSymbols ==
    {<< "A", "B", "B", "A" >>, << "A", NUL, "B", NUL >>, << "A", "B", "B", NUL >>,
     << NUL, NUL, NUL, NUL >>}

(* Rows of instruments.csv: a share with its empty columns, an option in    *)
(* full, a future that ends before its expiry, then what cannot be read: a  *)
(* blank symbol, an empty line, texts in place of a class, a number, an     *)
(* option type and a date, and rows that end too early.                     *)
Share(symbol, tick) == << symbol, "n", "Equity", "USD", tick, "1", "", "", "", "", "" >>
InstrumentRows ==
    {Share("A", "0.01"), Share("A", "1"), Share(" ", "1"), Share("B", "x"),
     << "B", "n", "Option", "USD", "1", "1", "1", "Call", "European", "A", "2024-01-19" >>,
     << "B", "n", "Option", "USD", "1", "1", "1", "Call", "European", "A", "yyyy-mm-dd" >>,
     << "B", "n", "Option", "USD", "1", "1", "1", "x", "American", "A", "x" >>,
     << "B", "n", "Future", "USD", "1", "1", "", "", "", "A", "x" >>,
     << "B", "n", "x", "USD", "1", "1" >>, << "A", "n", "FX", "USD", "1" >>, << "" >>}

SomeInstrumentFiles == SeqOf(InstrumentRows, 2)

(* Rows of vol_surface.csv; NaN is not a number.                             *)
SurfaceRows == {1, 3, 4} \X {1, 2} \X {15, 25}
SomeSurfaceFiles ==
    SeqOf(SurfaceRows, 3)
        \cup {<< << 1, 2 >>, row, << 3, x, 15 >> >> : row \in SurfaceRows, x \in {2, NaN}}
============================================================================
