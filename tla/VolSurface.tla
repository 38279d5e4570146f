---------------------------- MODULE VolSurface ----------------------------
(***************************************************************************)
(* libs/volatility_surface: a map from strikes to a map from expiries to   *)
(* volatilities, filled row by row from a CSV file at start-up and looked  *)
(* up by the risk engine at strikes that need not be on the grid.          *)
(***************************************************************************)
EXTENDS Rationals, Sequences, FiniteSetsExt

CONSTANT DefaultVol     \* 0.20, used without a surface

VARIABLES
    volatilities,   \* volatilities_
    rows            \* history: the rows that went into the map, in file order

(* loadFromCSV() skips a row of fewer than three texts; stod() or stoi()    *)
(* throws for a text that is not a number.                                  *)
RowSkipped(row) == Len(row) < 3
RowFails(row) == ~RowSkipped(row) /\ \E i \in 1 .. 3 : row[i] \notin Int

(* map[x] = y                                                               *)
Put(map, x, y) == [z \in DOMAIN map \cup {x} |-> IF z = x THEN y ELSE map[z]]

(* volatilities_[strike][expiry] = vol; a later row for the same point      *)
(* replaces the earlier one.                                                *)
StoreRow(row) ==
    LET k == row[1]
        smile == IF k \in DOMAIN volatilities THEN volatilities[k] ELSE << >>
    IN  /\ ~RowSkipped(row) /\ ~RowFails(row)
        /\ volatilities' = Put(volatilities, k, Put(smile, row[2], row[3]))
        /\ rows' = Append(rows, row)

(* Mutant of LowerBound: upper_bound() instead of lower_bound().            *)
UpperBound(K, x) ==
    LET above == {k \in K : Less(x, OfInt(k))}
    IN  IF above = {} THEN Max(K) ELSE Min(above)

(* lower_bound(x) on a map with the keys K, stepping back from end(): the   *)
(* least key not below x, else the greatest.  No key is below NaN.          *)
LowerBound(K, x) ==
    LET above == {k \in K : ~Less(OfInt(k), x)}
    IN  IF above = {} THEN Max(K) ELSE Min(above)

getVol(x, e) ==
    IF volatilities = << >> THEN DefaultVol
    ELSE LET smile == volatilities[LowerBound(DOMAIN volatilities, x)]
         IN  smile[LowerBound(DOMAIN smile, OfInt(e))]

----------------------------------------------------------------------------
(* Strikes asked for: the grid points and between them.                     *)
Probes(S) == {Frac(n, 2) : n \in 2 * Min(S) - 1 .. 2 * Max(S) + 1}

(* The last row for a point, if there is one.                               *)
IsLast(n) == \A m \in n + 1 .. Len(rows) : rows[m][1] # rows[n][1] \/ rows[m][2] # rows[n][2]

(* A point of the file is looked up exactly, whatever rows came before and  *)
(* after it, and the last row for the point counts.  Off the grid the       *)
(* result is still a volatility of the file, from a strike with no other    *)
(* loaded strike between it and the one asked for.                          *)
SurfaceAnswersFromTheFile ==
    rows # << >> =>
        /\ \A n \in DOMAIN rows : IsLast(n) => getVol(OfInt(rows[n][1]), rows[n][2]) = rows[n][3]
        /\ \A x \in Probes(DOMAIN volatilities), e \in {rows[n][2] : n \in DOMAIN rows} :
            \E n \in DOMAIN rows :
                /\ IsLast(n) /\ getVol(x, e) = rows[n][3]
                /\ \A m \in DOMAIN rows :
                    LET other == OfInt(rows[m][1])
                        near == OfInt(rows[n][1])
                    IN  ~(Less(near, other) /\ Less(other, x))
                        /\ ~(Less(x, other) /\ Less(other, near))
============================================================================
