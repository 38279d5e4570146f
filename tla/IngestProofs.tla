---------------------------- MODULE IngestProofs ----------------------------
(* Proofs about Ingest: what main() has loaded when the threads start, for  *)
(* every file, and the names under which prices are filed, for every table  *)
(* of symbols.                                                              *)
EXTENDS Ingest, Sums

USE BytesAssumption

----------------------------------------------------------------------------
(* instruments.csv.                                                         *)

InstOf(f, k) == Store!Instrument(Store!FieldsOf(f[k]))
SymbolIn(f, k) == InstOf(f, k).symbol

(* The store holds the first n rows of f, the last one for every symbol.    *)
Taken(f, store, n) ==
    /\ DOMAIN store = {SymbolIn(f, k) : k \in 1 .. n}
    /\ \A k \in 1 .. n :
        /\ SymbolIn(f, k) # Unread /\ Throws \notin Range(InstOf(f, k))
        /\ (\A j \in k + 1 .. n : SymbolIn(f, j) # SymbolIn(f, k)) =>
                store[SymbolIn(f, k)] = InstOf(f, k)

InstrumentsInv ==
    /\ i_file \in Seq(Seq(STRING)) /\ nextRow \in Nat \ {0}
    /\ m_pc = "instruments" =>
        nextRow <= Len(i_file) + 1 /\ Taken(i_file, instruments, nextRow - 1)
    /\ m_pc \in {"surface", "subscribing", "threads"} =>
        Taken(i_file, instruments, Len(i_file))

(* One more row is read.                                                    *)
LEMMA TakenStep ==
    ASSUME NEW f, NEW n \in Nat, NEW store, NEW next, Taken(f, store, n),
           SymbolIn(f, n + 1) # Unread, Throws \notin Range(InstOf(f, n + 1)),
           next = [y \in DOMAIN store \cup {SymbolIn(f, n + 1)} |->
                    IF y = SymbolIn(f, n + 1) THEN InstOf(f, n + 1) ELSE store[y]]
    PROVE  Taken(f, next, n + 1)
<1>1. \A k \in 1 .. n + 1 : k \in 1 .. n \/ k = n + 1
  OBVIOUS
<1>2. \A k \in 1 .. n : k \in 1 .. n + 1
  OBVIOUS
<1>3. n + 1 \in 1 .. n + 1
  OBVIOUS
<1>4. DOMAIN next = {SymbolIn(f, k) : k \in 1 .. n + 1}
  BY Zenon, <1>1, <1>2, <1>3 DEF Taken
<1>5. ASSUME NEW k \in 1 .. n + 1
      PROVE  SymbolIn(f, k) # Unread /\ Throws \notin Range(InstOf(f, k))
  BY Zenon, <1>1 DEF Taken
<1>6. ASSUME NEW k \in 1 .. n + 1, \A j \in k + 1 .. n + 1 : SymbolIn(f, j) # SymbolIn(f, k)
      PROVE  next[SymbolIn(f, k)] = InstOf(f, k)
  <2>1. CASE k = n + 1
    BY <2>1
  <2>2. CASE k # n + 1
    <3>1. k \in 1 .. n /\ n + 1 \in k + 1 .. n + 1
      BY <2>2
    <3>2. \A j \in k + 1 .. n : j \in k + 1 .. n + 1
      BY <3>1
    <3>3. store[SymbolIn(f, k)] = InstOf(f, k) /\ SymbolIn(f, k) \in DOMAIN store
      BY Zenon, <1>6, <3>1, <3>2 DEF Taken
    <3>4. SymbolIn(f, k) # SymbolIn(f, n + 1)
      BY Zenon, <1>6, <3>1
    <3> QED
      BY Zenon, <3>3, <3>4
  <2> QED
    BY <2>1, <2>2
<1> QED
  BY Zenon, <1>4, <1>5, <1>6 DEF Taken

LEMMA InstrumentsInit == Init => InstrumentsInv
<1> SUFFICES ASSUME Init PROVE InstrumentsInv
  OBVIOUS
<1>1. (i_file = << >> \/ i_file \in InstrumentFiles) /\ nextRow = 1 /\ m_pc = "instruments"
  BY Zenon DEF Init
<1>2. i_file \in Seq(Seq(STRING))
  <2>1. PICK T : T = Seq(STRING)
    OBVIOUS
  <2>2. << >> \in Seq(T)
    OBVIOUS
  <2> QED
    BY Zenon, <1>1, <2>1, <2>2, FilesAssumption
<1>3. Len(i_file) \in Nat /\ 1 .. 0 = {}
  BY <1>2
<1>4. DOMAIN instruments = {}
  BY DEF Init
<1>5. Taken(i_file, instruments, 0)
  BY <1>3, <1>4 DEF Taken
<1> QED
  BY <1>1, <1>2, <1>3, <1>5 DEF InstrumentsInv

LEMMA InstrumentsStep == InstrumentsInv /\ [Next]_vars => InstrumentsInv'
<1> SUFFICES ASSUME InstrumentsInv, [Next]_vars PROVE InstrumentsInv'
  OBVIOUS
<1>1. Len(i_file) \in Nat /\ nextRow \in Nat
  BY DEF InstrumentsInv
<1>2. ASSUME UNCHANGED << m_pc, i_file, nextRow, instruments >> PROVE InstrumentsInv'
  BY Zenon, <1>2 DEF InstrumentsInv
<1>3. ASSUME Reads("instruments", i_file), Store!StoreRow(i_file[nextRow]), NextRow
      PROVE  InstrumentsInv'
  <2>1. /\ nextRow' = nextRow + 1 /\ i_file' = i_file /\ m_pc' = m_pc
        /\ m_pc = "instruments" /\ nextRow <= Len(i_file)
    BY <1>3 DEF NextRow, Reads
  <2>2. /\ SymbolIn(i_file, nextRow) # Unread /\ Throws \notin Range(InstOf(i_file, nextRow))
        /\ instruments' = [y \in DOMAIN instruments \cup {SymbolIn(i_file, nextRow)} |->
                    IF y = SymbolIn(i_file, nextRow) THEN InstOf(i_file, nextRow)
                    ELSE instruments[y]]
    BY Zenon, <1>3 DEF Store!StoreRow, Store!Stored, SymbolIn, InstOf, Store!Range, Range
  <2>3. PICK n \in Nat : n = nextRow - 1
    BY DEF InstrumentsInv
  <2>4. nextRow = n + 1 /\ Taken(i_file, instruments, n) /\ nextRow' - 1 = n + 1
    BY <1>1, <2>1, <2>3 DEF InstrumentsInv
  <2>5. Taken(i_file, instruments', n + 1)
    BY Zenon, <2>2, <2>4, TakenStep
  <2> QED
    BY <1>1, <2>1, <2>4, <2>5 DEF InstrumentsInv
<1>4. ASSUME Reads("surface", v_file), NextRow, instruments' = instruments PROVE InstrumentsInv'
  BY <1>1, <1>4 DEF InstrumentsInv, Reads, NextRow
<1>5. ASSUME LoadFails PROVE InstrumentsInv'
  BY <1>5 DEF LoadFails, refdata, InstrumentsInv
<1>6. ASSUME Loaded("instruments", i_file, "surface") PROVE InstrumentsInv'
  <2>1. nextRow - 1 = Len(i_file) /\ m_pc = "instruments"
    BY <1>1, <1>6 DEF InstrumentsInv, Loaded
  <2> QED
    BY <1>6, <2>1 DEF InstrumentsInv, Loaded
<1>7. ASSUME Loaded("surface", v_file, "subscribing") PROVE InstrumentsInv'
  BY <1>7 DEF InstrumentsInv, Loaded
<1>8. ASSUME StartThreads PROVE InstrumentsInv'
  BY <1>8 DEF StartThreads, refdata, InstrumentsInv
<1>9. CASE Main
  BY Zenon, <1>2, <1>3, <1>4, <1>5, <1>6, <1>7, <1>8, <1>9
     DEF Main, LoadInstruments, LoadSurface, Subscribe, refdata
<1>10. CASE Replay \/ Simulator \/ Feed \/ UNCHANGED vars
  BY Zenon, <1>2, <1>10
     DEF Replay, Simulator, OpenOut, OpenOutFails, FlushBuffer, WriteFails, CloseOut, Generate,
         Feed, OnTick, Receive, vars, mvars, refdata
<1> QED
  BY <1>9, <1>10 DEF Next

LEMMA InstrumentsImplies == InstrumentsInv => FullyLoadedBeforeThreads
<1> SUFFICES ASSUME InstrumentsInv, m_pc = "threads" PROVE FullyLoadedBeforeThreads
  BY Zenon DEF FullyLoadedBeforeThreads
<1> DEFINE symbolOf(n) == Store!FieldsOf(i_file[n])[1]
           symbols == {symbolOf(n) : n \in DOMAIN i_file}
<1>1. DOMAIN i_file = 1 .. Len(i_file) /\ Len(i_file) \in Nat
  BY DEF InstrumentsInv
<1>2. Taken(i_file, instruments, Len(i_file))
  BY Zenon DEF InstrumentsInv
<1>3. ASSUME NEW n \in DOMAIN i_file PROVE symbolOf(n) = SymbolIn(i_file, n)
  <2>1. SymbolIn(i_file, n) # Unread
    BY Zenon, <1>1, <1>2 DEF Taken
  <2>2. SymbolIn(i_file, n) = Store!Field(Store!FieldsOf(i_file[n]), 1)
    BY DEF SymbolIn, InstOf, Store!Instrument
  <2> QED
    BY Zenon, <2>1, <2>2 DEF Store!Field
<1>4. DOMAIN instruments = symbols
  <2> HIDE DEF symbolOf
  <2>1. DOMAIN instruments = {SymbolIn(i_file, n) : n \in DOMAIN i_file}
    BY Zenon, <1>1, <1>2 DEF Taken
  <2> QED
    BY Zenon, <1>3, <2>1
<1>5. Store!size = Cardinality(symbols)
  BY Zenon, <1>4 DEF Store!size, Store!Cardinality, Store!IsFiniteSet, Cardinality, IsFiniteSet
<1>6. ASSUME NEW n \in DOMAIN i_file,
             ~(\E later \in n + 1 .. Len(i_file) : symbolOf(later) = symbolOf(n))
      PROVE  /\ Store!lookup(symbolOf(n)) = InstOf(i_file, n)
             /\ Throws \notin Range(Store!lookup(symbolOf(n)))
  <2>1. ASSUME NEW j \in n + 1 .. Len(i_file) PROVE SymbolIn(i_file, j) # SymbolIn(i_file, n)
    <3>1. j \in DOMAIN i_file
      BY <1>1
    <3> QED
      BY Zenon, <1>3, <1>6, <3>1
  <2>2. /\ instruments[SymbolIn(i_file, n)] = InstOf(i_file, n)
        /\ Throws \notin Range(InstOf(i_file, n))
    BY Zenon, <1>1, <1>2, <2>1 DEF Taken
  <2>3. symbolOf(n) \in DOMAIN instruments
    BY Zenon, <1>4
  <2> QED
    BY Zenon, <1>3, <2>2, <2>3 DEF Store!lookup
<1> QED
  BY Zenon, <1>5, <1>6 DEF FullyLoadedBeforeThreads, InstOf

(* Once a thread runs, every row of instruments.csv has been taken, the     *)
(* last one for a symbol counts, and nothing else is in the store, whatever *)
(* rows the file has.                                                       *)
THEOREM FullyLoadedBeforeThreadsCorrect == Spec => []FullyLoadedBeforeThreads
  BY InstrumentsInit, InstrumentsStep, InstrumentsImplies, PTL DEF Spec

----------------------------------------------------------------------------
(* vol_surface.csv.                                                         *)

LEMMA Products ==
    ASSUME NEW i \in Int, NEW j \in Int, NEW d \in Nat \ {0}, i < j
    PROVE  i * d < j * d
<1>1. PICK e \in Nat \ {0} : j = i + e
  <2>1. j - i \in Nat \ {0} /\ j = i + (j - i)
    OBVIOUS
  <2> QED
    BY <2>1
<1>2. j * d = i * d + e * d /\ e * d > 0
  BY <1>1
<1> QED
  BY <1>2

(* Comparing an integer with the fraction n / d.                            *)
LEMMA LessThanFraction ==
    ASSUME NEW k \in Int, NEW n \in Int, NEW d \in Nat \ {0}
    PROVE  /\ Surface!Less(Surface!OfInt(k), << n, d >>) <=> k * d < n
           /\ Surface!Less(<< n, d >>, Surface!OfInt(k)) <=> n < k * d
<1>1. << k, 1 >> \in Int \X Int /\ << n, d >> \in Int \X Int
  OBVIOUS
<1>2. << k, 1 >> # NaN /\ << n, d >> # NaN
  BY Zenon, <1>1, FilesAssumption
<1> QED
  BY <1>2 DEF Surface!Less, Surface!OfInt

(* A strike asked for is a fraction with a positive denominator.            *)
LEMMA ProbeIsFraction ==
    ASSUME NEW n \in Int
    PROVE  \E u \in Int, d \in Nat \ {0} : Surface!Frac(n, 2) = << u, d >>
<1> DEFINE D == Surface!Denominators(n, 2)
<1>1. D \in SUBSET Nat /\ 2 \in D /\ \A d \in D : d \in Nat \ {0}
  BY DEF Surface!Denominators
<1>2. Surface!Min(D) = Min(D)
  BY Zenon DEF Surface!Min, Min
<1>3. PICK d \in D : d = Min(D)
  BY Zenon, <1>1, MinIs
<1>4. Surface!Abs(2) = 2
  BY DEF Surface!Abs
<1>5. Surface!Frac(n, 2) = << (1 * n * d) \div 2, d >>
  BY <1>2, <1>3, <1>4 DEF Surface!Frac
<1>6. (1 * n * d) \div 2 \in Int
  BY <1>1, <1>3
<1> QED
  BY <1>1, <1>3, <1>5, <1>6

(* lower_bound() with its step back finds a key with no other key between   *)
(* it and the one asked for ...                                             *)
LEMMA NearestKey ==
    ASSUME NEW K, IsFiniteSet(K), K \subseteq Int, K # {}, NEW u \in Int, NEW d \in Nat \ {0}
    PROVE  LET near == Surface!LowerBound(K, << u, d >>)
           IN  /\ near \in K
               /\ \A j \in K : ~(near < j /\ j * d < u) /\ ~(u < j * d /\ j < near)
<1> DEFINE above == {k \in K : ~Surface!Less(Surface!OfInt(k), << u, d >>)}
<1>1. \A k \in K : k \in above <=> ~(k * d < u)
  BY LessThanFraction
<1>2. PICK near : near = Surface!LowerBound(K, << u, d >>)
  OBVIOUS
<1>3. CASE above = {}
  <2>1. near = Surface!Max(K)
    BY Zenon, <1>2, <1>3 DEF Surface!LowerBound
  <2>2. near \in K /\ \A j \in K : near >= j
    BY Zenon, <2>1, Extremes DEF Surface!Max
  <2>3. ASSUME NEW j \in K PROVE j * d < u /\ ~(near < j)
    BY <1>1, <1>3, <2>2
  <2> QED
    BY <1>2, <2>2, <2>3
<1>4. CASE above # {}
  <2>1. near = Surface!Min(above)
    BY Zenon, <1>2, <1>4 DEF Surface!LowerBound
  <2>2. near \in above /\ \A j \in above : near =< j
    BY Zenon, <1>4, <2>1, Extremes DEF Surface!Min
  <2>3. near \in K /\ ~(near * d < u)
    BY <1>1, <2>2
  <2>4. ASSUME NEW j \in K PROVE ~(near < j /\ j * d < u) /\ ~(u < j * d /\ j < near)
    <3>1. near < j => near * d < j * d
      BY <2>3, Products
    <3>2. j < near => j * d < u
      BY <1>1, <2>2, <2>3
    <3> QED
      BY <2>3, <3>1, <3>2
  <2> QED
    BY <1>2, <2>3, <2>4
<1> QED
  BY <1>3, <1>4

(* ... and a key that is there exactly.                                     *)
LEMMA ExactKey ==
    ASSUME NEW K, IsFiniteSet(K), K \subseteq Int, NEW k \in K
    PROVE  Surface!LowerBound(K, Surface!OfInt(k)) = k
<1> DEFINE above == {j \in K : ~Surface!Less(Surface!OfInt(j), Surface!OfInt(k))}
<1>1. \A j \in K : j \in above <=> ~(j < k)
  <2> SUFFICES ASSUME NEW j \in K
               PROVE  Surface!Less(Surface!OfInt(j), Surface!OfInt(k)) <=> j < k
    BY Zenon
  <2>1. Surface!Less(Surface!OfInt(j), << k, 1 >>) <=> j * 1 < k
    BY LessThanFraction
  <2> QED
    BY <2>1 DEF Surface!OfInt
<1>2. k \in above
  BY <1>1
<1>3. Surface!LowerBound(K, Surface!OfInt(k)) = Surface!Min(above)
  BY Zenon, <1>2 DEF Surface!LowerBound
<1>4. Surface!Min(above) \in above /\ \A j \in above : Surface!Min(above) =< j
  BY Zenon, <1>2, Extremes DEF Surface!Min
<1> HIDE DEF above
<1>5. Surface!Min(above) \in K /\ ~(Surface!Min(above) < k) /\ Surface!Min(above) =< k
  <2>1. Surface!Min(above) \in K
    BY Zenon, <1>4 DEF above
  <2> QED
    BY Zenon, <1>1, <1>2, <1>4, <2>1
<1>6. PICK m \in K : m = Surface!Min(above)
  BY Zenon, <1>5
<1>7. m = k
  BY <1>5, <1>6
<1> QED
  BY Zenon, <1>3, <1>6, <1>7

(* r is filed in the map vol: its strikes and expiries are the keys, and    *)
(* the last row for a point gives the volatility.                           *)
LastRow(r, n) == \A m \in n + 1 .. Len(r) : r[m][1] # r[n][1] \/ r[m][2] # r[n][2]
Filed(vol, r) ==
    /\ \A n \in 1 .. Len(r) : \A i \in 1 .. 3 : r[n][i] \in Int
    /\ \A k : k \in DOMAIN vol <=> \E n \in 1 .. Len(r) : r[n][1] = k
    /\ \A k \in DOMAIN vol :
        \A e : e \in DOMAIN vol[k] <=> \E n \in 1 .. Len(r) : r[n][1] = k /\ r[n][2] = e
    /\ \A n \in 1 .. Len(r) : LastRow(r, n) => vol[r[n][1]][r[n][2]] = r[n][3]

SurfaceInv ==
    /\ rows \in Seq(Seq(Int \cup {NaN}))
    /\ v_file \in Seq(Seq(Int \cup {NaN})) /\ nextRow \in Nat \ {0}
    /\ Filed(volatilities, rows)

(* volatilities_[strike][expiry] = vol.                                     *)
LEMMA FiledStep ==
    ASSUME NEW R, NEW r \in Seq(R), NEW row \in R, NEW vol, NEW next, Filed(vol, r),
           \A i \in 1 .. 3 : row[i] \in Int,
           next = Surface!Put(vol, row[1],
                    Surface!Put(IF row[1] \in DOMAIN vol THEN vol[row[1]] ELSE << >>,
                                row[2], row[3]))
    PROVE  Filed(next, Append(r, row))
<1> DEFINE a == Append(r, row)
           N == Len(r)
<1>1. N \in Nat /\ Len(a) = N + 1 /\ a[N + 1] = row /\ \A n \in 1 .. N : a[n] = r[n]
  OBVIOUS
<1>2. \A n \in 1 .. Len(a) : n \in 1 .. N \/ n = N + 1
  BY <1>1
<1>3. (\A n \in 1 .. N : n \in 1 .. Len(a)) /\ N + 1 \in 1 .. Len(a)
  BY <1>1
<1>4. PICK smile : smile = IF row[1] \in DOMAIN vol THEN vol[row[1]] ELSE << >>
  OBVIOUS
<1>5. /\ \A n \in 1 .. N : \A i \in 1 .. 3 : r[n][i] \in Int
      /\ \A k : k \in DOMAIN vol <=> \E n \in 1 .. N : r[n][1] = k
      /\ \A k \in DOMAIN vol :
          \A e : e \in DOMAIN vol[k] <=> \E n \in 1 .. N : r[n][1] = k /\ r[n][2] = e
      /\ \A n \in 1 .. N : LastRow(r, n) => vol[r[n][1]][r[n][2]] = r[n][3]
  BY Zenon DEF Filed
<1>6. /\ DOMAIN next = DOMAIN vol \cup {row[1]}
      /\ \A k \in DOMAIN vol : k # row[1] => next[k] = vol[k]
      /\ DOMAIN next[row[1]] = DOMAIN smile \cup {row[2]}
      /\ next[row[1]][row[2]] = row[3]
      /\ \A e \in DOMAIN smile : e # row[2] => next[row[1]][e] = smile[e]
  BY Zenon, <1>4 DEF Surface!Put
<1> HIDE DEF a, N
<1>7. \A e : e \in DOMAIN smile <=> \E n \in 1 .. N : r[n][1] = row[1] /\ r[n][2] = e
  <2>1. CASE row[1] \in DOMAIN vol
    <3>1. smile = vol[row[1]]
      BY Zenon, <1>4, <2>1
    <3>2. \A e : e \in DOMAIN vol[row[1]] <=>
                    \E n \in 1 .. N : r[n][1] = row[1] /\ r[n][2] = e
      BY <1>5, <2>1
    <3> QED
      BY Zenon, <3>1, <3>2
  <2>2. CASE row[1] \notin DOMAIN vol
    <3>1. DOMAIN smile = {}
      BY <1>4, <2>2
    <3>2. \A n \in 1 .. N : r[n][1] # row[1]
      BY Zenon, <1>5, <2>2
    <3> QED
      BY Zenon, <3>1, <3>2
  <2> QED
    BY <2>1, <2>2
<1>8. ASSUME NEW k PROVE k \in DOMAIN next <=> \E n \in 1 .. Len(a) : a[n][1] = k
  <2>1. k \in DOMAIN next <=> k = row[1] \/ \E n \in 1 .. N : r[n][1] = k
    BY Zenon, <1>5, <1>6
  <2> QED
    BY Zenon, <1>1, <1>2, <1>3, <2>1
<1>9. \A n \in 1 .. Len(a) : \A i \in 1 .. 3 : a[n][i] \in Int
  BY Zenon, <1>1, <1>2, <1>5
<1>10. ASSUME NEW k \in DOMAIN next, NEW e
       PROVE  e \in DOMAIN next[k] <=> \E n \in 1 .. Len(a) : a[n][1] = k /\ a[n][2] = e
  <2>1. CASE k = row[1]
    <3>1. e \in DOMAIN next[k] <=>
            e = row[2] \/ \E n \in 1 .. N : r[n][1] = row[1] /\ r[n][2] = e
      BY Zenon, <1>6, <1>7, <2>1
    <3> QED
      BY Zenon, <1>1, <1>2, <1>3, <2>1, <3>1
  <2>2. CASE k # row[1]
    <3>1. k \in DOMAIN vol /\ next[k] = vol[k]
      BY Zenon, <1>6, <2>2
    <3>2. e \in DOMAIN vol[k] <=> \E n \in 1 .. N : r[n][1] = k /\ r[n][2] = e
      BY Zenon, <1>5, <3>1
    <3> QED
      BY Zenon, <1>1, <1>2, <1>3, <2>2, <3>1, <3>2
  <2> QED
    BY <2>1, <2>2
<1>11. ASSUME NEW n \in 1 .. Len(a), LastRow(a, n)
       PROVE  next[a[n][1]][a[n][2]] = a[n][3]
  <2>1. CASE n = N + 1
    BY Zenon, <1>1, <1>6, <2>1
  <2>2. CASE n # N + 1
    <3>1. n \in 1 .. N /\ N + 1 \in n + 1 .. Len(a)
      BY <1>1, <2>2
    <3>2. \A m \in n + 1 .. N : m \in n + 1 .. Len(a) /\ m \in 1 .. N
      BY <1>1
    <3>3. LastRow(r, n)
      BY Zenon, <1>1, <1>11, <3>1, <3>2 DEF LastRow, N
    <3>4. PICK k, e, v : k = r[n][1] /\ e = r[n][2] /\ v = r[n][3]
      BY Zenon
    <3>5. a[n][1] = k /\ a[n][2] = e /\ a[n][3] = v
      BY Zenon, <1>1, <3>1, <3>4
    <3>6. vol[k][e] = v /\ k \in DOMAIN vol /\ (k # row[1] \/ e # row[2])
      BY Zenon, <1>1, <1>5, <1>11, <3>1, <3>3, <3>4 DEF LastRow
    <3>7. k = row[1] => e \in DOMAIN smile /\ smile = vol[k]
      BY Zenon, <1>4, <1>7, <3>1, <3>4, <3>6
    <3>8. next[k][e] = v
      BY Zenon, <1>6, <3>6, <3>7
    <3> QED
      BY Zenon, <3>5, <3>8
  <2> QED
    BY <2>1, <2>2
<1>12. Filed(next, a)
  BY ONLY Zenon, <1>8, <1>9, <1>10, <1>11 DEF Filed
<1> QED
  BY <1>12 DEF a

LEMMA SurfaceInit == Init => SurfaceInv
<1> SUFFICES ASSUME Init PROVE SurfaceInv
  OBVIOUS
<1>1. /\ v_file = << >> \/ v_file \in SurfaceFiles
      /\ nextRow = 1 /\ rows = << >> /\ volatilities = << >>
  BY Zenon DEF Init
<1>2. PICK T : T = Seq(Int \cup {NaN})
  OBVIOUS
<1>3. << >> \in Seq(T) /\ Len(<< >>) = 0 /\ DOMAIN << >> = {} /\ 1 .. 0 = {}
  OBVIOUS
<1>4. v_file \in Seq(T) /\ rows \in Seq(T)
  BY Zenon, <1>1, <1>2, <1>3, FilesAssumption
<1>5. Filed(volatilities, rows)
  BY Zenon, <1>1, <1>3 DEF Filed
<1> QED
  BY <1>1, <1>2, <1>4, <1>5 DEF SurfaceInv

LEMMA SurfaceStep == SurfaceInv /\ [Next]_vars => SurfaceInv'
<1> SUFFICES ASSUME SurfaceInv, [Next]_vars PROVE SurfaceInv'
  OBVIOUS
<1>1. nextRow \in Nat \ {0} /\ 1 \in Nat \ {0} /\ nextRow + 1 \in Nat \ {0}
  BY DEF SurfaceInv
<1>2. ASSUME UNCHANGED << v_file, volatilities, rows >>, nextRow' \in {nextRow, nextRow + 1, 1}
      PROVE  SurfaceInv'
  BY Zenon, <1>1, <1>2 DEF SurfaceInv
<1>3. ASSUME Reads("surface", v_file), Surface!StoreRow(v_file[nextRow]), NextRow
      PROVE  SurfaceInv'
  <2>1. PICK T : T = Seq(Int \cup {NaN})
    OBVIOUS
  <2>2. v_file \in Seq(T) /\ rows \in Seq(T)
    BY Zenon, <2>1 DEF SurfaceInv
  <2>3. v_file[nextRow] \in T
    BY <1>1, <1>3, <2>2 DEF Reads
  <2>4. PICK row \in T : row = v_file[nextRow]
    BY Zenon, <2>3
  <2>5. /\ \A i \in 1 .. 3 : row[i] \in Int
        /\ volatilities' = Surface!Put(volatilities, row[1],
                Surface!Put(IF row[1] \in DOMAIN volatilities THEN volatilities[row[1]]
                            ELSE << >>, row[2], row[3]))
        /\ rows' = Append(rows, row)
    BY Zenon, <1>3, <2>4 DEF Surface!StoreRow, Surface!RowFails
  <2>6. Filed(volatilities', rows')
    BY Zenon, <2>2, <2>5, FiledStep DEF SurfaceInv
  <2>7. rows' \in Seq(T)
    BY <2>2, <2>5
  <2>8. v_file' = v_file /\ nextRow' = nextRow + 1
    BY Zenon, <1>3 DEF NextRow
  <2> QED
    BY Zenon, <1>1, <2>1, <2>2, <2>6, <2>7, <2>8 DEF SurfaceInv
<1>4. ASSUME LoadFails \/ StartThreads \/ \E name \in Names : Subscribe(name) PROVE SurfaceInv'
  BY Zenon, <1>2, <1>4 DEF LoadFails, StartThreads, Subscribe, refdata
<1>5. ASSUME NextRow, UNCHANGED << volatilities, rows >> PROVE SurfaceInv'
  BY Zenon, <1>2, <1>5 DEF NextRow
<1>6. ASSUME NEW pc, NEW f, NEW nextPc, Loaded(pc, f, nextPc) PROVE SurfaceInv'
  BY Zenon, <1>2, <1>6 DEF Loaded
<1>7. CASE Main
  BY Zenon, <1>3, <1>4, <1>5, <1>6, <1>7 DEF Main, LoadInstruments, LoadSurface
<1>8. CASE Replay \/ Simulator \/ Feed \/ UNCHANGED vars
  BY Zenon, <1>2, <1>8
     DEF Replay, Simulator, OpenOut, OpenOutFails, FlushBuffer, WriteFails, CloseOut, Generate,
         Feed, OnTick, Receive, vars, mvars, refdata
<1> QED
  BY <1>7, <1>8 DEF Next

(* Every point on the grid has a last row.                                  *)
LEMMA LastRowExists ==
    ASSUME NEW r, Len(r) \in Nat, NEW n \in 1 .. Len(r)
    PROVE  \E m \in 1 .. Len(r) : r[m][1] = r[n][1] /\ r[m][2] = r[n][2] /\ LastRow(r, m)
<1> DEFINE T == {m \in 1 .. Len(r) : r[m][1] = r[n][1] /\ r[m][2] = r[n][2]}
<1>1. T \in SUBSET Nat /\ n \in T /\ \A m \in T : m <= Len(r)
  OBVIOUS
<1>2. PICK m \in T : \A x \in T : x <= m
  BY Zenon, <1>1, MaxIs
<1>3. ASSUME NEW x \in m + 1 .. Len(r) PROVE r[x][1] # r[m][1] \/ r[x][2] # r[m][2]
  <2>1. x \in 1 .. Len(r) /\ ~(x <= m)
    BY <1>1, <1>2
  <2> QED
    BY Zenon, <1>2, <2>1
<1> QED
  BY Zenon, <1>2, <1>3 DEF LastRow

(* The strikes of the map, and the expiries of each, are finitely many      *)
(* integers, and there is one.                                              *)
Grid(K) == IsFiniteSet(K) /\ K \subseteq Int /\ K # {}

LEMMA FiledIs ==
    ASSUME NEW vol, NEW r, Filed(vol, r)
    PROVE  /\ \A n \in 1 .. Len(r) : r[n][1] \in Int /\ r[n][2] \in Int /\ r[n][1] \in DOMAIN vol
           /\ \A k \in DOMAIN vol : \E n \in 1 .. Len(r) : r[n][1] = k
           /\ \A k \in DOMAIN vol : \A e \in DOMAIN vol[k] :
                \E n \in 1 .. Len(r) : r[n][1] = k /\ r[n][2] = e
<1>1. 1 \in 1 .. 3 /\ 2 \in 1 .. 3
  OBVIOUS
<1>2. \A n \in 1 .. Len(r) : \A i \in 1 .. 3 : r[n][i] \in Int
  BY DEF Filed
<1>3. \A k : k \in DOMAIN vol <=> \E n \in 1 .. Len(r) : r[n][1] = k
  BY DEF Filed
<1>4. \A k \in DOMAIN vol : \A e \in DOMAIN vol[k] :
            \E n \in 1 .. Len(r) : r[n][1] = k /\ r[n][2] = e
  BY DEF Filed
<1> QED
  BY Zenon, <1>1, <1>2, <1>3, <1>4

LEMMA GridsFiled ==
    ASSUME NEW vol, NEW r, Len(r) \in Nat \ {0}, Filed(vol, r)
    PROVE  Grid(DOMAIN vol) /\ \A k \in DOMAIN vol : Grid(DOMAIN vol[k])
<1>1. ASSUME NEW i \in 1 .. 3
      PROVE  IsFiniteSet({r[n][i] : n \in 1 .. Len(r)})
  <2> DEFINE T == {r[n][i] : n \in 1 .. Len(r)}
             f == [n \in 1 .. Len(r) |-> r[n][i]]
  <2>1. f \in Surjection(1 .. Len(r), T)
    BY Zenon DEF Surjection
  <2>2. IsFiniteSet(1 .. Len(r))
    BY FS_Interval
  <2> HIDE DEF f, T
  <2>3. IsFiniteSet(T)
    BY Zenon, <2>1, <2>2, FS_Surjection
  <2> QED
    BY <2>3 DEF T
<1>2. 1 \in 1 .. 3 /\ 2 \in 1 .. 3 /\ 1 \in 1 .. Len(r)
  OBVIOUS
<1>3. Grid(DOMAIN vol)
  <2>1. DOMAIN vol = {r[n][1] : n \in 1 .. Len(r)}
    <3>1. \A n \in 1 .. Len(r) : r[n][1] \in DOMAIN vol
      BY Zenon, FiledIs
    <3>2. \A k \in DOMAIN vol : \E n \in 1 .. Len(r) : r[n][1] = k
      BY FiledIs
    <3> QED
      BY Zenon, <3>1, <3>2
  <2>2. IsFiniteSet(DOMAIN vol)
    BY Zenon, <1>1, <1>2, <2>1
  <2>3. r[1][1] \in DOMAIN vol
    BY Zenon, <1>2, <2>1
  <2>4. ASSUME NEW k \in DOMAIN vol PROVE k \in Int
    <3>1. PICK n \in 1 .. Len(r) : r[n][1] = k
      BY FiledIs
    <3> QED
      BY Zenon, <3>1, FiledIs
  <2> QED
    BY Zenon, <2>2, <2>3, <2>4 DEF Grid
<1>4. ASSUME NEW k \in DOMAIN vol PROVE Grid(DOMAIN vol[k])
  <2>1. PICK n \in 1 .. Len(r) : r[n][1] = k
    BY Zenon DEF Filed
  <2>2. r[n][2] \in DOMAIN vol[k]
    BY Zenon, <2>1 DEF Filed
  <2>3. ASSUME NEW e \in DOMAIN vol[k]
        PROVE  e \in Int /\ e \in {r[m][2] : m \in 1 .. Len(r)}
    <3>1. PICK m \in 1 .. Len(r) : r[m][1] = k /\ r[m][2] = e
      BY FiledIs
    <3> QED
      BY Zenon, <3>1, FiledIs
  <2>4. IsFiniteSet(DOMAIN vol[k])
    <3>1. DOMAIN vol[k] \subseteq {r[m][2] : m \in 1 .. Len(r)}
      BY Zenon, <2>3
    <3> QED
      BY Zenon, <1>1, <1>2, <3>1, FS_Subset
  <2> QED
    BY Zenon, <2>2, <2>3, <2>4 DEF Grid
<1> QED
  BY <1>3, <1>4

LEMMA SurfaceImplies == SurfaceInv => SurfaceAnswersFromTheFile
<1> SUFFICES ASSUME SurfaceInv, rows # << >> PROVE SurfaceAnswersFromTheFile
  BY Zenon DEF SurfaceAnswersFromTheFile, Surface!SurfaceAnswersFromTheFile
<1>1. Len(rows) \in Nat \ {0} /\ DOMAIN rows = 1 .. Len(rows)
  BY DEF SurfaceInv
<1>2. Filed(volatilities, rows)
  BY Zenon DEF SurfaceInv
<1>3. PICK K : K = DOMAIN volatilities
  OBVIOUS
<1>4. Grid(K) /\ \A k \in K : Grid(DOMAIN volatilities[k])
  BY Zenon, <1>1, <1>2, <1>3, GridsFiled
<1>5. \A n : Surface!IsLast(n) <=> LastRow(rows, n)
  BY Zenon DEF Surface!IsLast, LastRow
<1>6. volatilities # << >>
  BY <1>3, <1>4 DEF Grid
<1>7. ASSUME NEW x, NEW e
      PROVE  Surface!getVol(x, e) =
                LET k == Surface!LowerBound(K, x)
                IN  volatilities[k][Surface!LowerBound(DOMAIN volatilities[k], Surface!OfInt(e))]
  BY Zenon, <1>3, <1>6 DEF Surface!getVol
<1>8. ASSUME NEW n \in DOMAIN rows, Surface!IsLast(n)
      PROVE  Surface!getVol(Surface!OfInt(rows[n][1]), rows[n][2]) = rows[n][3]
  <2>1. PICK k, e : k = rows[n][1] /\ e = rows[n][2]
    OBVIOUS
  <2>2. k \in K /\ e \in DOMAIN volatilities[k] /\ volatilities[k][e] = rows[n][3]
    BY Zenon, <1>1, <1>2, <1>3, <1>5, <1>8, <2>1 DEF Filed
  <2>3. Surface!LowerBound(K, Surface!OfInt(k)) = k
    BY Zenon, <1>4, <2>2, ExactKey DEF Grid
  <2>4. Surface!LowerBound(DOMAIN volatilities[k], Surface!OfInt(e)) = e
    BY Zenon, <1>4, <2>2, ExactKey DEF Grid
  <2> QED
    BY Zenon, <1>7, <2>1, <2>2, <2>3, <2>4
<1>9. ASSUME NEW x \in Surface!Probes(DOMAIN volatilities),
             NEW e \in {rows[n][2] : n \in DOMAIN rows}
      PROVE  \E n \in DOMAIN rows :
                /\ Surface!IsLast(n) /\ Surface!getVol(x, e) = rows[n][3]
                /\ \A m \in DOMAIN rows :
                    LET other == Surface!OfInt(rows[m][1])
                        near == Surface!OfInt(rows[n][1])
                    IN  ~(Surface!Less(near, other) /\ Surface!Less(other, x))
                        /\ ~(Surface!Less(x, other) /\ Surface!Less(other, near))
  <2>1. PICK u \in Int, d \in Nat \ {0} : x = << u, d >>
    <3>1. PICK n \in Int : x = Surface!Frac(n, 2)
      <4>1. \A i, j : i .. j \subseteq Int
        OBVIOUS
      <4> QED
        BY Zenon, <4>1 DEF Surface!Probes
    <3> QED
      BY Zenon, <3>1, ProbeIsFraction
  <2>2. PICK near : near = Surface!LowerBound(K, x)
    OBVIOUS
  <2>3. near \in K /\ \A j \in K : ~(near < j /\ j * d < u) /\ ~(u < j * d /\ j < near)
    BY Zenon, <1>4, <2>1, <2>2, NearestKey DEF Grid
  <2>4. e \in Int
    <3>1. PICK m \in 1 .. Len(rows) : rows[m][2] = e
      BY Zenon, <1>1
    <3> QED
      BY Zenon, <1>2, <3>1, FiledIs
  <2>5. PICK y : y = Surface!LowerBound(DOMAIN volatilities[near], Surface!OfInt(e))
    OBVIOUS
  <2>6. y \in DOMAIN volatilities[near]
    <3>1. << e, 1 >> = Surface!OfInt(e) /\ 1 \in Nat \ {0}
      BY DEF Surface!OfInt
    <3> QED
      BY Zenon, <1>4, <2>3, <2>4, <2>5, <3>1, NearestKey DEF Grid
  <2>7. PICK i \in 1 .. Len(rows) : rows[i][1] = near /\ rows[i][2] = y
    <3>1. near \in DOMAIN volatilities
      BY Zenon, <1>3, <2>3
    <3> QED
      BY <1>2, <2>6, <3>1, FiledIs
  <2>8. PICK n \in 1 .. Len(rows) : rows[n][1] = near /\ rows[n][2] = y /\ LastRow(rows, n)
    BY Zenon, <1>1, <2>7, LastRowExists
  <2>9. Surface!getVol(x, e) = rows[n][3]
    BY Zenon, <1>2, <1>7, <2>2, <2>5, <2>8 DEF Filed
  <2>10. ASSUME NEW m \in DOMAIN rows
         PROVE  LET other == Surface!OfInt(rows[m][1])
                    here == Surface!OfInt(rows[n][1])
                IN  ~(Surface!Less(here, other) /\ Surface!Less(other, x))
                    /\ ~(Surface!Less(x, other) /\ Surface!Less(other, here))
    <3>1. PICK j : j = rows[m][1]
      OBVIOUS
    <3>2. j \in K /\ j \in Int /\ near \in Int
      BY Zenon, <1>1, <1>2, <1>3, <1>4, <2>3, <3>1, FiledIs DEF Grid
    <3>3. /\ Surface!Less(Surface!OfInt(near), Surface!OfInt(j)) <=> near < j
          /\ Surface!Less(Surface!OfInt(j), Surface!OfInt(near)) <=> j < near
      <4>1. /\ Surface!Less(Surface!OfInt(near), << j, 1 >>) <=> near * 1 < j
            /\ Surface!Less(Surface!OfInt(j), << near, 1 >>) <=> j * 1 < near
        BY <3>2, LessThanFraction
      <4> QED
        BY <3>2, <4>1 DEF Surface!OfInt
    <3>4. /\ Surface!Less(Surface!OfInt(j), x) <=> j * d < u
          /\ Surface!Less(x, Surface!OfInt(j)) <=> u < j * d
      BY Zenon, <2>1, <3>2, LessThanFraction
    <3> QED
      BY Zenon, <2>3, <2>8, <3>1, <3>2, <3>3, <3>4
  <2> QED
    BY Zenon, <1>1, <1>5, <2>8, <2>9, <2>10
<1> QED
  BY Zenon, <1>8, <1>9 DEF SurfaceAnswersFromTheFile, Surface!SurfaceAnswersFromTheFile

(* getVol() answers from the rows loaded so far, exactly on the grid and    *)
(* from an adjacent strike off it, for every surface file and strike.       *)
THEOREM SurfaceAnswersFromTheFileCorrect == Spec => []SurfaceAnswersFromTheFile
  BY SurfaceInit, SurfaceStep, SurfaceImplies, PTL DEF Spec

----------------------------------------------------------------------------
(* The names under which prices are filed.                                  *)

Keys == {Dispatcher!SubscribeKey(name) : name \in Names}

NamesInv ==
    /\ DOMAIN callbacks \subseteq Keys
    /\ \A key \in DOMAIN callbacks : callbacks[key] \in Seq({"tickCallback"})
    /\ tickQueue \in Seq(Keys)
    /\ latestPrices \subseteq Names

(* memchr() finds the first occurrence.                                     *)
LEMMA memchrIs ==
    ASSUME NEW s, Len(s) \in Nat, NEW c, NEW i \in Nat \ {0}, i <= Len(s) + 1
    PROVE  /\ memchr(s, c, i) \in i .. Len(s) + 1
           /\ memchr(s, c, i) <= Len(s) => s[memchr(s, c, i)] = c
           /\ \A j \in i .. Len(s) : j < memchr(s, c, i) => s[j] # c
<1> DEFINE hits == {j \in i .. Len(s) : s[j] = c}
<1>1. CASE hits = {}
  <2>1. memchr(s, c, i) = Len(s) + 1
    BY Zenon, <1>1 DEF memchr
  <2>2. \A j \in i .. Len(s) : s[j] # c
    BY Zenon, <1>1
  <2> QED
    BY <2>1, <2>2
<1>2. CASE hits # {}
  <2>1. memchr(s, c, i) = Min(hits)
    BY Zenon, <1>2 DEF memchr
  <2>2. hits \in SUBSET Nat
    OBVIOUS
  <2>3. PICK m \in hits : m = Min(hits) /\ \A x \in hits : m <= x
    BY Zenon, <1>2, <2>2, MinIs
  <2>4. m \in i .. Len(s) /\ s[m] = c
    BY Zenon, <2>3
  <2>5. \A j \in i .. Len(s) : j < m => s[j] # c
    BY <2>3, <2>4
  <2> QED
    BY <2>1, <2>3, <2>4, <2>5
<1> QED
  BY <1>1, <1>2

(* The name of a tick is the name its symbol was subscribed under.          *)
LEMMA NameOfKey ==
    ASSUME NEW name \in Names
    PROVE  NameOfTick(Dispatcher!SubscribeKey(name)) = name
<1> DEFINE key == Dispatcher!SubscribeKey(name)
           n == Len(name)
<1>1. name \in Seq(Range(name)) /\ NUL \notin Range(name) /\ n \in 1 .. SYMBOL_BYTES - 1
  BY Zenon, NamesAssumption
<1>2. n \in Nat /\ DOMAIN name = 1 .. n /\ n + 1 \in 1 .. SYMBOL_BYTES
  BY <1>1
<1>3. key = [i \in 1 .. SYMBOL_BYTES |->
                IF i <= SYMBOL_BYTES /\ i <= Len(name) THEN name[i] ELSE NUL]
  BY Zenon DEF Dispatcher!SubscribeKey, Dispatcher!Padded
<1>4. Len(key) = SYMBOL_BYTES /\ DOMAIN key = 1 .. SYMBOL_BYTES
  BY <1>3
<1>5. /\ \A i \in 1 .. n : key[i] = name[i] /\ name[i] \in Range(name)
      /\ key[n + 1] = NUL
  <2>1. \A i \in 1 .. n : i \in 1 .. SYMBOL_BYTES /\ i <= SYMBOL_BYTES /\ i <= Len(name)
    BY <1>1, <1>2
  <2>2. ~(n + 1 <= n)
    BY <1>2
  <2>3. \A i \in 1 .. n : name[i] \in Range(name)
    BY Zenon, <1>2 DEF Range
  <2> QED
    BY Zenon, <1>2, <1>3, <2>1, <2>2, <2>3
<1> HIDE DEF key
<1>6. NUL \in Range(key)
  BY Zenon, <1>2, <1>4, <1>5 DEF Range
<1>7. memchr(key, NUL, 1) = n + 1
  <2>1. PICK m : m = memchr(key, NUL, 1)
    OBVIOUS
  <2>2. m \in 1 .. SYMBOL_BYTES + 1 /\ (m <= SYMBOL_BYTES => key[m] = NUL)
        /\ \A j \in 1 .. SYMBOL_BYTES : j < m => key[j] # NUL
    BY <1>4, <2>1, memchrIs
  <2>3. ~(n + 1 < m)
    BY <1>2, <1>5, <2>2
  <2>4. ~(m < n + 1)
    <3> SUFFICES ASSUME m < n + 1 PROVE FALSE
      OBVIOUS
    <3>1. m \in 1 .. n /\ m <= SYMBOL_BYTES
      BY <1>1, <2>2
    <3> QED
      BY Zenon, <1>1, <1>5, <2>2, <3>1
  <2> QED
    BY <1>2, <2>1, <2>2, <2>3, <2>4
<1>8. CString(key) = SubSeq(key, 1, n)
  BY <1>2, <1>7 DEF CString
<1>9. SubSeq(key, 1, n) = name
  <2>1. key \in Seq(Range(key))
    BY <1>3, <1>4 DEF Range
  <2>2. /\ SubSeq(key, 1, n) \in Seq(Range(key)) /\ Len(SubSeq(key, 1, n)) = n
        /\ \A i \in 1 .. n : SubSeq(key, 1, n)[i] = key[i]
    BY <1>1, <1>2, <1>4, <2>1
  <2> QED
    BY <1>1, <1>2, <1>5, <2>2
<1> QED
  BY Zenon, <1>6, <1>8, <1>9 DEF NameOfTick, key

LEMMA NamesInit == Init => NamesInv
<1> SUFFICES ASSUME Init PROVE NamesInv
  OBVIOUS
<1>1. callbacks = << >> /\ tickQueue = << >> /\ latestPrices = {}
  BY Zenon DEF Init
<1>2. PICK K : K = Keys
  OBVIOUS
<1>3. << >> \in Seq(K) /\ DOMAIN << >> = {}
  OBVIOUS
<1> QED
  BY Zenon, <1>1, <1>2, <1>3 DEF NamesInv

LEMMA NamesStep == NamesInv /\ [Next]_vars => NamesInv'
<1> SUFFICES ASSUME NamesInv, [Next]_vars PROVE NamesInv'
  OBVIOUS
<1>1. ASSUME UNCHANGED << callbacks, tickQueue, latestPrices >> PROVE NamesInv'
  BY Zenon, <1>1 DEF NamesInv, Keys, Dispatcher!SubscribeKey, Dispatcher!Padded
<1>2. ASSUME NEW name \in Names, Subscribe(name) PROVE NamesInv'
  <2>1. PICK K, key : K = Keys /\ key = Dispatcher!SubscribeKey(name)
    OBVIOUS
  <2>2. key \in K
    BY Zenon, <2>1 DEF Keys
  <2>3. PICK T : T = Seq({"tickCallback"})
    OBVIOUS
  <2>4. << >> \in T /\ \A s \in T : Append(s, "tickCallback") \in T
    BY <2>3
  <2>5. \A k \in DOMAIN callbacks : k \in K /\ callbacks[k] \in T
    BY Zenon, <2>1, <2>3 DEF NamesInv
  <2>6. Dispatcher!Callbacks(key) \in T
    BY Zenon, <2>4, <2>5 DEF Dispatcher!Callbacks
  <2>7. \/ callbacks' = callbacks
        \/ callbacks' = [k \in DOMAIN callbacks \cup {key} |->
                IF k = key THEN Append(Dispatcher!Callbacks(key), "tickCallback")
                ELSE callbacks[k]]
    BY Zenon, <1>2, <2>1 DEF Subscribe, Dispatcher!subscribe
  <2>8. \A k \in DOMAIN callbacks' : k \in K /\ callbacks'[k] \in T
    <3>1. CASE callbacks' = callbacks
      BY Zenon, <2>5, <3>1
    <3>2. CASE callbacks' = [k \in DOMAIN callbacks \cup {key} |->
                IF k = key THEN Append(Dispatcher!Callbacks(key), "tickCallback")
                ELSE callbacks[k]]
      <4>1. DOMAIN callbacks' = DOMAIN callbacks \cup {key}
        BY Zenon, <3>2
      <4>2. callbacks'[key] \in T
        BY Zenon, <2>4, <2>6, <3>2
      <4>3. \A k \in DOMAIN callbacks : k # key => callbacks'[k] = callbacks[k]
        BY Zenon, <3>2
      <4> QED
        BY Zenon, <2>2, <2>5, <4>1, <4>2, <4>3
    <3> QED
      BY Zenon, <2>7, <3>1, <3>2
  <2>9. UNCHANGED << tickQueue, latestPrices >>
    BY Zenon, <1>2 DEF Subscribe
  <2> QED
    BY Zenon, <2>1, <2>3, <2>8, <2>9 DEF NamesInv
<1>3. ASSUME NEW symbol, Receive(symbol) PROVE NamesInv'
  <2>1. PICK q : q = Dispatcher!dispatch(symbol)
    OBVIOUS
  <2>2. tickQueue' = [i \in DOMAIN q |-> symbol] /\ UNCHANGED << callbacks, latestPrices >>
    BY Zenon, <1>3, <2>1 DEF Receive
  <2>3. PICK K : K = Keys
    OBVIOUS
  <2>4. tickQueue' \in Seq(K)
    <3>1. CASE symbol \in DOMAIN callbacks
      <4>1. q \in Seq({"tickCallback"}) /\ symbol \in K
        BY Zenon, <2>1, <2>3, <3>1 DEF NamesInv, Dispatcher!dispatch, Dispatcher!Callbacks
      <4> QED
        BY <2>2, <4>1
    <3>2. CASE symbol \notin DOMAIN callbacks
      <4>1. q = << >>
        BY Zenon, <2>1, <3>2 DEF Dispatcher!dispatch, Dispatcher!Callbacks
      <4> QED
        BY <2>2, <4>1
    <3> QED
      BY <3>1, <3>2
  <2> QED
    BY Zenon, <2>2, <2>3, <2>4 DEF NamesInv
<1>4. ASSUME OnTick PROVE NamesInv'
  <2>1. PICK K : K = Keys
    OBVIOUS
  <2>2. tickQueue \in Seq(K) /\ tickQueue # << >>
    BY Zenon, <1>4, <2>1 DEF NamesInv, OnTick
  <2>3. Head(tickQueue) \in K /\ Tail(tickQueue) \in Seq(K)
    BY <2>2
  <2>4. NameOfTick(Head(tickQueue)) \in Names
    BY Zenon, <2>1, <2>3, NameOfKey DEF Keys
  <2>5. /\ latestPrices' = latestPrices \cup {NameOfTick(Head(tickQueue))}
        /\ tickQueue' = Tail(tickQueue) /\ callbacks' = callbacks
    BY Zenon, <1>4 DEF OnTick
  <2>6. latestPrices' \subseteq Names
    BY Zenon, <2>4, <2>5 DEF NamesInv
  <2> QED
    BY Zenon, <2>1, <2>3, <2>5, <2>6 DEF NamesInv
<1>5. CASE Main
  BY Zenon, <1>1, <1>2, <1>5
     DEF Main, LoadInstruments, LoadSurface, NextRow, LoadFails, Loaded, StartThreads, feed
<1>6. CASE Feed
  BY Zenon, <1>3, <1>4, <1>6 DEF Feed
<1>7. CASE Replay \/ Simulator \/ UNCHANGED vars
  BY Zenon, <1>1, <1>7
     DEF Replay, Simulator, OpenOut, OpenOutFails, FlushBuffer, WriteFails, CloseOut, Generate,
         vars, mvars, feed
<1> QED
  BY <1>5, <1>6, <1>7 DEF Next

(* A tick whose symbol bytes have no NUL, or text behind it, reaches no     *)
(* subscriber: RiskEngine holds prices under the subscribed names only.     *)
THEOREM PricesAreSubscribed == Spec => [](latestPrices \subseteq Names)
<1>1. NamesInv => latestPrices \subseteq Names
  BY DEF NamesInv
<1> QED
  BY <1>1, NamesInit, NamesStep, PTL DEF Spec

============================================================================
