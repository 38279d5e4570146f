-------------------------------- MODULE Sums --------------------------------
(* Lemmas about natural numbers and about sums over finite sets.  Where a   *)
(* proof goes by induction, it looks at a least counterexample.             *)
EXTENDS Integers, FiniteSetsExt, Functions, FiniteSetTheorems, TLAPS

(* Every nonempty set of natural numbers has a least element.               *)
LEMMA LeastElement ==
    ASSUME NEW T \in SUBSET Nat, T # {}
    PROVE  \E x \in T : \A y \in T : x <= y
<1> DEFINE R == OpToRel(<, Nat)
<1>1. IsWellFoundedOn(R, Nat)
  BY Zenon, NatLessThanWellFounded
<1> HIDE DEF R
<1>2. PICK x \in T : \A y \in T : ~(<< y, x >> \in R)
  BY Zenon, <1>1, WFMin
<1>3. ASSUME NEW y \in T PROVE x <= y
  <2>1. ~(<< y, x >> \in R)
    BY <1>2
  <2>2. << y, x >> \in Nat \X Nat
    OBVIOUS
  <2>3. ~(y < x)
    BY <2>1, <2>2 DEF R, OpToRel
  <2> QED
    BY <2>3
<1> QED
  BY <1>3

(* A set that contains 0, and n + 1 with every n, contains every number.    *)
LEMMA SetInduction ==
    ASSUME NEW P, 0 \in P, \A n \in Nat : n \in P => n + 1 \in P
    PROVE  Nat \subseteq P
<1> SUFFICES ASSUME Nat \ P # {} PROVE FALSE
  OBVIOUS
<1>1. PICK m \in Nat \ P : \A k \in Nat \ P : m <= k
  BY Zenon, LeastElement
<1>2. m - 1 \in Nat /\ ~(m <= m - 1)
  BY <1>1
<1>3. m - 1 \in P
  BY <1>1, <1>2
<1> QED
  BY <1>1, <1>2, <1>3

----------------------------------------------------------------------------
(* The equation behind SumFunctionOnSet: g sums f over the subsets of S.    *)
Picked(s) == CHOOSE x \in s : TRUE
Folded(g, f, s) == IF s = {} THEN 0 ELSE f[Picked(s)] + g[s \ {Picked(s)}]
SumsUp(g, f, S) == g = [s \in SUBSET S |-> Folded(g, f, s)]

LEMMA SumIs ==
    ASSUME NEW f, NEW S
    PROVE  SumFunctionOnSet(f, S) = (CHOOSE g : SumsUp(g, f, S))[S]
  BY DEF SumFunctionOnSet, FoldFunctionOnSet, MapThenFoldSet, SumsUp, Folded, Picked

(* The equation has a solution ...                                          *)
LEMMA SumsUpExists ==
    ASSUME NEW f, NEW S, IsFiniteSet(S)
    PROVE  \E g : SumsUp(g, f, S)
<1> DEFINE D(n) == {s \in SUBSET S : Cardinality(s) <= n}
           Good(g, n) == g = [s \in D(n) |-> Folded(g, f, s)]
           P == {n \in Nat : \E g : Good(g, n)}
<1>1. \A s \in SUBSET S : IsFiniteSet(s) /\ Cardinality(s) \in Nat
  BY FS_Subset, FS_CardinalityType
<1>2. 0 \in P
  <2> DEFINE g == [s \in D(0) |-> 0]
  <2>1. \A s \in D(0) : s = {}
    BY <1>1, FS_EmptySet
  <2>2. Good(g, 0)
    BY <2>1 DEF Folded
  <2> QED
    BY Zenon, <2>2
<1>3. ASSUME NEW n \in Nat, n \in P PROVE n + 1 \in P
  <2>1. PICK g : Good(g, n)
    BY <1>3
  <2> DEFINE h == [s \in D(n + 1) |-> Folded(g, f, s)]
  <2>2. \A s \in D(n) : s \in D(n + 1) /\ h[s] = g[s]
    BY <1>1, <2>1
  <2>3. ASSUME NEW s \in D(n + 1) PROVE Folded(g, f, s) = Folded(h, f, s)
    <3>1. CASE s = {}
      BY <3>1 DEF Folded
    <3>2. CASE s # {}
      <4>1. Picked(s) \in s
        BY <3>2 DEF Picked
      <4>2. s \ {Picked(s)} \in D(n)
        BY <1>1, <4>1, FS_RemoveElement
      <4> QED
        BY Zenon, <2>2, <4>2 DEF Folded
    <3> QED
      BY <3>1, <3>2
  <2>4. Good(h, n + 1)
    BY <2>3
  <2> HIDE DEF h, Good
  <2> QED
    BY <2>4
<1>4. Cardinality(S) \in Nat /\ D(Cardinality(S)) = SUBSET S
  BY <1>1, FS_Subset
<1>5. Cardinality(S) \in P
  <2> HIDE DEF P
  <2> QED
    BY <1>2, <1>3, <1>4, SetInduction
<1> QED
  BY Zenon, <1>4, <1>5 DEF SumsUp

(* ... and only one.                                                        *)
LEMMA SumsUpUnique ==
    ASSUME NEW f, NEW S, IsFiniteSet(S), NEW g, NEW h, SumsUp(g, f, S),
           NEW T \in SUBSET S, SumsUp(h, f, T)
    PROVE  \A s \in SUBSET T : g[s] = h[s]
<1> DEFINE P == {n \in Nat : \A s \in SUBSET T : Cardinality(s) = n => g[s] = h[s]}
<1>1. \A s \in SUBSET T : IsFiniteSet(s) /\ Cardinality(s) \in Nat /\ s \in SUBSET S
  BY FS_Subset, FS_CardinalityType
<1>2. \A s \in SUBSET T : g[s] = Folded(g, f, s) /\ h[s] = Folded(h, f, s)
  BY <1>1 DEF SumsUp
<1>3. 0 \in P
  BY Zenon, <1>1, <1>2, FS_EmptySet DEF Folded
<1>4. ASSUME NEW n \in Nat, n \in P PROVE n + 1 \in P
  <2> SUFFICES ASSUME NEW s \in SUBSET T, Cardinality(s) = n + 1
               PROVE  g[s] = h[s]
    OBVIOUS
  <2>1. s # {}
    BY FS_EmptySet
  <2>2. Picked(s) \in s
    BY <2>1 DEF Picked
  <2>3. Cardinality(s \ {Picked(s)}) = n
    <3>1. IsFiniteSet(s)
      BY <1>1
    <3>2. Cardinality(s \ {Picked(s)}) = Cardinality(s) - 1
      BY Zenon, <2>2, <3>1, FS_RemoveElement
    <3> QED
      BY <3>2
  <2>4. s \ {Picked(s)} \in SUBSET T
    OBVIOUS
  <2> QED
    BY <1>2, <1>4, <2>1, <2>3, <2>4 DEF Folded
<1>5. Nat \subseteq P
  <2> HIDE DEF P
  <2> QED
    BY <1>3, <1>4, SetInduction
<1> QED
  BY <1>1, <1>5

(* What a sum is for the provers: nothing over the empty set, and otherwise *)
(* one summand and the rest.                                                *)
LEMMA SumEmpty ==
    ASSUME NEW f
    PROVE  SumFunctionOnSet(f, {}) = 0
<1>1. IsFiniteSet({})
  BY FS_EmptySet
<1>2. SumsUp(CHOOSE g : SumsUp(g, f, {}), f, {})
  BY <1>1, SumsUpExists
<1> DEFINE g == CHOOSE g : SumsUp(g, f, {})
<1> HIDE DEF g
<1>3. g[{}] = 0
  BY Zenon, <1>2 DEF SumsUp, Folded, g
<1> QED
  BY <1>3, SumIs DEF g

LEMMA SumStep ==
    ASSUME NEW f, NEW S, IsFiniteSet(S), S # {}
    PROVE  /\ Picked(S) \in S
           /\ SumFunctionOnSet(f, S) = f[Picked(S)] + SumFunctionOnSet(f, S \ {Picked(S)})
<1> DEFINE T == S \ {Picked(S)}
           g == CHOOSE g : SumsUp(g, f, S)
           h == CHOOSE h : SumsUp(h, f, T)
<1>1. Picked(S) \in S
  BY DEF Picked
<1>2. IsFiniteSet(T) /\ T \in SUBSET S
  BY FS_RemoveElement
<1>3. SumsUp(g, f, S)
  BY SumsUpExists
<1>4. SumsUp(h, f, T)
  BY <1>2, SumsUpExists
<1>5. SumFunctionOnSet(f, S) = g[S] /\ SumFunctionOnSet(f, T) = h[T]
  BY SumIs
<1> HIDE DEF g, h, T
<1>6. g[T] = h[T]
  BY <1>2, <1>3, <1>4, SumsUpUnique
<1>7. g[S] = f[Picked(S)] + g[T]
  BY Zenon, <1>3 DEF SumsUp, Folded, T
<1> QED
  BY <1>1, <1>5, <1>6, <1>7 DEF T

LEMMA SumType ==
    ASSUME NEW f, NEW S, IsFiniteSet(S), \A x \in S : f[x] \in Int
    PROVE  SumFunctionOnSet(f, S) \in Int
<1> DEFINE P == {n \in Nat : \A s \in SUBSET S :
                    Cardinality(s) = n => SumFunctionOnSet(f, s) \in Int}
<1>1. \A s \in SUBSET S : IsFiniteSet(s) /\ Cardinality(s) \in Nat
  BY FS_Subset, FS_CardinalityType
<1>2. 0 \in P
  BY <1>1, FS_EmptySet, SumEmpty
<1>3. ASSUME NEW n \in Nat, n \in P PROVE n + 1 \in P
  <2> SUFFICES ASSUME NEW s \in SUBSET S, Cardinality(s) = n + 1
               PROVE  SumFunctionOnSet(f, s) \in Int
    OBVIOUS
  <2>1. s # {} /\ IsFiniteSet(s)
    BY <1>1, FS_EmptySet
  <2>2. /\ Picked(s) \in s
        /\ SumFunctionOnSet(f, s) = f[Picked(s)] + SumFunctionOnSet(f, s \ {Picked(s)})
    BY <2>1, SumStep
  <2>3. Cardinality(s \ {Picked(s)}) = Cardinality(s) - 1
    BY Zenon, <2>1, <2>2, FS_RemoveElement
  <2>4. SumFunctionOnSet(f, s \ {Picked(s)}) \in Int
    BY <1>3, <2>3
  <2> QED
    BY <2>2, <2>4
<1>4. Nat \subseteq P
  <2> HIDE DEF P
  <2> QED
    BY <1>2, <1>3, SetInduction
<1> QED
  BY <1>1, <1>4

(* Any summand can be the one that is taken out.                            *)
LEMMA SumSplit ==
    ASSUME NEW f, NEW S, IsFiniteSet(S), \A x \in S : f[x] \in Int, NEW e \in S
    PROVE  /\ SumFunctionOnSet(f, S) = f[e] + SumFunctionOnSet(f, S \ {e})
           /\ SumFunctionOnSet(f, S \ {e}) \in Int
<1> DEFINE P == {n \in Nat : \A s \in SUBSET S : Cardinality(s) = n =>
                    \A x \in s : SumFunctionOnSet(f, s) = f[x] + SumFunctionOnSet(f, s \ {x})}
<1>1. \A s \in SUBSET S : IsFiniteSet(s) /\ Cardinality(s) \in Nat
  BY FS_Subset, FS_CardinalityType
<1>2. \A s \in SUBSET S : SumFunctionOnSet(f, s) \in Int
  BY <1>1, SumType
<1>3. 0 \in P
  BY <1>1, FS_EmptySet
<1>4. ASSUME NEW n \in Nat, n \in P PROVE n + 1 \in P
  <2> SUFFICES ASSUME NEW s \in SUBSET S, Cardinality(s) = n + 1, NEW x \in s
               PROVE  SumFunctionOnSet(f, s) = f[x] + SumFunctionOnSet(f, s \ {x})
    OBVIOUS
  <2> DEFINE c == Picked(s)
             rest == s \ {c, x}
  <2>1. s # {} /\ IsFiniteSet(s)
    BY <1>1
  <2>2. c \in s /\ SumFunctionOnSet(f, s) = f[c] + SumFunctionOnSet(f, s \ {c})
    BY <2>1, SumStep
  <2>3. Cardinality(s \ {c}) = n /\ Cardinality(s \ {x}) = n
    <3> HIDE DEF c
    <3>1. Cardinality(s \ {c}) = Cardinality(s) - 1
      BY Zenon, <2>1, <2>2, FS_RemoveElement
    <3>2. Cardinality(s \ {x}) = Cardinality(s) - 1
      BY Zenon, <2>1, FS_RemoveElement
    <3> QED
      BY <3>1, <3>2
  <2> HIDE DEF c
  <2>4. CASE c = x
    BY <2>2, <2>4
  <2>5. CASE c # x
    <3>1. x \in s \ {c} /\ c \in s \ {x} /\ s \ {c} \in SUBSET S /\ s \ {x} \in SUBSET S
      BY <2>2, <2>5
    <3>2. SumFunctionOnSet(f, s \ {c}) = f[x] + SumFunctionOnSet(f, (s \ {c}) \ {x})
      BY <1>4, <2>3, <3>1
    <3>3. SumFunctionOnSet(f, s \ {x}) = f[c] + SumFunctionOnSet(f, (s \ {x}) \ {c})
      BY <1>4, <2>3, <3>1
    <3>4. (s \ {c}) \ {x} = rest /\ (s \ {x}) \ {c} = rest /\ rest \in SUBSET S
      OBVIOUS
    <3>5. f[c] \in Int /\ f[x] \in Int /\ SumFunctionOnSet(f, rest) \in Int
      BY <1>2, <2>2, <3>4
    <3> HIDE DEF rest
    <3> QED
      BY <2>2, <3>2, <3>3, <3>4, <3>5
  <2> QED
    BY <2>4, <2>5
<1>5. Nat \subseteq P
  <2> HIDE DEF P
  <2> QED
    BY <1>3, <1>4, SetInduction
<1>6. S \in SUBSET S /\ S \ {e} \in SUBSET S
  OBVIOUS
<1> QED
  BY <1>1, <1>2, <1>5, <1>6

LEMMA SumAdd ==
    ASSUME NEW f, NEW S, IsFiniteSet(S), NEW e, e \notin S,
           \A x \in S \cup {e} : f[x] \in Int
    PROVE  SumFunctionOnSet(f, S \cup {e}) = f[e] + SumFunctionOnSet(f, S)
<1>1. IsFiniteSet(S \cup {e})
  BY FS_AddElement
<1>2. (S \cup {e}) \ {e} = S
  OBVIOUS
<1> DEFINE T == S \cup {e}
<1>3. e \in T /\ \A x \in T : f[x] \in Int
  OBVIOUS
<1> HIDE DEF T
<1>4. SumFunctionOnSet(f, T) = f[e] + SumFunctionOnSet(f, T \ {e})
  BY <1>1, <1>3, SumSplit DEF T
<1> QED
  BY <1>2, <1>4 DEF T

(* A sum grows with its summands.                                           *)
LEMMA SumMonotone ==
    ASSUME NEW f, NEW g, NEW S, IsFiniteSet(S),
           \A x \in S : f[x] \in Int /\ g[x] \in Int /\ f[x] <= g[x]
    PROVE  SumFunctionOnSet(f, S) <= SumFunctionOnSet(g, S)
<1> DEFINE P == {n \in Nat : \A s \in SUBSET S : Cardinality(s) = n =>
                    SumFunctionOnSet(f, s) <= SumFunctionOnSet(g, s)}
<1>1. \A s \in SUBSET S : IsFiniteSet(s) /\ Cardinality(s) \in Nat
  BY FS_Subset, FS_CardinalityType
<1>2. 0 \in P
  BY <1>1, FS_EmptySet, SumEmpty
<1>3. ASSUME NEW n \in Nat, n \in P PROVE n + 1 \in P
  <2> SUFFICES ASSUME NEW s \in SUBSET S, Cardinality(s) = n + 1
               PROVE  SumFunctionOnSet(f, s) <= SumFunctionOnSet(g, s)
    OBVIOUS
  <2>1. s # {} /\ IsFiniteSet(s)
    BY <1>1, FS_EmptySet
  <2>2. PICK x \in s : TRUE
    BY <2>1
  <2>3. Cardinality(s \ {x}) = Cardinality(s) - 1
    BY Zenon, <2>1, <2>2, FS_RemoveElement
  <2>4. SumFunctionOnSet(f, s \ {x}) <= SumFunctionOnSet(g, s \ {x})
    BY <1>3, <2>3
  <2>5. /\ SumFunctionOnSet(f, s) = f[x] + SumFunctionOnSet(f, s \ {x})
        /\ SumFunctionOnSet(f, s \ {x}) \in Int
    <3>1. \A y \in s : f[y] \in Int
      OBVIOUS
    <3> QED
      BY <2>1, <3>1, SumSplit
  <2>6. /\ SumFunctionOnSet(g, s) = g[x] + SumFunctionOnSet(g, s \ {x})
        /\ SumFunctionOnSet(g, s \ {x}) \in Int
    <3>1. \A y \in s : g[y] \in Int
      OBVIOUS
    <3> QED
      BY <2>1, <3>1, SumSplit
  <2>7. f[x] \in Int /\ g[x] \in Int /\ f[x] <= g[x]
    OBVIOUS
  <2> QED
    BY <2>4, <2>5, <2>6, <2>7
<1>4. Nat \subseteq P
  <2> HIDE DEF P
  <2> QED
    BY <1>2, <1>3, SetInduction
<1> QED
  BY <1>1, <1>4

(* A sum depends on its summands only, and a change of one of them moves    *)
(* the sum by as much.                                                      *)
LEMMA SumCongruent ==
    ASSUME NEW f, NEW g, NEW S, IsFiniteSet(S),
           \A x \in S : f[x] \in Int /\ f[x] = g[x]
    PROVE  SumFunctionOnSet(f, S) = SumFunctionOnSet(g, S)
<1>1. \A x \in S : g[x] \in Int /\ f[x] \in Int /\ f[x] <= g[x] /\ g[x] <= f[x]
  OBVIOUS
<1>2. SumFunctionOnSet(f, S) <= SumFunctionOnSet(g, S)
  BY <1>1, SumMonotone
<1>3. SumFunctionOnSet(g, S) <= SumFunctionOnSet(f, S)
  BY <1>1, SumMonotone
<1>4. SumFunctionOnSet(f, S) \in Int /\ SumFunctionOnSet(g, S) \in Int
  BY <1>1, SumType
<1> QED
  BY <1>2, <1>3, <1>4

LEMMA SumChange ==
    ASSUME NEW f, NEW g, NEW S, IsFiniteSet(S), NEW e \in S,
           \A x \in S : f[x] \in Int /\ g[x] \in Int,
           \A x \in S : x # e => f[x] = g[x]
    PROVE  SumFunctionOnSet(g, S) = SumFunctionOnSet(f, S) + (g[e] - f[e])
<1>1. /\ SumFunctionOnSet(f, S) = f[e] + SumFunctionOnSet(f, S \ {e})
      /\ SumFunctionOnSet(f, S \ {e}) \in Int
  BY SumSplit
<1>2. /\ SumFunctionOnSet(g, S) = g[e] + SumFunctionOnSet(g, S \ {e})
      /\ SumFunctionOnSet(g, S \ {e}) \in Int
  BY Zenon, SumSplit
<1>3. IsFiniteSet(S \ {e})
  BY FS_RemoveElement
<1>4. SumFunctionOnSet(f, S \ {e}) = SumFunctionOnSet(g, S \ {e})
  <2>1. \A x \in S \ {e} : f[x] \in Int /\ f[x] = g[x]
    OBVIOUS
  <2> QED
    BY <1>3, <2>1, SumCongruent
<1>5. f[e] \in Int /\ g[e] \in Int
  OBVIOUS
<1> QED
  BY <1>1, <1>2, <1>4, <1>5

LEMMA SumNat ==
    ASSUME NEW f, NEW S, IsFiniteSet(S), \A x \in S : f[x] \in Nat
    PROVE  SumFunctionOnSet(f, S) \in Nat
<1> DEFINE P == {n \in Nat : \A s \in SUBSET S :
                    Cardinality(s) = n => SumFunctionOnSet(f, s) \in Nat}
<1>1. \A s \in SUBSET S : IsFiniteSet(s) /\ Cardinality(s) \in Nat
  BY FS_Subset, FS_CardinalityType
<1>2. 0 \in P
  BY <1>1, FS_EmptySet, SumEmpty
<1>3. ASSUME NEW n \in Nat, n \in P PROVE n + 1 \in P
  <2> SUFFICES ASSUME NEW s \in SUBSET S, Cardinality(s) = n + 1
               PROVE  SumFunctionOnSet(f, s) \in Nat
    OBVIOUS
  <2>1. s # {} /\ IsFiniteSet(s)
    BY <1>1, FS_EmptySet
  <2>2. /\ Picked(s) \in s
        /\ SumFunctionOnSet(f, s) = f[Picked(s)] + SumFunctionOnSet(f, s \ {Picked(s)})
    BY <2>1, SumStep
  <2>3. Cardinality(s \ {Picked(s)}) = Cardinality(s) - 1
    BY Zenon, <2>1, <2>2, FS_RemoveElement
  <2>4. SumFunctionOnSet(f, s \ {Picked(s)}) \in Nat
    BY <1>3, <2>3
  <2> QED
    BY <2>2, <2>4
<1>4. Nat \subseteq P
  <2> HIDE DEF P
  <2> QED
    BY <1>2, <1>3, SetInduction
<1> QED
  BY <1>1, <1>4

LEMMA SumUnion ==
    ASSUME NEW f, NEW S, NEW T, IsFiniteSet(S), IsFiniteSet(T), S \cap T = {},
           \A x \in S \cup T : f[x] \in Int
    PROVE  SumFunctionOnSet(f, S \cup T) = SumFunctionOnSet(f, S) + SumFunctionOnSet(f, T)
<1> DEFINE P == {n \in Nat : \A t \in SUBSET T : Cardinality(t) = n =>
                    SumFunctionOnSet(f, S \cup t)
                      = SumFunctionOnSet(f, S) + SumFunctionOnSet(f, t)}
<1>1. \A t \in SUBSET T : IsFiniteSet(t) /\ Cardinality(t) \in Nat
  BY FS_Subset, FS_CardinalityType
<1>2. SumFunctionOnSet(f, S) \in Int
  BY SumType
<1>3. 0 \in P
  <2> SUFFICES ASSUME NEW t \in SUBSET T, Cardinality(t) = 0
               PROVE  SumFunctionOnSet(f, S \cup t)
                        = SumFunctionOnSet(f, S) + SumFunctionOnSet(f, t)
    OBVIOUS
  <2>1. t = {}
    BY <1>1, FS_EmptySet
  <2>2. S \cup t = S
    BY <2>1
  <2> QED
    BY <1>2, <2>1, <2>2, SumEmpty
<1>4. ASSUME NEW n \in Nat, n \in P PROVE n + 1 \in P
  <2> SUFFICES ASSUME NEW t \in SUBSET T, Cardinality(t) = n + 1
               PROVE  SumFunctionOnSet(f, S \cup t)
                        = SumFunctionOnSet(f, S) + SumFunctionOnSet(f, t)
    OBVIOUS
  <2>1. t # {} /\ IsFiniteSet(t)
    BY <1>1, FS_EmptySet
  <2>2. PICK x \in t : TRUE
    BY <2>1
  <2> DEFINE u == t \ {x}
  <2>3. Cardinality(u) = Cardinality(t) - 1 /\ IsFiniteSet(u)
    BY Zenon, <2>1, <2>2, FS_RemoveElement
  <2>4. SumFunctionOnSet(f, S \cup u) = SumFunctionOnSet(f, S) + SumFunctionOnSet(f, u)
    BY <1>4, <2>3
  <2>5. x \notin S \cup u /\ S \cup t = (S \cup u) \cup {x} /\ t = u \cup {x}
    OBVIOUS
  <2>6. IsFiniteSet(S \cup u)
    BY Zenon, <2>3, FS_Union
  <2>7. \A y \in (S \cup u) \cup {x} : f[y] \in Int
    OBVIOUS
  <2>8. f[x] \in Int /\ (\A y \in u \cup {x} : f[y] \in Int) /\ x \notin u
    OBVIOUS
  <2> HIDE DEF u
  <2>9. SumFunctionOnSet(f, u) \in Int
    BY <2>3, <2>8, SumType
  <2>10. SumFunctionOnSet(f, (S \cup u) \cup {x}) = f[x] + SumFunctionOnSet(f, S \cup u)
    <3> DEFINE V == S \cup u
    <3>1. IsFiniteSet(V) /\ x \notin V /\ \A y \in V \cup {x} : f[y] \in Int
      BY <2>5, <2>6, <2>7
    <3> HIDE DEF V
    <3>2. SumFunctionOnSet(f, V \cup {x}) = f[x] + SumFunctionOnSet(f, V)
      BY <3>1, SumAdd
    <3> QED
      BY <3>2 DEF V
  <2>11. SumFunctionOnSet(f, u \cup {x}) = f[x] + SumFunctionOnSet(f, u)
    BY <2>3, <2>8, SumAdd
  <2>12. SumFunctionOnSet(f, S \cup t) = f[x] + SumFunctionOnSet(f, S \cup u)
    BY <2>5, <2>10
  <2>13. SumFunctionOnSet(f, t) = f[x] + SumFunctionOnSet(f, u)
    BY <2>5, <2>11
  <2> QED
    BY <1>2, <2>4, <2>8, <2>9, <2>12, <2>13
<1>5. Nat \subseteq P
  <2> HIDE DEF P
  <2> QED
    BY <1>3, <1>4, SetInduction
<1> QED
  BY <1>1, <1>5

(* Over a larger set, a sum of natural numbers is no smaller.               *)
LEMMA SumSubset ==
    ASSUME NEW f, NEW S, NEW T, IsFiniteSet(S), T \subseteq S, \A x \in S : f[x] \in Nat
    PROVE  SumFunctionOnSet(f, T) <= SumFunctionOnSet(f, S)
<1> DEFINE R == S \ T
<1>1. IsFiniteSet(T) /\ IsFiniteSet(R)
  BY FS_Subset, FS_Difference
<1>2. T \cap R = {} /\ T \cup R = S
  OBVIOUS
<1>3. \A x \in T \cup R : f[x] \in Nat /\ f[x] \in Int
  OBVIOUS
<1> HIDE DEF R
<1>4. SumFunctionOnSet(f, T \cup R) = SumFunctionOnSet(f, T) + SumFunctionOnSet(f, R)
  BY <1>1, <1>2, <1>3, SumUnion
<1>5. SumFunctionOnSet(f, T) \in Nat /\ SumFunctionOnSet(f, R) \in Nat
  BY <1>1, <1>3, SumNat
<1>6. SumFunctionOnSet(f, S) = SumFunctionOnSet(f, T) + SumFunctionOnSet(f, R)
  BY Zenon, <1>2, <1>4
<1> QED
  BY <1>5, <1>6

LEMMA SumZero ==
    ASSUME NEW f, NEW S, IsFiniteSet(S), \A x \in S : f[x] = 0
    PROVE  SumFunctionOnSet(f, S) = 0
<1> DEFINE P == {n \in Nat : \A s \in SUBSET S :
                    Cardinality(s) = n => SumFunctionOnSet(f, s) = 0}
<1>1. \A s \in SUBSET S : IsFiniteSet(s) /\ Cardinality(s) \in Nat
  BY FS_Subset, FS_CardinalityType
<1>2. 0 \in P
  BY <1>1, FS_EmptySet, SumEmpty
<1>3. ASSUME NEW n \in Nat, n \in P PROVE n + 1 \in P
  <2> SUFFICES ASSUME NEW s \in SUBSET S, Cardinality(s) = n + 1
               PROVE  SumFunctionOnSet(f, s) = 0
    OBVIOUS
  <2>1. s # {} /\ IsFiniteSet(s)
    BY <1>1, FS_EmptySet
  <2>2. /\ Picked(s) \in s
        /\ SumFunctionOnSet(f, s) = f[Picked(s)] + SumFunctionOnSet(f, s \ {Picked(s)})
    BY <2>1, SumStep
  <2>3. Cardinality(s \ {Picked(s)}) = Cardinality(s) - 1
    BY Zenon, <2>1, <2>2, FS_RemoveElement
  <2>4. SumFunctionOnSet(f, s \ {Picked(s)}) = 0
    BY <1>3, <2>3
  <2> QED
    BY <2>2, <2>4
<1>4. Nat \subseteq P
  <2> HIDE DEF P
  <2> QED
    BY <1>2, <1>3, SetInduction
<1> QED
  BY <1>1, <1>4

----------------------------------------------------------------------------
(* Powers of two, as cardinalities of sets of subsets, and the extremes of  *)
(* a set of numbers.                                                        *)
LEMMA PowerMonotone ==
    ASSUME NEW m \in Nat, NEW n \in Nat, m <= n
    PROVE  2^m \in Nat /\ 2^n \in Nat /\ 2^m <= 2^n
<1>1. IsFiniteSet(1 .. m) /\ IsFiniteSet(1 .. n)
  BY FS_Interval
<1>2. Cardinality(1 .. m) = m /\ Cardinality(1 .. n) = n
  BY FS_Interval
<1>3. IsFiniteSet(SUBSET (1 .. m)) /\ Cardinality(SUBSET (1 .. m)) = 2^m
  BY Zenon, <1>1, <1>2, FS_SUBSET
<1>4. IsFiniteSet(SUBSET (1 .. n)) /\ Cardinality(SUBSET (1 .. n)) = 2^n
  BY Zenon, <1>1, <1>2, FS_SUBSET
<1>5. SUBSET (1 .. m) \subseteq SUBSET (1 .. n)
  OBVIOUS
<1>6. Cardinality(SUBSET (1 .. m)) <= Cardinality(SUBSET (1 .. n))
  BY <1>4, <1>5, FS_Subset
<1> QED
  BY <1>3, <1>4, <1>6, FS_CardinalityType

LEMMA MinIs ==
    ASSUME NEW T \in SUBSET Nat, T # {}
    PROVE  Min(T) \in T /\ \A x \in T : Min(T) <= x
  BY Zenon, LeastElement DEF Min

LEMMA MaxIs ==
    ASSUME NEW T \in SUBSET Nat, NEW top \in Nat, T # {}, \A x \in T : x <= top
    PROVE  Max(T) \in T /\ \A x \in T : x <= Max(T)
<1> DEFINE U == {n \in Nat : top - n \in T}
<1>1. U # {} /\ U \in SUBSET Nat
  <2>1. PICK x \in T : TRUE
    BY Zenon
  <2>2. top - x \in Nat /\ top - (top - x) = x
    OBVIOUS
  <2> QED
    BY <2>1, <2>2
<1>2. PICK n \in U : \A k \in U : n <= k
  BY Zenon, <1>1, LeastElement
<1>3. ASSUME NEW x \in T PROVE top - n >= x
  <2>1. top - x \in Nat /\ top - (top - x) = x
    OBVIOUS
  <2>2. n <= top - x
    BY <1>2, <2>1
  <2> QED
    BY <2>1, <2>2
<1>4. \E y \in T : \A x \in T : y >= x
  BY <1>2, <1>3
<1>5. Max(T) \in T /\ \A x \in T : Max(T) >= x
  BY Zenon, <1>4 DEF Max
<1> QED
  BY <1>5

(* A finite set of integers has a greatest and a least element.             *)
LEMMA Extremes ==
    ASSUME NEW K, IsFiniteSet(K), K \subseteq Int, NEW T \in SUBSET K, T # {}
    PROVE  /\ \E x \in T : \A y \in T : x >= y
           /\ \E x \in T : \A y \in T : x =< y
<1> DEFINE P == {n \in Nat : \A s \in SUBSET K : Cardinality(s) = n /\ s # {} =>
                    /\ \E x \in s : \A y \in s : x >= y
                    /\ \E x \in s : \A y \in s : x =< y}
<1>1. \A s \in SUBSET K : IsFiniteSet(s) /\ Cardinality(s) \in Nat
  BY Zenon, FS_Subset, FS_CardinalityType
<1>2. 0 \in P
  BY <1>1, FS_EmptySet
<1>3. ASSUME NEW n \in Nat, n \in P PROVE n + 1 \in P
  <2> SUFFICES ASSUME NEW s \in SUBSET K, Cardinality(s) = n + 1, s # {}
               PROVE  /\ \E x \in s : \A y \in s : x >= y
                      /\ \E x \in s : \A y \in s : x =< y
    OBVIOUS
  <2>1. PICK z \in s : TRUE
    OBVIOUS
  <2>2. IsFiniteSet(s) /\ s \subseteq Int /\ Cardinality(s) \in Nat
    BY <1>1
  <2>3. Cardinality(s \ {z}) = Cardinality(s) - 1
    BY Zenon, <2>1, <2>2, FS_RemoveElement
  <2>4. CASE s \ {z} = {}
    BY <2>1, <2>2, <2>4
  <2>5. CASE s \ {z} # {}
    <3>1. PICK g \in s \ {z} : \A y \in s \ {z} : g >= y
      BY <1>3, <2>2, <2>3, <2>5
    <3>2. PICK l \in s \ {z} : \A y \in s \ {z} : l =< y
      BY <1>3, <2>2, <2>3, <2>5
    <3>3. \E x \in s : \A y \in s : x >= y
      BY <2>1, <2>2, <3>1
    <3>4. \E x \in s : \A y \in s : x =< y
      BY <2>1, <2>2, <3>2
    <3> QED
      BY <3>3, <3>4
  <2> QED
    BY <2>4, <2>5
<1>4. Nat \subseteq P
  <2> HIDE DEF P
  <2> QED
    BY <1>2, <1>3, SetInduction
<1> QED
  BY <1>1, <1>4
============================================================================
