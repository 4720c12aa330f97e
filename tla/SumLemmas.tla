------------------------------- MODULE SumLemmas -------------------------------
(* Induction over numbers and over finite sets, stated with a set for the        *)
(* predicate, and what it gives: the facts about SumFunctionOnSet, the fold every *)
(* total of this project is an instance of.                                       *)
EXTENDS Integers, FiniteSets, Functions, FiniteSetTheorems, WellFoundedInduction, TLAPS

(***************************************************************************)
(* Induction.                                                              *)
(***************************************************************************)

\* Every set of numbers that is not empty has a least element.
LEMMA LeastNatural ==
    ASSUME NEW T \in SUBSET Nat, T # {}
    PROVE  \E x \in T : \A y \in T : x <= y
<1>1. PICK x \in T : \A y \in T : ~ (<<y, x>> \in OpToRel(<, Nat))
  BY WFMin, NatLessThanWellFounded
<1>2. ASSUME NEW y \in T PROVE x <= y
  <2>1. x \in Nat /\ y \in Nat
    OBVIOUS
  <2>2. y < x => <<y, x>> \in OpToRel(<, Nat)
    BY <2>1 DEF OpToRel
  <2> QED
    <3>1. ~(y < x)
      BY <1>1, <2>2
    <3> QED
      BY <2>1, <3>1
<1> QED
  BY <1>2

\* A set of numbers with zero and the successors of its members has them all.
LEMMA EveryNatural ==
    ASSUME NEW T, 0 \in T, \A n \in Nat : n \in T => n + 1 \in T
    PROVE  \A n \in Nat : n \in T
<1> SUFFICES ASSUME Nat \ T # {} PROVE FALSE
  OBVIOUS
<1>1. PICK n \in Nat \ T : \A m \in Nat \ T : n <= m
  BY LeastNatural
<1>2. n # 0
  OBVIOUS
<1>3. n - 1 \in Nat /\ n - 1 < n
  BY <1>2
<1>4. n - 1 \in T
  BY <1>1, <1>3
<1>5. (n - 1) + 1 \in T
  BY <1>3, <1>4
<1> QED
  BY <1>5

\* A set of subsets of S with the empty set, and with T \cup {x} whenever it has T, has S.
LEMMA EverySubset ==
    ASSUME NEW S, IsFiniteSet(S), NEW Q, {} \in Q,
           \A T \in SUBSET S : \A x \in S \ T : T \in Q => T \cup {x} \in Q
    PROVE  S \in Q
<1> SUFFICES ASSUME S \notin Q PROVE FALSE
  OBVIOUS
<1> DEFINE Bad == {T \in SUBSET S : T \notin Q}
           Sizes == {Cardinality(T) : T \in Bad}
<1>1. \A T \in SUBSET S : IsFiniteSet(T) /\ Cardinality(T) \in Nat
  BY FS_Subset, FS_CardinalityType
<1>2. Sizes \in SUBSET Nat /\ Sizes # {}
  BY <1>1
<1>3. PICK n \in Sizes : \A m \in Sizes : n <= m
  <2> HIDE DEF Sizes
  <2> QED
    BY <1>2, LeastNatural
<1>4. PICK T \in Bad : Cardinality(T) = n
  OBVIOUS
<1>5. PICK x \in T : TRUE
  OBVIOUS
<1>6. Cardinality(T \ {x}) = Cardinality(T) - 1
  BY <1>1, <1>4, <1>5, FS_RemoveElement
<1>7. T \ {x} \in Q
  <2> SUFFICES ASSUME T \ {x} \notin Q PROVE FALSE
    OBVIOUS
  <2>1. Cardinality(T \ {x}) \in Sizes
    OBVIOUS
  <2>2. Cardinality(T) \in Nat
    BY <1>1
  <2>3. Cardinality(T) <= Cardinality(T \ {x})
    <3> HIDE DEF Sizes
    <3> QED
      BY <1>3, <1>4, <2>1
  <2> QED
    BY <1>6, <2>2, <2>3
<1>8. (T \ {x}) \cup {x} = T /\ T \ {x} \in SUBSET S /\ x \in S \ (T \ {x})
  BY <1>5
<1>9. (T \ {x}) \cup {x} \in Q
  BY <1>7, <1>8
<1> QED
  BY <1>8, <1>9

\* The image of a finite set.
LEMMA ImageFinite ==
    ASSUME NEW S, IsFiniteSet(S), NEW f
    PROVE  IsFiniteSet({f[x] : x \in S}) /\ Cardinality({f[x] : x \in S}) <= Cardinality(S)
<1> DEFINE T == {f[x] : x \in S}  g == [x \in S |-> f[x]]
<1>1. g \in Surjection(S, T)
  BY DEF Surjection
<1> HIDE DEF T, g
<1>2. IsFiniteSet(T) /\ Cardinality(T) <= Cardinality(S)
  BY <1>1, FS_Surjection
<1> QED
  BY <1>2 DEF T

(***************************************************************************)
(* The recursion of the fold.                                              *)
(***************************************************************************)

Pick(s) == CHOOSE x \in s : TRUE

\* g is the function the fold defines by recursion over the subsets in D.
Unfolds(f, D, g) ==
    g = [s \in D |-> IF s = {} THEN 0 ELSE f[Pick(s)] + g[s \ {Pick(s)}]]

LEMMA SumUnfolds ==
    ASSUME NEW f, NEW S
    PROVE  SumFunctionOnSet(f, S) = (CHOOSE g : Unfolds(f, SUBSET S, g))[S]
BY DEF SumFunctionOnSet, FoldFunctionOnSet, MapThenFoldSet, Unfolds, Pick

\* A finite set's subsets have such a function: it is built layer by layer.
LEMMA UnfoldingExists ==
    ASSUME NEW f, NEW S, IsFiniteSet(S)
    PROVE  \E g : Unfolds(f, SUBSET S, g)
<1> DEFINE Layer(n) == {s \in SUBSET S : Cardinality(s) <= n}
           Built == {n \in Nat : \E g : Unfolds(f, Layer(n), g)}
<1>1. \A s \in SUBSET S : IsFiniteSet(s) /\ Cardinality(s) \in Nat /\ Cardinality(s) <= Cardinality(S)
  BY FS_Subset, FS_CardinalityType
<1>2. \A s \in SUBSET S : s # {} =>
        s \ {Pick(s)} \in SUBSET S /\ Cardinality(s \ {Pick(s)}) = Cardinality(s) - 1
  <2> TAKE s \in SUBSET S
  <2> HAVE s # {}
  <2>1. Pick(s) \in s
    BY DEF Pick
  <2> QED
    BY <1>1, <2>1, FS_RemoveElement
<1>3. 0 \in Built
  <2> DEFINE g == [s \in Layer(0) |-> 0]
  <2>1. \A s \in Layer(0) : s = {}
    BY <1>1, FS_EmptySet
  <2>2. Unfolds(f, Layer(0), g)
    BY <2>1 DEF Unfolds
  <2> QED
    BY <2>2
<1>4. ASSUME NEW n \in Nat, n \in Built PROVE n + 1 \in Built
  <2>1. PICK g : Unfolds(f, Layer(n), g)
    BY <1>4
  <2> DEFINE h == [s \in Layer(n + 1) |-> IF s = {} THEN 0 ELSE f[Pick(s)] + g[s \ {Pick(s)}]]
  <2>2. \A s \in Layer(n) : s \in Layer(n + 1) /\ h[s] = g[s]
    <3> TAKE s \in Layer(n)
    <3>1. s \in Layer(n + 1)
      BY <1>1
    <3>2. g[s] = IF s = {} THEN 0 ELSE f[Pick(s)] + g[s \ {Pick(s)}]
      BY <2>1 DEF Unfolds
    <3> QED
      BY <3>1, <3>2
  <2>3. \A s \in Layer(n + 1) : s # {} => s \ {Pick(s)} \in Layer(n)
    BY <1>1, <1>2
  <2>4. \A s \in Layer(n + 1) : s # {} => h[s \ {Pick(s)}] = g[s \ {Pick(s)}]
    BY <2>2, <2>3
  <2>5. Unfolds(f, Layer(n + 1), h)
    <3> DEFINE k == [s \in Layer(n + 1) |-> IF s = {} THEN 0 ELSE f[Pick(s)] + h[s \ {Pick(s)}]]
    <3>1. \A s \in Layer(n + 1) : h[s] = k[s]
      BY <2>4
    <3>2. h = k
      BY <3>1
    <3> QED
      BY <3>2 DEF Unfolds
  <2> HIDE DEF h
  <2> QED
    BY <2>5
<1>5. Cardinality(S) \in Nat /\ Layer(Cardinality(S)) = SUBSET S
  BY <1>1, FS_CardinalityType
<1>6. Cardinality(S) \in Built
  <2> HIDE DEF Built
  <2>1. \A n \in Nat : n \in Built
    BY <1>3, <1>4, EveryNatural
  <2> QED
    BY <1>5, <2>1
<1> QED
  BY <1>5, <1>6

\* The functions of two sets agree on what both are about.
LEMMA UnfoldingsAgree ==
    ASSUME NEW f, NEW S, NEW T \in SUBSET S, IsFiniteSet(T), NEW g, NEW h,
           Unfolds(f, SUBSET S, g), Unfolds(f, SUBSET T, h)
    PROVE  g[T] = h[T]
<1> DEFINE Q == {u \in SUBSET T : g[u] = h[u]}
           Sizes == {Cardinality(u) : u \in (SUBSET T) \ Q}
<1>1. \A u \in SUBSET T : IsFiniteSet(u) /\ Cardinality(u) \in Nat
  BY FS_Subset, FS_CardinalityType
<1> SUFFICES ASSUME (SUBSET T) \ Q # {} PROVE FALSE
  OBVIOUS
<1>2. PICK n \in Sizes : \A m \in Sizes : n <= m
  <2>1. Sizes \in SUBSET Nat /\ Sizes # {}
    BY <1>1
  <2> HIDE DEF Sizes
  <2> QED
    BY <2>1, LeastNatural
<1>3. PICK u \in (SUBSET T) \ Q : Cardinality(u) = n
  OBVIOUS
<1>4. /\ g[u] = IF u = {} THEN 0 ELSE f[Pick(u)] + g[u \ {Pick(u)}]
      /\ h[u] = IF u = {} THEN 0 ELSE f[Pick(u)] + h[u \ {Pick(u)}]
  BY DEF Unfolds
<1>5. u # {} /\ Pick(u) \in u
  <2>1. u # {}
    BY <1>3, <1>4
  <2> QED
    BY <2>1 DEF Pick
<1>6. Cardinality(u \ {Pick(u)}) = Cardinality(u) - 1
  BY <1>1, <1>5, FS_RemoveElement
<1>7. u \ {Pick(u)} \in Q
  <2> SUFFICES ASSUME u \ {Pick(u)} \notin Q PROVE FALSE
    OBVIOUS
  <2>1. Cardinality(u \ {Pick(u)}) \in Sizes
    OBVIOUS
  <2>2. Cardinality(u) \in Nat
    BY <1>1
  <2>3. Cardinality(u) <= Cardinality(u \ {Pick(u)})
    <3> HIDE DEF Sizes
    <3> QED
      BY <1>2, <1>3, <2>1
  <2> QED
    BY <1>6, <2>2, <2>3
<1>8. g[u] = f[Pick(u)] + g[u \ {Pick(u)}] /\ h[u] = f[Pick(u)] + h[u \ {Pick(u)}]
  BY <1>4, <1>5
<1> QED
  BY <1>3, <1>7, <1>8

LEMMA SumOfNone == ASSUME NEW f PROVE SumFunctionOnSet(f, {}) = 0
<1>1. PICK g : Unfolds(f, SUBSET {}, g)
  BY UnfoldingExists, FS_EmptySet
<1> DEFINE k == CHOOSE h : Unfolds(f, SUBSET {}, h)
<1>2. Unfolds(f, SUBSET {}, k)
  BY <1>1
<1>3. k[{}] = 0
  <2> HIDE DEF k
  <2> QED
    BY <1>2 DEF Unfolds
<1> QED
  BY <1>3, SumUnfolds

LEMMA SumPicks ==
    ASSUME NEW f, NEW S, IsFiniteSet(S), S # {}
    PROVE  SumFunctionOnSet(f, S) = f[Pick(S)] + SumFunctionOnSet(f, S \ {Pick(S)})
<1> DEFINE T == S \ {Pick(S)}
           g == CHOOSE h : Unfolds(f, SUBSET S, h)
           k == CHOOSE h : Unfolds(f, SUBSET T, h)
<1>1. IsFiniteSet(T) /\ T \in SUBSET S
  BY FS_Subset
<1>2. Unfolds(f, SUBSET S, g)
  BY UnfoldingExists
<1>3. Unfolds(f, SUBSET T, k)
  BY <1>1, UnfoldingExists
<1>4. SumFunctionOnSet(f, S) = g[S] /\ SumFunctionOnSet(f, T) = k[T]
  BY SumUnfolds
<1> HIDE DEF g, k
<1>5. g[T] = k[T]
  <2> HIDE DEF T
  <2> QED
    BY <1>1, <1>2, <1>3, UnfoldingsAgree
<1>6. g[S] = f[Pick(S)] + g[T]
  BY <1>2 DEF Unfolds
<1> QED
  BY <1>4, <1>5, <1>6

(***************************************************************************)
(* Sums of integers: the order of choice does not matter.                  *)
(***************************************************************************)

LEMMA SumTyped ==
    ASSUME NEW f, NEW S, IsFiniteSet(S), \A x \in S : f[x] \in Int
    PROVE  SumFunctionOnSet(f, S) \in Int
<1> DEFINE Bad == {T \in SUBSET S : SumFunctionOnSet(f, T) \notin Int}
           Sizes == {Cardinality(T) : T \in Bad}
<1>1. \A T \in SUBSET S : IsFiniteSet(T) /\ Cardinality(T) \in Nat
  BY FS_Subset, FS_CardinalityType
<1> SUFFICES ASSUME Bad # {} PROVE FALSE
  OBVIOUS
<1>2. PICK n \in Sizes : \A m \in Sizes : n <= m
  <2>1. Sizes \in SUBSET Nat /\ Sizes # {}
    BY <1>1
  <2> HIDE DEF Sizes
  <2> QED
    BY <2>1, LeastNatural
<1>3. PICK T \in Bad : Cardinality(T) = n
  OBVIOUS
<1>4. T # {}
  BY SumOfNone
<1> DEFINE x == Pick(T)
<1>5. x \in T
  BY <1>4 DEF Pick
<1> HIDE DEF x
<1>6. Cardinality(T \ {x}) = Cardinality(T) - 1
  BY <1>1, <1>5, FS_RemoveElement
<1>7. T \ {x} \notin Bad
  <2> SUFFICES ASSUME T \ {x} \in Bad PROVE FALSE
    OBVIOUS
  <2>1. Cardinality(T \ {x}) \in Sizes
    OBVIOUS
  <2>2. Cardinality(T) \in Nat
    BY <1>1
  <2>3. Cardinality(T) <= Cardinality(T \ {x})
    <3> HIDE DEF Sizes
    <3> QED
      BY <1>2, <1>3, <2>1
  <2> QED
    BY <1>6, <2>2, <2>3
<1>8. SumFunctionOnSet(f, T) = f[x] + SumFunctionOnSet(f, T \ {x})
  BY <1>1, <1>4, SumPicks DEF x
<1>9. SumFunctionOnSet(f, T \ {x}) \in Int
  BY <1>7
<1>10. f[x] \in Int
  BY <1>5
<1> QED
  BY <1>8, <1>9, <1>10

\* Any element can be taken out first.
LEMMA SumTakes ==
    ASSUME NEW f, NEW S, IsFiniteSet(S), \A x \in S : f[x] \in Int, NEW x \in S
    PROVE  SumFunctionOnSet(f, S) = f[x] + SumFunctionOnSet(f, S \ {x})
<1> DEFINE Right(T) == \A y \in T : SumFunctionOnSet(f, T) = f[y] + SumFunctionOnSet(f, T \ {y})
           Bad == {T \in SUBSET S : ~ Right(T)}
           Sizes == {Cardinality(T) : T \in Bad}
<1>1. \A T \in SUBSET S : IsFiniteSet(T) /\ Cardinality(T) \in Nat /\ SumFunctionOnSet(f, T) \in Int
  BY FS_Subset, FS_CardinalityType, SumTyped
<1> SUFFICES ASSUME Bad # {} PROVE FALSE
  OBVIOUS
<1>2. PICK n \in Sizes : \A m \in Sizes : n <= m
  <2>1. Sizes \in SUBSET Nat /\ Sizes # {}
    BY <1>1
  <2> HIDE DEF Sizes
  <2> QED
    BY <2>1, LeastNatural
<1>3. PICK T \in Bad : Cardinality(T) = n
  OBVIOUS
<1>4. ASSUME NEW y \in T PROVE Right(T \ {y})
  <2>1. Cardinality(T \ {y}) = Cardinality(T) - 1
    BY <1>1, <1>4, FS_RemoveElement
  <2> SUFFICES ASSUME T \ {y} \in Bad PROVE FALSE
    OBVIOUS
  <2>2. Cardinality(T \ {y}) \in Sizes
    OBVIOUS
  <2>3. Cardinality(T) <= Cardinality(T \ {y})
    <3> HIDE DEF Sizes
    <3> QED
      BY <1>2, <1>3, <2>2
  <2>4. Cardinality(T) \in Nat
    BY <1>1
  <2> QED
    BY <2>1, <2>3, <2>4
<1>5. PICK y \in T : SumFunctionOnSet(f, T) # f[y] + SumFunctionOnSet(f, T \ {y})
  BY <1>3
<1> DEFINE p == Pick(T)
<1>6. p \in T
  BY <1>5 DEF Pick
<1>7. SumFunctionOnSet(f, T) = f[p] + SumFunctionOnSet(f, T \ {p})
  BY <1>1, <1>6, SumPicks
<1> HIDE DEF p
<1>8. p # y
  BY <1>5, <1>7
<1>9. SumFunctionOnSet(f, T \ {p}) = f[y] + SumFunctionOnSet(f, (T \ {p}) \ {y})
  BY <1>4, <1>5, <1>6, <1>8
<1>10. SumFunctionOnSet(f, T \ {y}) = f[p] + SumFunctionOnSet(f, (T \ {y}) \ {p})
  BY <1>4, <1>5, <1>6, <1>8
<1>11. (T \ {y}) \ {p} = (T \ {p}) \ {y}
  OBVIOUS
<1>12. /\ f[p] \in Int /\ f[y] \in Int
       /\ SumFunctionOnSet(f, (T \ {p}) \ {y}) \in Int
  BY <1>1, <1>5, <1>6
<1> HIDE DEF Bad, Sizes, Right
<1> DEFINE a == SumFunctionOnSet(f, (T \ {p}) \ {y})
<1>13. SumFunctionOnSet(f, T) = f[p] + (f[y] + a)
  BY <1>7, <1>9
<1>14. SumFunctionOnSet(f, T \ {y}) = f[p] + a
  BY <1>10, <1>11
<1>15. a \in Int
  BY <1>12
<1> HIDE DEF a
<1>16. f[p] + (f[y] + a) = f[y] + (f[p] + a)
  BY <1>12, <1>15
<1> QED
  BY <1>5, <1>13, <1>14, <1>16

LEMMA SumAdds ==
    ASSUME NEW f, NEW S, IsFiniteSet(S), NEW x, x \notin S, \A y \in S \cup {x} : f[y] \in Int
    PROVE  SumFunctionOnSet(f, S \cup {x}) = f[x] + SumFunctionOnSet(f, S)
<1>1. IsFiniteSet(S \cup {x}) /\ x \in S \cup {x} /\ (S \cup {x}) \ {x} = S
  BY FS_AddElement
<1> QED
  BY <1>1, SumTakes

(***************************************************************************)
(* Sums over one set.                                                      *)
(***************************************************************************)

LEMMA SumSame ==
    ASSUME NEW f, NEW g, NEW S, IsFiniteSet(S), \A x \in S : f[x] \in Int /\ f[x] = g[x]
    PROVE  SumFunctionOnSet(f, S) = SumFunctionOnSet(g, S)
<1> DEFINE Q == {T \in SUBSET S : SumFunctionOnSet(f, T) = SumFunctionOnSet(g, T)}
<1>1. {} \in Q
  BY SumOfNone
<1>2. ASSUME NEW T \in SUBSET S, NEW x \in S \ T, T \in Q PROVE T \cup {x} \in Q
  <2>1. IsFiniteSet(T) /\ T \cup {x} \in SUBSET S
    BY FS_Subset
  <2>2. /\ SumFunctionOnSet(f, T \cup {x}) = f[x] + SumFunctionOnSet(f, T)
        /\ SumFunctionOnSet(g, T \cup {x}) = g[x] + SumFunctionOnSet(g, T)
    BY <2>1, SumAdds
  <2> QED
    BY <1>2, <2>1, <2>2
<1>3. S \in Q
  <2> HIDE DEF Q
  <2> QED
    BY <1>1, <1>2, EverySubset
<1> QED
  BY <1>3

LEMMA SumLessOrEqual ==
    ASSUME NEW f, NEW g, NEW S, IsFiniteSet(S),
           \A x \in S : f[x] \in Int /\ g[x] \in Int /\ f[x] <= g[x]
    PROVE  SumFunctionOnSet(f, S) <= SumFunctionOnSet(g, S)
<1> DEFINE Q == {T \in SUBSET S : SumFunctionOnSet(f, T) <= SumFunctionOnSet(g, T)}
<1>1. {} \in Q
  BY SumOfNone
<1>2. ASSUME NEW T \in SUBSET S, NEW x \in S \ T, T \in Q PROVE T \cup {x} \in Q
  <2>1. IsFiniteSet(T) /\ T \cup {x} \in SUBSET S
    BY FS_Subset
  <2>2. /\ SumFunctionOnSet(f, T \cup {x}) = f[x] + SumFunctionOnSet(f, T)
        /\ SumFunctionOnSet(g, T \cup {x}) = g[x] + SumFunctionOnSet(g, T)
    BY <2>1, SumAdds
  <2>3. /\ SumFunctionOnSet(f, T) \in Int /\ SumFunctionOnSet(g, T) \in Int
        /\ f[x] \in Int /\ g[x] \in Int /\ f[x] <= g[x]
        /\ SumFunctionOnSet(f, T) <= SumFunctionOnSet(g, T)
    BY <1>2, <2>1, SumTyped
  <2>4. SumFunctionOnSet(f, T \cup {x}) <= SumFunctionOnSet(g, T \cup {x})
    <3> HIDE DEF Q
    <3> QED
      BY <2>2, <2>3
  <2> QED
    BY <2>1, <2>4
<1>3. S \in Q
  <2> HIDE DEF Q
  <2> QED
    BY <1>1, <1>2, EverySubset
<1> QED
  BY <1>3

LEMMA SumOfBoth ==
    ASSUME NEW f, NEW g, NEW S, IsFiniteSet(S), \A x \in S : f[x] \in Int /\ g[x] \in Int
    PROVE  SumFunctionOnSet([x \in S |-> f[x] + g[x]], S)
             = SumFunctionOnSet(f, S) + SumFunctionOnSet(g, S)
<1> DEFINE h == [x \in S |-> f[x] + g[x]]
           Q == {T \in SUBSET S : SumFunctionOnSet(h, T)
                                    = SumFunctionOnSet(f, T) + SumFunctionOnSet(g, T)}
<1>1. {} \in Q
  BY SumOfNone
<1>2. ASSUME NEW T \in SUBSET S, NEW x \in S \ T, T \in Q PROVE T \cup {x} \in Q
  <2>1. IsFiniteSet(T) /\ T \cup {x} \in SUBSET S
    BY FS_Subset
  <2>2. /\ SumFunctionOnSet(f, T \cup {x}) = f[x] + SumFunctionOnSet(f, T)
        /\ SumFunctionOnSet(g, T \cup {x}) = g[x] + SumFunctionOnSet(g, T)
        /\ SumFunctionOnSet(h, T \cup {x}) = h[x] + SumFunctionOnSet(h, T)
    BY <2>1, SumAdds
  <2>3. /\ SumFunctionOnSet(f, T) \in Int /\ SumFunctionOnSet(g, T) \in Int
        /\ f[x] \in Int /\ g[x] \in Int /\ h[x] = f[x] + g[x]
        /\ SumFunctionOnSet(h, T) = SumFunctionOnSet(f, T) + SumFunctionOnSet(g, T)
    BY <1>2, <2>1, SumTyped
  <2>4. SumFunctionOnSet(h, T \cup {x})
          = SumFunctionOnSet(f, T \cup {x}) + SumFunctionOnSet(g, T \cup {x})
    <3> HIDE DEF Q, h
    <3> QED
      BY <2>2, <2>3
  <2> QED
    BY <2>1, <2>4
<1>3. S \in Q
  <2> HIDE DEF Q
  <2> QED
    BY <1>1, <1>2, EverySubset
<1> QED
  BY <1>3

LEMMA SumOfConstant ==
    ASSUME NEW c \in Int, NEW f, NEW S, IsFiniteSet(S), \A x \in S : f[x] = c
    PROVE  SumFunctionOnSet(f, S) = c * Cardinality(S)
<1> DEFINE Q == {T \in SUBSET S : SumFunctionOnSet(f, T) = c * Cardinality(T)}
<1>1. {} \in Q
  BY SumOfNone, FS_EmptySet
<1>2. ASSUME NEW T \in SUBSET S, NEW x \in S \ T, T \in Q PROVE T \cup {x} \in Q
  <2>1. IsFiniteSet(T) /\ T \cup {x} \in SUBSET S
    BY FS_Subset
  <2>2. SumFunctionOnSet(f, T \cup {x}) = f[x] + SumFunctionOnSet(f, T)
    BY <2>1, SumAdds
  <2>3. Cardinality(T \cup {x}) = Cardinality(T) + 1 /\ Cardinality(T) \in Nat
    BY <2>1, FS_AddElement, FS_CardinalityType
  <2>4. c * (Cardinality(T) + 1) = c + c * Cardinality(T)
    <3> DEFINE n == Cardinality(T)
    <3>1. n \in Nat
      BY <2>3
    <3> HIDE DEF n
    <3>2. c * (n + 1) = c + c * n
      BY <3>1
    <3> QED
      BY <3>2 DEF n
  <2> QED
    BY <1>2, <2>1, <2>2, <2>3, <2>4
<1>3. S \in Q
  <2> HIDE DEF Q
  <2> QED
    BY <1>1, <1>2, EverySubset
<1> QED
  BY <1>3

LEMMA SumScales ==
    ASSUME NEW c \in Int, NEW f, NEW S, IsFiniteSet(S), \A x \in S : f[x] \in Int
    PROVE  SumFunctionOnSet([x \in S |-> c * f[x]], S) = c * SumFunctionOnSet(f, S)
<1> DEFINE h == [x \in S |-> c * f[x]]
           Q == {T \in SUBSET S : SumFunctionOnSet(h, T) = c * SumFunctionOnSet(f, T)}
<1>1. {} \in Q
  BY SumOfNone
<1>2. ASSUME NEW T \in SUBSET S, NEW x \in S \ T, T \in Q PROVE T \cup {x} \in Q
  <2>1. IsFiniteSet(T) /\ T \cup {x} \in SUBSET S /\ \A y \in S : h[y] = c * f[y] /\ h[y] \in Int
    BY FS_Subset
  <2>2. /\ SumFunctionOnSet(f, T \cup {x}) = f[x] + SumFunctionOnSet(f, T)
        /\ SumFunctionOnSet(h, T \cup {x}) = h[x] + SumFunctionOnSet(h, T)
    BY <2>1, SumAdds
  <2>3. SumFunctionOnSet(f, T) \in Int /\ f[x] \in Int
    BY <2>1, SumTyped
  <2>4. c * (f[x] + SumFunctionOnSet(f, T)) = c * f[x] + c * SumFunctionOnSet(f, T)
    <3> DEFINE a == f[x]
               b == SumFunctionOnSet(f, T)
    <3>1. a \in Int /\ b \in Int
      BY <2>3
    <3> HIDE DEF a, b
    <3>2. c * (a + b) = c * a + c * b
      BY <3>1
    <3> QED
      BY <3>2 DEF a, b
  <2>5. SumFunctionOnSet(h, T) = c * SumFunctionOnSet(f, T)
    BY <1>2
  <2> QED
    BY <2>1, <2>2, <2>4, <2>5
<1>3. S \in Q
  <2> HIDE DEF Q
  <2> QED
    BY <1>1, <1>2, EverySubset
<1> QED
  BY <1>3

(***************************************************************************)
(* Sums over several sets.                                                 *)
(***************************************************************************)

LEMMA SumOfUnion ==
    ASSUME NEW f, NEW S, IsFiniteSet(S), NEW U, IsFiniteSet(U), S \cap U = {},
           \A x \in S \cup U : f[x] \in Int
    PROVE  SumFunctionOnSet(f, S \cup U) = SumFunctionOnSet(f, S) + SumFunctionOnSet(f, U)
<1> DEFINE Q == {T \in SUBSET S : SumFunctionOnSet(f, T \cup U)
                                    = SumFunctionOnSet(f, T) + SumFunctionOnSet(f, U)}
<1>1. {} \in Q
  <2>1. {} \cup U = U /\ SumFunctionOnSet(f, U) \in Int
    BY SumTyped
  <2> QED
    BY <2>1, SumOfNone
<1>2. ASSUME NEW T \in SUBSET S, NEW x \in S \ T, T \in Q PROVE T \cup {x} \in Q
  <2>1. /\ IsFiniteSet(T) /\ T \cup {x} \in SUBSET S
        /\ IsFiniteSet(T \cup U) /\ x \notin T \cup U
    BY FS_Subset, FS_Union
  <2>2. /\ SumFunctionOnSet(f, T \cup {x}) = f[x] + SumFunctionOnSet(f, T)
        /\ SumFunctionOnSet(f, (T \cup U) \cup {x}) = f[x] + SumFunctionOnSet(f, T \cup U)
    <3>1. \A y \in (T \cup U) \cup {x} : f[y] \in Int
      OBVIOUS
    <3> QED
      BY <2>1, <3>1, SumAdds
  <2>3. (T \cup U) \cup {x} = (T \cup {x}) \cup U
    OBVIOUS
  <2>4. /\ SumFunctionOnSet(f, T) \in Int /\ SumFunctionOnSet(f, U) \in Int /\ f[x] \in Int
    BY <2>1, SumTyped
  <2>5. SumFunctionOnSet(f, T \cup U) = SumFunctionOnSet(f, T) + SumFunctionOnSet(f, U)
    BY <1>2
  <2>6. SumFunctionOnSet(f, (T \cup {x}) \cup U)
          = SumFunctionOnSet(f, T \cup {x}) + SumFunctionOnSet(f, U)
    <3>1. SumFunctionOnSet(f, (T \cup {x}) \cup U) = f[x] + SumFunctionOnSet(f, T \cup U)
      BY <2>2, <2>3
    <3> DEFINE a == SumFunctionOnSet(f, T)
               b == SumFunctionOnSet(f, U)
    <3>2. a \in Int /\ b \in Int /\ f[x] \in Int
      BY <2>4
    <3>3. SumFunctionOnSet(f, (T \cup {x}) \cup U) = f[x] + (a + b)
      BY <3>1, <2>5
    <3>4. SumFunctionOnSet(f, T \cup {x}) = f[x] + a
      BY <2>2
    <3> HIDE DEF a
    <3>5. SumFunctionOnSet(f, (T \cup {x}) \cup U) = SumFunctionOnSet(f, T \cup {x}) + b
      BY <3>2, <3>3, <3>4
    <3> QED
      BY <3>5
  <2> QED
    BY <2>1, <2>6
<1>3. S \in Q
  <2> HIDE DEF Q
  <2> QED
    BY <1>1, <1>2, EverySubset
<1> QED
  BY <1>3

LEMMA SumNatural ==
    ASSUME NEW f, NEW S, IsFiniteSet(S), \A x \in S : f[x] \in Nat
    PROVE  SumFunctionOnSet(f, S) \in Nat
<1> DEFINE z == [x \in S |-> 0]
<1>1. SumFunctionOnSet(z, S) = 0 * Cardinality(S)
  <2>1. \A x \in S : z[x] = 0
    OBVIOUS
  <2> HIDE DEF z
  <2> QED
    BY <2>1, SumOfConstant
<1>2. SumFunctionOnSet(z, S) <= SumFunctionOnSet(f, S)
  <2>1. \A x \in S : z[x] \in Int /\ f[x] \in Int /\ z[x] <= f[x]
    OBVIOUS
  <2> HIDE DEF z
  <2> QED
    BY <2>1, SumLessOrEqual
<1>3. Cardinality(S) \in Nat
  BY FS_CardinalityType
<1>4. SumFunctionOnSet(z, S) = 0
  BY <1>1, <1>3
<1>5. SumFunctionOnSet(f, S) \in Int
  BY SumTyped
<1> HIDE DEF z
<1> QED
  BY <1>2, <1>4, <1>5

\* No summand is more than the sum of numbers none of which is negative.
LEMMA SummandOfNaturals ==
    ASSUME NEW f, NEW S, IsFiniteSet(S), \A x \in S : f[x] \in Nat, NEW x \in S
    PROVE  f[x] <= SumFunctionOnSet(f, S)
<1>1. SumFunctionOnSet(f, S) = f[x] + SumFunctionOnSet(f, S \ {x})
  BY SumTakes
<1>2. SumFunctionOnSet(f, S \ {x}) \in Nat
  BY FS_RemoveElement, SumNatural
<1> QED
  BY <1>1, <1>2

\* The sum over what h maps S to, one to one.
LEMMA SumOverImage ==
    ASSUME NEW f, NEW h, NEW S, IsFiniteSet(S), \A x \in S : f[h[x]] \in Int,
           \A x, y \in S : h[x] = h[y] => x = y
    PROVE  /\ IsFiniteSet({h[x] : x \in S})
           /\ SumFunctionOnSet(f, {h[x] : x \in S}) = SumFunctionOnSet([x \in S |-> f[h[x]]], S)
<1> DEFINE g == [x \in S |-> f[h[x]]]
           Im(T) == {h[x] : x \in T}
           Q == {T \in SUBSET S : /\ IsFiniteSet(Im(T))
                                  /\ SumFunctionOnSet(f, Im(T)) = SumFunctionOnSet(g, T)}
<1>1. {} \in Q
  <2>1. Im({}) = {}
    OBVIOUS
  <2> QED
    BY <2>1, SumOfNone, FS_EmptySet
<1>2. ASSUME NEW T \in SUBSET S, NEW x \in S \ T, T \in Q PROVE T \cup {x} \in Q
  <2>1. IsFiniteSet(T) /\ T \cup {x} \in SUBSET S
    BY FS_Subset
  <2>2. Im(T \cup {x}) = Im(T) \cup {h[x]} /\ h[x] \notin Im(T)
    OBVIOUS
  <2>3. IsFiniteSet(Im(T)) /\ \A y \in Im(T) \cup {h[x]} : f[y] \in Int
    BY <1>2
  <2>4. SumFunctionOnSet(f, Im(T) \cup {h[x]}) = f[h[x]] + SumFunctionOnSet(f, Im(T))
    BY <2>2, <2>3, SumAdds
  <2>5. \A y \in S : g[y] = f[h[y]] /\ g[y] \in Int
    OBVIOUS
  <2>6. SumFunctionOnSet(g, T \cup {x}) = g[x] + SumFunctionOnSet(g, T)
    <3> HIDE DEF g
    <3> QED
      BY <2>1, <2>5, SumAdds
  <2>7. IsFiniteSet(Im(T \cup {x}))
    <3>1. IsFiniteSet(Im(T) \cup {h[x]})
      BY <2>3, FS_AddElement
    <3> QED
      BY <2>2, <3>1
  <2>8. SumFunctionOnSet(f, Im(T)) = SumFunctionOnSet(g, T)
    BY <1>2
  <2>9. SumFunctionOnSet(f, Im(T \cup {x})) = SumFunctionOnSet(g, T \cup {x})
    BY <2>2, <2>4, <2>5, <2>6, <2>8
  <2> QED
    BY <2>1, <2>7, <2>9
<1>3. S \in Q
  <2> HIDE DEF Q
  <2> QED
    BY <1>1, <1>2, EverySubset
<1> QED
  BY <1>3

\* Summing group by group, h naming the group of an element.
LEMMA SumByGroup ==
    ASSUME NEW f, NEW h, NEW S, IsFiniteSet(S), NEW K, IsFiniteSet(K),
           \A x \in S : f[x] \in Int /\ h[x] \in K
    PROVE  SumFunctionOnSet(f, S)
             = SumFunctionOnSet([k \in K |-> SumFunctionOnSet(f, {x \in S : h[x] = k})], K)
<1> DEFINE g == [k \in K |-> SumFunctionOnSet(f, {x \in S : h[x] = k})]
           In(T) == {x \in S : h[x] \in T}
           Q == {T \in SUBSET K : SumFunctionOnSet(f, In(T)) = SumFunctionOnSet(g, T)}
<1>1. {} \in Q
  <2>1. In({}) = {}
    OBVIOUS
  <2> QED
    BY <2>1, SumOfNone
<1>2. \A T : IsFiniteSet(In(T))
  BY FS_Subset
<1>3. \A k \in K : g[k] = SumFunctionOnSet(f, In({k})) /\ g[k] \in Int
  <2> TAKE k \in K
  <2>1. In({k}) = {x \in S : h[x] = k}
    OBVIOUS
  <2>2. \A x \in In({k}) : f[x] \in Int
    OBVIOUS
  <2>3. SumFunctionOnSet(f, In({k})) \in Int
    <3> HIDE DEF In
    <3> QED
      BY <1>2, <2>2, SumTyped
  <2> QED
    BY <2>1, <2>3
<1> HIDE DEF g
<1>4. ASSUME NEW T \in SUBSET K, NEW k \in K \ T, T \in Q PROVE T \cup {k} \in Q
  <2>1. IsFiniteSet(T) /\ T \cup {k} \in SUBSET K
    BY FS_Subset
  <2>2. In(T \cup {k}) = In(T) \cup In({k}) /\ In(T) \cap In({k}) = {}
    OBVIOUS
  <2>3. \A x \in In(T) \cup In({k}) : f[x] \in Int
    OBVIOUS
  <2>4. SumFunctionOnSet(f, In(T) \cup In({k}))
          = SumFunctionOnSet(f, In(T)) + SumFunctionOnSet(f, In({k}))
    <3>1. In(T) \cap In({k}) = {}
      BY <2>2
    <3> HIDE DEF In
    <3> QED
      BY <1>2, <2>3, <3>1, SumOfUnion
  <2>5. SumFunctionOnSet(g, T \cup {k}) = g[k] + SumFunctionOnSet(g, T)
    BY <1>3, <2>1, SumAdds
  <2>6. SumFunctionOnSet(f, In(T)) = SumFunctionOnSet(g, T)
    BY <1>4
  <2>7. SumFunctionOnSet(g, T) \in Int /\ g[k] \in Int
    BY <1>3, <2>1, SumTyped
  <2>8. g[k] = SumFunctionOnSet(f, In({k}))
    BY <1>3
  <2>9. SumFunctionOnSet(f, In(T \cup {k})) = SumFunctionOnSet(g, T \cup {k})
    <3>1. SumFunctionOnSet(f, In(T \cup {k})) = SumFunctionOnSet(g, T) + g[k]
      BY <2>2, <2>4, <2>6, <2>8
    <3> HIDE DEF In
    <3> QED
      BY <2>5, <2>7, <3>1
  <2> QED
    BY <2>1, <2>9
<1>5. K \in Q
  <2> HIDE DEF Q
  <2> QED
    BY <1>1, <1>4, EverySubset
<1>6. In(K) = S
  OBVIOUS
<1> QED
  BY <1>5, <1>6 DEF g

(***************************************************************************)
(* The same two with every set and function named by its members, the      *)
(* form in which the provers can apply them.                               *)
(***************************************************************************)

LEMMA SumThrough ==
    ASSUME NEW f, NEW h, NEW S, IsFiniteSet(S), \A x \in S : f[h[x]] \in Int,
           \A x, y \in S : h[x] = h[y] => x = y,
           NEW I, \A y : y \in I <=> \E x \in S : y = h[x],
           NEW g, \A x \in S : g[x] = f[h[x]]
    PROVE  IsFiniteSet(I) /\ SumFunctionOnSet(f, I) = SumFunctionOnSet(g, S)
<1> DEFINE J == {h[x] : x \in S}  e == [x \in S |-> f[h[x]]]
<1>1. IsFiniteSet(J) /\ SumFunctionOnSet(f, J) = SumFunctionOnSet(e, S)
  BY SumOverImage
<1>2. I = J
  <2>1. \A y : y \in I <=> y \in J
    OBVIOUS
  <2> HIDE DEF J
  <2> QED
    BY <2>1
<1>3. \A x \in S : e[x] \in Int /\ e[x] = g[x]
  OBVIOUS
<1> HIDE DEF J, e
<1>4. SumFunctionOnSet(e, S) = SumFunctionOnSet(g, S)
  BY <1>3, SumSame
<1> QED
  BY <1>1, <1>2, <1>4

LEMMA SumInGroups ==
    ASSUME NEW f, NEW h, NEW S, IsFiniteSet(S), NEW K, IsFiniteSet(K),
           \A x \in S : f[x] \in Int /\ h[x] \in K,
           NEW group, \A k \in K : \A x : x \in group[k] <=> x \in S /\ h[x] = k,
           NEW g, \A k \in K : g[k] = SumFunctionOnSet(f, group[k])
    PROVE  SumFunctionOnSet(f, S) = SumFunctionOnSet(g, K)
<1> DEFINE In(k) == {x \in S : h[x] = k}  e == [k \in K |-> SumFunctionOnSet(f, In(k))]
<1>1. SumFunctionOnSet(f, S) = SumFunctionOnSet(e, K)
  BY SumByGroup
<1>2. ASSUME NEW k \in K PROVE group[k] = In(k) /\ SumFunctionOnSet(f, In(k)) \in Int
  <2>1. \A x : x \in group[k] <=> x \in In(k)
    OBVIOUS
  <2>2. IsFiniteSet(In(k)) /\ \A x \in In(k) : f[x] \in Int
    BY FS_Subset
  <2> HIDE DEF In
  <2>3. group[k] = In(k)
    <3> DEFINE a == group[k]  b == In(k)
    <3>1. \A x : x \in a <=> x \in b
      BY <2>1
    <3> HIDE DEF a, b
    <3>2. a = b
      BY <3>1
    <3> QED
      BY <3>2 DEF a, b
  <2> QED
    BY <2>2, <2>3, SumTyped
<1>3. \A k \in K : e[k] \in Int /\ e[k] = g[k]
  <2> HIDE DEF In
  <2> QED
    BY <1>2
<1> HIDE DEF e
<1> QED
  BY <1>1, <1>3, SumSame

\* Rows first or columns first.
LEMMA SumSwaps ==
    ASSUME NEW S, IsFiniteSet(S), NEW U, IsFiniteSet(U), NEW m \in [S -> [U -> Int]]
    PROVE  SumFunctionOnSet([x \in S |-> SumFunctionOnSet([y \in U |-> m[x][y]], U)], S)
             = SumFunctionOnSet([y \in U |-> SumFunctionOnSet([x \in S |-> m[x][y]], S)], U)
<1> DEFINE Row(x) == [y \in U |-> m[x][y]]
           Col(y) == [x \in S |-> m[x][y]]
           rows == [x \in S |-> SumFunctionOnSet(Row(x), U)]
           Cols(T) == [y \in U |-> SumFunctionOnSet(Col(y), T)]
           Q == {T \in SUBSET S : SumFunctionOnSet(rows, T) = SumFunctionOnSet(Cols(T), U)}
<1>1. {} \in Q
  <2>1. SumFunctionOnSet(Cols({}), U) = 0 * Cardinality(U)
    <3>1. \A y \in U : Cols({})[y] = 0
      BY SumOfNone
    <3> HIDE DEF Cols
    <3> QED
      BY <3>1, SumOfConstant
  <2>2. Cardinality(U) \in Nat
    BY FS_CardinalityType
  <2>3. SumFunctionOnSet(Cols({}), U) = 0
    <3>1. 0 * Cardinality(U) = 0
      BY <2>2
    <3> HIDE DEF Cols
    <3> QED
      BY <2>1, <3>1
  <2> QED
    BY <2>3, SumOfNone
<1>2. \A x \in S : rows[x] = SumFunctionOnSet(Row(x), U) /\ rows[x] \in Int
  <2> TAKE x \in S
  <2>1. \A y \in U : Row(x)[y] \in Int
    OBVIOUS
  <2>2. SumFunctionOnSet(Row(x), U) \in Int
    <3> HIDE DEF Row
    <3> QED
      BY <2>1, SumTyped
  <2> QED
    BY <2>2
<1>3. ASSUME NEW T \in SUBSET S
      PROVE  \A y \in U : Cols(T)[y] = SumFunctionOnSet(Col(y), T) /\ Cols(T)[y] \in Int
  <2> TAKE y \in U
  <2>1. IsFiniteSet(T) /\ \A x \in T : Col(y)[x] \in Int
    BY FS_Subset
  <2>2. SumFunctionOnSet(Col(y), T) \in Int
    <3> HIDE DEF Col
    <3> QED
      BY <2>1, SumTyped
  <2> QED
    BY <2>2
<1>4. ASSUME NEW T \in SUBSET S, NEW a \in S \ T, T \in Q PROVE T \cup {a} \in Q
  <2>1. IsFiniteSet(T) /\ T \cup {a} \in SUBSET S
    BY FS_Subset
  <2>2. SumFunctionOnSet(rows, T \cup {a}) = rows[a] + SumFunctionOnSet(rows, T)
    <3> HIDE DEF rows
    <3> QED
      BY <1>2, <2>1, SumAdds
  <2>3. \A y \in U : Cols(T \cup {a})[y] = Row(a)[y] + Cols(T)[y]
    <3> TAKE y \in U
    <3>1. \A x \in T \cup {a} : Col(y)[x] \in Int
      OBVIOUS
    <3>2. SumFunctionOnSet(Col(y), T \cup {a}) = Col(y)[a] + SumFunctionOnSet(Col(y), T)
      <4> HIDE DEF Col
      <4> QED
        BY <2>1, <3>1, SumAdds
    <3>3. Col(y)[a] = Row(a)[y]
      OBVIOUS
    <3> QED
      BY <3>2, <3>3
  <2>4. \A y \in U : Row(a)[y] \in Int
    OBVIOUS
  <2> DEFINE c == Cols(T)
             d == Cols(T \cup {a})
             r == Row(a)
  <2>5. \A y \in U : r[y] \in Int /\ c[y] \in Int /\ d[y] = r[y] + c[y]
    BY <1>3, <2>3, <2>4
  <2>6. SumFunctionOnSet(rows, T) = SumFunctionOnSet(c, U)
    BY <1>4
  <2>7. rows[a] = SumFunctionOnSet(r, U)
    BY <1>2
  <2>8. SumFunctionOnSet(d, U) = SumFunctionOnSet(r, U) + SumFunctionOnSet(c, U)
    <3> HIDE DEF c, d, r
    <3> DEFINE e == [y \in U |-> r[y] + c[y]]
    <3>1. SumFunctionOnSet(e, U) = SumFunctionOnSet(r, U) + SumFunctionOnSet(c, U)
      BY <2>5, SumOfBoth
    <3>2. \A y \in U : d[y] \in Int /\ d[y] = e[y]
      BY <2>5
    <3> HIDE DEF e
    <3>3. SumFunctionOnSet(d, U) = SumFunctionOnSet(e, U)
      BY <3>2, SumSame
    <3> QED
      BY <3>1, <3>3
  <2>9. SumFunctionOnSet(rows, T \cup {a}) = SumFunctionOnSet(d, U)
    <3> HIDE DEF c, d, r, rows
    <3> QED
      BY <2>2, <2>6, <2>7, <2>8
  <2> QED
    BY <2>1, <2>9
<1>5. S \in Q
  <2> HIDE DEF Q
  <2> QED
    BY <1>1, <1>4, EverySubset
<1> QED
  BY <1>5

\* p is the number of D before d.
Prior(D, p, d) == p \in D /\ p < d /\ \A q \in D : q < d => q <= p
Upto(D, n) == {d \in D : d <= n}

LEMMA UptoPrior ==
    ASSUME NEW D \in SUBSET Nat, NEW d \in D, NEW p, Prior(D, p, d)
    PROVE  Upto(D, d) = Upto(D, p) \cup {d} /\ d \notin Upto(D, p)
<1>1. d \in Nat /\ p \in D /\ p \in Nat /\ p < d
  BY DEF Prior
<1>2. ASSUME NEW q \in D PROVE (q <= d <=> q <= p \/ q = d)
  <2>1. q \in Nat /\ (q < d => q <= p)
    BY DEF Prior
  <2> QED
    BY <1>1, <2>1
<1>3. ~(d <= p)
  BY <1>1
<1> QED
  BY <1>2, <1>3 DEF Upto

\* Steps from each number of D to the next add up to the way from the first to the last.
LEMMA SumTelescopes ==
    ASSUME NEW D \in SUBSET Nat, IsFiniteSet(D), NEW v, \A d \in D : v[d] \in Int,
           NEW low \in D, \A d \in D : low <= d, NEW step, step[low] = 0,
           \A d \in D \ {low} : \E p : Prior(D, p, d) /\ step[d] = v[d] - v[p],
           NEW high \in D, \A d \in D : d <= high
    PROVE  SumFunctionOnSet(step, D) = v[high] - v[low]
<1> DEFINE Bad == {d \in D : SumFunctionOnSet(step, Upto(D, d)) # v[d] - v[low]}
<1>1. \A n : IsFiniteSet(Upto(D, n)) /\ Upto(D, n) \in SUBSET D
  BY FS_Subset DEF Upto
<1>2. ASSUME NEW d \in D PROVE step[d] \in Int
  <2>1. CASE d = low
    BY <2>1
  <2>2. CASE d # low
    <3>1. PICK p : Prior(D, p, d) /\ step[d] = v[d] - v[p]
      BY <2>2
    <3>2. v[p] \in Int /\ v[d] \in Int
      BY <3>1 DEF Prior
    <3> QED
      BY <3>1, <3>2
  <2> QED
    BY <2>1, <2>2
<1>3. Bad = {}
  <2> SUFFICES ASSUME Bad # {} PROVE FALSE
    OBVIOUS
  <2>1. PICK t \in Bad : \A d \in Bad : t <= d
    <3>1. Bad \in SUBSET Nat
      OBVIOUS
    <3> HIDE DEF Bad
    <3> QED
      BY <3>1, LeastNatural
  <2>2. CASE t = low
    <3>1. Upto(D, low) = {} \cup {low}
      <4>1. \A d \in D : d <= low <=> d = low
        <5>1. \A d \in D : d \in Nat /\ low \in Nat /\ low <= d
          OBVIOUS
        <5> QED
          BY <5>1
      <4> QED
        BY <4>1 DEF Upto
    <3>2. SumFunctionOnSet(step, {} \cup {low}) = step[low] + SumFunctionOnSet(step, {})
      BY <1>2, FS_EmptySet, SumAdds
    <3>3. v[low] \in Int
      OBVIOUS
    <3>4. SumFunctionOnSet(step, Upto(D, low)) = 0 /\ v[low] - v[low] = 0
      BY <3>1, <3>2, <3>3, SumOfNone
    <3> QED
      BY <2>2, <3>4
  <2>3. CASE t # low
    <3>1. PICK p : Prior(D, p, t) /\ step[t] = v[t] - v[p]
      BY <2>3
    <3>2. Upto(D, t) = Upto(D, p) \cup {t} /\ t \notin Upto(D, p)
      BY <3>1, UptoPrior
    <3>3. p \in D \ Bad
      <4>1. p \in D /\ p \in Nat /\ t \in Nat /\ p < t
        BY <3>1 DEF Prior
      <4>2. ~(t <= p)
        BY <4>1
      <4> HIDE DEF Bad
      <4> QED
        BY <2>1, <4>1, <4>2
    <3>4. SumFunctionOnSet(step, Upto(D, p)) = v[p] - v[low]
      BY <3>3
    <3>5. SumFunctionOnSet(step, Upto(D, p) \cup {t}) = step[t] + SumFunctionOnSet(step, Upto(D, p))
      BY <1>1, <1>2, <3>2, SumAdds
    <3>6. v[p] \in Int /\ v[low] \in Int /\ v[t] \in Int
      BY <3>3
    <3>7. SumFunctionOnSet(step, Upto(D, t)) = (v[t] - v[p]) + (v[p] - v[low])
      BY <3>1, <3>2, <3>4, <3>5
    <3>8. (v[t] - v[p]) + (v[p] - v[low]) = v[t] - v[low]
      BY <3>6
    <3> QED
      BY <3>7, <3>8
  <2> QED
    BY <2>2, <2>3
<1>4. Upto(D, high) = D
  BY DEF Upto
<1> QED
  BY <1>3, <1>4

=============================================================================
