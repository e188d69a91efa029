------------------------------ MODULE FoldTheorems ------------------------------
(***************************************************************************)
(* Facts about the data the modules are built from, that several proofs    *)
(* need: sums and folds over finite sets, least and greatest integers,     *)
(* quotients, flattened and filtered sequences, and the history ring.      *)
(* Induction is stated of a set of sets, so that it can be cited: a set is *)
(* good if it is good without any one element.                             *)
(***************************************************************************)
EXTENDS FiniteSetsExt, HistoryRing, FiniteSetTheorems, NaturalsInduction,
        WellFoundedInduction, TLAPS

(* Every nonempty set of naturals has a least element. *)
LEMMA LeastNatural ==
    ASSUME NEW S \in SUBSET Nat, S # {}
    PROVE  \E x \in S : \A y \in S : x <= y
<1> DEFINE R == OpToRel(<, Nat)
<1>1. IsWellFoundedOn(R, Nat)
  BY NatLessThanWellFounded
<1>2. ASSUME NEW x \in Nat, NEW y \in Nat, <<y, x>> \notin R
      PROVE  x <= y
  BY <1>2 DEF OpToRel
<1> HIDE DEF R
<1>3. \E x \in S : \A y \in S : <<y, x>> \notin R
  BY <1>1, WFMin
<1> QED BY <1>2, <1>3

(* What holds of a set whenever it holds of the set without any one        *)
(* element holds of every subset of a finite set.                          *)
LEMMA SubsetInduction ==
    ASSUME NEW S, IsFiniteSet(S), NEW Good \in SUBSET (SUBSET S),
           \A T \in SUBSET S : (\A x \in T : T \ {x} \in Good) => T \in Good
    PROVE  \A T \in SUBSET S : T \in Good
<1>1. ASSUME NEW T \in SUBSET S PROVE IsFiniteSet(T) /\ Cardinality(T) \in Nat
  BY FS_Subset, FS_CardinalityType
<1> DEFINE Sizes == {n \in Nat : \E T \in SUBSET S : T \notin Good /\ Cardinality(T) = n}
<1>2. SUFFICES ASSUME Sizes # {} PROVE FALSE
  BY <1>1
<1>3. PICK n \in Sizes : \A m \in Sizes : n <= m
  <2> HIDE DEF Sizes
  <2>1. Sizes \in SUBSET Nat
    BY DEF Sizes
  <2> QED BY <1>2, <2>1, LeastNatural
<1>4. PICK T \in SUBSET S : T \notin Good /\ Cardinality(T) = n
  BY <1>3
<1>5. ASSUME NEW x \in T PROVE T \ {x} \in Good
  <2>1. Cardinality(T \ {x}) = n - 1 /\ Cardinality(T \ {x}) \in Nat
    BY <1>1, <1>4, FS_RemoveElement
  <2> QED BY <1>3, <2>1
<1> QED BY <1>4, <1>5
-----------------------------------------------------------------------------
(* A fold over a set takes the elements one by one, each the chosen one of *)
(* what is left.  G is the folding step, as a function.                    *)
Chosen(T) == CHOOSE x \in T : TRUE

Folding(h, base, G, Sets) ==
    h = [T \in Sets |-> IF T = {} THEN base
                        ELSE G[<<Chosen(T), h[T \ {Chosen(T)}]>>]]

UpTo(S, n) == {T \in SUBSET S : Cardinality(T) <= n}

(* The recursion of a fold over a finite set has a solution. *)
LEMMA FoldingExists ==
    ASSUME NEW base, NEW G, NEW S, IsFiniteSet(S)
    PROVE  \E h : Folding(h, base, G, SUBSET S)
<1>1. ASSUME NEW T \in SUBSET S
      PROVE  IsFiniteSet(T) /\ Cardinality(T) \in Nat /\ (Cardinality(T) = 0 <=> T = {})
  BY FS_Subset, FS_CardinalityType, FS_EmptySet
<1>2. ASSUME NEW T \in SUBSET S, T # {}
      PROVE  /\ Chosen(T) \in T
             /\ T \ {Chosen(T)} \in SUBSET S
             /\ Cardinality(T \ {Chosen(T)}) = Cardinality(T) - 1
  <2>1. Chosen(T) \in T
    BY <1>2 DEF Chosen
  <2>2. Cardinality(T \ {Chosen(T)}) = Cardinality(T) - 1
    BY <1>1, <2>1, FS_RemoveElement
  <2> QED BY <2>1, <2>2
<1> DEFINE Unsolved == {n \in Nat : ~ \E h : Folding(h, base, G, UpTo(S, n))}
<1>3. Unsolved = {}
  <2>1. SUFFICES ASSUME Unsolved # {} PROVE FALSE
    OBVIOUS
  <2>2. PICK n \in Unsolved : \A m \in Unsolved : n <= m
    <3> HIDE DEF Unsolved
    <3>1. Unsolved \in SUBSET Nat
      BY DEF Unsolved
    <3> QED BY <2>1, <3>1, LeastNatural
  <2>3. CASE n = 0
    <3>1. UpTo(S, 0) = {{}}
      <4>1. \A T \in UpTo(S, 0) : T = {}
        BY <1>1 DEF UpTo
      <4>2. {} \in UpTo(S, 0)
        BY FS_EmptySet DEF UpTo
      <4> QED BY <4>1, <4>2
    <3> DEFINE h == [T \in {{}} |-> base]
    <3>2. Folding(h, base, G, {{}})
      <4>1. h = [T \in {{}} |-> IF T = {} THEN base ELSE G[<<Chosen(T), h[T \ {Chosen(T)}]>>]]
        OBVIOUS
      <4> QED BY <4>1 DEF Folding
    <3> HIDE DEF h
    <3> QED BY <2>2, <2>3, <3>1, <3>2
  <2>4. CASE n # 0
    <3>1. n - 1 \in Nat /\ n - 1 \notin Unsolved
      BY <2>2, <2>4
    <3>2. PICK g : Folding(g, base, G, UpTo(S, n - 1))
      BY <3>1
    <3> DEFINE Step(T) == IF T = {} THEN base ELSE G[<<Chosen(T), g[T \ {Chosen(T)}]>>]
               h == [T \in UpTo(S, n) |-> Step(T)]
    <3>3. ASSUME NEW T \in UpTo(S, n), T # {}
          PROVE  T \ {Chosen(T)} \in UpTo(S, n - 1) /\ T \ {Chosen(T)} \in UpTo(S, n)
      BY <1>1, <1>2, <3>3 DEF UpTo
    <3>4. \A U \in UpTo(S, n - 1) : g[U] = Step(U)
      BY <3>2 DEF Folding
    <3>5. \A U \in UpTo(S, n) : h[U] = Step(U)
      OBVIOUS
    <3>6. UpTo(S, n - 1) \subseteq UpTo(S, n)
      BY <1>1 DEF UpTo
    <3>7. ASSUME NEW T \in UpTo(S, n)
          PROVE  Step(T) = IF T = {} THEN base ELSE G[<<Chosen(T), h[T \ {Chosen(T)}]>>]
      <4>1. CASE T = {}
        BY <4>1
      <4>2. CASE T # {}
        <5>1. g[T \ {Chosen(T)}] = h[T \ {Chosen(T)}]
          <6> HIDE DEF h, Step
          <6> QED BY <4>2, <3>3, <3>4, <3>5
        <5> QED BY <4>2, <5>1
      <4> QED BY <4>1, <4>2
    <3>8. h = [T \in UpTo(S, n) |-> IF T = {} THEN base ELSE G[<<Chosen(T), h[T \ {Chosen(T)}]>>]]
      BY <3>7
    <3>9. Folding(h, base, G, UpTo(S, n))
      BY <3>8 DEF Folding
    <3> HIDE DEF h
    <3> QED BY <2>2, <3>9
  <2> QED BY <2>3, <2>4
<1>4. Cardinality(S) \in Nat
  BY FS_CardinalityType
<1>5. UpTo(S, Cardinality(S)) = SUBSET S
  BY FS_Subset DEF UpTo
<1>6. \A n \in Nat : \E h : Folding(h, base, G, UpTo(S, n))
  BY <1>3
<1> HIDE DEF Unsolved
<1> QED BY <1>4, <1>5, <1>6

-----------------------------------------------------------------------------
(* The recursion of a sum. *)
Summing(h, f, S) ==
    h = [T \in SUBSET S |-> IF T = {} THEN 0
                            ELSE f[Chosen(T)] + h[T \ {Chosen(T)}]]

LEMMA SumIsSumming ==
    ASSUME NEW f, NEW S, IsFiniteSet(S), \A x \in S : f[x] \in Int
    PROVE  \E h : Summing(h, f, S) /\ SumFunctionOnSet(f, S) = h[S]
<1> DEFINE G == [p \in S \X Int |-> f[p[1]] + p[2]]
<1>1. PICK k : Folding(k, 0, G, SUBSET S)
  <2> HIDE DEF G
  <2> QED BY FoldingExists
<1> DEFINE Good == {T \in SUBSET S : k[T] \in Int}
<1>2. ASSUME NEW T \in SUBSET S, T # {}
      PROVE  Chosen(T) \in T /\ T \ {Chosen(T)} \in SUBSET S
  BY <1>2 DEF Chosen
<1>3. ASSUME NEW T \in SUBSET S
      PROVE  k[T] = IF T = {} THEN 0 ELSE G[<<Chosen(T), k[T \ {Chosen(T)}]>>]
  <2> HIDE DEF G
  <2> QED BY <1>1 DEF Folding
<1>4. ASSUME NEW x \in S, NEW n \in Int
      PROVE  G[<<x, n>>] = f[x] + n /\ G[<<x, n>>] \in Int
  OBVIOUS
<1> HIDE DEF G
<1>5. \A T \in SUBSET S : T \in Good
  <2>1. ASSUME NEW T \in SUBSET S, \A x \in T : T \ {x} \in Good PROVE T \in Good
    <3>1. CASE T = {}
      <4>1. k[T] = 0
        BY <1>3, <3>1
      <4> QED BY <4>1
    <3>2. CASE T # {}
      <4>1. Chosen(T) \in S /\ k[T \ {Chosen(T)}] \in Int
        BY <1>2, <2>1, <3>2
      <4> QED BY <1>3, <1>4, <3>2, <4>1
    <3> QED BY <3>1, <3>2
  <2>2. Good \in SUBSET (SUBSET S)
    OBVIOUS
  <2> HIDE DEF Good
  <2> QED BY <2>1, <2>2, SubsetInduction
<1>6. Summing(k, f, S)
  <2>1. k = [T \in SUBSET S |-> IF T = {} THEN 0
                                ELSE G[<<Chosen(T), k[T \ {Chosen(T)}]>>]]
    BY <1>1 DEF Folding
  <2>2. ASSUME NEW T \in SUBSET S, T # {}
        PROVE  G[<<Chosen(T), k[T \ {Chosen(T)}]>>] = f[Chosen(T)] + k[T \ {Chosen(T)}]
    BY <1>2, <1>4, <1>5, <2>2
  <2> QED BY <2>1, <2>2 DEF Summing
<1> DEFINE iter == CHOOSE h : Summing(h, f, S)
<1>7. Summing(iter, f, S)
  BY <1>6
<1>8. SumFunctionOnSet(f, S) = iter[S]
  BY DEF SumFunctionOnSet, FoldFunctionOnSet, MapThenFoldSet, Summing, Chosen
<1> HIDE DEF iter
<1> QED BY <1>7, <1>8

(* It has one, on the sets where two summands agree.                       *)
LEMMA SummingIsUnique ==
    ASSUME NEW f, NEW e, NEW S, IsFiniteSet(S), NEW R \in SUBSET S,
           \A x \in R : e[x] = f[x],
           NEW h, Summing(h, f, S),
           NEW g, Summing(g, e, R)
    PROVE  h[R] = g[R]
<1> DEFINE Good == {T \in SUBSET R : h[T] = g[T]}
<1>1. IsFiniteSet(R)
  BY FS_Subset
<1>2. ASSUME NEW T \in SUBSET R, \A x \in T : T \ {x} \in Good
      PROVE  T \in Good
  <2>1. /\ h[T] = IF T = {} THEN 0 ELSE f[Chosen(T)] + h[T \ {Chosen(T)}]
        /\ g[T] = IF T = {} THEN 0 ELSE e[Chosen(T)] + g[T \ {Chosen(T)}]
    BY DEF Summing
  <2>2. CASE T = {}
    BY <2>1, <2>2
  <2>3. CASE T # {}
    <3>1. Chosen(T) \in T
      BY <2>3 DEF Chosen
    <3> QED BY <1>2, <2>1, <2>3, <3>1
  <2> QED BY <2>2, <2>3
<1>3. Good \in SUBSET (SUBSET R)
  OBVIOUS
<1>4. \A T \in SUBSET R : T \in Good
  <2> HIDE DEF Good
  <2> QED BY <1>1, <1>2, <1>3, SubsetInduction
<1>5. R \in SUBSET R
  OBVIOUS
<1> QED BY <1>4, <1>5

LEMMA SumEmpty ==
    ASSUME NEW f
    PROVE  SumFunctionOnSet(f, {}) = 0
<1>1. IsFiniteSet({})
  BY FS_EmptySet
<1>2. PICK h : Summing(h, f, {}) /\ SumFunctionOnSet(f, {}) = h[{}]
  BY <1>1, SumIsSumming
<1> QED BY <1>2 DEF Summing

(* A sum depends on the values summed only. *)
LEMMA SumSame ==
    ASSUME NEW f, NEW g, NEW S, IsFiniteSet(S),
           \A x \in S : f[x] \in Int /\ g[x] = f[x]
    PROVE  SumFunctionOnSet(g, S) = SumFunctionOnSet(f, S)
<1>1. PICK h : Summing(h, f, S) /\ SumFunctionOnSet(f, S) = h[S]
  BY SumIsSumming
<1>2. PICK k : Summing(k, g, S) /\ SumFunctionOnSet(g, S) = k[S]
  BY SumIsSumming
<1>3. h[S] = k[S]
  <2>1. S \in SUBSET S
    OBVIOUS
  <2> QED BY <1>1, <1>2, <2>1, SummingIsUnique
<1> QED BY <1>1, <1>2, <1>3

(* A sum is the chosen element's value and the sum of the others. *)
LEMMA SumChosen ==
    ASSUME NEW f, NEW S, IsFiniteSet(S), \A x \in S : f[x] \in Int, S # {}
    PROVE  /\ Chosen(S) \in S
           /\ SumFunctionOnSet(f, S)
                = f[Chosen(S)] + SumFunctionOnSet(f, S \ {Chosen(S)})
<1>1. Chosen(S) \in S
  BY DEF Chosen
<1>2. PICK R : R = S \ {Chosen(S)}
  OBVIOUS
<1>3. IsFiniteSet(R) /\ \A x \in R : f[x] \in Int
  BY <1>2, FS_Subset
<1>4. PICK h : Summing(h, f, S) /\ SumFunctionOnSet(f, S) = h[S]
  BY SumIsSumming
<1>5. PICK k : Summing(k, f, R) /\ SumFunctionOnSet(f, R) = k[R]
  BY <1>3, SumIsSumming
<1>6. h[R] = k[R]
  <2>1. PICK e : e = f
    OBVIOUS
  <2>2. R \in SUBSET S /\ Summing(k, e, R) /\ \A x \in R : e[x] = f[x]
    BY <1>2, <1>5, <2>1
  <2> QED BY <1>4, <2>2, SummingIsUnique
<1>7. h[S] = f[Chosen(S)] + h[R]
  BY <1>2, <1>4 DEF Summing
<1> QED BY <1>1, <1>2, <1>4, <1>5, <1>6, <1>7

(* A sum of integers is an integer, and so is the sum of a part of them.   *)
LEMMA SumInt ==
    ASSUME NEW f, NEW S, IsFiniteSet(S), \A x \in S : f[x] \in Int
    PROVE  \A T \in SUBSET S : IsFiniteSet(T) /\ SumFunctionOnSet(f, T) \in Int
<1> DEFINE Good == {T \in SUBSET S : SumFunctionOnSet(f, T) \in Int}
<1>1. ASSUME NEW T \in SUBSET S PROVE IsFiniteSet(T) /\ \A x \in T : f[x] \in Int
  BY FS_Subset
<1>2. ASSUME NEW T \in SUBSET S, \A x \in T : T \ {x} \in Good
      PROVE  T \in Good
  <2>1. CASE T = {}
    BY <2>1, SumEmpty
  <2>2. CASE T # {}
    <3>1. /\ Chosen(T) \in T
          /\ SumFunctionOnSet(f, T)
               = f[Chosen(T)] + SumFunctionOnSet(f, T \ {Chosen(T)})
      BY <1>1, <2>2, SumChosen
    <3> QED BY <1>2, <3>1
  <2> QED BY <2>1, <2>2
<1>3. Good \in SUBSET (SUBSET S)
  OBVIOUS
<1>4. \A T \in SUBSET S : T \in Good
  <2> HIDE DEF Good
  <2> QED BY <1>2, <1>3, SubsetInduction
<1> QED BY <1>1, <1>4

(* A sum of naturals, or of a part of them, is a natural. *)
LEMMA SumNat ==
    ASSUME NEW f, NEW S, IsFiniteSet(S), \A x \in S : f[x] \in Nat
    PROVE  \A T \in SUBSET S : SumFunctionOnSet(f, T) \in Nat
<1> DEFINE Good == {T \in SUBSET S : SumFunctionOnSet(f, T) \in Nat}
<1>1. ASSUME NEW T \in SUBSET S, \A x \in T : T \ {x} \in Good
      PROVE  T \in Good
  <2>1. CASE T = {}
    BY <2>1, SumEmpty
  <2>2. CASE T # {}
    <3>1. IsFiniteSet(T) /\ \A x \in T : f[x] \in Int
      BY FS_Subset
    <3>2. /\ Chosen(T) \in T
          /\ SumFunctionOnSet(f, T)
               = f[Chosen(T)] + SumFunctionOnSet(f, T \ {Chosen(T)})
      BY <2>2, <3>1, SumChosen
    <3> QED BY <1>1, <3>2
  <2> QED BY <2>1, <2>2
<1>2. Good \in SUBSET (SUBSET S)
  OBVIOUS
<1>3. \A T \in SUBSET S : T \in Good
  <2> HIDE DEF Good
  <2> QED BY <1>1, <1>2, SubsetInduction
<1> QED BY <1>3

(* Any element may be taken out of a sum, not the chosen one only.         *)
LEMMA SumTake ==
    ASSUME NEW f, NEW S, IsFiniteSet(S), \A x \in S : f[x] \in Int, NEW t \in S
    PROVE  /\ SumFunctionOnSet(f, S) \in Int /\ SumFunctionOnSet(f, S \ {t}) \in Int
           /\ SumFunctionOnSet(f, S) = f[t] + SumFunctionOnSet(f, S \ {t})
<1> DEFINE Takes(T, x) == SumFunctionOnSet(f, T) = f[x] + SumFunctionOnSet(f, T \ {x})
           Good == {T \in SUBSET S : \A x \in T : Takes(T, x)}
<1>1. ASSUME NEW T \in SUBSET S
      PROVE  /\ IsFiniteSet(T) /\ \A x \in T : f[x] \in Int
             /\ SumFunctionOnSet(f, T) \in Int
  BY SumInt
<1>2. ASSUME NEW T \in SUBSET S, \A x \in T : T \ {x} \in Good, NEW x \in T
      PROVE  Takes(T, x)
  <2>1. PICK c : c = Chosen(T)
    OBVIOUS
  <2>2. c \in T /\ Takes(T, c)
    BY <1>1, <2>1, SumChosen
  <2>3. CASE c = x
    BY <2>2, <2>3
  <2>4. CASE c # x
    <3> DEFINE rest == SumFunctionOnSet(f, (T \ {c}) \ {x})
    <3>1. (T \ {c}) \ {x} = (T \ {x}) \ {c} /\ (T \ {c}) \ {x} \in SUBSET S
      OBVIOUS
    <3>2. Takes(T \ {c}, x) /\ Takes(T \ {x}, c)
      BY <1>2, <2>2, <2>4
    <3>3. /\ SumFunctionOnSet(f, T) = f[c] + SumFunctionOnSet(f, T \ {c})
          /\ SumFunctionOnSet(f, T \ {c}) = f[x] + rest
          /\ SumFunctionOnSet(f, T \ {x}) = f[c] + rest
      BY <2>2, <3>1, <3>2
    <3>4. rest \in Int /\ f[c] \in Int /\ f[x] \in Int
      BY <1>1, <2>2, <3>1
    <3> HIDE DEF rest
    <3> QED BY <3>3, <3>4
  <2> QED BY <2>3, <2>4
<1> HIDE DEF Takes
<1>3. \A T \in SUBSET S : T \in Good
  <2>1. Good \in SUBSET (SUBSET S)
    OBVIOUS
  <2>2. \A T \in SUBSET S : (\A x \in T : T \ {x} \in Good) => T \in Good
    BY <1>2
  <2> HIDE DEF Good
  <2> QED BY <2>1, <2>2, SubsetInduction
<1>4. S \in SUBSET S /\ S \ {t} \in SUBSET S
  OBVIOUS
<1> QED BY <1>1, <1>3, <1>4 DEF Takes

(* One value of several changes. *)
LEMMA SumChange ==
    ASSUME NEW f, NEW g, NEW S, IsFiniteSet(S), NEW t \in S,
           \A x \in S : f[x] \in Int, g[t] \in Int,
           \A x \in S : x # t => g[x] = f[x]
    PROVE  /\ SumFunctionOnSet(f, S) \in Int
           /\ SumFunctionOnSet(g, S) = SumFunctionOnSet(f, S) + (g[t] - f[t])
<1>1. \A x \in S : g[x] \in Int
  OBVIOUS
<1>2. SumFunctionOnSet(g, S \ {t}) = SumFunctionOnSet(f, S \ {t})
  <2>1. IsFiniteSet(S \ {t})
    BY FS_RemoveElement
  <2> QED BY <2>1, SumSame
<1>3. /\ SumFunctionOnSet(f, S) \in Int /\ SumFunctionOnSet(f, S \ {t}) \in Int
      /\ SumFunctionOnSet(f, S) = f[t] + SumFunctionOnSet(f, S \ {t})
  BY SumTake
<1>4. SumFunctionOnSet(g, S) = g[t] + SumFunctionOnSet(g, S \ {t})
  BY <1>1, SumTake
<1> QED BY <1>2, <1>3, <1>4

(* A sum of sums. *)
LEMMA SumPlus ==
    ASSUME NEW f, NEW g, NEW h, NEW S, IsFiniteSet(S),
           \A x \in S : f[x] \in Int /\ g[x] \in Int /\ h[x] = f[x] + g[x]
    PROVE  /\ SumFunctionOnSet(f, S) \in Int /\ SumFunctionOnSet(g, S) \in Int
           /\ SumFunctionOnSet(h, S) = SumFunctionOnSet(f, S) + SumFunctionOnSet(g, S)
<1> DEFINE Plus(T) == /\ SumFunctionOnSet(f, T) \in Int /\ SumFunctionOnSet(g, T) \in Int
                      /\ SumFunctionOnSet(h, T)
                            = SumFunctionOnSet(f, T) + SumFunctionOnSet(g, T)
           Good == {T \in SUBSET S : Plus(T)}
<1>1. ASSUME NEW T \in SUBSET S, \A x \in T : T \ {x} \in Good
      PROVE  T \in Good
  <2>1. CASE T = {}
    BY <2>1, SumEmpty
  <2>2. CASE T # {}
    <3>1. PICK x \in T : TRUE
      BY <2>2
    <3>2. /\ IsFiniteSet(T)
          /\ \A y \in T : f[y] \in Int /\ g[y] \in Int /\ h[y] \in Int
          /\ h[x] = f[x] + g[x]
      BY FS_Subset
    <3>3. /\ SumFunctionOnSet(f, T) = f[x] + SumFunctionOnSet(f, T \ {x})
          /\ SumFunctionOnSet(g, T) = g[x] + SumFunctionOnSet(g, T \ {x})
          /\ SumFunctionOnSet(h, T) = h[x] + SumFunctionOnSet(h, T \ {x})
      BY <3>2, SumTake
    <3>4. f[x] \in Int /\ g[x] \in Int /\ Plus(T \ {x})
      BY <1>1, <3>2
    <3> QED BY <3>2, <3>3, <3>4
  <2> QED BY <2>1, <2>2
<1> HIDE DEF Plus
<1>2. Good \in SUBSET (SUBSET S)
  OBVIOUS
<1>3. S \in Good
  <2> HIDE DEF Good
  <2>1. \A T \in SUBSET S : T \in Good
    BY <1>1, <1>2, SubsetInduction
  <2> QED BY <2>1
<1> QED BY <1>3 DEF Plus

(* Nothing adds up to nothing, whatever is counted. *)
LEMMA SumZero ==
    ASSUME NEW f, NEW S, IsFiniteSet(S), \A x \in S : f[x] = 0
    PROVE  SumFunctionOnSet(f, S) = 0
<1>1. PICK n : n = SumFunctionOnSet(f, S)
  OBVIOUS
<1>2. \A x \in S : f[x] \in Int /\ f[x] \in Int /\ f[x] = f[x] + f[x]
  OBVIOUS
<1>3. n \in Int /\ n = n + n
  BY <1>1, <1>2, SumPlus
<1>4. n = 0
  <2>1. \A k \in Int : k = k + k => k = 0
    OBVIOUS
  <2> QED BY <1>3, <2>1
<1> QED BY <1>1, <1>4

(* Counting the elements of a set one by one. *)
LEMMA SumOnes ==
    ASSUME NEW f, NEW S, IsFiniteSet(S), \A x \in S : f[x] = 1
    PROVE  SumFunctionOnSet(f, S) = Cardinality(S)
<1> DEFINE Good == {T \in SUBSET S : SumFunctionOnSet(f, T) = Cardinality(T)}
<1>1. ASSUME NEW T \in SUBSET S, \A x \in T : T \ {x} \in Good
      PROVE  T \in Good
  <2>0. IsFiniteSet(T) /\ Cardinality(T) \in Nat /\ \A x \in T : f[x] \in Int
    BY FS_Subset, FS_CardinalityType
  <2>1. CASE T = {}
    BY <2>1, SumEmpty, FS_EmptySet
  <2>2. CASE T # {}
    <3>1. PICK x \in T : TRUE
      BY <2>2
    <3>2. SumFunctionOnSet(f, T) = f[x] + SumFunctionOnSet(f, T \ {x})
      BY <2>0, SumTake
    <3>3. Cardinality(T \ {x}) = Cardinality(T) - 1
      BY <2>0, FS_RemoveElement
    <3>4. f[x] = 1 /\ SumFunctionOnSet(f, T \ {x}) = Cardinality(T \ {x})
      BY <1>1
    <3> QED BY <2>0, <3>2, <3>3, <3>4
  <2> QED BY <2>1, <2>2
<1>2. Good \in SUBSET (SUBSET S)
  OBVIOUS
<1>3. \A T \in SUBSET S : T \in Good
  <2> HIDE DEF Good
  <2> QED BY <1>1, <1>2, SubsetInduction
<1> QED BY <1>3

(* Elements that count for nothing may be left out. *)
LEMMA SumPart ==
    ASSUME NEW f, NEW S, IsFiniteSet(S), NEW A \in SUBSET S,
           \A x \in S : f[x] \in Int /\ (x \notin A => f[x] = 0)
    PROVE  SumFunctionOnSet(f, S) = SumFunctionOnSet(f, A)
<1> DEFINE Good == {T \in SUBSET S :
                      SumFunctionOnSet(f, T) = SumFunctionOnSet(f, T \cap A)}
<1>1. ASSUME NEW T \in SUBSET S, \A x \in T : T \ {x} \in Good
      PROVE  T \in Good
  <2>0. IsFiniteSet(T) /\ \A x \in T : f[x] \in Int
    BY FS_Subset
  <2>1. CASE T \subseteq A
    <3>1. T \cap A = T
      BY <2>1
    <3> QED BY <3>1
  <2>2. CASE ~(T \subseteq A)
    <3>1. PICK x \in T : x \notin A
      BY <2>2
    <3>2. /\ SumFunctionOnSet(f, T) = f[x] + SumFunctionOnSet(f, T \ {x})
          /\ SumFunctionOnSet(f, T \ {x}) \in Int
      BY <2>0, SumTake
    <3>3. (T \ {x}) \cap A = T \cap A
      BY <3>1
    <3>4. SumFunctionOnSet(f, T \ {x}) = SumFunctionOnSet(f, T \cap A)
      BY <1>1, <3>3
    <3> QED BY <3>1, <3>2, <3>4
  <2> QED BY <2>1, <2>2
<1>2. Good \in SUBSET (SUBSET S)
  OBVIOUS
<1>3. \A T \in SUBSET S : T \in Good
  <2> HIDE DEF Good
  <2> QED BY <1>1, <1>2, SubsetInduction
<1>4. S \in SUBSET S /\ S \cap A = A
  OBVIOUS
<1> QED BY <1>3, <1>4

(* Many equal steps. *)
LEMMA SumTimes ==
    ASSUME NEW f, NEW g, NEW S, IsFiniteSet(S), NEW c \in Int,
           \A x \in S : f[x] \in Int /\ g[x] = c * f[x]
    PROVE  /\ SumFunctionOnSet(f, S) \in Int
           /\ SumFunctionOnSet(g, S) = c * SumFunctionOnSet(f, S)
<1> DEFINE Times(T) == /\ SumFunctionOnSet(f, T) \in Int
                       /\ SumFunctionOnSet(g, T) = c * SumFunctionOnSet(f, T)
           Good == {T \in SUBSET S : Times(T)}
<1>1. ASSUME NEW T \in SUBSET S, \A x \in T : T \ {x} \in Good
      PROVE  T \in Good
  <2>1. CASE T = {}
    BY <2>1, SumEmpty
  <2>2. CASE T # {}
    <3>1. PICK x \in T : TRUE
      BY <2>2
    <3>2. /\ IsFiniteSet(T)
          /\ \A y \in T : f[y] \in Int /\ g[y] \in Int
          /\ g[x] = c * f[x]
      BY FS_Subset
    <3>3. /\ SumFunctionOnSet(f, T) = f[x] + SumFunctionOnSet(f, T \ {x})
          /\ SumFunctionOnSet(g, T) = g[x] + SumFunctionOnSet(g, T \ {x})
      BY <3>2, SumTake
    <3>4. f[x] \in Int /\ Times(T \ {x})
      BY <1>1, <3>2
    <3>5. \A a, b \in Int : c * (a + b) = c * a + c * b
      OBVIOUS
    <3> QED BY <3>2, <3>3, <3>4, <3>5
  <2> QED BY <2>1, <2>2
<1> HIDE DEF Times
<1>2. Good \in SUBSET (SUBSET S)
  OBVIOUS
<1>3. S \in Good
  <2> HIDE DEF Good
  <2>1. \A T \in SUBSET S : T \in Good
    BY <1>1, <1>2, SubsetInduction
  <2> QED BY <2>1
<1> QED BY <1>3 DEF Times
-----------------------------------------------------------------------------
(* Bounds and quotients.                                                    *)

(* What a function makes of a finite set is finite. *)
LEMMA ImageIsFinite ==
    ASSUME NEW S, IsFiniteSet(S), NEW f
    PROVE  IsFiniteSet({f[x] : x \in S})
<1> DEFINE T == {f[x] : x \in S}
           g == [x \in S |-> f[x]]
<1>1. g \in Surjection(S, T)
  BY DEF Surjection
<1> QED BY <1>1, FS_Surjection

(* A finite nonempty set of integers has a least and a greatest element.   *)
Bounded(T) ==
    \E low, high \in T : \A x \in T : low <= x /\ x <= high

LEMMA FiniteIsBounded ==
    ASSUME NEW S \in SUBSET Int, IsFiniteSet(S), S # {}
    PROVE  Bounded(S)
<1> DEFINE Good == {T \in SUBSET S : T = {} \/ Bounded(T)}
<1>1. ASSUME NEW T \in SUBSET S, \A x \in T : T \ {x} \in Good
      PROVE  T \in Good
  <2>1. SUFFICES ASSUME T # {} PROVE Bounded(T)
    OBVIOUS
  <2>2. PICK x \in T : TRUE
    BY <2>1
  <2>3. CASE T \ {x} = {}
    <3>1. T = {x}
      BY <2>3, <2>2
    <3>2. x <= x
      BY <2>2
    <3> QED BY <3>1, <3>2 DEF Bounded
  <2>4. CASE T \ {x} # {}
    <3>1. Bounded(T \ {x})
      BY <1>1, <2>4
    <3>2. PICK low \in T \ {x}, high \in T \ {x} :
            \A y \in T \ {x} : low <= y /\ y <= high
      BY <3>1 DEF Bounded
    <3> DEFINE least == IF x <= low THEN x ELSE low
               most == IF high <= x THEN x ELSE high
    <3>3. \A y \in T : least <= y /\ y <= most
      <4>1. x \in Int /\ low \in Int /\ high \in Int /\ T \in SUBSET Int
        OBVIOUS
      <4> TAKE y \in T
      <4>2. CASE y = x
        BY <4>1, <4>2
      <4>3. CASE y # x
        BY <4>1, <4>3, <3>2
      <4> QED BY <4>2, <4>3
    <3>4. least \in T /\ most \in T
      OBVIOUS
    <3> QED BY <3>3, <3>4 DEF Bounded
  <2> QED BY <2>3, <2>4
<1>2. Good \in SUBSET (SUBSET S)
  OBVIOUS
<1> HIDE DEF Good
<1>3. \A T \in SUBSET S : T \in Good
  BY <1>1, <1>2, SubsetInduction
<1> QED BY <1>3 DEF Good

(* Min and Max of such a set are those elements. *)
LEMMA MinAndMax ==
    ASSUME NEW S \in SUBSET Int, Bounded(S)
    PROVE  /\ Min(S) \in S /\ Max(S) \in S
           /\ \A x \in S : Min(S) <= x /\ x <= Max(S)
<1>1. PICK low \in S, high \in S : \A x \in S : low <= x /\ x <= high
  BY DEF Bounded
<1>2. Min(S) \in S /\ \A x \in S : Min(S) <= x
  BY <1>1 DEF Min
<1>3. \A x \in S : high >= x
  BY <1>1
<1>4. Max(S) \in S /\ \A x \in S : Max(S) >= x
  BY <1>3 DEF Max
<1>5. \A x \in S : x <= Max(S)
  BY <1>4
<1> QED BY <1>2, <1>4, <1>5

LEMMA OfTwo ==
    ASSUME NEW a \in Int, NEW b \in Int
    PROVE  /\ Min({a, b}) \in {a, b} /\ Min({a, b}) <= a /\ Min({a, b}) <= b
           /\ Max({a, b}) \in {a, b} /\ a <= Max({a, b}) /\ b <= Max({a, b})
<1>1. Bounded({a, b})
  <2>1. CASE a <= b
    BY <2>1 DEF Bounded
  <2>2. CASE b <= a
    BY <2>2 DEF Bounded
  <2> QED BY <2>1, <2>2
<1>2. {a, b} \in SUBSET Int
  OBVIOUS
<1> QED BY <1>1, <1>2, MinAndMax

(* A quotient is within one of its fraction. *)
LEMMA Quotient ==
    ASSUME NEW n \in Int, NEW d \in Nat, d > 0
    PROVE  /\ n \div d \in Int
           /\ d * (n \div d) <= n
           /\ n < d * (n \div d) + d
OBVIOUS

LEMMA ProductGrows ==
    ASSUME NEW x \in Int, NEW y \in Int, NEW z \in Nat, x <= y
    PROVE  z * x <= z * y
<1>1. z * (y - x) >= 0
  OBVIOUS
<1>2. z * (y - x) = z * y - z * x
  OBVIOUS
<1>3. z * x \in Int /\ z * y \in Int
  OBVIOUS
<1> QED BY <1>1, <1>2, <1>3
-----------------------------------------------------------------------------
(* Flattening a sequence of sequences.                                     *)

(* What holds of the first number, and of each whose predecessor it holds  *)
(* of, holds of them all.                                                  *)
LEMMA Upwards ==
    ASSUME NEW n \in Nat, NEW Good,
           \A m \in 1..n : (m = 1 \/ m - 1 \in Good) => m \in Good
    PROVE  \A m \in 1..n : m \in Good
<1> DEFINE Bad == {m \in 1..n : m \notin Good}
<1>1. SUFFICES ASSUME Bad # {} PROVE FALSE
  OBVIOUS
<1>2. Bad \in SUBSET Nat
  OBVIOUS
<1>3. PICK m \in Bad : \A k \in Bad : m <= k
  <2> HIDE DEF Bad
  <2> QED BY <1>1, <1>2, LeastNatural
<1>4. m = 1 \/ m - 1 \in Good
  <2>1. CASE m # 1
    <3>1. m - 1 \in 1..n /\ ~(m <= m - 1)
      BY <1>3, <2>1
    <3> QED BY <1>3, <3>1
  <2> QED BY <2>1
<1> QED BY <1>3, <1>4

Flattening(h, p, n) ==
    h = [i \in 1..n |-> IF i = 1 THEN p[i] ELSE h[i - 1] \o p[i]]

(* The recursion of FlattenSeq has a solution. *)
LEMMA FlatteningExists ==
    ASSUME NEW n \in Nat, NEW p
    PROVE  \A m \in 1..n : \E h : Flattening(h, p, m)
<1> DEFINE Good == {m \in 1..n : \E h : Flattening(h, p, m)}
<1>1. ASSUME NEW m \in 1..n, m = 1 \/ m - 1 \in Good
      PROVE  m \in Good
  <2>1. CASE m = 1
    <3> DEFINE h == [i \in 1..1 |-> p[i]]
    <3>1. \A i \in 1..1 : i = 1
      OBVIOUS
    <3>2. Flattening(h, p, 1)
      BY <3>1 DEF Flattening
    <3> QED BY <2>1, <3>2
  <2>2. CASE m # 1
    <3>1. PICK g : Flattening(g, p, m - 1)
      BY <1>1, <2>2
    <3> DEFINE h == [i \in 1..m |-> IF i = m THEN g[m - 1] \o p[m] ELSE g[i]]
    <3>2. ASSUME NEW i \in 1..m
          PROVE  h[i] = IF i = 1 THEN p[i] ELSE h[i - 1] \o p[i]
      <4>1. CASE i = m
        <5>1. i # 1 /\ i - 1 \in 1..m /\ i - 1 # m
          BY <4>1, <2>2
        <5> QED BY <5>1, <4>1
      <4>2. CASE i # m
        <5>1. i \in 1..(m - 1)
          BY <4>2
        <5>2. g[i] = IF i = 1 THEN p[i] ELSE g[i - 1] \o p[i]
          BY <3>1, <5>1 DEF Flattening
        <5>3. i # 1 => i - 1 \in 1..m /\ i - 1 # m
          BY <5>1
        <5> QED BY <4>2, <5>2, <5>3
      <4> QED BY <4>1, <4>2
    <3>3. h = [i \in 1..m |-> h[i]]
      OBVIOUS
    <3> HIDE DEF h
    <3>4. Flattening(h, p, m)
      BY <3>2, <3>3 DEF Flattening
    <3> QED BY <3>4
  <2> QED BY <2>1, <2>2
<1> HIDE DEF Good
<1>2. \A m \in 1..n : m \in Good
  BY <1>1, Upwards
<1> QED BY <1>2 DEF Good

(* Flattening appends the sequences one by one. *)
LEMMA FlattenUnrolls ==
    ASSUME NEW n \in Nat, n > 0, NEW p \in [1..n -> Seq(Int)]
    PROVE  \E h : /\ FlattenSeq(p) = h[n]
                  /\ h[1] = p[1]
                  /\ \A i \in 2..n : h[i] = h[i - 1] \o p[i]
<1> DEFINE h == CHOOSE h : Flattening(h, p, n)
<1>1. n \in 1..n /\ 1 \in 1..n
  OBVIOUS
<1>2. Flattening(h, p, n)
  BY <1>1, FlatteningExists
<1>3. Len(p) = n
  OBVIOUS
<1>4. FlattenSeq(p) = h[n]
  BY <1>3 DEF FlattenSeq, Flattening
<1> HIDE DEF h
<1>5. \A i \in 1..n : h[i] = IF i = 1 THEN p[i] ELSE h[i - 1] \o p[i]
  BY <1>2 DEF Flattening
<1>6. \A i \in 2..n : i \in 1..n /\ i # 1
  OBVIOUS
<1> QED BY <1>1, <1>4, <1>5, <1>6

Ascends(s) == \A j, k \in 1..Len(s) : j < k => s[j] < s[k]

Shows(s, x) == \E k \in 1..Len(s) : s[k] = x

LEMMA JoinedAscends ==
    ASSUME NEW s \in Seq(Int), NEW t \in Seq(Int), Ascends(s), Ascends(t),
           \A j \in 1..Len(s), k \in 1..Len(t) : s[j] < t[k]
    PROVE  /\ s \o t \in Seq(Int)
           /\ Len(s \o t) = Len(s) + Len(t)
           /\ Ascends(s \o t)
           /\ \A x : Shows(s \o t, x) <=> Shows(s, x) \/ Shows(t, x)
<1> DEFINE u == s \o t
<1>1. /\ u \in Seq(Int) /\ Len(u) = Len(s) + Len(t)
      /\ Len(s) \in Nat /\ Len(t) \in Nat
      /\ \A k \in 1..Len(s) : u[k] = s[k]
      /\ \A k \in 1..Len(t) : u[Len(s) + k] = t[k]
  OBVIOUS
<1> HIDE DEF u
<1>2. \A k \in 1..Len(u) :
        \/ k \in 1..Len(s) /\ u[k] = s[k]
        \/ k - Len(s) \in 1..Len(t) /\ u[k] = t[k - Len(s)]
  <2> TAKE k \in 1..Len(u)
  <2>1. CASE k > Len(s)
    <3>1. k - Len(s) \in 1..Len(t) /\ Len(s) + (k - Len(s)) = k
      BY <1>1, <2>1
    <3>2. u[Len(s) + (k - Len(s))] = t[k - Len(s)]
      BY <1>1, <3>1
    <3> QED BY <3>1, <3>2
  <2>2. CASE ~(k > Len(s))
    BY <1>1, <2>2
  <2> QED BY <2>1, <2>2
<1>3. Ascends(u)
  <2>1. SUFFICES ASSUME NEW j \in 1..Len(u), NEW k \in 1..Len(u), j < k
                 PROVE  u[j] < u[k]
    BY DEF Ascends
  <2>2. CASE j \in 1..Len(s) /\ k \in 1..Len(s)
    BY <1>1, <2>1, <2>2 DEF Ascends
  <2>3. CASE j \in 1..Len(s) /\ k \notin 1..Len(s)
    <3>1. k - Len(s) \in 1..Len(t) /\ u[k] = t[k - Len(s)]
      BY <1>2, <2>3
    <3>2. u[j] = s[j]
      BY <1>1, <2>3
    <3> QED BY <2>3, <3>1, <3>2
  <2>4. CASE j \notin 1..Len(s)
    <3>1. /\ j - Len(s) \in 1..Len(t) /\ k - Len(s) \in 1..Len(t)
          /\ j - Len(s) < k - Len(s)
      BY <1>1, <1>2, <2>1, <2>4
    <3>2. t[j - Len(s)] < t[k - Len(s)]
      BY <3>1 DEF Ascends
    <3>3. k \notin 1..Len(s)
      BY <1>1, <3>1
    <3> QED BY <1>2, <2>4, <3>2, <3>3
  <2> QED BY <2>2, <2>3, <2>4
<1>4. ASSUME NEW x PROVE Shows(u, x) <=> Shows(s, x) \/ Shows(t, x)
  <2>1. ASSUME Shows(u, x) PROVE Shows(s, x) \/ Shows(t, x)
    BY <1>2, <2>1 DEF Shows
  <2>2. ASSUME Shows(s, x) PROVE Shows(u, x)
    BY <1>1, <2>2 DEF Shows
  <2>3. ASSUME Shows(t, x) PROVE Shows(u, x)
    <3>1. PICK k \in 1..Len(t) : t[k] = x
      BY <2>3 DEF Shows
    <3>2. Len(s) + k \in 1..Len(u) /\ u[Len(s) + k] = x
      BY <1>1, <3>1
    <3> QED BY <3>2 DEF Shows
  <2> QED BY <2>1, <2>2, <2>3
<1> QED BY <1>1, <1>3, <1>4 DEF u

(* Ascending sequences, each below the next, make an ascending one, which  *)
(* shows what they show.                                                   *)
LEMMA FlattenAscends ==
    ASSUME NEW n \in Nat, n > 0, NEW p \in [1..n -> Seq(Int)],
           \A i \in 1..n : Ascends(p[i]),
           \A i, j \in 1..n : i < j =>
               \A a \in 1..Len(p[i]), b \in 1..Len(p[j]) : p[i][a] < p[j][b]
    PROVE  /\ FlattenSeq(p) \in Seq(Int)
           /\ Ascends(FlattenSeq(p))
           /\ \A x : Shows(FlattenSeq(p), x) <=> \E i \in 1..n : Shows(p[i], x)
<1>1. PICK h : /\ FlattenSeq(p) = h[n]
               /\ h[1] = p[1]
               /\ \A i \in 2..n : h[i] = h[i - 1] \o p[i]
  BY FlattenUnrolls
<1> DEFINE Flat(m) == /\ h[m] \in Seq(Int)
                      /\ Ascends(h[m])
                      /\ \A x : Shows(h[m], x) <=> \E i \in 1..m : Shows(p[i], x)
           Good == {m \in 1..n : Flat(m)}
<1>2. ASSUME NEW m \in 1..n, m = 1 \/ m - 1 \in Good
      PROVE  m \in Good
  <2>1. CASE m = 1
    <3>1. \A i \in 1..1 : i = 1
      OBVIOUS
    <3>2. h[1] \in Seq(Int) /\ Ascends(h[1])
      BY <1>1, <2>1
    <3> QED BY <1>1, <2>1, <3>1, <3>2
  <2>2. CASE m # 1
    <3>1. Flat(m - 1) /\ m - 1 \in 1..n /\ m \in 2..n
      BY <1>2, <2>2
    <3>2. PICK s : s = h[m - 1]
      OBVIOUS
    <3>3. PICK t : t = p[m]
      OBVIOUS
    <3>4. h[m] = s \o t
      BY <1>1, <3>1, <3>2, <3>3
    <3>5. s \in Seq(Int) /\ t \in Seq(Int) /\ Ascends(s) /\ Ascends(t)
      BY <3>1, <3>2, <3>3
    <3>6. ASSUME NEW j \in 1..Len(s), NEW k \in 1..Len(t) PROVE s[j] < t[k]
      <4>1. PICK i \in 1..(m - 1) : Shows(p[i], s[j])
        BY <3>1, <3>2 DEF Shows
      <4>2. i \in 1..n /\ i < m
        OBVIOUS
      <4> QED BY <3>3, <4>1, <4>2 DEF Shows
    <3>7. /\ s \o t \in Seq(Int) /\ Ascends(s \o t)
          /\ \A x : Shows(s \o t, x) <=> Shows(s, x) \/ Shows(t, x)
      BY <3>5, <3>6, JoinedAscends
    <3>8. ASSUME NEW x
          PROVE  Shows(h[m], x) <=> \E i \in 1..m : Shows(p[i], x)
      <4>1. \A i : i \in 1..m <=> i \in 1..(m - 1) \/ i = m
        OBVIOUS
      <4>2. Shows(s, x) <=> \E i \in 1..(m - 1) : Shows(p[i], x)
        BY <3>1, <3>2
      <4> QED BY <3>3, <3>4, <3>7, <4>1, <4>2
    <3> QED BY <3>4, <3>7, <3>8
  <2> QED BY <2>1, <2>2
<1> HIDE DEF Good
<1>3. n \in Good
  <2>1. \A m \in 1..n : m \in Good
    BY <1>2, Upwards
  <2> QED BY <2>1
<1> QED BY <1>1, <1>3 DEF Good

(* It is no longer than they are together. *)
LEMMA FlattenShort ==
    ASSUME NEW n \in Nat, n > 0, NEW p \in [1..n -> Seq(Int)], NEW c \in Nat,
           \A i \in 1..n : Len(p[i]) <= c
    PROVE  Len(FlattenSeq(p)) <= c * n
<1>1. PICK h : /\ FlattenSeq(p) = h[n]
               /\ h[1] = p[1]
               /\ \A i \in 2..n : h[i] = h[i - 1] \o p[i]
  BY FlattenUnrolls
<1> DEFINE Good == {m \in 1..n : h[m] \in Seq(Int) /\ Len(h[m]) <= c * m}
<1>2. ASSUME NEW m \in 1..n, m = 1 \/ m - 1 \in Good
      PROVE  m \in Good
  <2>1. CASE m = 1
    <3>1. h[1] \in Seq(Int) /\ Len(h[1]) <= c /\ c * 1 = c
      BY <1>1, <2>1
    <3> QED BY <2>1, <3>1
  <2>2. CASE m # 1
    <3>1. m \in 2..n /\ m - 1 \in Good
      BY <1>2, <2>2
    <3>2. PICK s \in Seq(Int) : s = h[m - 1] /\ Len(s) <= c * (m - 1)
      BY <3>1
    <3>3. PICK t \in Seq(Int) : t = p[m] /\ Len(t) <= c
      OBVIOUS
    <3>4. s \o t \in Seq(Int) /\ Len(s \o t) = Len(s) + Len(t)
      OBVIOUS
    <3>5. c * (m - 1) + c = c * m /\ c * m \in Int /\ c * (m - 1) \in Int
      OBVIOUS
    <3>6. Len(s) \in Nat /\ Len(t) \in Nat
      OBVIOUS
    <3>7. Len(s \o t) <= c * m
      BY <3>2, <3>3, <3>4, <3>5, <3>6
    <3>8. h[m] = s \o t
      BY <1>1, <3>1, <3>2, <3>3
    <3> QED BY <3>4, <3>7, <3>8
  <2> QED BY <2>1, <2>2
<1> HIDE DEF Good
<1>3. n \in Good
  <2>1. \A m \in 1..n : m \in Good
    BY <1>2, Upwards
  <2> QED BY <2>1
<1> QED BY <1>1, <1>3 DEF Good

(* Filtering takes the elements at the positions, in their order. *)
LEMMA FilteredTakes ==
    ASSUME NEW s, Len(s) \in Nat, NEW positions \in SUBSET (1..Len(s))
    PROVE  \E kept \in Seq(Int) :
              /\ Ascends(kept)
              /\ \A x : Shows(kept, x) <=> x \in positions
              /\ Filtered(s, positions) = [k \in 1..Len(kept) |-> s[kept[k]]]
<1>1. Len(s) \in Nat
  OBVIOUS
<1> DEFINE p == [i \in 1..Len(s) |-> IF i \in positions THEN <<i>> ELSE <<>>]
<1>2. Filtered(s, positions) =
        [k \in 1..Len(FlattenSeq(p)) |-> s[FlattenSeq(p)[k]]]
  BY DEF Filtered
<1>3. CASE Len(s) = 0
  <2>1. p = <<>>
    BY <1>3
  <2> HIDE DEF p
  <2>2. FlattenSeq(p) = <<>>
    BY <2>1 DEF FlattenSeq
  <2>3. <<>> \in Seq(Int) /\ Ascends(<<>>) /\ \A x : ~Shows(<<>>, x)
    BY DEF Ascends, Shows
  <2>4. positions = {}
    BY <1>3
  <2> QED BY <1>2, <2>2, <2>3, <2>4
<1>4. CASE Len(s) > 0
  <2>1. p \in [1..Len(s) -> Seq(Int)]
    OBVIOUS
  <2>2. \A i \in 1..Len(s) :
          IF i \in positions THEN Len(p[i]) = 1 /\ p[i][1] = i ELSE Len(p[i]) = 0
    OBVIOUS
  <2> HIDE DEF p
  <2>3. \A i \in 1..Len(s) : \A a \in 1..Len(p[i]) :
           i \in positions /\ a = 1 /\ p[i][a] = i
    <3> TAKE i \in 1..Len(s)
    <3>1. CASE i \in positions
      <4>1. Len(p[i]) = 1 /\ p[i][1] = i
        BY <2>2, <3>1
      <4>2. \A a \in 1..1 : a = 1
        OBVIOUS
      <4> QED BY <3>1, <4>1, <4>2
    <3>2. CASE i \notin positions
      <4>1. Len(p[i]) = 0
        BY <2>2, <3>2
      <4> QED BY <4>1
    <3> QED BY <3>1, <3>2
  <2>4. \A i \in 1..Len(s) : Ascends(p[i])
    BY <2>3 DEF Ascends
  <2>5. \A i, j \in 1..Len(s) : i < j =>
           \A a \in 1..Len(p[i]), b \in 1..Len(p[j]) : p[i][a] < p[j][b]
    BY <2>3
  <2>6. /\ FlattenSeq(p) \in Seq(Int) /\ Ascends(FlattenSeq(p))
        /\ \A x : Shows(FlattenSeq(p), x) <=> \E i \in 1..Len(s) : Shows(p[i], x)
    BY <1>1, <1>4, <2>1, <2>4, <2>5, FlattenAscends
  <2>7. ASSUME NEW x
        PROVE  Shows(FlattenSeq(p), x) <=> x \in positions
    <3>1. ASSUME Shows(FlattenSeq(p), x) PROVE x \in positions
      BY <2>3, <2>6, <3>1 DEF Shows
    <3>2. ASSUME x \in positions PROVE Shows(FlattenSeq(p), x)
      <4>1. x \in 1..Len(s) /\ 1 \in 1..Len(p[x]) /\ p[x][1] = x
        BY <2>2, <3>2
      <4> QED BY <2>6, <4>1 DEF Shows
    <3> QED BY <3>1, <3>2
  <2> QED BY <1>2, <2>6, <2>7
<1> QED BY <1>1, <1>3, <1>4

(* Filtering by nothing leaves the sequence. *)
LEMMA FilteredAll ==
    ASSUME NEW n \in Nat, NEW s, s = [k \in 1..n |-> s[k]]
    PROVE  Filtered(s, 1..n) = s
<1>1. Len(s) = n
  OBVIOUS
<1> DEFINE p == [i \in 1..n |-> <<i>>]
<1>2. Filtered(s, 1..n) = [k \in 1..Len(FlattenSeq(p)) |-> s[FlattenSeq(p)[k]]]
  <2>1. p = [i \in 1..Len(s) |-> IF i \in 1..n THEN <<i>> ELSE <<>>]
    BY <1>1
  <2> HIDE DEF p
  <2> QED BY <2>1 DEF Filtered
<1>3. FlattenSeq(p) = [k \in 1..n |-> k]
  <2>1. CASE n = 0
    <3>1. p = <<>>
      BY <2>1
    <3> HIDE DEF p
    <3>2. FlattenSeq(p) = <<>>
      BY <3>1 DEF FlattenSeq
    <3> QED BY <2>1, <3>2
  <2>2. CASE n > 0
    <3>1. p \in [1..n -> Seq(Int)] /\ \A i \in 1..n : p[i] = <<i>>
      OBVIOUS
    <3> HIDE DEF p
    <3>2. PICK h : /\ FlattenSeq(p) = h[n]
                   /\ h[1] = p[1]
                   /\ \A i \in 2..n : h[i] = h[i - 1] \o p[i]
      BY <2>2, <3>1, FlattenUnrolls
    <3> DEFINE Good == {m \in 1..n : h[m] = [k \in 1..m |-> k]}
    <3>3. ASSUME NEW m \in 1..n, m = 1 \/ m - 1 \in Good
          PROVE  m \in Good
      <4>1. CASE m = 1
        <5>1. h[1] = <<1>>
          BY <3>1, <3>2, <4>1
        <5>2. <<1>> = [k \in 1..1 |-> k]
          OBVIOUS
        <5> QED BY <4>1, <5>1, <5>2
      <4>2. CASE m # 1
        <5>1. m \in 2..n /\ h[m - 1] = [k \in 1..(m - 1) |-> k]
          BY <3>3, <4>2
        <5>2. h[m] = [k \in 1..(m - 1) |-> k] \o <<m>>
          BY <3>1, <3>2, <5>1
        <5>3. [k \in 1..(m - 1) |-> k] \o <<m>> = [k \in 1..m |-> k]
          <6> DEFINE low == [k \in 1..(m - 1) |-> k]
          <6>1. low \in Seq(Int) /\ Len(low) = m - 1
                /\ \A k \in 1..(m - 1) : low[k] = k
            BY <5>1
          <6> HIDE DEF low
          <6>2. /\ low \o <<m>> \in Seq(Int) /\ Len(low \o <<m>>) = m
                /\ \A k \in 1..m : (low \o <<m>>)[k] = k
            BY <5>1, <6>1
          <6>3. low \o <<m>> = [k \in 1..m |-> (low \o <<m>>)[k]]
            BY <6>2
          <6> QED BY <6>2, <6>3 DEF low
        <5> QED BY <5>2, <5>3
      <4> QED BY <4>1, <4>2
    <3> HIDE DEF Good
    <3>4. \A m \in 1..n : m \in Good
      BY <3>3, Upwards
    <3>5. n \in Good
      BY <2>2, <3>4
    <3> QED BY <3>2, <3>5 DEF Good
  <2> QED BY <2>1, <2>2
<1> HIDE DEF p
<1>4. Len(FlattenSeq(p)) = n /\ \A k \in 1..n : FlattenSeq(p)[k] = k
  BY <1>3
<1> QED BY <1>2, <1>4
-----------------------------------------------------------------------------
(* The history ring.                                                       *)

(* A remainder of less than twice the divisor takes off one of it at most. *)
LEMMA WrapsOnce ==
    ASSUME NEW c \in Nat, c > 0, NEW a \in Nat, a < 2 * c
    PROVE  a % c = IF a < c THEN a ELSE a - c
<1>1. PICK q \in Int : q = a \div c
  BY Quotient
<1>2. PICK r \in Int : r = a % c /\ 0 <= r /\ r < c /\ a = c * q + r
  BY <1>1
<1>3. CASE q < 0
  <2>1. c * q <= c * (-1) /\ c * (-1) = -c /\ c * q \in Int
    BY <1>3, ProductGrows
  <2> QED BY <1>2, <2>1
<1>4. CASE q = 0
  BY <1>2, <1>4
<1>5. CASE q = 1
  BY <1>2, <1>5
<1>6. CASE q > 1
  <2>1. c * 2 <= c * q /\ c * 2 = 2 * c /\ c * q \in Int
    BY <1>6, ProductGrows
  <2> QED BY <1>2, <2>1
<1> QED BY <1>2, <1>3, <1>4, <1>5, <1>6

(* Where the k-th oldest of n entries is: n slots before the cursor, or    *)
(* round the end of the slots.                                             *)
Back(cur, n, k, c) ==
    IF cur - n + k - 1 < 0 THEN cur - n + k - 1 + c ELSE cur - n + k - 1

LEMMA SlotIs ==
    ASSUME NEW c \in Nat, c > 0, NEW held,
           held.cursor \in 0..(c - 1), held.count \in 0..c,
           NEW k \in 1..c, k <= held.count
    PROVE  SlotOf(held, c, k) = Back(held.cursor, held.count, k, c)
<1>1. PICK cur \in Nat, n \in Nat : /\ cur = held.cursor /\ n = held.count
                                    /\ cur < c /\ n <= c /\ k <= n
  OBVIOUS
<1>2. PICK a \in Nat : a = cur - n + c /\ a < 2 * c
  BY <1>1
<1>3. PICK start \in Nat : start = a % c /\ start = IF a < c THEN a ELSE a - c
  <2>1. a % c = IF a < c THEN a ELSE a - c
    BY <1>2, WrapsOnce
  <2> QED BY <1>2, <2>1
<1>4. PICK b \in Nat : b = start + k - 1 /\ b < 2 * c
  BY <1>1, <1>2, <1>3
<1>5. b % c = IF b < c THEN b ELSE b - c
  BY <1>4, WrapsOnce
<1>6. SlotOf(held, c, k) = b % c
  BY <1>1, <1>2, <1>3, <1>4 DEF SlotOf
<1>7. b % c = Back(cur, n, k, c)
  BY <1>1, <1>2, <1>3, <1>4, <1>5 DEF Back
<1> QED BY <1>1, <1>6, <1>7

(* As the cursor goes on by one, the slot it leaves is the newest's and no *)
(* other entry's, and each other entry keeps its slot.                     *)
GoesOn(cur, next, n, c) ==
    /\ Back(next, n, n, c) = cur
    /\ \A k \in 1..n : n < c \/ k > 1 => Back(cur, n, k, c) # cur
    /\ n < c => \A k \in 1..n : Back(next, n + 1, k, c) = Back(cur, n, k, c)
    /\ \A k \in 1..(n - 1) : Back(next, n, k, c) = Back(cur, n, k + 1, c)

LEMMA CursorGoesOn ==
    ASSUME NEW c \in Nat, NEW n \in Nat, n <= c, NEW cur \in Nat, cur < c,
           NEW next \in Nat, cur + 1 < c => next = cur + 1,
           cur + 1 = c => next = 0
    PROVE  GoesOn(cur, next, n, c)
<1>1. Back(next, n, n, c) = cur
  BY DEF Back
<1>2. \A k \in 1..n : n < c \/ k > 1 => Back(cur, n, k, c) # cur
  BY DEF Back
<1>3. n < c => \A k \in 1..n : Back(next, n + 1, k, c) = Back(cur, n, k, c)
  BY DEF Back
<1>4. \A k \in 1..(n - 1) : Back(next, n, k, c) = Back(cur, n, k + 1, c)
  BY DEF Back
<1> QED BY <1>1, <1>2, <1>3, <1>4 DEF GoesOn

(* What is retained: the newest entries in their order.                    *)
Retained(s, value, c) ==
    IF Len(s) < c THEN Append(s, value) ELSE Tail(Append(s, value))

RingHolds(held, c, s) ==
    /\ held.cursor \in 0..(c - 1)
    /\ Len(s) \in 0..c /\ s = [k \in 1..Len(s) |-> s[k]]
    /\ held.count = Len(s)
    /\ \A k \in 1..Len(s) : /\ SlotOf(held, c, k) \in DOMAIN held.slots
                            /\ held.slots[SlotOf(held, c, k)] = s[k]

(* toArray reads them in that order, wherever the cursor stands.           *)
LEMMA RingReads ==
    ASSUME NEW c \in Nat, c > 0, NEW held, NEW s, RingHolds(held, c, s)
    PROVE  ToArray(held, c) = s
<1>1. PICK n \in Nat : n = Len(s) /\ n = held.count
  BY DEF RingHolds
<1>2. PICK slot : slot = [k \in 1..n |-> SlotOf(held, c, k)]
  OBVIOUS
<1>3. {k \in 1..n : slot[k] \in DOMAIN held.slots} = 1..n
  BY <1>1, <1>2 DEF RingHolds
<1>4. Filtered(slot, 1..n) = slot
  <2>1. slot = [k \in 1..n |-> slot[k]]
    BY <1>2
  <2> QED BY <2>1, FilteredAll
<1>5. ToArray(held, c) = [k \in DOMAIN slot |-> held.slots[slot[k]]]
  BY <1>1, <1>2, <1>3, <1>4 DEF ToArray
<1>6. DOMAIN slot = 1..n /\ \A k \in 1..n : held.slots[slot[k]] = s[k]
  BY <1>1, <1>2 DEF RingHolds
<1>7. s = [k \in 1..n |-> s[k]]
  BY <1>1 DEF RingHolds
<1> QED BY <1>5, <1>6, <1>7

LEMMA EmptyRingHolds ==
    ASSUME NEW c \in Nat, c > 0
    PROVE  RingHolds(EmptyRing, c, <<>>)
BY DEF RingHolds, EmptyRing

(* push retains the value and, once full, all but the oldest entry.        *)
LEMMA PushRetains ==
    ASSUME NEW c \in Nat, c > 0, NEW held, NEW V, NEW s \in Seq(V), NEW value \in V,
           RingHolds(held, c, s)
    PROVE  RingHolds(Push(held, value, c), c, Retained(s, value, c))
<1>1. PICK n \in Nat, cur \in Nat : /\ n = Len(s) /\ n = held.count /\ n <= c
                                    /\ cur = held.cursor /\ cur < c
  BY DEF RingHolds
<1>2. PICK slots : slots = held.slots
  OBVIOUS
<1>3. PICK pushed : pushed = Push(held, value, c)
  OBVIOUS
<1>4. PICK next \in Nat : /\ next = (cur + 1) % c /\ next < c
                          /\ cur + 1 < c => next = cur + 1
                          /\ cur + 1 = c => next = 0
  <2>1. cur + 1 \in Nat /\ cur + 1 < 2 * c
    BY <1>1
  <2>2. (cur + 1) % c = IF cur + 1 < c THEN cur + 1 ELSE cur + 1 - c
    BY <2>1, WrapsOnce
  <2> QED BY <1>1, <2>2
<1>5. /\ pushed.cursor = next
      /\ pushed.count = IF n < c THEN n + 1 ELSE n
      /\ pushed.slots = Written(slots, cur, value)
  BY <1>1, <1>2, <1>3, <1>4 DEF Push
<1>6. /\ cur \in DOMAIN pushed.slots /\ pushed.slots[cur] = value
      /\ \A i \in DOMAIN slots : i # cur =>
            i \in DOMAIN pushed.slots /\ pushed.slots[i] = slots[i]
  BY <1>5 DEF Written
<1>7. PICK t : t = Retained(s, value, c)
  OBVIOUS
<1>8. /\ t \in Seq(V) /\ Len(t) = IF n < c THEN n + 1 ELSE n
      /\ \A k \in 1..Len(t) : t[k] = IF k = Len(t) THEN value
                                     ELSE IF n < c THEN s[k] ELSE s[k + 1]
  <2> DEFINE grown == Append(s, value)
  <2>1. /\ grown \in Seq(V) /\ Len(grown) = n + 1 /\ grown[n + 1] = value
        /\ \A k \in 1..n : grown[k] = s[k]
    <3>1. grown \in Seq(V) /\ Len(grown) = Len(s) + 1
      OBVIOUS
    <3>2. grown[Len(s) + 1] = value /\ \A k \in 1..Len(s) : grown[k] = s[k]
      OBVIOUS
    <3> HIDE DEF grown
    <3> QED BY <1>1, <3>1, <3>2
  <2>2. /\ Tail(grown) \in Seq(V) /\ Len(Tail(grown)) = n
        /\ \A k \in 1..n : Tail(grown)[k] = grown[k + 1]
    BY <2>1
  <2>3. t = IF n < c THEN grown ELSE Tail(grown)
    BY <1>1, <1>7 DEF Retained
  <2> HIDE DEF grown
  <2>4. CASE n < c
    BY <2>1, <2>3, <2>4
  <2>5. CASE ~(n < c)
    <3>1. t = Tail(grown)
      BY <2>3, <2>5
    <3>2. ASSUME NEW k \in 1..n
          PROVE  t[k] = IF k = n THEN value ELSE s[k + 1]
      <4>1. t[k] = grown[k + 1]
        BY <2>2, <3>1
      <4>2. k # n => k + 1 \in 1..n
        OBVIOUS
      <4> QED BY <2>1, <4>1, <4>2
    <3> QED BY <2>2, <2>5, <3>1, <3>2
  <2> QED BY <2>4, <2>5
<1>9. \A k \in 1..n : /\ Back(cur, n, k, c) \in DOMAIN slots
                      /\ slots[Back(cur, n, k, c)] = s[k]
  <2> TAKE k \in 1..n
  <2>1. k \in 1..c /\ k <= held.count
    BY <1>1
  <2>2. held.cursor \in 0..(c - 1) /\ held.count \in 0..c
    BY <1>1
  <2>3. SlotOf(held, c, k) = Back(cur, n, k, c)
    BY <1>1, <2>1, <2>2, SlotIs
  <2> QED BY <1>1, <1>2, <2>3 DEF RingHolds
<1>10. PICK m \in Nat : /\ m = Len(t) /\ m = pushed.count /\ m <= c
                        /\ n < c => m = n + 1
                        /\ n = c => m = n
  BY <1>1, <1>5, <1>8
<1>11. GoesOn(cur, next, n, c) /\ GoesOn(cur, next, m, c)
  BY <1>1, <1>4, <1>10, CursorGoesOn
<1>12. ASSUME NEW k \in 1..m
       PROVE  /\ Back(next, m, k, c) \in DOMAIN pushed.slots
              /\ pushed.slots[Back(next, m, k, c)] = t[k]
  <2>1. CASE k = m
    <3>1. Back(next, m, k, c) = cur
      BY <1>11, <2>1 DEF GoesOn
    <3> QED BY <1>6, <1>8, <1>10, <2>1, <3>1
  <2>2. CASE k # m /\ n < c
    <3>1. k \in 1..n /\ m = n + 1 /\ t[k] = s[k]
      BY <1>8, <1>10, <2>2
    <3>2. PICK at : at = Back(cur, n, k, c)
      OBVIOUS
    <3>3. at = Back(next, m, k, c) /\ at # cur
      BY <1>11, <2>2, <3>1, <3>2 DEF GoesOn
    <3>4. at \in DOMAIN slots /\ slots[at] = s[k]
      BY <1>9, <3>1, <3>2
    <3> QED BY <1>6, <3>1, <3>3, <3>4
  <2>3. CASE k # m /\ ~(n < c)
    <3>1. k \in 1..(n - 1) /\ k + 1 \in 1..n /\ k + 1 > 1 /\ m = n /\ t[k] = s[k + 1]
      BY <1>1, <1>8, <1>10, <2>3
    <3>2. PICK at : at = Back(cur, n, k + 1, c)
      OBVIOUS
    <3>3. at = Back(next, m, k, c) /\ at # cur
      BY <1>11, <3>1, <3>2 DEF GoesOn
    <3>4. at \in DOMAIN slots /\ slots[at] = s[k + 1]
      BY <1>9, <3>1, <3>2
    <3> QED BY <1>6, <3>1, <3>3, <3>4
  <2> QED BY <2>1, <2>2, <2>3
<1>13. ASSUME NEW k \in 1..m
       PROVE  SlotOf(pushed, c, k) = Back(next, m, k, c)
  <2>1. k \in 1..c /\ k <= pushed.count
    BY <1>10
  <2>2. pushed.cursor \in 0..(c - 1) /\ pushed.count \in 0..c
    BY <1>4, <1>5, <1>10
  <2> QED BY <1>5, <1>10, <2>1, <2>2, SlotIs
<1>14. t = [k \in 1..Len(t) |-> t[k]]
  BY <1>8
<1>15. RingHolds(pushed, c, t)
  BY <1>4, <1>5, <1>10, <1>12, <1>13, <1>14 DEF RingHolds
<1> QED BY <1>3, <1>7, <1>15

(* A ring of values stays one.                                             *)
LEMMA PushType ==
    ASSUME NEW c \in Nat, c > 0, NEW V, NEW held \in Ring(V, c), NEW value \in V
    PROVE  Push(held, value, c) \in Ring(V, c)
<1>1. PICK n \in Nat, cur \in Nat : /\ n = held.count /\ n <= c
                                    /\ cur = held.cursor /\ cur < c
  BY DEF Ring
<1>2. PICK D \in SUBSET (0..(c - 1)) : held.slots \in [D -> V]
  BY DEF Ring
<1>3. (cur + 1) % c \in 0..(c - 1)
  <2>1. cur + 1 \in Nat /\ cur + 1 < 2 * c
    BY <1>1
  <2>2. (cur + 1) % c = IF cur + 1 < c THEN cur + 1 ELSE cur + 1 - c
    BY <2>1, WrapsOnce
  <2> QED BY <1>1, <2>2
<1>4. (IF n < c THEN n + 1 ELSE n) \in 0..c
  BY <1>1
<1>5. /\ Written(held.slots, cur, value) \in [D \cup {cur} -> V]
      /\ D \cup {cur} \in SUBSET (0..(c - 1))
  <2>1. DOMAIN held.slots = D /\ \A i \in D : held.slots[i] \in V
    BY <1>2
  <2>2. Written(held.slots, cur, value) \in [D \cup {cur} -> V]
    BY <2>1 DEF Written
  <2>3. cur \in 0..(c - 1)
    BY <1>1
  <2> QED BY <2>2, <2>3
<1>6. Written(held.slots, cur, value)
        \in UNION {[written -> V] : written \in SUBSET (0..(c - 1))}
  BY <1>5
<1> QED BY <1>1, <1>3, <1>4, <1>6 DEF Push, Ring

LEMMA EmptyRingType ==
    ASSUME NEW c \in Nat, c > 0, NEW V
    PROVE  EmptyRing \in Ring(V, c)
<1>1. <<>> \in [{} -> V] /\ {} \in SUBSET (0..(c - 1))
  OBVIOUS
<1>2. <<>> \in UNION {[written -> V] : written \in SUBSET (0..(c - 1))}
  BY <1>1
<1>3. 0 \in 0..(c - 1) /\ 0 \in 0..c
  OBVIOUS
<1> QED BY <1>2, <1>3 DEF EmptyRing, Ring
=============================================================================
