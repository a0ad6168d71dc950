------------------------------ MODULE SumLemmas ------------------------------
(***************************************************************************)
(* Facts about sums of the values of a function, and the two inductions    *)
(* they rest on.  The induction theorems of the library take an operator;  *)
(* these take the set of what has the property instead, which a prover can *)
(* instantiate.                                                            *)
(***************************************************************************)
EXTENDS Integers, Functions, FiniteSetTheorems, WellFoundedInduction, TLAPS

(* A set of naturals has a least one.                                      *)
LEMMA LeastNatural ==
  ASSUME NEW S, S \subseteq Nat, S # {}
  PROVE  \E i \in S : \A j \in S : i <= j
<1>1. PICK i \in S : \A j \in S : <<j, i>> \notin OpToRel(<, Nat)
  BY NatLessThanWellFounded, WFMin
<1>2. \A j \in S : ~(j < i)
  BY <1>1 DEF OpToRel
<1>. QED  BY <1>2

(* Induction over the naturals.                                            *)
LEMMA CountingUp ==
  ASSUME NEW S, 0 \in S, \A n \in Nat : n \in S => n + 1 \in S
  PROVE  Nat \subseteq S
<1>. SUFFICES ASSUME Nat \ S # {} PROVE FALSE
  OBVIOUS
<1>1. PICK m \in Nat \ S : \A j \in Nat \ S : m <= j
  BY LeastNatural
<1>2. m - 1 \in Nat /\ m - 1 \in S
  BY <1>1
<1>. QED  BY <1>1, <1>2

(* Induction over the subsets of a finite set, by what is left of one when *)
(* an element is taken away.                                               *)
LEMMA TakingAway ==
  ASSUME NEW S, IsFiniteSet(S), NEW P,
         \A T \in SUBSET S : (\A x \in T : T \ {x} \in P) => T \in P
  PROVE  \A T \in SUBSET S : T \in P
<1>. DEFINE N == {n \in Nat : \A T \in SUBSET S : Cardinality(T) = n => T \in P}
<1>1. \A T \in SUBSET S : IsFiniteSet(T) /\ Cardinality(T) \in Nat
  BY FS_Subset, FS_CardinalityType
<1>2. 0 \in N
  BY <1>1, FS_EmptySet
<1>3. ASSUME NEW n \in Nat, n \in N PROVE n + 1 \in N
  <2>1. ASSUME NEW T \in SUBSET S, Cardinality(T) = n + 1, NEW x \in T PROVE T \ {x} \in P
    <3>1. Cardinality(T \ {x}) = n
      BY <1>1, <2>1, FS_RemoveElement
    <3>. QED  BY <1>3, <3>1
  <2>. QED  BY <2>1
<1>4. Nat \subseteq N
  <2>. HIDE DEF N
  <2>. QED  BY <1>2, <1>3, CountingUp
<1>. QED  BY <1>1, <1>4

-----------------------------------------------------------------------------
(* What the sum of f over S unfolds to: g is the sum over each subset.     *)
Sums(f, S, g) ==
  g = [s \in SUBSET S |->
         IF s = {} THEN 0 ELSE f[CHOOSE x \in s : TRUE] + g[s \ {CHOOSE x \in s : TRUE}]]

(* A sum is a value of the function that its definition chooses.           *)
LEMMA SumUnfolds ==
  ASSUME NEW f, NEW S
  PROVE  SumFunctionOnSet(f, S) = (CHOOSE g : Sums(f, S, g))[S]
BY DEF SumFunctionOnSet, FoldFunctionOnSet, MapThenFoldSet, Sums

(* There is such a function, built up by the size of the subsets.          *)
LEMMA SumsExist ==
  ASSUME NEW f, NEW S, IsFiniteSet(S)
  PROVE  \E g : Sums(f, S, g)
<1>. DEFINE Small(n) == {s \in SUBSET S : Cardinality(s) <= n}
            pick(s) == CHOOSE x \in s : TRUE
            Partial(n, g) == g = [s \in Small(n) |->
                                    IF s = {} THEN 0 ELSE f[pick(s)] + g[s \ {pick(s)}]]
            N == {n \in Nat : \E g : Partial(n, g)}
<1>1. \A s \in SUBSET S : /\ IsFiniteSet(s) /\ Cardinality(s) \in Nat
                          /\ Cardinality(s) <= Cardinality(S)
                          /\ Cardinality(s) = 0 <=> s = {}
  BY FS_Subset, FS_CardinalityType, FS_EmptySet
<1>2. \A s \in SUBSET S : s # {} =>
        pick(s) \in s /\ Cardinality(s \ {pick(s)}) = Cardinality(s) - 1 /\ s \ {pick(s)} \in SUBSET S
  BY <1>1, FS_RemoveElement
<1>3. 0 \in N
  <2>1. Partial(0, [s \in Small(0) |-> 0])
    BY <1>1
  <2>. QED  BY <2>1
<1>4. ASSUME NEW n \in Nat, n \in N PROVE n + 1 \in N
  <2>1. PICK g : Partial(n, g)
    BY <1>4
  <2>. DEFINE h == [s \in Small(n + 1) |-> IF s = {} THEN 0 ELSE f[pick(s)] + g[s \ {pick(s)}]]
  <2>2. \A s \in Small(n) : s \in Small(n + 1) /\ h[s] = g[s]
    <3>1. \A s \in Small(n) : s \in Small(n + 1)
      BY <1>1
    <3>2. \A s \in Small(n) : g[s] = IF s = {} THEN 0 ELSE f[pick(s)] + g[s \ {pick(s)}]
      BY <2>1
    <3>. HIDE DEF Small
    <3>. QED  BY <3>1, <3>2
  <2>3. \A s \in Small(n + 1) : s # {} => s \ {pick(s)} \in Small(n)
    BY <1>1, <1>2
  <2>4. Partial(n + 1, h)
    <3>1. ASSUME NEW s \in Small(n + 1)
          PROVE  h[s] = IF s = {} THEN 0 ELSE f[pick(s)] + h[s \ {pick(s)}]
      <4>1. s # {} => h[s \ {pick(s)}] = g[s \ {pick(s)}]
        BY <2>2, <2>3
      <4>2. h[s] = IF s = {} THEN 0 ELSE f[pick(s)] + g[s \ {pick(s)}]
        OBVIOUS
      <4>. HIDE DEF h, Small
      <4>. QED  BY <4>1, <4>2
    <3>2. h = [s \in Small(n + 1) |-> h[s]]
      OBVIOUS
    <3>. HIDE DEF h, Small, pick
    <3>. QED  BY <3>1, <3>2
  <2>5. \E k : Partial(n + 1, k)
    <3>. HIDE DEF h, Partial
    <3>. QED  BY <2>4
  <2>. HIDE DEF Partial
  <2>. QED  BY <2>5
<1>5. Cardinality(S) \in N
  <2>. HIDE DEF N
  <2>1. Nat \subseteq N
    BY <1>3, <1>4, CountingUp
  <2>. QED  BY <1>1, <2>1
<1>6. Small(Cardinality(S)) = SUBSET S
  BY <1>1
<1>. QED  BY <1>5, <1>6 DEF Sums

(* The function for a set is the one for each of its subsets.              *)
LEMMA SumsAgree ==
  ASSUME NEW f, NEW S, IsFiniteSet(S), NEW T \in SUBSET S,
         NEW g, Sums(f, S, g), NEW h, Sums(f, T, h)
  PROVE  g[T] = h[T]
<1>. DEFINE P == {U \in SUBSET T : g[U] = h[U]}
<1>1. ASSUME NEW U \in SUBSET T, \A x \in U : U \ {x} \in P PROVE U \in P
  <2>1. /\ g[U] = IF U = {} THEN 0 ELSE f[CHOOSE x \in U : TRUE] + g[U \ {CHOOSE x \in U : TRUE}]
        /\ h[U] = IF U = {} THEN 0 ELSE f[CHOOSE x \in U : TRUE] + h[U \ {CHOOSE x \in U : TRUE}]
    BY DEF Sums
  <2>2. U # {} => g[U \ {CHOOSE x \in U : TRUE}] = h[U \ {CHOOSE x \in U : TRUE}]
    BY <1>1
  <2>. QED  BY <2>1, <2>2
<1>. HIDE DEF P
<1>2. T \in P
  BY <1>1, FS_Subset, TakingAway
<1>. QED  BY <1>2 DEF P

(* The sum by its first element, whichever that is.                        *)
LEMMA SumByFirst ==
  ASSUME NEW f, NEW S, IsFiniteSet(S)
  PROVE  LET first == CHOOSE x \in S : TRUE IN
           SumFunctionOnSet(f, S) = IF S = {} THEN 0 ELSE f[first] + SumFunctionOnSet(f, S \ {first})
<1>. DEFINE first == CHOOSE x \in S : TRUE
            g == CHOOSE g : Sums(f, S, g)
            h == CHOOSE h : Sums(f, S \ {first}, h)
<1>1. Sums(f, S, g) /\ Sums(f, S \ {first}, h)
  BY FS_Subset, SumsExist
<1>2. g[S \ {first}] = h[S \ {first}]
  BY <1>1, SumsAgree
<1>3. g[S] = IF S = {} THEN 0 ELSE f[first] + g[S \ {first}]
  BY <1>1 DEF Sums
<1>. QED  BY <1>2, <1>3, SumUnfolds

-----------------------------------------------------------------------------
(* Nothing sums to zero.                                                   *)
LEMMA SumOfNone ==
  ASSUME NEW f
  PROVE  SumFunctionOnSet(f, {}) = 0
BY SumByFirst, FS_EmptySet

(* A sum of integers is an integer.                                        *)
LEMMA SumIsInt ==
  ASSUME NEW f, NEW S, IsFiniteSet(S), \A x \in S : f[x] \in Int
  PROVE  \A T \in SUBSET S : SumFunctionOnSet(f, T) \in Int
<1>. DEFINE P == {T \in SUBSET S : SumFunctionOnSet(f, T) \in Int}
<1>1. ASSUME NEW T \in SUBSET S, \A x \in T : T \ {x} \in P PROVE T \in P
  <2>. DEFINE first == CHOOSE x \in T : TRUE
  <2>1. SumFunctionOnSet(f, T) = IF T = {} THEN 0 ELSE f[first] + SumFunctionOnSet(f, T \ {first})
    BY FS_Subset, SumByFirst
  <2>2. T # {} => first \in T
    OBVIOUS
  <2>. HIDE DEF first
  <2>3. T # {} => SumFunctionOnSet(f, T \ {first}) \in Int /\ f[first] \in Int
    BY <1>1, <2>2
  <2>. QED  BY <2>1, <2>3
<1>. HIDE DEF P
<1>2. \A T \in SUBSET S : T \in P
  BY <1>1, TakingAway
<1>. QED  BY <1>2 DEF P

(* Any element may be added first.                                         *)
LEMMA SumByElement ==
  ASSUME NEW f, NEW S, IsFiniteSet(S), \A x \in S : f[x] \in Int, NEW e \in S
  PROVE  SumFunctionOnSet(f, S) = f[e] + SumFunctionOnSet(f, S \ {e})
<1>. DEFINE sum(T) == SumFunctionOnSet(f, T)
            P == {T \in SUBSET S : \A x \in T : sum(T) = f[x] + sum(T \ {x})}
<1>1. ASSUME NEW T \in SUBSET S, \A x \in T : T \ {x} \in P, NEW x \in T
      PROVE  sum(T) = f[x] + sum(T \ {x})
  <2>1. PICK c \in T : sum(T) = f[c] + sum(T \ {c})
    BY FS_Subset, SumByFirst
  <2>2. CASE x # c
    <3>1. sum(T \ {c}) = f[x] + sum((T \ {c}) \ {x})
      BY <1>1, <2>2
    <3>2. sum(T \ {x}) = f[c] + sum((T \ {x}) \ {c})
      BY <1>1, <2>2
    <3>3. (T \ {c}) \ {x} = (T \ {x}) \ {c}
      OBVIOUS
    <3>5. sum((T \ {c}) \ {x}) = sum((T \ {x}) \ {c})
      BY <3>3
    <3>6. sum((T \ {c}) \ {x}) \in Int
      BY SumIsInt
    <3>4. f[x] \in Int /\ f[c] \in Int
      OBVIOUS
    <3>. HIDE DEF sum
    <3>. QED  BY <2>1, <3>1, <3>2, <3>4, <3>5, <3>6
  <2>3. CASE x = c
    BY <2>1, <2>3
  <2>. QED  BY <2>2, <2>3
<1>2. ASSUME NEW T \in SUBSET S, \A x \in T : T \ {x} \in P PROVE T \in P
  BY <1>1, <1>2
<1>. HIDE DEF P
<1>3. S \in SUBSET S /\ \A T \in SUBSET S : T \in P
  BY <1>2, TakingAway
<1>. QED  BY <1>3 DEF P

(* An element more.                                                        *)
LEMMA SumWithElement ==
  ASSUME NEW f, NEW S, IsFiniteSet(S), \A x \in S : f[x] \in Int, NEW e, e \notin S, f[e] \in Int
  PROVE  SumFunctionOnSet(f, S \union {e}) = SumFunctionOnSet(f, S) + f[e]
<1>1. IsFiniteSet(S \union {e}) /\ (S \union {e}) \ {e} = S
  BY FS_AddElement
<1>2. SumFunctionOnSet(f, S) \in Int
  BY SumIsInt
<1>3. SumFunctionOnSet(f, S \union {e}) = f[e] + SumFunctionOnSet(f, (S \union {e}) \ {e})
  <2>. DEFINE R == S \union {e}
  <2>1. \A x \in R : f[x] \in Int
    OBVIOUS
  <2>2. e \in R /\ IsFiniteSet(R)
    BY <1>1
  <2>. HIDE DEF R
  <2>3. SumFunctionOnSet(f, R) = f[e] + SumFunctionOnSet(f, R \ {e})
    BY <2>1, <2>2, SumByElement
  <2>. QED  BY <2>3 DEF R
<1>4. SumFunctionOnSet(f, (S \union {e}) \ {e}) = SumFunctionOnSet(f, S)
  BY <1>1
<1>. QED  BY <1>2, <1>3, <1>4

(* A sum of less, over fewer elements, is no larger, if those left out add *)
(* nothing negative.                                                       *)
LEMMA SumAtMost ==
  ASSUME NEW f, NEW g, NEW S, IsFiniteSet(S), NEW T \in SUBSET S,
         \A x \in S : f[x] \in Int /\ g[x] \in Int,
         \A x \in T : f[x] <= g[x],
         \A x \in S \ T : 0 <= g[x]
  PROVE  SumFunctionOnSet(f, T) <= SumFunctionOnSet(g, S)
<1>. DEFINE P == {U \in SUBSET S : SumFunctionOnSet(f, U \cap T) <= SumFunctionOnSet(g, U)}
<1>1. ASSUME NEW U \in SUBSET S, \A x \in U : U \ {x} \in P
      PROVE  SumFunctionOnSet(f, U \cap T) <= SumFunctionOnSet(g, U)
  <2>1. CASE U = {}
    <3>1. U \cap T = {}
      BY <2>1
    <3>. QED  BY <2>1, <3>1, SumOfNone
  <2>2. ASSUME NEW x \in U
        PROVE  SumFunctionOnSet(f, U \cap T) <= SumFunctionOnSet(g, U)
    <3>1. IsFiniteSet(U) /\ IsFiniteSet(U \cap T)
      BY FS_Subset
    <3>2. SumFunctionOnSet(g, U) = g[x] + SumFunctionOnSet(g, U \ {x})
      BY <3>1, SumByElement
    <3>3. SumFunctionOnSet(f, (U \ {x}) \cap T) <= SumFunctionOnSet(g, U \ {x})
      BY <1>1
    <3>4. /\ SumFunctionOnSet(f, (U \ {x}) \cap T) \in Int
          /\ SumFunctionOnSet(g, U \ {x}) \in Int
      BY SumIsInt
    <3>5. CASE x \in T
      <4>1. SumFunctionOnSet(f, U \cap T) = f[x] + SumFunctionOnSet(f, (U \cap T) \ {x})
        BY <3>1, <3>5, SumByElement
      <4>2. (U \cap T) \ {x} = (U \ {x}) \cap T
        OBVIOUS
      <4>3. SumFunctionOnSet(f, U \cap T) = f[x] + SumFunctionOnSet(f, (U \ {x}) \cap T)
        BY <4>1, <4>2
      <4>4. f[x] \in Int /\ g[x] \in Int /\ f[x] <= g[x]
        BY <3>5
      <4>. QED  BY <3>2, <3>3, <3>4, <4>3, <4>4
    <3>6. CASE x \notin T
      <4>1. U \cap T = (U \ {x}) \cap T
        BY <3>6
      <4>2. SumFunctionOnSet(f, U \cap T) = SumFunctionOnSet(f, (U \ {x}) \cap T)
        BY <4>1
      <4>3. g[x] \in Int /\ 0 <= g[x]
        BY <3>6
      <4>. QED  BY <3>2, <3>3, <3>4, <4>2, <4>3
    <3>. QED  BY <3>5, <3>6
  <2>. QED  BY <2>1, <2>2
<1>2. ASSUME NEW U \in SUBSET S, \A x \in U : U \ {x} \in P PROVE U \in P
  BY <1>1, <1>2
<1>. HIDE DEF P
<1>3. S \in SUBSET S /\ \A U \in SUBSET S : U \in P
  BY <1>2, TakingAway
<1>4. SumFunctionOnSet(f, S \cap T) <= SumFunctionOnSet(g, S)
  BY <1>3 DEF P
<1>5. S \cap T = T
  OBVIOUS
<1>. QED  BY <1>4, <1>5

(* Functions that agree on S have the same sum over it.                    *)
LEMMA SumOfEqual ==
  ASSUME NEW f, NEW g, NEW S, IsFiniteSet(S), \A x \in S : f[x] \in Int /\ g[x] = f[x]
  PROVE  SumFunctionOnSet(f, S) = SumFunctionOnSet(g, S)
<1>1. SumFunctionOnSet(f, S) \in Int /\ SumFunctionOnSet(g, S) \in Int
  BY SumIsInt
<1>2. SumFunctionOnSet(f, S) <= SumFunctionOnSet(g, S)
  BY SumAtMost
<1>3. SumFunctionOnSet(g, S) <= SumFunctionOnSet(f, S)
  BY SumAtMost
<1>. QED  BY <1>1, <1>2, <1>3

(* A sum of naturals is a natural.                                         *)
LEMMA SumIsNat ==
  ASSUME NEW f, NEW S, IsFiniteSet(S), \A x \in S : f[x] \in Nat
  PROVE  SumFunctionOnSet(f, S) \in Nat
<1>1. \A x \in S : f[x] \in Int
  OBVIOUS
<1>2. SumFunctionOnSet(f, S) \in Int
  BY <1>1, SumIsInt
<1>3. SumFunctionOnSet(f, {}) <= SumFunctionOnSet(f, S)
  <2>1. {} \in SUBSET S /\ \A x \in S \ {} : 0 <= f[x]
    OBVIOUS
  <2>. QED  BY <1>1, <2>1, SumAtMost
<1>. QED  BY <1>2, <1>3, SumOfNone

(* Sums over intervals that begin at one.                                  *)
LEMMA SumToNext ==
  ASSUME NEW n \in Nat, NEW f, \A x \in 1..(n + 1) : f[x] \in Int
  PROVE  SumFunctionOnSet(f, 1..(n + 1)) = SumFunctionOnSet(f, 1..n) + f[n + 1]
<1>1. 1..(n + 1) = (1..n) \union {n + 1} /\ IsFiniteSet(1..n) /\ n + 1 \notin 1..n
  BY FS_Interval
<1>2. f[n + 1] \in Int /\ \A x \in 1..n : f[x] \in Int
  OBVIOUS
<1>3. SumFunctionOnSet(f, (1..n) \union {n + 1}) = SumFunctionOnSet(f, 1..n) + f[n + 1]
  <2>. DEFINE R == 1..n
              e == n + 1
  <2>. HIDE DEF R, e
  <2>1. IsFiniteSet(R) /\ e \notin R /\ f[e] \in Int /\ \A x \in R : f[x] \in Int
    BY <1>1, <1>2 DEF R, e
  <2>2. SumFunctionOnSet(f, R \union {e}) = SumFunctionOnSet(f, R) + f[e]
    BY <2>1, SumWithElement
  <2>. QED  BY <2>2 DEF R, e
<1>4. SumFunctionOnSet(f, 1..(n + 1)) = SumFunctionOnSet(f, (1..n) \union {n + 1})
  BY <1>1
<1>. QED  BY <1>3, <1>4

(* One value more by one.                                                  *)
LEMMA SumOfOneMore ==
  ASSUME NEW f, NEW g, NEW S, IsFiniteSet(S), NEW x,
         \A y \in S : f[y] \in Int /\ g[y] = IF y = x THEN f[y] + 1 ELSE f[y]
  PROVE  SumFunctionOnSet(g, S) = SumFunctionOnSet(f, S) + (IF x \in S THEN 1 ELSE 0)
<1>0. \A y \in S : g[y] \in Int
  OBVIOUS
<1>1. SumFunctionOnSet(f, S) \in Int
  BY SumIsInt
<1>2. CASE x \notin S
  <2>1. \A y \in S : f[y] \in Int /\ g[y] = f[y]
    BY <1>2
  <2>2. SumFunctionOnSet(f, S) = SumFunctionOnSet(g, S)
    BY <2>1, SumOfEqual
  <2>. QED  BY <1>1, <1>2, <2>2
<1>3. CASE x \in S
  <2>1. IsFiniteSet(S \ {x}) /\ \A y \in S \ {x} : f[y] \in Int /\ g[y] = f[y]
    BY FS_RemoveElement
  <2>2. SumFunctionOnSet(f, S \ {x}) = SumFunctionOnSet(g, S \ {x})
    BY <2>1, SumOfEqual
  <2>3. SumFunctionOnSet(f, S \ {x}) \in Int
    BY SumIsInt
  <2>4. SumFunctionOnSet(f, S) = f[x] + SumFunctionOnSet(f, S \ {x})
    BY <1>3, SumByElement
  <2>5. SumFunctionOnSet(g, S) = g[x] + SumFunctionOnSet(g, S \ {x})
    BY <1>0, <1>3, SumByElement
  <2>6. f[x] \in Int /\ g[x] = f[x] + 1
    BY <1>3
  <2>. QED  BY <1>3, <2>2, <2>3, <2>4, <2>5, <2>6
<1>. QED  BY <1>2, <1>3

(* A sum of zeros.                                                         *)
LEMMA SumOfZeros ==
  ASSUME NEW f, NEW S, IsFiniteSet(S), \A x \in S : f[x] = 0
  PROVE  SumFunctionOnSet(f, S) = 0
<1>. DEFINE P == {T \in SUBSET S : SumFunctionOnSet(f, T) = 0}
<1>1. ASSUME NEW T \in SUBSET S, \A x \in T : T \ {x} \in P
      PROVE  SumFunctionOnSet(f, T) = 0
  <2>1. CASE T = {}
    BY <2>1, SumOfNone
  <2>2. ASSUME NEW x \in T PROVE SumFunctionOnSet(f, T) = 0
    <3>1. IsFiniteSet(T) /\ \A y \in T : f[y] \in Int
      BY FS_Subset
    <3>2. SumFunctionOnSet(f, T) = f[x] + SumFunctionOnSet(f, T \ {x})
      BY <3>1, SumByElement
    <3>3. SumFunctionOnSet(f, T \ {x}) = 0 /\ f[x] = 0
      BY <1>1
    <3>. QED  BY <3>2, <3>3
  <2>. QED  BY <2>1, <2>2
<1>2. ASSUME NEW T \in SUBSET S, \A x \in T : T \ {x} \in P PROVE T \in P
  BY <1>1, <1>2
<1>. HIDE DEF P
<1>3. S \in SUBSET S /\ \A T \in SUBSET S : T \in P
  BY <1>2, TakingAway
<1>. QED  BY <1>3 DEF P
=============================================================================
