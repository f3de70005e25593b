----------------------------- MODULE Arithmetic -----------------------------
(***************************************************************************)
(* Facts about numbers that the proofs of several modules rest on.         *)
(*                                                                         *)
(* The sums are those the models take with MapThenSumSet and FoldFunction. *)
(* Both add the values of a set in the order in which CHOOSE picks its     *)
(* elements, by a recursive function on its subsets; what the proofs need  *)
(* is that the order does not matter, so that an element can be taken out  *)
(* or put in.                                                              *)
(***************************************************************************)
EXTENDS Integers, FiniteSetsExt, FiniteSetTheorems, WellFoundedInduction, TLAPS

\* The principle of the least counterexample.
LEMMA LeastExists ==
  ASSUME NEW S, S \subseteq Nat, S # {}
  PROVE  \E n \in S : \A m \in S : ~(m < n)
<1>1. \E n \in S : \A m \in S : ~(<<m, n>> \in OpToRel(<, Nat))
  BY NatLessThanWellFounded, WFMin
<1>2. QED BY <1>1 DEF OpToRel

-----------------------------------------------------------------------------
(* Quotients.                                                              *)

LEMMA Division ==
  ASSUME NEW n \in Int, NEW d \in Nat \ {0}
  PROVE  n \div d \in Int /\ n % d \in 0..d - 1 /\ n = d * (n \div d) + (n % d)
OBVIOUS

\* Less than one step of d apart, two multiples of d are the same.
LEMMA NoMultiple ==
  ASSUME NEW d \in Nat \ {0}, NEW k \in Int, -d < d * k, d * k < d
  PROVE  k = 0
<1>1. CASE k >= 1
  <2>1. d * k >= d
    BY <1>1
  <2>2. QED BY <2>1
<1>2. CASE k <= -1
  <2>1. d * k <= -d
    BY <1>2
  <2>2. QED BY <2>1
<1>3. QED BY <1>1, <1>2

LEMMA QuotientUnique ==
  ASSUME NEW d \in Nat \ {0}, NEW q \in Int, NEW r \in 0..d - 1,
         NEW p \in Int, NEW s \in 0..d - 1, d * q + r = d * p + s
  PROVE  q = p /\ r = s
<1>1. d * (q - p) = d * q - d * p /\ q - p \in Int
  OBVIOUS
<1>2. d * q \in Int /\ d * p \in Int /\ d * (q - p) = s - r
  BY <1>1
<1>3. -d < d * (q - p) /\ d * (q - p) < d
  BY <1>2
<1>4. q - p = 0
  BY <1>1, <1>3, NoMultiple
<1>5. QED BY <1>2, <1>4

\* Dividing twice divides by the product.
LEMMA DivideTwice ==
  ASSUME NEW n \in Nat, NEW a \in Nat \ {0}, NEW b \in Nat \ {0}
  PROVE  a * b \in Nat \ {0} /\ n \div (a * b) = (n \div a) \div b
<1> DEFINE q == n \div a
           r == n % a
           p == q \div b
           s == q % b
           d == a * b
<1>1. /\ q \in Int /\ r \in 0..a - 1 /\ n = a * q + r
      /\ p \in Int /\ s \in 0..b - 1 /\ q = b * p + s
  <2>1. q \in Int /\ r \in 0..a - 1 /\ n = a * q + r
    BY Division
  <2> HIDE DEF q, r
  <2>2. QED BY <2>1, Division
<1>2. d \in Nat \ {0}
  OBVIOUS
<1> DEFINE x == n \div d
           y == n % d
<1>3. x \in Int /\ y \in 0..d - 1 /\ n = d * x + y
  <2> HIDE DEF d
  <2>1. QED BY <1>2, Division
<1>4. a * s + r \in 0..d - 1
  <2> HIDE DEF q, r, p, s
  <2>1. a * s + a <= a * b
    BY <1>1
  <2>2. a * s \in Nat
    BY <1>1
  <2>3. QED BY <1>1, <1>2, <2>1, <2>2
<1>5. n = d * p + (a * s + r)
  <2> HIDE DEF q, r, p, s
  <2>1. a * q = a * (b * p) + a * s
    BY <1>1
  <2>2. a * (b * p) = (a * b) * p
    BY <1>1
  <2>3. /\ a * q \in Int /\ a * s \in Int /\ d * p \in Int
        /\ a * q = d * p + a * s
    BY <1>1, <1>2, <2>1, <2>2
  <2> HIDE DEF d
  <2>4. QED BY <1>1, <2>3
<1> HIDE DEF x, y, d, q, r, p, s
<1>6. x = p
  BY <1>1, <1>2, <1>3, <1>4, <1>5, QuotientUnique
<1>7. QED BY <1>2, <1>6 DEF x, p, q, d

-----------------------------------------------------------------------------
(* Sums, in the order of CHOOSE and in any order.                          *)

\* h adds up the values of f over any subset of S, in the order of CHOOSE.
Adds(h, f, S) ==
  h = [T \in SUBSET S |->
         IF T = {} THEN 0
         ELSE f[CHOOSE x \in T : TRUE] + h[T \ {CHOOSE x \in T : TRUE}]]

\* h adds them up in any order.
AddsAnyhow(h, f, S) ==
  /\ h \in [SUBSET S -> Int]
  /\ h[{}] = 0
  /\ \A T \in SUBSET S : \A x \in T : h[T] = f[x] + h[T \ {x}]

\* A finite set has a least counterexample to a property of its subsets.
LEMMA LeastSubset ==
  ASSUME NEW S, IsFiniteSet(S), NEW C \in SUBSET (SUBSET S), C # {}
  PROVE  \E T \in C : \A x \in T : T \ {x} \notin C
<1>1. C \subseteq FiniteSubsetsOf(S)
  BY FS_Subset DEF FiniteSubsetsOf
<1>2. IsWellFoundedOn(StrictSubsetOrdering(S), FiniteSubsetsOf(S))
  BY FS_StrictSubsetOrderingWellFounded
<1>3. PICK T \in C : \A U \in C : ~(<<U, T>> \in StrictSubsetOrdering(S))
  BY <1>1, <1>2, WFMin
<1>4. ASSUME NEW x \in T, T \ {x} \in C PROVE FALSE
  <2>1. <<T \ {x}, T>> \in StrictSubsetOrdering(S)
    BY <1>4 DEF StrictSubsetOrdering
  <2>2. QED BY <1>3, <1>4, <2>1
<1>5. QED BY <1>4

\* Any order will do.
LEMMA AddsAnyhowExists ==
  ASSUME NEW S, IsFiniteSet(S), NEW f, \A x \in S : f[x] \in Int
  PROVE  \E h : AddsAnyhow(h, f, S)
<1> DEFINE C == {T \in SUBSET S : ~ \E h : AddsAnyhow(h, f, T)}
<1>1. SUFFICES ASSUME C # {} PROVE FALSE
  OBVIOUS
<1>2. PICK T \in C : \A x \in T : T \ {x} \notin C
  BY <1>1, LeastSubset
<1>3. CASE T = {}
  <2> DEFINE h == [U \in SUBSET T |-> 0]
  <2>1. AddsAnyhow(h, f, T)
    BY <1>3 DEF AddsAnyhow
  <2>2. QED BY <1>2, <2>1
<1>4. ASSUME NEW x \in T PROVE FALSE
  <2>1. PICK g : AddsAnyhow(g, f, T \ {x})
    BY <1>2, <1>4
  <2> DEFINE h == [U \in SUBSET T |-> IF x \in U THEN f[x] + g[U \ {x}] ELSE g[U]]
  <2>2. f[x] \in Int /\ \A y \in T : f[y] \in Int
    BY <1>2, <1>4
  <2>3. /\ \A U \in SUBSET (T \ {x}) : g[U] \in Int
        /\ g[{}] = 0
        /\ \A U \in SUBSET (T \ {x}) : \A y \in U : g[U] = f[y] + g[U \ {y}]
    BY <2>1 DEF AddsAnyhow
  <2>4. \A U \in SUBSET T : U \ {x} \in SUBSET (T \ {x}) /\ (x \notin U => U \in SUBSET (T \ {x}))
    OBVIOUS
  <2>5. h \in [SUBSET T -> Int]
    BY <2>2, <2>3, <2>4
  <2>6. h[{}] = 0
    BY <2>3
  <2>7. ASSUME NEW U \in SUBSET T, NEW y \in U PROVE h[U] = f[y] + h[U \ {y}]
    <3>1. U \ {y} \in SUBSET T /\ f[y] \in Int
      BY <2>2
    <3>2. CASE y = x
      BY <3>1, <3>2
    <3>3. CASE y # x /\ x \in U
      <4>1. h[U] = f[x] + g[U \ {x}] /\ h[U \ {y}] = f[x] + g[(U \ {y}) \ {x}]
        BY <3>1, <3>3
      <4>2. (U \ {y}) \ {x} = (U \ {x}) \ {y}
        OBVIOUS
      <4>3. y \in U \ {x} /\ U \ {x} \in SUBSET (T \ {x}) /\ (U \ {x}) \ {y} \in SUBSET (T \ {x})
        BY <3>3
      <4>4. g[U \ {x}] = f[y] + g[(U \ {x}) \ {y}] /\ g[(U \ {x}) \ {y}] \in Int
        BY <2>3, <4>3
      <4> DEFINE rest == g[(U \ {x}) \ {y}]
      <4>5. rest \in Int /\ h[U] = f[x] + (f[y] + rest) /\ h[U \ {y}] = f[x] + rest
        BY <4>1, <4>2, <4>4
      <4> HIDE DEF rest, h
      <4>6. QED BY <2>2, <3>1, <4>5
    <3>4. CASE x \notin U
      <4>1. h[U] = g[U] /\ h[U \ {y}] = g[U \ {y}]
        BY <3>1, <3>4
      <4>2. QED BY <2>3, <2>4, <3>4, <4>1
    <3>5. QED BY <3>2, <3>3, <3>4
  <2>8. AddsAnyhow(h, f, T)
    BY <2>5, <2>6, <2>7 DEF AddsAnyhow
  <2>9. QED BY <1>2, <2>8
<1>5. QED BY <1>3, <1>4

LEMMA AddsInOrder ==
  ASSUME NEW S, NEW f, NEW h, AddsAnyhow(h, f, S)
  PROVE  Adds(h, f, S)
<1>1. h = [T \in SUBSET S |-> h[T]]
  BY DEF AddsAnyhow
<1>2. ASSUME NEW T \in SUBSET S
      PROVE  h[T] = IF T = {} THEN 0
                    ELSE f[CHOOSE x \in T : TRUE] + h[T \ {CHOOSE x \in T : TRUE}]
  <2>1. CASE T = {}
    BY <2>1 DEF AddsAnyhow
  <2>2. CASE T # {}
    <3>1. (CHOOSE x \in T : TRUE) \in T
      BY <2>2
    <3> DEFINE c == CHOOSE x \in T : TRUE
    <3> HIDE DEF c
    <3>2. c \in T
      BY <3>1 DEF c
    <3>3. h[T] = f[c] + h[T \ {c}]
      BY <3>2 DEF AddsAnyhow
    <3>4. QED BY <2>2, <3>3 DEF c
  <2>3. QED BY <2>1, <2>2
<1>3. QED BY <1>1, <1>2, Zenon DEF Adds

\* There is only one such function.
LEMMA AddsOnlyOne ==
  ASSUME NEW S, IsFiniteSet(S), NEW f, NEW g, NEW h, Adds(g, f, S), Adds(h, f, S)
  PROVE  g = h
<1> DEFINE C == {T \in SUBSET S : g[T] # h[T]}
<1>1. /\ g = [T \in SUBSET S |-> g[T]]
      /\ h = [T \in SUBSET S |-> h[T]]
  BY DEF Adds
<1>2. ASSUME C # {} PROVE FALSE
  <2>1. PICK T \in C : \A x \in T : T \ {x} \notin C
    BY <1>2, LeastSubset
  <2>2. CASE T = {}
    BY <2>1, <2>2 DEF Adds
  <2>3. CASE T # {}
    <3> DEFINE c == CHOOSE x \in T : TRUE
    <3>1. c \in T
      BY <2>3
    <3>2. g[T] = f[c] + g[T \ {c}] /\ h[T] = f[c] + h[T \ {c}]
      BY <2>1, <2>3 DEF Adds
    <3> HIDE DEF c
    <3>3. g[T \ {c}] = h[T \ {c}]
      BY <2>1, <3>1
    <3>4. QED BY <2>1, <3>2, <3>3
  <2>4. QED BY <2>2, <2>3
<1>3. QED BY <1>1, <1>2

-----------------------------------------------------------------------------
(* The sum of the values of f over a set. *)

SumOf(f, S) == MapThenSumSet(LAMBDA x : f[x], S)

\* f has a value to add for every element of a finite set.
Summable(f, S) == IsFiniteSet(S) /\ \A x \in S : f[x] \in Int

LEMMA SumAdds ==
  ASSUME NEW f, NEW S, Summable(f, S), NEW h, Adds(h, f, S)
  PROVE  SumOf(f, S) = h[S]
<1> DEFINE H == CHOOSE g : Adds(g, f, S)
<1>1. SumOf(f, S) = H[S]
  BY Zenon DEF SumOf, MapThenSumSet, MapThenFoldSet, Adds
<1>2. Adds(H, f, S)
  OBVIOUS
<1> HIDE DEF H
<1>3. H = h
  BY <1>2, AddsOnlyOne DEF Summable
<1>4. QED BY <1>1, <1>3

LEMMA SumEmpty == ASSUME NEW f PROVE SumOf(f, {}) = 0
<1>1. Summable(f, {})
  BY FS_EmptySet DEF Summable
<1>2. PICK h : AddsAnyhow(h, f, {})
  BY <1>1, AddsAnyhowExists DEF Summable
<1>3. SumOf(f, {}) = h[{}]
  BY <1>1, <1>2, AddsInOrder, SumAdds
<1>4. QED BY <1>2, <1>3 DEF AddsAnyhow

\* What a sum is depends on the values summed only.
LEMMA SumSame ==
  ASSUME NEW f, NEW g, NEW S, Summable(f, S), \A x \in S : f[x] = g[x]
  PROVE  SumOf(f, S) = SumOf(g, S)
<1>1. PICK h : AddsAnyhow(h, f, S)
  BY AddsAnyhowExists DEF Summable
<1>2. AddsAnyhow(h, g, S)
  BY <1>1 DEF AddsAnyhow
<1>3. Summable(g, S)
  BY DEF Summable
<1>4. SumOf(f, S) = h[S] /\ SumOf(g, S) = h[S]
  BY <1>1, <1>2, <1>3, AddsInOrder, SumAdds
<1>5. QED BY <1>4

\* An element is taken out.
LEMMA SumRemove ==
  ASSUME NEW f, NEW S, Summable(f, S), NEW x \in S
  PROVE  /\ Summable(f, S \ {x})
         /\ SumOf(f, S \ {x}) \in Int
         /\ SumOf(f, S) = f[x] + SumOf(f, S \ {x})
<1>1. PICK h : AddsAnyhow(h, f, S)
  BY AddsAnyhowExists DEF Summable
<1>2. SumOf(f, S) = h[S]
  BY <1>1, AddsInOrder, SumAdds
<1>3. Summable(f, S \ {x})
  BY FS_RemoveElement DEF Summable
<1> DEFINE T == S \ {x}
           g == [U \in SUBSET T |-> h[U]]
<1>4. \A U \in SUBSET T : U \in SUBSET S /\ \A y \in U : U \ {y} \in SUBSET T
  OBVIOUS
<1>5. AddsAnyhow(g, f, T)
  BY <1>1, <1>4 DEF AddsAnyhow
<1>6. SumOf(f, T) = g[T]
  <2> HIDE DEF g, T
  <2>1. Summable(f, T)
    BY <1>3 DEF T
  <2>2. QED BY <1>5, <2>1, AddsInOrder, SumAdds
<1>7. g[T] = h[T] /\ h[T] \in Int /\ h[S] = f[x] + h[T]
  BY <1>1 DEF AddsAnyhow
<1>8. QED BY <1>2, <1>3, <1>6, <1>7

LEMMA SumType ==
  ASSUME NEW f, NEW S, Summable(f, S)
  PROVE  SumOf(f, S) \in Int
<1>1. PICK h : AddsAnyhow(h, f, S)
  BY AddsAnyhowExists DEF Summable
<1>2. SumOf(f, S) = h[S]
  BY <1>1, AddsInOrder, SumAdds
<1>3. QED BY <1>1, <1>2 DEF AddsAnyhow

\* An element is put in.
LEMMA SumAdd ==
  ASSUME NEW f, NEW S, Summable(f, S), NEW x, x \notin S, f[x] \in Int
  PROVE  /\ Summable(f, S \union {x})
         /\ SumOf(f, S \union {x}) = f[x] + SumOf(f, S)
<1> DEFINE T == S \union {x}
<1>1. Summable(f, T)
  BY FS_AddElement DEF Summable
<1>2. x \in T /\ T \ {x} = S
  OBVIOUS
<1> HIDE DEF T
<1>3. SumOf(f, T) = f[x] + SumOf(f, T \ {x})
  BY <1>1, <1>2, SumRemove
<1>4. QED BY <1>1, <1>2, <1>3 DEF T

\* One value of a sum changes.
LEMMA SumChange ==
  ASSUME NEW f, NEW g, NEW S, Summable(f, S), NEW x \in S, g[x] \in Int,
         \A y \in S \ {x} : g[y] = f[y]
  PROVE  /\ Summable(g, S)
         /\ SumOf(g, S) = SumOf(f, S) + (g[x] - f[x])
<1>1. Summable(g, S) /\ f[x] \in Int
  BY DEF Summable
<1>2. /\ SumOf(f, S) = f[x] + SumOf(f, S \ {x})
      /\ SumOf(g, S) = g[x] + SumOf(g, S \ {x})
      /\ Summable(f, S \ {x})
  BY <1>1, SumRemove
<1>3. SumOf(g, S \ {x}) = SumOf(f, S \ {x})
  BY <1>2, SumSame
<1>4. SumOf(f, S \ {x}) \in Int
  BY <1>2, SumType
<1>5. QED BY <1>1, <1>2, <1>3, <1>4
=============================================================================
