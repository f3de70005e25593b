--------------------------- MODULE RecoveryProofs ---------------------------
(***************************************************************************)
(* The recovery of lost batches is complete and in order, for batches and  *)
(* stores of any size, any number of orders, any losses and any delay of   *)
(* the stores.                                                             *)
(***************************************************************************)
EXTENDS Recovery, Arithmetic, SequenceTheorems, TLAPS

-----------------------------------------------------------------------------
(* Sequences that ascend. *)

Ascending(s) == \A j, k \in 1..Len(s) : j < k => s[j] < s[k]

\* Batch a ends before batch b begins.
Before(a, b) == a[Len(a)] < b[1]

\* The batches of s come one after the other.
Ordered(s) == \A i, j \in 1..Len(s) : i < j => Before(s[i], s[j])

\* A batch holds consecutive orders.
IsRun(b) == b # <<>> /\ \A i \in 1..Len(b) : b[i] = b[1] + i - 1

\* A run is what its first and its last order say.
LEMMA RunFacts ==
  ASSUME NEW b \in Seq(Nat), IsRun(b)
  PROVE  /\ Len(b) \in Nat \ {0}
         /\ b[1] \in Nat /\ b[Len(b)] \in Nat /\ b[1] <= b[Len(b)]
         /\ Ascending(b)
         /\ \A n \in Nat : n \in Range(b) <=> b[1] <= n /\ n <= b[Len(b)]
         /\ Range(b) \subseteq Nat
<1>1. /\ Len(b) \in Nat \ {0} /\ 1 \in 1..Len(b) /\ Len(b) \in 1..Len(b)
      /\ \A i \in 1..Len(b) : b[i] \in Nat
      /\ DOMAIN b = 1..Len(b)
  BY DEF IsRun
<1>2. \A i \in 1..Len(b) : b[i] = b[1] + i - 1
  BY DEF IsRun
<1>3. b[1] \in Nat /\ b[Len(b)] \in Nat /\ b[1] <= b[Len(b)]
  BY <1>1, <1>2
<1>4. Ascending(b)
  BY <1>1, <1>2 DEF Ascending
<1>5. ASSUME NEW n \in Nat, b[1] <= n, n <= b[Len(b)] PROVE n \in Range(b)
  <2> DEFINE i == n - b[1] + 1
  <2>1. i \in 1..Len(b) /\ b[i] = n
    BY <1>1, <1>2, <1>3, <1>5, SMTT(30)
  <2>2. QED BY <1>1, <2>1 DEF Range
<1>6. ASSUME NEW n \in Range(b) PROVE b[1] <= n /\ n <= b[Len(b)] /\ n \in Nat
  <2>1. PICK i \in 1..Len(b) : n = b[i]
    BY <1>1 DEF Range
  <2>2. b[Len(b)] = b[1] + Len(b) - 1 /\ n = b[1] + i - 1
    BY <1>1, <1>2, <2>1
  <2>3. QED BY <1>1, <1>3, <2>1, <2>2
<1>7. QED BY <1>1, <1>3, <1>4, <1>5, <1>6

LEMMA AscendingEnds ==
  ASSUME NEW s \in Seq(Nat), Ascending(s), NEW i \in 1..Len(s)
  PROVE  s[1] <= s[i] /\ s[i] <= s[Len(s)]
<1>1. Len(s) \in Nat /\ 1 \in 1..Len(s) /\ Len(s) \in 1..Len(s) /\ i \in Nat
  OBVIOUS
<1>2. s[1] \in Nat /\ s[i] \in Nat /\ s[Len(s)] \in Nat
  BY <1>1
<1>3. (i = 1 \/ 1 < i) /\ (i = Len(s) \/ i < Len(s))
  BY <1>1
<1>4. (1 < i => s[1] < s[i]) /\ (i < Len(s) => s[i] < s[Len(s)])
  BY <1>1 DEF Ascending
<1>5. QED BY <1>2, <1>3, <1>4

\* Two ascending sequences, one after the other.
LEMMA ConcatAscends ==
  ASSUME NEW a \in Seq(Nat), NEW b \in Seq(Nat), a # <<>>, b # <<>>,
         Ascending(a), Ascending(b), Before(a, b)
  PROVE  /\ a \o b \in Seq(Nat) /\ a \o b # <<>>
         /\ Ascending(a \o b)
         /\ (a \o b)[Len(a \o b)] = b[Len(b)]
<1> DEFINE c == a \o b
           m == Len(a)
           n == Len(b)
<1>1. /\ c \in Seq(Nat) /\ Len(c) = m + n /\ m \in Nat \ {0} /\ n \in Nat \ {0}
      /\ \A i \in 1..m : c[i] = a[i] /\ a[i] \in Nat
      /\ \A i \in 1..n : c[m + i] = b[i] /\ b[i] \in Nat
  OBVIOUS
<1> HIDE DEF c
<1>2. \A i \in 1..m + n : i \in 1..m \/ (i - m \in 1..n /\ i = m + (i - m))
  BY <1>1
<1>3. \A i \in 1..m : a[i] <= a[m]
  BY AscendingEnds
<1>4. \A i \in 1..n : b[1] <= b[i]
  BY AscendingEnds
<1>5. a[m] < b[1] /\ a[m] \in Nat /\ b[1] \in Nat
  BY <1>1 DEF Before
<1>6. ASSUME NEW j \in 1..m + n, NEW k \in 1..m + n, j < k PROVE c[j] < c[k]
  <2>1. CASE j \in 1..m /\ k \in 1..m
    BY <1>1, <1>6, <2>1 DEF Ascending
  <2>2. CASE j \in 1..m /\ k - m \in 1..n
    <3>1. c[j] = a[j] /\ c[m + (k - m)] = b[k - m]
      BY <1>1, <2>2
    <3>2. m + (k - m) = k
      BY <1>1, <2>2
    <3>3. a[j] <= a[m] /\ b[1] <= b[k - m] /\ a[j] \in Nat /\ b[k - m] \in Nat
      BY <1>1, <1>3, <1>4, <2>2
    <3>4. QED BY <1>5, <3>1, <3>2, <3>3, SMTT(30)
  <2>3. CASE j - m \in 1..n /\ k - m \in 1..n
    <3>1. c[m + (j - m)] = b[j - m] /\ c[m + (k - m)] = b[k - m]
      BY <1>1, <2>3
    <3>2. m + (k - m) = k /\ m + (j - m) = j /\ j - m < k - m
      BY <1>1, <1>6, <2>3
    <3>3. b[j - m] < b[k - m]
      BY <2>3, <3>2 DEF Ascending
    <3>4. QED BY <3>1, <3>2, <3>3
  <2>4. QED BY <1>1, <1>2, <1>6, <2>1, <2>2, <2>3, SMTT(30)
<1>7. Ascending(c)
  BY <1>1, <1>6 DEF Ascending
<1>8. c[m + n] = b[n] /\ c # <<>>
  BY <1>1
<1>9. QED BY <1>1, <1>7, <1>8 DEF c

LEMMA ConcatRange ==
  ASSUME NEW S, NEW a \in Seq(S), NEW b \in Seq(S)
  PROVE  Range(a \o b) = Range(a) \union Range(b)
BY RangeConcatenation

-----------------------------------------------------------------------------
(* FlattenSeq: the batches one after the other. *)

\* h[k] is what the first k of the sequences in s make.
Chains(h, s, n) == h = [k \in 1..n |-> IF k = 1 THEN s[k] ELSE h[k - 1] \o s[k]]

LEMMA ChainExists ==
  ASSUME NEW s, NEW n \in Nat
  PROVE  \E h : Chains(h, s, n)
<1> DEFINE C == {m \in Nat : ~ \E h : Chains(h, s, m)}
<1>1. SUFFICES ASSUME C # {} PROVE FALSE
  OBVIOUS
<1>2. PICK m \in C : \A l \in C : ~(l < m)
  <2> HIDE DEF C
  <2>1. C \subseteq Nat
    BY DEF C
  <2>2. QED BY <1>1, <2>1, LeastExists
<1>3. CASE m = 0
  <2> DEFINE h == [k \in 1..0 |-> s[k]]
  <2>1. Chains(h, s, 0)
    BY DEF Chains
  <2>2. QED BY <1>2, <1>3, <2>1
<1>4. CASE m # 0
  <2>1. m \in Nat /\ m - 1 \in Nat /\ m - 1 < m
    BY <1>2, <1>4
  <2>2. PICK g : Chains(g, s, m - 1)
    BY <1>2, <2>1
  <2> DEFINE h == [k \in 1..m |-> IF k = m
                                  THEN IF m = 1 THEN s[m] ELSE g[m - 1] \o s[m]
                                  ELSE g[k]]
  <2>3. ASSUME NEW k \in 1..m
        PROVE  h[k] = IF k = 1 THEN s[k] ELSE h[k - 1] \o s[k]
    <3>1. CASE k = m
      BY <2>1, <3>1
    <3>2. CASE k # m
      <4>1. k \in 1..m - 1 /\ (k # 1 => k - 1 \in 1..m /\ k - 1 # m)
        BY <2>1, <3>2
      <4>2. g[k] = IF k = 1 THEN s[k] ELSE g[k - 1] \o s[k]
        BY <2>2, <4>1 DEF Chains
      <4>3. h[k] = g[k] /\ (k # 1 => h[k - 1] = g[k - 1])
        BY <3>2, <4>1
      <4>4. QED BY <4>2, <4>3
    <3>3. QED BY <3>1, <3>2
  <2>4. h = [k \in 1..m |-> h[k]]
    OBVIOUS
  <2> HIDE DEF h
  <2>5. Chains(h, s, m)
    BY <2>3, <2>4 DEF Chains
  <2>6. QED BY <1>2, <2>5
<1>5. QED BY <1>3, <1>4

LEMMA FlattenChain ==
  ASSUME NEW s, Len(s) \in Nat, Len(s) # 0
  PROVE  \E h : Chains(h, s, Len(s)) /\ FlattenSeq(s) = h[Len(s)]
<1> DEFINE H == CHOOSE h : Chains(h, s, Len(s))
<1>1. FlattenSeq(s) = H[Len(s)]
  BY Zenon DEF FlattenSeq, Chains
<1>2. Chains(H, s, Len(s))
  BY ChainExists
<1>3. QED BY <1>1, <1>2

\* What the first k batches of s hold.
HeldBy(s, k) == UNION {Range(s[i]) : i \in 1..k}

LEMMA HeldByNext ==
  ASSUME NEW s, NEW l \in Nat, NEW k, k = l + 1
  PROVE  HeldBy(s, k) = HeldBy(s, l) \union Range(s[k])
<1>1. 1..k = 1..l \union {k}
  OBVIOUS
<1>2. \A x : x \in HeldBy(s, k) <=> \E i \in 1..k : x \in Range(s[i])
  BY Zenon DEF HeldBy
<1>3. \A x : x \in HeldBy(s, l) <=> \E i \in 1..l : x \in Range(s[i])
  BY Zenon DEF HeldBy
<1>4. QED BY Zenon, <1>1, <1>2, <1>3

\* What a chain of batches in their order holds.
Joined(t, s, k) ==
  /\ t \in Seq(Nat) /\ t # <<>> /\ Ascending(t)
  /\ t[Len(t)] = s[k][Len(s[k])]
  /\ Range(t) = HeldBy(s, k)

LEMMA FlattenFacts ==
  ASSUME NEW s \in Seq(Seq(Nat)), Ordered(s), s # <<>>,
         \A i \in 1..Len(s) : s[i] # <<>> /\ Ascending(s[i])
  PROVE  Joined(FlattenSeq(s), s, Len(s))
<1>1. /\ Len(s) \in Nat /\ Len(s) # 0
      /\ \A i \in 1..Len(s) : s[i] \in Seq(Nat)
  OBVIOUS
<1>2. PICK h : Chains(h, s, Len(s)) /\ FlattenSeq(s) = h[Len(s)]
  BY <1>1, FlattenChain
<1> DEFINE C == {k \in 1..Len(s) : ~Joined(h[k], s, k)}
<1>3. ASSUME C # {} PROVE FALSE
  <2>1. C \subseteq Nat
    OBVIOUS
  <2>2. PICK k \in C : \A l \in C : ~(l < k)
    <3> HIDE DEF C
    <3>1. QED BY <1>3, <2>1, LeastExists
  <2>3. k \in 1..Len(s) /\ s[k] \in Seq(Nat) /\ s[k] # <<>> /\ Ascending(s[k])
    BY <1>1
  <2>4. CASE k = 1
    <3>1. h[k] = s[k]
      BY <1>2, <2>3, <2>4 DEF Chains
    <3>2. HeldBy(s, 0) = {}
      BY DEF HeldBy
    <3>3. HeldBy(s, k) = Range(s[k])
      <4>1. 0 \in Nat /\ k = 0 + 1
        BY <2>4
      <4>2. HeldBy(s, k) = HeldBy(s, 0) \union Range(s[k])
        BY Zenon, <4>1, HeldByNext
      <4>3. QED BY <3>2, <4>2
    <3>4. Joined(h[k], s, k)
      BY <2>3, <3>1, <3>3 DEF Joined
    <3>5. QED BY <3>4
  <2>5. CASE k # 1
    <3> DEFINE l == k - 1
    <3>1. l \in 1..Len(s) /\ l < k /\ k = l + 1 /\ l \in Nat
      BY <1>1, <2>3, <2>5
    <3>2. Joined(h[l], s, l)
      BY <2>2, <3>1
    <3>3. h[k] = h[l] \o s[k]
      BY <1>2, <2>3, <2>5 DEF Chains
    <3> HIDE DEF l
    <3> DEFINE t == h[l]
               b == s[k]
    <3>4. /\ t \in Seq(Nat) /\ t # <<>> /\ Ascending(t)
          /\ t[Len(t)] = s[l][Len(s[l])]
          /\ Range(t) = HeldBy(s, l)
          /\ b \in Seq(Nat) /\ b # <<>> /\ Ascending(b)
      BY <2>3, <3>2 DEF Joined
    <3>5. Before(s[l], b)
      BY <2>3, <3>1 DEF Ordered
    <3> HIDE DEF t, b
    <3>6. Before(t, b)
      BY <3>4, <3>5 DEF Before
    <3>7. /\ t \o b \in Seq(Nat) /\ t \o b # <<>> /\ Ascending(t \o b)
          /\ (t \o b)[Len(t \o b)] = b[Len(b)]
          /\ Range(t \o b) = Range(t) \union Range(b)
      BY <3>4, <3>6, ConcatAscends, ConcatRange, SMTT(30)
    <3>8. HeldBy(s, k) = HeldBy(s, l) \union Range(b)
      BY <3>1, HeldByNext DEF b
    <3>9. Joined(t \o b, s, k)
      BY <3>4, <3>7, <3>8 DEF Joined, b
    <3>10. h[k] = t \o b
      BY <3>3 DEF t, b
    <3>11. QED BY <3>9, <3>10
  <2>6. QED BY <2>4, <2>5
<1>4. Len(s) \in 1..Len(s)
  BY <1>1
<1>5. QED BY <1>2, <1>3, <1>4

LEMMA FlattenEmpty == FlattenSeq(<<>>) = <<>>
BY DEF FlattenSeq

-----------------------------------------------------------------------------
(* Popping from the front of a store. *)

LEMMA BelowFacts ==
  ASSUME NEW s \in Seq(Int), NEW n \in Int
  PROVE  /\ Below(s, n) \in 0..Len(s)
         /\ \A i \in 1..Below(s, n) : s[i] < n
         /\ Below(s, n) < Len(s) => s[Below(s, n) + 1] >= n
<1> DEFINE P(k) == /\ \A i \in 1..k : s[i] < n
                   /\ k < Len(s) => s[k + 1] >= n
           C == {i \in 1..Len(s) : s[i] >= n}
<1>1. Len(s) \in Nat /\ \A i \in 1..Len(s) : s[i] \in Int
  OBVIOUS
<1>2. \E k \in 0..Len(s) : P(k)
  <2>1. CASE C = {}
    <3>1. P(Len(s)) /\ Len(s) \in 0..Len(s)
      BY <1>1, <2>1
    <3>2. QED BY <3>1
  <2>2. CASE C # {}
    <3>1. C \subseteq Nat
      BY <1>1
    <3>2. PICK i \in C : \A j \in C : ~(j < i)
      <4> HIDE DEF C
      <4>1. QED BY <2>2, <3>1, LeastExists
    <3>3. i \in 1..Len(s) /\ s[i] >= n
      BY <3>2
    <3> DEFINE k == i - 1
    <3>4. k \in 0..Len(s) /\ s[k + 1] >= n
      BY <1>1, <3>3
    <3>5. ASSUME NEW j \in 1..k PROVE s[j] < n
      BY <1>1, <3>2, <3>3
    <3>6. QED BY <3>4, <3>5
  <2>3. QED BY <2>1, <2>2
<1> HIDE DEF P
<1>3. Below(s, n) \in 0..Len(s) /\ P(Below(s, n))
  <2>1. Below(s, n) = CHOOSE k \in 0..Len(s) : P(k)
    BY Zenon DEF Below, P
  <2>2. QED BY <1>2, <2>1
<1>4. QED BY <1>3 DEF P

\* A line of batches: runs, one after the other.
IsLine(q) == q \in Seq(Seq(Nat)) /\ Ordered(q) /\ \A b \in Range(q) : IsRun(b)

Taken(q, n) == SubSeq(q, 1, Below(FirstsOf(q), n))

Rest(q, n) == SubSeq(q, Below(FirstsOf(q), n) + 1, Len(q))

LEMMA RangeFacts ==
  ASSUME NEW S, NEW q \in Seq(S)
  PROVE  /\ \A i \in 1..Len(q) : q[i] \in Range(q) /\ q[i] \in S
         /\ \A x \in Range(q) : x \in S /\ \E i \in 1..Len(q) : x = q[i]
BY DEF Range

LEMMA SubSeqFacts ==
  ASSUME NEW S, NEW q \in Seq(S), NEW k \in 0..Len(q)
  PROVE  /\ Len(q) \in Nat
         /\ SubSeq(q, 1, k) \in Seq(S) /\ Len(SubSeq(q, 1, k)) = k
         /\ \A i \in 1..k : SubSeq(q, 1, k)[i] = q[i]
         /\ SubSeq(q, k + 1, Len(q)) \in Seq(S)
         /\ Len(SubSeq(q, k + 1, Len(q))) = Len(q) - k
         /\ \A i \in 1..Len(q) - k : SubSeq(q, k + 1, Len(q))[i] = q[k + i]
OBVIOUS

\* What is popped lies below, what stays does not.
LEMMA PopFacts ==
  ASSUME NEW q, IsLine(q), NEW n \in Nat
  PROVE  /\ IsLine(Taken(q, n)) /\ IsLine(Rest(q, n))
         /\ \A b : b \in Range(Taken(q, n)) <=> b \in Range(q) /\ b[1] < n
         /\ \A b : b \in Range(Rest(q, n)) <=> b \in Range(q) /\ b[1] >= n
<1> DEFINE f == FirstsOf(q)
           k == Below(f, n)
           t == Taken(q, n)
           r == Rest(q, n)
<1>1. /\ q \in Seq(Seq(Nat)) /\ Len(q) \in Nat
      /\ \A i \in 1..Len(q) : q[i] \in Seq(Nat) /\ IsRun(q[i]) /\ q[i] \in Range(q)
      /\ \A i, j \in 1..Len(q) : i < j => Before(q[i], q[j])
  BY RangeFacts DEF IsLine, Ordered
<1>2. \A i \in 1..Len(q) : q[i][1] \in Nat /\ q[i][Len(q[i])] \in Nat
                           /\ q[i][1] <= q[i][Len(q[i])]
  BY <1>1, RunFacts
<1>3. f = [i \in 1..Len(q) |-> q[i][1]]
  BY <1>1 DEF FirstsOf
<1> HIDE DEF f
<1>4. f \in Seq(Int) /\ Len(f) = Len(q) /\ \A i \in 1..Len(q) : f[i] = q[i][1]
  BY <1>1, <1>2, <1>3
<1>5. \A i, j \in 1..Len(q) : i < j => q[i][1] < q[j][1]
  <2>1. ASSUME NEW i \in 1..Len(q), NEW j \in 1..Len(q), i < j PROVE q[i][1] < q[j][1]
    <3>1. q[i][Len(q[i])] < q[j][1]
      BY <1>1, <2>1 DEF Before
    <3>2. QED BY <1>2, <3>1
  <2>2. QED BY <2>1
<1>6. /\ k \in 0..Len(q)
      /\ \A i \in 1..k : f[i] < n
      /\ k < Len(q) => f[k + 1] >= n
  BY <1>4, BelowFacts
<1>7. t = SubSeq(q, 1, k) /\ r = SubSeq(q, k + 1, Len(q))
  BY DEF Taken, Rest, f
<1> HIDE DEF k, t, r
<1>8. \A i \in 1..k : i \in 1..Len(q) /\ q[i][1] < n
  <2>1. \A i \in 1..k : i \in 1..Len(q)
    BY <1>1, <1>6
  <2>2. QED BY <1>4, <1>6, <2>1
<1>9. \A i \in 1..Len(q) : ~(i \in 1..k) => q[i][1] >= n /\ i - k \in 1..Len(q) - k
  <2>1. ASSUME NEW i \in 1..Len(q), ~(i \in 1..k)
        PROVE  q[i][1] >= n /\ i - k \in 1..Len(q) - k
    <3>1. k < Len(q) /\ k + 1 \in 1..Len(q) /\ (i = k + 1 \/ k + 1 < i)
      BY <1>1, <1>6, <2>1
    <3>2. q[k + 1][1] >= n /\ q[k + 1][1] \in Nat /\ q[i][1] \in Nat
      BY <1>2, <1>4, <1>6, <3>1
    <3>3. k + 1 < i => q[k + 1][1] < q[i][1]
      BY <1>5, <3>1
    <3>4. q[i][1] >= n
      BY <3>1, <3>2, <3>3
    <3>5. i - k \in 1..Len(q) - k
      BY <1>1, <1>6, <2>1
    <3>6. QED BY <3>4, <3>5
  <2>2. QED BY <2>1
<1>10. /\ t \in Seq(Seq(Nat)) /\ Len(t) = k /\ \A i \in 1..k : t[i] = q[i]
       /\ r \in Seq(Seq(Nat)) /\ Len(r) = Len(q) - k
       /\ \A i \in 1..Len(q) - k : r[i] = q[k + i]
  BY <1>1, <1>6, <1>7, SubSeqFacts
<1> DEFINE m == Len(q) - k
<1>a. /\ \A b \in Range(t) : \E i \in 1..k : b = t[i]
      /\ \A i \in 1..k : t[i] \in Range(t)
  <2>1. DOMAIN t = 1..k
    BY <1>10
  <2>2. QED BY <2>1 DEF Range
<1>b. /\ \A b \in Range(r) : \E i \in 1..m : b = r[i]
      /\ \A i \in 1..m : r[i] \in Range(r)
  <2>1. DOMAIN r = 1..m
    BY <1>10
  <2>2. QED BY <2>1 DEF Range
<1>c. (\A i \in 1..k : t[i] = q[i]) /\ (\A i \in 1..m : r[i] = q[k + i])
  BY <1>10
<1>11. \A i \in 1..Len(q) - k : k + i \in 1..Len(q) /\ ~(k + i \in 1..k)
  BY <1>1, <1>6
<1>12. ASSUME NEW b \in Range(t) PROVE b \in Range(q) /\ b[1] < n
  <2>1. PICK i \in 1..k : b = q[i]
    BY <1>a, <1>c
  <2>2. QED BY <1>1, <1>8, <2>1
<1>13. ASSUME NEW b \in Range(r) PROVE b \in Range(q) /\ b[1] >= n
  <2>1. PICK i \in 1..Len(q) - k : b = q[k + i]
    BY <1>b, <1>c
  <2>2. QED BY <1>1, <1>9, <1>11, <2>1
<1>14. ASSUME NEW b \in Range(q)
       PROVE  /\ b[1] < n => b \in Range(t)
              /\ b[1] >= n => b \in Range(r)
              /\ b[1] \in Nat /\ IsRun(b)
  <2>1. PICK i \in 1..Len(q) : b = q[i]
    BY <1>1, RangeFacts
  <2>a. b[1] \in Nat
    BY <1>2, <2>1
  <2>b. IsRun(b)
    BY <1>1, <2>1
  <2>2. CASE i \in 1..k
    <3>1. b[1] < n
      BY <1>8, <2>1, <2>2
    <3>2. b = t[i] /\ t[i] \in Range(t)
      BY <1>a, <1>c, <2>1, <2>2
    <3>3. QED BY <2>a, <2>b, <3>1, <3>2
  <2>3. CASE ~(i \in 1..k)
    <3>1. b[1] >= n /\ i - k \in 1..Len(q) - k
      BY <1>9, <2>1, <2>3
    <3>2. r[i - k] = q[k + (i - k)] /\ k + (i - k) = i
      BY <1>1, <1>6, <1>10, <3>1
    <3>3. b \in Range(r)
      BY <1>b, <2>1, <3>1, <3>2
    <3>4. QED BY <2>a, <2>b, <3>1, <3>3
  <2>4. QED BY <2>2, <2>3
<1>15. IsLine(t)
  <2>1. Ordered(t)
    BY <1>1, <1>6, <1>8, <1>10 DEF Ordered
  <2>2. QED BY <1>10, <1>12, <1>14, <2>1 DEF IsLine
<1>16. IsLine(r)
  <2>1. Ordered(r)
    <3>1. ASSUME NEW i \in 1..Len(r), NEW j \in 1..Len(r), i < j PROVE Before(r[i], r[j])
      <4>1. r[i] = q[k + i] /\ r[j] = q[k + j] /\ k + i < k + j
        BY <1>1, <1>6, <1>10, <3>1, SMTT(30)
      <4>2. k + i \in 1..Len(q) /\ k + j \in 1..Len(q)
        BY <1>10, <1>11
      <4>3. QED BY <1>1, <4>1, <4>2
    <3>2. QED BY <3>1 DEF Ordered
  <2>2. QED BY <1>10, <1>13, <1>14, <2>1 DEF IsLine
<1>17. (\A b \in Range(t) : b[1] < n) /\ (\A b \in Range(r) : b[1] >= n)
  BY <1>12, <1>13
<1>18. QED
  BY <1>12, <1>13, <1>14, <1>15, <1>16 DEF t, r

\* What getSnapshots hands out, lets go and keeps.
LEMMA SnapshotFacts ==
  ASSUME IsLine(batchSnapshots), NEW from \in Nat, NEW to \in Nat
  PROVE  /\ IsLine(Snapshots(from, to)) /\ IsLine(SnapshotsLeft(from, to))
         /\ \A b \in Range(Snapshots(from, to)) :
              b \in Range(batchSnapshots) /\ from <= b[1] /\ b[1] <= to
         /\ \A b \in Range(SnapshotsLeft(from, to)) :
              b \in Range(batchSnapshots) /\ to < b[1]
         /\ \A b \in Range(batchSnapshots) :
              \/ b[1] < from
              \/ b \in Range(Snapshots(from, to))
              \/ b \in Range(SnapshotsLeft(from, to))
<1>1. From(from) = Rest(batchSnapshots, from)
  BY DEF From, Rest
<1>2. Snapshots(from, to) = Taken(From(from), to + 1)
  BY DEF Snapshots, Taken
<1>3. SnapshotsLeft(from, to) = Rest(From(from), to + 1)
  BY DEF SnapshotsLeft, Rest
<1>4. /\ IsLine(From(from))
      /\ \A b : b \in Range(From(from)) <=> b \in Range(batchSnapshots) /\ b[1] >= from
  BY <1>1, PopFacts
<1>5. /\ IsLine(Snapshots(from, to)) /\ IsLine(SnapshotsLeft(from, to))
      /\ \A b : b \in Range(Snapshots(from, to)) <=> b \in Range(From(from)) /\ b[1] < to + 1
      /\ \A b : b \in Range(SnapshotsLeft(from, to))
                  <=> b \in Range(From(from)) /\ b[1] >= to + 1
  <2>1. to + 1 \in Nat
    OBVIOUS
  <2>2. QED BY Zenon, <1>2, <1>3, <1>4, <2>1, PopFacts
<1>6. \A b \in Range(batchSnapshots) : b[1] \in Nat
  BY RangeFacts, RunFacts DEF IsLine
<1>7. QED BY <1>4, <1>5, <1>6

-----------------------------------------------------------------------------
(* Lines of batches. *)

LEMMA RangeEmpty == Range(<<>>) = {}
BY DEF Range

LEMMA RangeAppend ==
  ASSUME NEW S, NEW q \in Seq(S), NEW x \in S
  PROVE  Range(Append(q, x)) = Range(q) \union {x}
<1>1. Append(q, x) = q \o <<x>> /\ <<x>> \in Seq(S)
  OBVIOUS
<1>2. Range(<<x>>) = {x}
  BY DEF Range
<1>3. Range(q \o <<x>>) = Range(q) \union Range(<<x>>)
  BY <1>1, ConcatRange, ZenonT(40)
<1>4. QED BY Zenon, <1>1, <1>2, <1>3

LEMMA RangeTail ==
  ASSUME NEW S, NEW q \in Seq(S), q # <<>>
  PROVE  Head(q) \in S /\ Tail(q) \in Seq(S) /\ Range(q) = {Head(q)} \union Range(Tail(q))
<1>1. q = <<Head(q)>> \o Tail(q) /\ <<Head(q)>> \in Seq(S) /\ Tail(q) \in Seq(S) /\ Head(q) \in S
  OBVIOUS
<1>2. Range(<<Head(q)>>) = {Head(q)}
  BY DEF Range
<1> DEFINE h == <<Head(q)>>
           t == Tail(q)
<1>3. Range(h \o t) = Range(h) \union Range(t)
  <2>1. h \in Seq(S) /\ t \in Seq(S)
    BY <1>1
  <2> HIDE DEF h, t
  <2>2. QED BY <2>1, ConcatRange
<1>4. QED BY Zenon, <1>1, <1>2, <1>3

LEMMA LineEmpty == IsLine(<<>>) /\ Range(<<>>) = {}
<1>1. Range(<<>>) = {} /\ Ordered(<<>>)
  BY DEF Range, Ordered
<1>2. QED BY <1>1 DEF IsLine

LEMMA LineAppend ==
  ASSUME NEW q, IsLine(q), NEW b \in Seq(Nat), IsRun(b), \A c \in Range(q) : Before(c, b)
  PROVE  IsLine(Append(q, b)) /\ Range(Append(q, b)) = Range(q) \union {b}
<1> DEFINE z == Append(q, b)
           n == Len(q)
<1>1. q \in Seq(Seq(Nat)) /\ Ordered(q) /\ \A c \in Range(q) : IsRun(c)
  BY DEF IsLine
<1>2. /\ z \in Seq(Seq(Nat)) /\ Len(z) = n + 1 /\ n \in Nat
      /\ \A i \in 1..n : z[i] = q[i]
      /\ z[n + 1] = b
  BY <1>1
<1>3. Range(z) = Range(q) \union {b}
  BY <1>1, RangeAppend
<1>4. \A i \in 1..n : q[i] \in Range(q)
  BY <1>1, RangeFacts
<1> HIDE DEF z, n
<1>5. ASSUME NEW i \in 1..n + 1, NEW j \in 1..n + 1, i < j PROVE Before(z[i], z[j])
  <2>1. i \in 1..n /\ z[i] = q[i] /\ q[i] \in Range(q) /\ (j \in 1..n \/ j = n + 1)
    BY <1>2, <1>4, <1>5
  <2>2. CASE j \in 1..n
    BY <1>1, <1>2, <1>5, <2>1, <2>2 DEF Ordered, n
  <2>3. CASE j = n + 1
    BY <1>2, <2>1, <2>3
  <2>4. QED BY <2>1, <2>2, <2>3
<1>6. Ordered(z)
  BY <1>2, <1>5 DEF Ordered
<1>7. IsLine(z)
  BY <1>1, <1>2, <1>3, <1>6 DEF IsLine
<1>8. QED BY <1>3, <1>7 DEF z

LEMMA LineTail ==
  ASSUME NEW q, IsLine(q), q # <<>>
  PROVE  /\ Head(q) \in Seq(Nat) /\ IsRun(Head(q)) /\ IsLine(Tail(q))
         /\ Range(q) = {Head(q)} \union Range(Tail(q))
         /\ \A b \in Range(Tail(q)) : Before(Head(q), b)
<1> DEFINE t == Tail(q)
           n == Len(q)
<1>1. q \in Seq(Seq(Nat)) /\ Ordered(q) /\ \A c \in Range(q) : IsRun(c)
  BY DEF IsLine
<1>2. /\ t \in Seq(Seq(Nat)) /\ Len(t) = n - 1 /\ n \in Nat \ {0}
      /\ \A i \in 1..n - 1 : t[i] = q[i + 1]
      /\ Head(q) = q[1]
  BY <1>1
<1>3. Head(q) \in Seq(Nat) /\ Range(q) = {Head(q)} \union Range(t)
  BY <1>1, RangeTail
<1> HIDE DEF t
<1>4. \A i \in 1..n - 1 : i + 1 \in 1..n /\ 1 \in 1..n
  BY <1>2
<1>5. ASSUME NEW i \in 1..n - 1, NEW j \in 1..n - 1, i < j PROVE Before(t[i], t[j])
  <2>1. t[i] = q[i + 1] /\ t[j] = q[j + 1] /\ i + 1 < j + 1
    BY <1>2, <1>5
  <2>2. QED BY <1>1, <1>4, <2>1 DEF Ordered
<1>6. Ordered(t)
  BY <1>2, <1>5 DEF Ordered
<1>7. IsLine(t)
  BY <1>1, <1>2, <1>3, <1>6 DEF IsLine
<1>8. ASSUME NEW b \in Range(t) PROVE Before(Head(q), b)
  <2>1. PICK i \in 1..n - 1 : b = t[i]
    BY <1>2, RangeFacts
  <2>2. b = q[i + 1] /\ 1 < i + 1 /\ i + 1 \in 1..n /\ 1 \in 1..n
    BY <1>2, <1>4, <2>1
  <2>3. QED BY <1>1, <1>2, <2>2 DEF Ordered
<1>9. QED BY <1>1, <1>3, <1>7, <1>8 DEF t

\* The messages of a line of batches.
LEMMA FlattenLine ==
  ASSUME NEW q, IsLine(q), q # <<>>
  PROVE  LET m == FlattenSeq(q)
             e == q[Len(q)]
         IN  /\ m \in Seq(Nat) /\ m # <<>> /\ Ascending(m)
             /\ e \in Range(q) /\ m[Len(m)] = e[Len(e)]
             /\ \A b \in Range(q) : b = e \/ Before(b, e)
             /\ \A b \in Range(q) : Range(b) \subseteq Range(m)
             /\ \A n \in Range(m) : \E b \in Range(q) : n \in Range(b)
<1> DEFINE m == FlattenSeq(q)
           l == Len(q)
           e == q[l]
<1>1. /\ q \in Seq(Seq(Nat)) /\ l \in Nat \ {0} /\ l \in 1..l
      /\ Ordered(q)
      /\ \A i \in 1..l : q[i] \in Range(q) /\ q[i] \in Seq(Nat)
      /\ \A c \in Range(q) : IsRun(c) /\ \E i \in 1..l : c = q[i]
  BY RangeFacts DEF IsLine
<1>2. \A i \in 1..l : q[i] # <<>> /\ Ascending(q[i])
  BY <1>1, RunFacts DEF IsRun
<1>3. Joined(m, q, l)
  BY <1>1, <1>2, FlattenFacts
<1>4. /\ m \in Seq(Nat) /\ m # <<>> /\ Ascending(m)
      /\ m[Len(m)] = e[Len(e)] /\ Range(m) = HeldBy(q, l)
  BY <1>3 DEF Joined
<1>5. \A n : n \in HeldBy(q, l) <=> \E i \in 1..l : n \in Range(q[i])
  BY Zenon DEF HeldBy
<1>6. ASSUME NEW b \in Range(q)
      PROVE  (b = e \/ Before(b, e)) /\ Range(b) \subseteq Range(m)
  <2>1. PICK i \in 1..l : b = q[i]
    BY <1>1
  <2>2. i = l \/ i < l
    BY <1>1
  <2>3. b = e \/ Before(b, e)
    BY <1>1, <2>1, <2>2 DEF Ordered
  <2>4. Range(b) \subseteq Range(m)
    BY Zenon, <1>4, <1>5, <2>1
  <2>5. QED BY <2>3, <2>4
<1>7. ASSUME NEW n \in Range(m) PROVE \E b \in Range(q) : n \in Range(b)
  <2>1. PICK i \in 1..l : n \in Range(q[i])
    BY Zenon, <1>4, <1>5, <1>7
  <2>2. QED BY <1>1, <2>1
<1>8. e \in Range(q)
  BY <1>1
<1>9. QED BY Zenon, <1>4, <1>6, <1>7, <1>8

-----------------------------------------------------------------------------
(* The inductive invariant. *)

First(b) == b[1]

End(b) == b[Len(b)]

Stored == Range(batchSnapshots) \union Range(tap)

\* Order n does not cut the batch in two.
Beside(n, b) == End(b) <= n \/ n < First(b)

\* The wire and the stores hold whole batches, the same ones or others, in their order;
\* what is still on the wire was sent after the batch delivered last.
BatchesInStep ==
  /\ IsLine(wire) /\ IsLine(tap) /\ IsLine(batchSnapshots)
  /\ \A b \in Range(wire) \union Stored : End(b) <= sent
  /\ \A b \in Range(batchSnapshots), c \in Range(tap) : Before(b, c)
  /\ \A b \in Range(wire), c \in Stored : b = c \/ Before(b, c) \/ Before(c, b)
  /\ \A b \in Range(wire) : newest < First(b)
  /\ newest <= sent

\* Whatever was sent after the last order processed is stored, let go or about to be
\* matched, so that a recovery finds it or has to do without.
StoresInStep ==
  /\ lastProcessedSeqNum <= newest
  /\ \A b \in Stored : Beside(lastProcessedSeqNum, b)
  /\ \A n \in 1..sent :
       \/ n <= lastProcessedSeqNum \/ n \in evicted
       \/ \E b \in Stored : First(b) <= n /\ n <= End(b)
       \/ process = "matching" /\ n <= End(messages)

\* What process() is about to hand to the strategy.
CallInStep ==
  /\ process = "idle" => /\ messages = <<>> /\ index = 1
                         /\ recorded => lastProcessedSeqNum = newest
  /\ process # "idle" =>
       /\ messages # <<>>
       /\ lastProcessedSeqNum < End(messages) /\ End(messages) <= newest
       /\ recorded => End(messages) = newest
       /\ \A n \in lastProcessedSeqNum + 1..End(messages) : n \in Range(messages) \union evicted
       /\ \A b \in Stored : Beside(End(messages), b)

\* Without retransmissions nothing is handed over twice or out of order.
OrderInStep ==
  /\ ~ordersFed => orders = <<>>
  /\ ~ordersFed \/ ~recovered =>
       /\ Ascending(processed) /\ Ascending(messages)
       /\ \A k \in 1..Len(processed) : processed[k] <= lastProcessedSeqNum
       /\ \A k \in 1..Len(messages) : messages[k] > lastProcessedSeqNum

\* Until a gap is seen the two counters agree, and no retransmission is asked for.
CountersInStep ==
  ~recovered =>
    /\ process # "matching"
    /\ process = "idle" => expectedTransactionNum = lastProcessedSeqNum + 1
    /\ process = "counting" =>
         /\ expectedTransactionNum = lastProcessedSeqNum + index
         /\ index <= Len(messages) + 1
         /\ \A k \in 1..Len(messages) : messages[k] = lastProcessedSeqNum + k

Inv ==
  /\ TypeOK /\ BatchesInStep /\ StoresInStep /\ CallInStep
  /\ OrderInStep /\ CountersInStep /\ NoHole

LEMMA BatchFacts ==
  ASSUME NEW b \in Seq(Nat), IsRun(b)
  PROVE  /\ First(b) \in Nat /\ End(b) \in Nat /\ First(b) <= End(b)
         /\ \A n \in Nat : n \in Range(b) <=> First(b) <= n /\ n <= End(b)
         /\ Range(b) \subseteq Nat
BY RunFacts DEF First, End

LEMMA BeforeMeans == \A a, b : Before(a, b) <=> End(a) < First(b)
BY DEF Before, First, End

\* The batches of a line, taken two at a time.
LEMMA LineFacts ==
  ASSUME NEW q, IsLine(q)
  PROVE  /\ q \in Seq(Seq(Nat))
         /\ \A b \in Range(q) : /\ b \in Seq(Nat) /\ IsRun(b)
                                /\ First(b) \in Nat /\ End(b) \in Nat /\ First(b) <= End(b)
                                /\ \A n \in Nat : n \in Range(b) <=> First(b) <= n /\ n <= End(b)
                                /\ Range(b) \subseteq Nat
         /\ \A b, c \in Range(q) : b = c \/ Before(b, c) \/ Before(c, b)
<1>1. q \in Seq(Seq(Nat)) /\ Ordered(q) /\ \A b \in Range(q) : IsRun(b)
  BY DEF IsLine
<1>2. /\ Len(q) \in Nat
      /\ \A b \in Range(q) : b \in Seq(Nat) /\ \E i \in 1..Len(q) : b = q[i]
  BY <1>1, RangeFacts
<1>3. ASSUME NEW b \in Range(q)
      PROVE  /\ b \in Seq(Nat) /\ IsRun(b)
             /\ First(b) \in Nat /\ End(b) \in Nat /\ First(b) <= End(b)
             /\ \A n \in Nat : n \in Range(b) <=> First(b) <= n /\ n <= End(b)
             /\ Range(b) \subseteq Nat
  <2>1. b \in Seq(Nat) /\ IsRun(b)
    BY <1>1, <1>2
  <2>2. QED BY <2>1, BatchFacts
<1>4. ASSUME NEW b \in Range(q), NEW c \in Range(q)
      PROVE  b = c \/ Before(b, c) \/ Before(c, b)
  <2>1. PICK i \in 1..Len(q) : b = q[i]
    BY <1>2
  <2>2. PICK j \in 1..Len(q) : c = q[j]
    BY <1>2
  <2>3. i = j \/ i < j \/ j < i
    OBVIOUS
  <2>4. QED BY <1>1, <2>1, <2>2, <2>3 DEF Ordered
<1>5. QED BY Zenon, <1>1, <1>3, <1>4

LEMMA InitInv == Init => Inv
<1> SUFFICES ASSUME Init PROVE Inv
  OBVIOUS
<1> USE DEF Init
<1>1. TypeOK
  <2>1. <<>> \in Seq(Seq(Nat)) /\ <<>> \in Seq(Nat)
    OBVIOUS
  <2>2. /\ lastProcessedSeqNum \in Nat /\ expectedTransactionNum \in Nat /\ sent \in Nat
        /\ newest \in Nat /\ index \in Nat \ {0} /\ evicted \subseteq Nat
    OBVIOUS
  <2>3. QED BY Zenon, <2>1, <2>2 DEF TypeOK
<1>2. Stored = {} /\ Range(wire) = {} /\ IsLine(wire) /\ IsLine(tap) /\ IsLine(batchSnapshots)
  BY LineEmpty DEF Stored
<1>3. BatchesInStep
  <2>1. Range(batchSnapshots) = {}
    BY <1>2 DEF Stored
  <2>2. QED BY <1>2, <2>1 DEF BatchesInStep
<1>4. StoresInStep
  BY <1>2 DEF StoresInStep
<1>5. CallInStep
  BY DEF CallInStep
<1>6. OrderInStep
  BY DEF OrderInStep, Ascending
<1>7. CountersInStep
  BY DEF CountersInStep
<1>8. NoHole
  BY DEF NoHole
<1>9. QED BY <1>1, <1>3, <1>4, <1>5, <1>6, <1>7, <1>8 DEF Inv

-----------------------------------------------------------------------------
(* The environment. *)

LEMMA NewBatch ==
  ASSUME NEW m \in Nat, NEW n \in Nat \ {0}
  PROVE  LET batch == [i \in 1..n |-> m + i]
         IN  batch \in Seq(Nat) /\ IsRun(batch) /\ First(batch) = m + 1 /\ End(batch) = m + n
<1> DEFINE batch == [i \in 1..n |-> m + i]
<1>1. batch \in Seq(Nat) /\ Len(batch) = n /\ 1 \in 1..n /\ n \in 1..n
  OBVIOUS
<1>2. \A i \in 1..n : batch[i] = m + i
  OBVIOUS
<1> HIDE DEF batch
<1>3. batch # <<>>
  BY <1>1
<1>4. \A i \in 1..Len(batch) : batch[i] = batch[1] + i - 1
  BY <1>1, <1>2
<1>5. QED BY <1>1, <1>2, <1>3, <1>4 DEF IsRun, First, End, batch

LEMMA SendKeeps ==
  ASSUME Inv, Send
  PROVE  Inv'
<1>1. PICK n \in 1..BatchCap :
        LET batch == [i \in 1..n |-> sent + i]
        IN  /\ wire' = Append(wire, batch) /\ tap' = Append(tap, batch)
            /\ sent' = sent + n
  BY DEF Send
<1>2. UNCHANGED <<ordersFed, stores, locals, counters, processed, evicted, histories>>
  BY DEF Send
<1> DEFINE b == [i \in 1..n |-> sent + i]
<1>3. /\ TypeOK /\ BatchesInStep /\ StoresInStep /\ CallInStep
      /\ OrderInStep /\ CountersInStep /\ NoHole
  BY DEF Inv
<1>4. sent \in Nat /\ n \in Nat \ {0} /\ newest \in Nat /\ lastProcessedSeqNum \in Nat
  BY <1>3, RecoveryAssumption DEF TypeOK
<1>5. b \in Seq(Nat) /\ IsRun(b) /\ First(b) = sent + 1 /\ End(b) = sent + n
  BY <1>4, NewBatch
<1> HIDE DEF b
<1>6. wire' = Append(wire, b) /\ tap' = Append(tap, b) /\ sent' = sent + n /\ sent' \in Nat
  BY <1>1, <1>4 DEF b
<1>7. /\ IsLine(wire) /\ IsLine(tap) /\ IsLine(batchSnapshots)
      /\ \A c \in Range(wire) \union Stored : End(c) <= sent
  BY <1>3 DEF BatchesInStep
<1>8. \A c \in Range(wire) \union Stored :
        /\ First(c) \in Nat /\ End(c) \in Nat /\ First(c) <= End(c) /\ End(c) <= sent
  BY <1>7, LineFacts DEF Stored
<1>9. \A c \in Range(wire) \union Stored : Before(c, b)
  BY <1>4, <1>5, <1>8, BeforeMeans
<1>10. /\ IsLine(wire') /\ Range(wire') = Range(wire) \union {b}
       /\ IsLine(tap') /\ Range(tap') = Range(tap) \union {b}
  BY <1>5, <1>6, <1>7, <1>9, LineAppend DEF Stored
<1>11. Stored' = Stored \union {b} /\ batchSnapshots' = batchSnapshots
  BY <1>2, <1>10 DEF Stored, stores
<1>12. TypeOK'
  <2>1. wire' \in Seq(Seq(Nat)) /\ tap' \in Seq(Seq(Nat))
    BY <1>10 DEF IsLine
  <2>2. QED BY <1>2, <1>3, <1>6, <2>1
            DEF TypeOK, stores, locals, counters, histories
<1>13. BatchesInStep'
  <2>1. newest' = newest /\ newest <= sent /\ newest' <= sent'
    BY <1>2, <1>3, <1>4, <1>6 DEF histories, BatchesInStep
  <2>2. \A c \in Range(wire') \union Stored' : End(c) <= sent'
    BY <1>4, <1>5, <1>6, <1>8, <1>10, <1>11
  <2>3. \A c \in Range(wire') : newest' < First(c)
    BY <1>3, <1>4, <1>5, <1>10, <2>1 DEF BatchesInStep
  <2>4. \A c \in Range(batchSnapshots'), d \in Range(tap') : Before(c, d)
    BY <1>3, <1>9, <1>10, <1>11 DEF BatchesInStep, Stored
  <2>5. \A c \in Range(wire'), d \in Stored' : c = d \/ Before(c, d) \/ Before(d, c)
    BY <1>3, <1>9, <1>10, <1>11 DEF BatchesInStep
  <2>6. QED BY <1>7, <1>10, <1>11, <2>1, <2>2, <2>3, <2>4, <2>5 DEF BatchesInStep
<1>14. StoresInStep'
  <2>1. /\ lastProcessedSeqNum' = lastProcessedSeqNum /\ newest' = newest
        /\ process' = process /\ messages' = messages /\ evicted' = evicted
    BY <1>2 DEF counters, histories, locals
  <2>2. lastProcessedSeqNum < First(b)
    BY <1>3, <1>4, <1>5 DEF StoresInStep, BatchesInStep
  <2>3. \A n1 \in 1..sent' : n1 \in 1..sent \/ (First(b) <= n1 /\ n1 <= End(b))
    BY <1>4, <1>5, <1>6
  <2>4. \A n1 \in 1..sent :
       \/ n1 <= lastProcessedSeqNum \/ n1 \in evicted
       \/ \E c \in Stored : First(c) <= n1 /\ n1 <= End(c)
       \/ process = "matching" /\ n1 <= End(messages)
    BY <1>3 DEF StoresInStep
  <2>5. \A c \in Stored' : Beside(lastProcessedSeqNum, c)
    BY <1>3, <1>11, <2>2 DEF StoresInStep, Beside
  <2>6. lastProcessedSeqNum <= newest
    BY <1>3 DEF StoresInStep
  <2>7. ASSUME NEW n1 \in 1..sent'
        PROVE  \/ n1 <= lastProcessedSeqNum \/ n1 \in evicted
               \/ \E c \in Stored' : First(c) <= n1 /\ n1 <= End(c)
               \/ process = "matching" /\ n1 <= End(messages)
    BY <1>11, <2>3, <2>4
  <2>8. QED BY <2>1, <2>5, <2>6, <2>7 DEF StoresInStep
<1>15. CallInStep'
  <2>1. process # "idle" => Beside(End(messages), b)
    <3>1. process # "idle" => End(messages) \in Nat /\ End(messages) <= newest /\ newest <= sent
      BY <1>3, RangeFacts DEF CallInStep, TypeOK, End, BatchesInStep
    <3>2. QED BY <1>4, <1>5, <3>1 DEF Beside
  <2>2. QED BY <1>2, <1>3, <1>11, <2>1 DEF CallInStep, counters, histories, locals
<1>16. OrderInStep' /\ CountersInStep' /\ NoHole'
  BY <1>2, <1>3
     DEF OrderInStep, CountersInStep, NoHole, stores, counters, histories, locals
<1>17. QED BY <1>12, <1>13, <1>14, <1>15, <1>16 DEF Inv

LEMMA LoseKeeps ==
  ASSUME Inv, Lose
  PROVE  Inv'
<1>1. /\ TypeOK /\ BatchesInStep /\ StoresInStep /\ CallInStep
      /\ OrderInStep /\ CountersInStep /\ NoHole
  BY DEF Inv
<1>2. /\ wire # <<>> /\ wire' = Tail(wire)
      /\ UNCHANGED <<tap, ordersFed, stores, locals, counters, sent, processed, evicted,
                     histories>>
  BY DEF Lose
<1>3. IsLine(wire') /\ Range(wire') \subseteq Range(wire)
  BY <1>1, <1>2, LineTail DEF BatchesInStep
<1>4. Stored' = Stored
  BY <1>2 DEF Stored, stores
<1>5. TypeOK'
  BY <1>1, <1>2, <1>3 DEF TypeOK, stores, locals, counters, histories, IsLine
<1>6. BatchesInStep'
  BY <1>1, <1>2, <1>3, <1>4 DEF BatchesInStep, stores, histories
<1>7. StoresInStep' /\ CallInStep'
  BY <1>1, <1>2, <1>4 DEF StoresInStep, CallInStep, counters, histories, locals
<1>8. OrderInStep' /\ CountersInStep' /\ NoHole'
  BY <1>1, <1>2
     DEF OrderInStep, CountersInStep, NoHole, stores, counters, histories, locals
<1>9. QED BY <1>5, <1>6, <1>7, <1>8 DEF Inv

\* A batch that is stored was in the tap; one that has to go is remembered in `evicted`.
LEMMA StoreMoves ==
  ASSUME BatchesInStep, StoresInStep, TypeOK, Store
  PROVE  /\ IsLine(tap') /\ IsLine(batchSnapshots') /\ Stored' \subseteq Stored
         /\ \A b \in Range(batchSnapshots'), c \in Range(tap') : Before(b, c)
         /\ \A b \in Stored : b \in Stored' \/ Range(b) \subseteq evicted'
         /\ evicted \subseteq evicted' /\ evicted' \subseteq Nat
<1> DEFINE h == Head(tap)
           q == batchSnapshots
<1>1. /\ tap # <<>> /\ tap' = Tail(tap)
      /\ IF Len(q) = MaxSnapshotNumber
         THEN batchSnapshots' = Append(Tail(q), h) /\ evicted' = evicted \union Range(Head(q))
         ELSE batchSnapshots' = Append(q, h) /\ evicted' = evicted
  BY DEF Store
<1>2. IsLine(tap) /\ IsLine(q) /\ \A b \in Range(q), c \in Range(tap) : Before(b, c)
  BY DEF BatchesInStep
<1>3. /\ h \in Seq(Nat) /\ IsRun(h) /\ IsLine(tap')
      /\ Range(tap) = {h} \union Range(tap')
      /\ \A b \in Range(tap') : Before(h, b)
  BY <1>1, <1>2, LineTail
<1>4. evicted \subseteq Nat
  BY DEF TypeOK
<1> HIDE DEF h
<1>5. CASE Len(q) = MaxSnapshotNumber
  <2>1. q # <<>>
    BY <1>5, RecoveryAssumption
  <2>2. /\ Head(q) \in Seq(Nat) /\ IsRun(Head(q)) /\ IsLine(Tail(q))
        /\ Range(q) = {Head(q)} \union Range(Tail(q))
    BY <1>2, <2>1, LineTail
  <2>3. \A c \in Range(Tail(q)) : Before(c, h)
    BY <1>2, <1>3, <2>2
  <2>4. IsLine(Append(Tail(q), h)) /\ Range(Append(Tail(q), h)) = Range(Tail(q)) \union {h}
    BY <1>3, <2>2, <2>3, LineAppend
  <2>5. /\ batchSnapshots' = Append(Tail(q), h) /\ evicted' = evicted \union Range(Head(q))
    BY <1>1, <1>5
  <2>6. Range(Head(q)) \subseteq Nat
    BY <2>2, BatchFacts
  <2>7. Stored' = Range(Tail(q)) \union {h} \union Range(tap')
    BY <2>4, <2>5 DEF Stored
  <2>8. Stored = {Head(q)} \union Range(Tail(q)) \union {h} \union Range(tap')
    BY <1>3, <2>2 DEF Stored
  <2>9. \A b \in Range(batchSnapshots'), c \in Range(tap') : Before(b, c)
    BY <1>2, <1>3, <2>2, <2>4, <2>5
  <2>10. QED BY <1>3, <1>4, <2>4, <2>5, <2>6, <2>7, <2>8, <2>9
<1>6. CASE Len(q) # MaxSnapshotNumber
  <2>1. batchSnapshots' = Append(q, h) /\ evicted' = evicted
    BY <1>1, <1>6
  <2>2. IsLine(Append(q, h)) /\ Range(Append(q, h)) = Range(q) \union {h}
    BY <1>2, <1>3, LineAppend
  <2>3. Stored' = Stored
    BY <1>3, <2>1, <2>2 DEF Stored
  <2>4. \A b \in Range(batchSnapshots'), c \in Range(tap') : Before(b, c)
    BY <1>2, <1>3, <2>1, <2>2
  <2>5. QED BY <1>3, <1>4, <2>1, <2>2, <2>3, <2>4
<1>7. QED BY <1>5, <1>6

LEMMA StoreKeeps ==
  ASSUME Inv, Store
  PROVE  Inv'
<1>1. /\ TypeOK /\ BatchesInStep /\ StoresInStep /\ CallInStep
      /\ OrderInStep /\ CountersInStep /\ NoHole
  BY DEF Inv
<1>2. /\ tap # <<>>
      /\ orders' = IF ordersFed THEN orders \o Head(tap) ELSE orders
      /\ UNCHANGED <<wire, ordersFed, locals, counters, sent, processed, histories>>
  BY DEF Store
<1>3. /\ IsLine(tap') /\ IsLine(batchSnapshots') /\ Stored' \subseteq Stored
      /\ \A b \in Range(batchSnapshots'), c \in Range(tap') : Before(b, c)
      /\ \A b \in Stored : b \in Stored' \/ Range(b) \subseteq evicted'
      /\ evicted \subseteq evicted' /\ evicted' \subseteq Nat
  BY <1>1, StoreMoves
<1>4. TypeOK'
  <2>1. Head(tap) \in Seq(Nat) /\ orders \in Seq(Nat)
    BY <1>1, <1>2, LineTail DEF BatchesInStep, TypeOK
  <2>2. orders' \in Seq(Nat)
    BY <1>2, <2>1
  <2>3. tap' \in Seq(Seq(Nat)) /\ batchSnapshots' \in Seq(Seq(Nat))
    BY <1>3 DEF IsLine
  <2>4. QED BY <1>1, <1>2, <1>3, <2>2, <2>3 DEF TypeOK, locals, counters, histories
<1>5. BatchesInStep'
  BY <1>1, <1>2, <1>3 DEF BatchesInStep, histories
<1>6. StoresInStep'
  <2>1. ASSUME NEW n \in 1..sent
        PROVE  \/ n <= lastProcessedSeqNum \/ n \in evicted'
               \/ \E b \in Stored' : First(b) <= n /\ n <= End(b)
               \/ process = "matching" /\ n <= End(messages)
    <3>1. CASE \E b \in Stored : First(b) <= n /\ n <= End(b)
      <4>1. PICK b \in Stored : First(b) <= n /\ n <= End(b)
        BY <3>1
      <4>2. n \in Nat
        OBVIOUS
      <4>3. n \in Range(b)
        BY <1>1, <4>1, <4>2, LineFacts DEF BatchesInStep, Stored
      <4>4. QED BY <1>3, <4>1, <4>3
    <3>2. QED BY <1>1, <1>2, <1>3, <3>1 DEF StoresInStep
  <2>2. \A b \in Stored' : Beside(lastProcessedSeqNum, b)
    BY <1>1, <1>3 DEF StoresInStep
  <2>3. /\ sent' = sent /\ lastProcessedSeqNum' = lastProcessedSeqNum /\ newest' = newest
        /\ lastProcessedSeqNum <= newest /\ process' = process /\ messages' = messages
    BY <1>1, <1>2 DEF counters, histories, locals, StoresInStep
  <2>4. QED BY <2>1, <2>2, <2>3 DEF StoresInStep
<1>7. CallInStep'
  <2>1. /\ process' = process /\ messages' = messages /\ index' = index
        /\ lastProcessedSeqNum' = lastProcessedSeqNum
        /\ newest' = newest /\ recorded' = recorded
    BY <1>2 DEF counters, histories, locals
  <2>2. QED BY <1>1, <1>3, <2>1 DEF CallInStep
<1>8. OrderInStep' /\ CountersInStep'
  BY <1>1, <1>2 DEF OrderInStep, CountersInStep, counters, histories, locals
<1>9. NoHole'
  BY <1>1, <1>2, <1>3 DEF NoHole, counters
<1>10. QED BY <1>4, <1>5, <1>6, <1>7, <1>8, <1>9 DEF Inv

-----------------------------------------------------------------------------
(* process(): a batch is delivered. *)

\* What a call begins with.
LEMMA DeliveredBatch ==
  ASSUME TypeOK, BatchesInStep, StoresInStep, NEW batch \in Range(wire), Deliver(batch)
  PROVE  /\ batch \in Seq(Nat) /\ IsRun(batch)
         /\ First(batch) \in Nat /\ End(batch) \in Nat /\ First(batch) <= End(batch)
         /\ End(batch) <= sent /\ newest < First(batch)
         /\ lastProcessedSeqNum < First(batch)
         /\ IsLine(wire') /\ Range(wire') \subseteq Range(wire)
         /\ \A b \in Range(wire') : Before(batch, b)
         /\ newest' = End(batch)
         /\ recorded' = (First(batch) \notin evicted /\ \A b \in Range(tap) : First(b) > First(batch))
<1>1. wire # <<>> /\ batch = Head(wire) /\ wire' = Tail(wire) /\ newest' = End(batch)
  BY DEF Deliver, End
<1>2. /\ IsLine(wire) /\ \A b \in Range(wire) : End(b) <= sent /\ newest < First(b)
  BY DEF BatchesInStep
<1>3. /\ batch \in Seq(Nat) /\ IsRun(batch) /\ IsLine(wire')
      /\ Range(wire') \subseteq Range(wire)
      /\ \A b \in Range(wire') : Before(batch, b)
  BY <1>1, <1>2, LineTail
<1>4. First(batch) \in Nat /\ End(batch) \in Nat /\ First(batch) <= End(batch)
  BY <1>3, BatchFacts
<1>5. lastProcessedSeqNum \in Nat /\ newest \in Nat /\ lastProcessedSeqNum <= newest
  BY DEF StoresInStep, TypeOK
<1>6. newest < First(batch) /\ lastProcessedSeqNum < First(batch) /\ End(batch) <= sent
  BY <1>2, <1>4, <1>5
<1>7. recorded' = (First(batch) \notin evicted /\ \A b \in Range(tap) : First(b) > First(batch))
  <2>1. recorded' = (batch[1] \notin evicted /\ \A i \in DOMAIN tap : tap[i][1] > batch[1])
    BY DEF Deliver
  <2>2. (\A b \in Range(tap) : b[1] > batch[1]) <=> \A i \in DOMAIN tap : tap[i][1] > batch[1]
    BY Zenon DEF Range
  <2>3. QED BY Zenon, <2>1, <2>2 DEF First
<1>8. QED BY Zenon, <1>1, <1>3, <1>4, <1>6, <1>7

\* A batch that reveals a gap, and what the snapshots bring back.
LEMMA GapFacts ==
  ASSUME TypeOK, BatchesInStep, StoresInStep, process = "idle",
         NEW batch \in Range(wire), Deliver(batch),
         NEW found, found = Snapshots(lastProcessedSeqNum + 1, batch[1]),
         batchSnapshots' = SnapshotsLeft(lastProcessedSeqNum + 1, batch[1])
  PROVE  /\ IsLine(found) /\ IsLine(batchSnapshots')
         /\ \A b \in Range(found) : /\ b \in Range(batchSnapshots)
                                    /\ lastProcessedSeqNum < First(b) /\ First(b) <= First(batch)
                                    /\ End(b) <= End(batch)
         /\ \A b \in Range(batchSnapshots') : b \in Range(batchSnapshots) /\ First(batch) < First(b)
         /\ \A b \in Range(batchSnapshots) :
              \/ End(b) <= lastProcessedSeqNum
              \/ b \in Range(found)
              \/ b \in Range(batchSnapshots')
         /\ \A b \in Range(found), c \in Range(batchSnapshots') : Before(b, c)
         /\ recorded' => batch \in Range(found)
<1> DEFINE L == lastProcessedSeqNum
           from == L + 1
           to == batch[1]
<1>1. /\ First(batch) \in Nat /\ End(batch) \in Nat /\ First(batch) <= End(batch)
      /\ End(batch) <= sent /\ L < First(batch)
      /\ recorded' = (First(batch) \notin evicted /\ \A b \in Range(tap) : First(b) > First(batch))
  BY DeliveredBatch
<1>2. L \in Nat /\ from \in Nat /\ to \in Nat /\ to = First(batch) /\ sent \in Nat
  BY <1>1 DEF TypeOK, First
<1>3. IsLine(batchSnapshots) /\ IsLine(tap)
  BY DEF BatchesInStep
<1>4. \A b \in Stored : First(b) \in Nat /\ End(b) \in Nat /\ First(b) <= End(b)
  BY <1>3, LineFacts DEF Stored
<1>5. \A b \in Stored : batch = b \/ End(batch) < First(b) \/ End(b) < First(batch)
  BY BeforeMeans DEF BatchesInStep
<1>6. \A b \in Stored : End(b) <= L \/ L < First(b)
  BY DEF StoresInStep, Beside
<1>7. /\ IsLine(found) /\ IsLine(batchSnapshots')
      /\ \A b \in Range(found) : b \in Range(batchSnapshots) /\ from <= First(b) /\ First(b) <= to
      /\ \A b \in Range(batchSnapshots') : b \in Range(batchSnapshots) /\ to < First(b)
      /\ \A b \in Range(batchSnapshots) :
           First(b) < from \/ b \in Range(found) \/ b \in Range(batchSnapshots')
  <2> HIDE DEF from, to, L
  <2>1. /\ IsLine(Snapshots(from, to)) /\ IsLine(SnapshotsLeft(from, to))
        /\ \A b \in Range(Snapshots(from, to)) :
             b \in Range(batchSnapshots) /\ from <= b[1] /\ b[1] <= to
        /\ \A b \in Range(SnapshotsLeft(from, to)) :
             b \in Range(batchSnapshots) /\ to < b[1]
        /\ \A b \in Range(batchSnapshots) :
             \/ b[1] < from
             \/ b \in Range(Snapshots(from, to))
             \/ b \in Range(SnapshotsLeft(from, to))
    BY <1>2, <1>3, SnapshotFacts
  <2>2. found = Snapshots(from, to) /\ batchSnapshots' = SnapshotsLeft(from, to)
    BY DEF from, to, L
  <2>3. QED BY <2>1, <2>2 DEF First
<1> HIDE DEF from, to
<1>8. \A b \in Range(batchSnapshots) : b \in Stored
  BY DEF Stored
<1>9. ASSUME NEW b \in Range(found)
      PROVE  /\ b \in Range(batchSnapshots) /\ L < First(b) /\ First(b) <= First(batch)
             /\ End(b) <= End(batch)
  <2>1. /\ b \in Stored /\ from <= First(b) /\ First(b) <= First(batch)
        /\ First(b) \in Nat /\ End(b) \in Nat
    BY <1>2, <1>4, <1>7, <1>8
  <2>2. L < First(b)
    BY <1>2, <2>1 DEF from
  <2>3. QED BY <1>1, <1>5, <1>7, <2>1, <2>2
<1>10. ASSUME NEW b \in Range(batchSnapshots)
       PROVE  End(b) <= L \/ b \in Range(found) \/ b \in Range(batchSnapshots')
  <2>1. First(b) < from => End(b) <= L
    BY <1>2, <1>4, <1>6, <1>8 DEF from
  <2>2. QED BY <1>7, <2>1
<1>11. ASSUME NEW b \in Range(found), NEW c \in Range(batchSnapshots') PROVE Before(b, c)
  <2>1. b = c \/ End(b) < First(c) \/ End(c) < First(b)
    BY <1>3, <1>7, LineFacts, BeforeMeans
  <2>2. First(b) <= to /\ to < First(c) /\ First(c) <= End(c)
    BY <1>4, <1>7, <1>8
  <2>3. First(b) \in Nat /\ First(c) \in Nat /\ End(c) \in Nat
    BY <1>4, <1>7, <1>8
  <2>4. End(b) < First(c)
    BY <1>2, <2>1, <2>2, <2>3
  <2>5. QED BY <2>4, BeforeMeans
<1>12. ASSUME recorded' PROVE batch \in Range(found)
  <2> DEFINE n == First(batch)
  <2>1. n \in 1..sent /\ ~(n <= L)
    BY <1>1, <1>2
  <2>2. n \notin evicted /\ \A b \in Range(tap) : First(b) > n
    BY <1>1, <1>12
  <2>3. PICK b \in Stored : First(b) <= n /\ n <= End(b)
    BY <2>1, <2>2 DEF StoresInStep
  <2>4. ~(b \in Range(tap))
    BY <1>1, <1>4, <2>2, <2>3
  <2>5. b = batch
    BY <1>1, <1>4, <1>5, <2>3
  <2>6. batch \in Range(batchSnapshots)
    BY <2>4, <2>5 DEF Stored
  <2>7. ~(End(batch) <= L) /\ ~(to < First(batch))
    BY <1>1, <1>2
  <2>8. QED BY <1>7, <1>10, <2>6, <2>7
<1>13. \A b \in Range(batchSnapshots') : b \in Range(batchSnapshots) /\ First(batch) < First(b)
  BY <1>2, <1>7
<1>14. QED BY <1>7, <1>9, <1>10, <1>11, <1>12, <1>13

LEMMA GapKeeps ==
  ASSUME Inv, DeliverAfterGap
  PROVE  Inv'
<1>1. /\ TypeOK /\ BatchesInStep /\ StoresInStep /\ CallInStep
      /\ OrderInStep /\ CountersInStep /\ NoHole
  BY DEF Inv
<1>2. PICK batch \in Range(wire) :
        /\ Deliver(batch)
        /\ messages' = FlattenSeq(Snapshots(lastProcessedSeqNum + 1, batch[1]))
        /\ batchSnapshots' = SnapshotsLeft(lastProcessedSeqNum + 1, batch[1])
        /\ recovered' = TRUE
        /\ process' = IF messages' = <<>> THEN "idle" ELSE "matching"
  BY DEF DeliverAfterGap
<1>3. /\ process = "idle" /\ index' = 1
      /\ UNCHANGED <<tap, ordersFed, orders, counters, sent, processed, evicted>>
  BY <1>2 DEF Deliver
<1> DEFINE found == Snapshots(lastProcessedSeqNum + 1, batch[1])
           L == lastProcessedSeqNum
<1>4. /\ First(batch) \in Nat /\ End(batch) \in Nat /\ First(batch) <= End(batch)
      /\ End(batch) <= sent /\ L < First(batch)
      /\ IsLine(wire') /\ Range(wire') \subseteq Range(wire)
      /\ \A b \in Range(wire') : Before(batch, b)
      /\ newest' = End(batch)
      /\ recorded' = (First(batch) \notin evicted /\ \A b \in Range(tap) : First(b) > First(batch))
  BY <1>1, <1>2, DeliveredBatch
<1>5. messages' = FlattenSeq(found)
  BY <1>2
<1>6. /\ IsLine(found) /\ IsLine(batchSnapshots')
      /\ \A b \in Range(found) : /\ b \in Range(batchSnapshots)
                                 /\ L < First(b) /\ First(b) <= First(batch)
                                 /\ End(b) <= End(batch)
      /\ \A b \in Range(batchSnapshots') : b \in Range(batchSnapshots) /\ First(batch) < First(b)
      /\ \A b \in Range(batchSnapshots) :
           End(b) <= L \/ b \in Range(found) \/ b \in Range(batchSnapshots')
      /\ \A b \in Range(found), c \in Range(batchSnapshots') : Before(b, c)
      /\ recorded' => batch \in Range(found)
  BY <1>1, <1>2, <1>3, GapFacts
<1> HIDE DEF found
<1>7. L \in Nat /\ sent \in Nat /\ newest \in Nat /\ L' = L /\ L <= newest
  BY <1>1, <1>3 DEF TypeOK, counters, StoresInStep
<1>8. /\ IsLine(batchSnapshots) /\ IsLine(tap) /\ tap' = tap
      /\ \A b \in Range(batchSnapshots), c \in Range(tap) : Before(b, c)
  BY <1>1, <1>3 DEF BatchesInStep
<1>9. \A b \in Stored : /\ First(b) \in Nat /\ End(b) \in Nat /\ First(b) <= End(b)
                        /\ \A n \in Nat : n \in Range(b) <=> First(b) <= n /\ n <= End(b)
  BY <1>8, LineFacts DEF Stored
<1>10. /\ Stored' \subseteq Stored /\ Range(found) \subseteq Stored
       /\ \A b \in Stored : End(b) <= L \/ b \in Range(found) \/ b \in Stored'
       /\ \A b \in Range(found), c \in Stored' : Before(b, c)
  BY <1>6, <1>8 DEF Stored
<1>11. messages' \in Seq(Nat) /\ process' \in {"idle", "matching"} /\ recorded' \in BOOLEAN
  <2>1. messages' \in Seq(Nat)
    <3>1. CASE found = <<>>
      <4>1. messages' = <<>>
        BY <1>5, <3>1, FlattenEmpty
      <4>2. QED BY <4>1
    <3>2. CASE found # <<>>
      BY <1>5, <1>6, <3>2, FlattenLine
    <3>3. QED BY <3>1, <3>2
  <2>2. process' \in {"idle", "matching"}
    BY <1>2
  <2>3. recorded' \in BOOLEAN
    BY Zenon, <1>4
  <2>4. QED BY <2>1, <2>2, <2>3
<1>12. TypeOK'
  <2>1. wire' \in Seq(Seq(Nat)) /\ batchSnapshots' \in Seq(Seq(Nat))
    BY <1>4, <1>6 DEF IsLine
  <2>2. newest' \in Nat /\ index' \in Nat \ {0} /\ recovered' \in BOOLEAN
    BY <1>2, <1>3, <1>4
  <2>3. QED BY <1>1, <1>3, <1>11, <2>1, <2>2 DEF TypeOK, counters
<1>13. BatchesInStep'
  <2>1. \A b \in Range(wire') : newest' < First(b)
    BY <1>4, BeforeMeans
  <2>2. \A b \in Range(wire') \union Stored' : End(b) <= sent'
    BY <1>1, <1>3, <1>4, <1>10 DEF BatchesInStep
  <2>3. \A b \in Range(batchSnapshots'), c \in Range(tap') : Before(b, c)
    BY <1>6, <1>8
  <2>4. \A b \in Range(wire'), c \in Stored' : b = c \/ Before(b, c) \/ Before(c, b)
    BY <1>1, <1>4, <1>10 DEF BatchesInStep
  <2>5. newest' <= sent'
    BY <1>3, <1>4
  <2>6. QED BY <1>4, <1>6, <1>8, <2>1, <2>2, <2>3, <2>4, <2>5 DEF BatchesInStep
<1>14. L <= newest' /\ \A b \in Stored' : Beside(L, b)
  BY <1>1, <1>4, <1>7, <1>10 DEF StoresInStep
<1>15. \A n \in 1..sent : \/ n <= L \/ n \in evicted
                          \/ \E b \in Stored : First(b) <= n /\ n <= End(b)
  BY <1>1, <1>3 DEF StoresInStep
<1>a. /\ recovered'
      /\ ~ordersFed' => /\ orders' = <<>> /\ Ascending(processed')
                        /\ \A k \in 1..Len(processed') : processed'[k] <= L'
  <2>1. ~ordersFed => /\ orders = <<>> /\ Ascending(processed)
                      /\ \A k \in 1..Len(processed) : processed[k] <= L
    BY <1>1 DEF OrderInStep
  <2>2. ordersFed' = ordersFed /\ orders' = orders /\ processed' = processed
    BY <1>3
  <2>3. CASE ordersFed
    BY <1>2, <2>2, <2>3
  <2>4. CASE ~ordersFed
    BY <1>2, <1>7, <2>1, <2>2, <2>4
  <2>5. QED BY <2>3, <2>4
<1>16. ASSUME found = <<>> PROVE StoresInStep' /\ CallInStep' /\ OrderInStep'
  <2>1. messages' = <<>> /\ process' = "idle"
    BY <1>2, <1>5, <1>16, FlattenEmpty
  <2>2. Range(found) = {}
    BY <1>16, RangeEmpty
  <2>3. ASSUME NEW n \in 1..sent
        PROVE  n <= L \/ n \in evicted \/ \E b \in Stored' : First(b) <= n /\ n <= End(b)
    <3>1. CASE \E b \in Stored : First(b) <= n /\ n <= End(b)
      <4>1. PICK b \in Stored : First(b) <= n /\ n <= End(b)
        BY <3>1
      <4>2. End(b) <= L \/ b \in Stored'
        BY <1>10, <2>2
      <4>3. QED BY <1>7, <1>9, <4>1, <4>2
    <3>2. QED BY <1>15, <3>1
  <2>4. StoresInStep'
    BY <1>3, <1>7, <1>14, <2>3 DEF StoresInStep
  <2>5. CallInStep'
    BY <1>3, <1>6, <2>1, <2>2 DEF CallInStep
  <2>6. OrderInStep'
    <3>1. Ascending(messages') /\ \A k \in 1..Len(messages') : messages'[k] > L
      BY <2>1 DEF Ascending
    <3>2. QED BY <1>a, <1>7, <3>1 DEF OrderInStep
  <2>7. QED BY <2>4, <2>5, <2>6
<1>17. ASSUME found # <<>> PROVE StoresInStep' /\ CallInStep' /\ OrderInStep'
  <2> DEFINE e == found[Len(found)]
  <2>1. /\ messages' \in Seq(Nat) /\ messages' # <<>> /\ Ascending(messages')
        /\ e \in Range(found) /\ End(messages') = End(e)
        /\ \A b \in Range(found) : b = e \/ Before(b, e)
        /\ \A b \in Range(found) : Range(b) \subseteq Range(messages')
        /\ \A n \in Range(messages') : \E b \in Range(found) : n \in Range(b)
    BY <1>5, <1>6, <1>17, FlattenLine DEF End
  <2> HIDE DEF e
  <2>2. process' = "matching"
    BY <1>2, <2>1
  <2>3. /\ First(e) \in Nat /\ End(e) \in Nat /\ First(e) <= End(e)
        /\ L < End(e) /\ End(e) <= End(batch)
    BY <1>6, <1>7, <1>9, <1>10, <2>1
  <2>4. \A b \in Range(found) : End(b) <= End(e)
    BY <1>9, <1>10, <2>1, <2>3, BeforeMeans
  <2>5. \A b \in Stored' : End(e) < First(b)
    BY <1>10, <2>1, BeforeMeans
  <2>6. ASSUME NEW n \in 1..sent
        PROVE  \/ n <= L \/ n \in evicted \/ \E b \in Stored' : First(b) <= n /\ n <= End(b)
               \/ n <= End(e) /\ n \in Range(messages')
    <3>1. CASE \E b \in Stored : First(b) <= n /\ n <= End(b)
      <4>1. PICK b \in Stored : First(b) <= n /\ n <= End(b)
        BY <3>1
      <4>2. CASE b \in Range(found)
        <5>1. n \in Range(b) /\ n <= End(e)
          BY <1>9, <2>3, <2>4, <4>1, <4>2
        <5>2. QED BY <2>1, <4>2, <5>1
      <4>3. CASE b \notin Range(found)
        BY <1>7, <1>9, <1>10, <4>1, <4>3
      <4>4. QED BY <4>2, <4>3
    <3>2. QED BY <1>15, <3>1
  <2>7. StoresInStep'
    BY <1>3, <1>7, <1>14, <2>1, <2>2, <2>6 DEF StoresInStep
  <2>8. CallInStep'
    <3>1. recorded' => End(e) = End(batch)
      <4>1. ASSUME recorded' PROVE End(batch) <= End(e)
        BY <1>6, <2>4, <4>1
      <4>2. QED BY <1>4, <2>3, <4>1
    <3>2. ASSUME NEW n \in L + 1..End(e) PROVE n \in Range(messages') \union evicted
      <4>1. n \in 1..sent /\ ~(n <= L) /\ n <= End(e)
        BY <1>4, <1>7, <2>3
      <4>2. ~ \E b \in Stored' : First(b) <= n /\ n <= End(b)
        BY <1>9, <1>10, <2>3, <2>5, <4>1
      <4>3. QED BY <2>6, <4>1, <4>2
    <3>3. \A b \in Stored' : Beside(End(e), b)
      BY <2>5 DEF Beside
    <3>4. QED BY <1>3, <1>4, <1>7, <2>1, <2>2, <2>3, <3>1, <3>2, <3>3 DEF CallInStep
  <2>9. OrderInStep'
    <3>1. ASSUME NEW n \in Range(messages') PROVE n > L
      <4>1. PICK b \in Range(found) : n \in Range(b)
        BY <2>1
      <4>2. n \in Nat
        BY <2>1, RangeFacts
      <4>3. First(b) <= n /\ L < First(b) /\ First(b) \in Nat
        BY <1>6, <1>9, <1>10, <4>1, <4>2
      <4>4. QED BY <1>7, <4>2, <4>3
    <3>2. \A k \in 1..Len(messages') : messages'[k] > L
      BY <2>1, <3>1, RangeFacts
    <3>3. QED BY <1>a, <1>7, <2>1, <3>2 DEF OrderInStep
  <2>10. QED BY <2>7, <2>8, <2>9
<1>18. CountersInStep' /\ NoHole'
  BY <1>1, <1>2, <1>3 DEF CountersInStep, NoHole, counters
<1>19. QED BY <1>12, <1>13, <1>16, <1>17, <1>18 DEF Inv

LEMMA InTurnKeeps ==
  ASSUME Inv, DeliverInTurn
  PROVE  Inv'
<1>1. /\ TypeOK /\ BatchesInStep /\ StoresInStep /\ CallInStep
      /\ OrderInStep /\ CountersInStep /\ NoHole
  BY DEF Inv
<1>2. PICK batch \in Range(wire) :
        /\ Deliver(batch) /\ ~Gap(batch)
        /\ messages' = batch /\ process' = "counting"
        /\ UNCHANGED <<batchSnapshots, recovered>>
  BY DEF DeliverInTurn
<1>3. /\ process = "idle" /\ index' = 1
      /\ UNCHANGED <<tap, ordersFed, orders, counters, sent, processed, evicted>>
  BY <1>2 DEF Deliver
<1> DEFINE L == lastProcessedSeqNum
<1>4. /\ batch \in Seq(Nat) /\ IsRun(batch)
      /\ First(batch) \in Nat /\ End(batch) \in Nat /\ First(batch) <= End(batch)
      /\ End(batch) <= sent /\ newest < First(batch) /\ L < First(batch)
      /\ IsLine(wire') /\ Range(wire') \subseteq Range(wire)
      /\ \A b \in Range(wire') : Before(batch, b)
      /\ newest' = End(batch)
      /\ recorded' = (First(batch) \notin evicted /\ \A b \in Range(tap) : First(b) > First(batch))
  BY <1>1, <1>2, DeliveredBatch
<1>5. L \in Nat /\ sent \in Nat /\ newest \in Nat /\ L' = L /\ L <= newest
  BY <1>1, <1>3 DEF TypeOK, counters, StoresInStep
<1>6. First(batch) = L + 1
  <2>1. First(batch) <= L + 1
    BY <1>2, <1>4, <1>5 DEF Gap, First
  <2>2. QED BY <1>4, <1>5, <2>1
<1>7. Stored' = Stored
  BY <1>2, <1>3 DEF Stored
<1>8. \A b \in Stored : First(b) \in Nat /\ End(b) \in Nat /\ First(b) <= End(b)
  BY <1>1, LineFacts DEF BatchesInStep, Stored
<1>9. \A b \in Stored : batch = b \/ End(batch) < First(b) \/ End(b) < First(batch)
  BY <1>1, BeforeMeans DEF BatchesInStep
<1>10. TypeOK'
  <2>1. wire' \in Seq(Seq(Nat))
    BY <1>4 DEF IsLine
  <2>2. recorded' \in BOOLEAN
    BY Zenon, <1>4
  <2>3. newest' \in Nat /\ index' \in Nat \ {0} /\ messages' \in Seq(Nat)
    BY <1>2, <1>3, <1>4
  <2>4. QED BY <1>1, <1>2, <1>3, <2>1, <2>2, <2>3 DEF TypeOK, counters
<1>11. BatchesInStep'
  <2>1. \A b \in Range(wire') : newest' < First(b)
    BY <1>4, BeforeMeans
  <2>2. newest' <= sent'
    BY <1>3, <1>4
  <2>3. QED BY <1>1, <1>2, <1>3, <1>4, <1>7, <2>1, <2>2 DEF BatchesInStep
<1>12. StoresInStep'
  <2>1. L <= newest'
    BY <1>4, <1>5
  <2>2. \A n \in 1..sent : \/ n <= L \/ n \in evicted
                           \/ \E b \in Stored : First(b) <= n /\ n <= End(b)
    BY <1>1, <1>3 DEF StoresInStep
  <2>3. \A b \in Stored : Beside(L, b)
    BY <1>1 DEF StoresInStep
  <2>4. QED BY <1>3, <1>5, <1>7, <2>1, <2>2, <2>3 DEF StoresInStep
<1>13. CallInStep'
  <2>1. messages' # <<>> /\ End(messages') = End(batch) /\ process' = "counting"
    BY <1>2, <1>4 DEF IsRun
  <2>2. L < End(batch)
    BY <1>4, <1>5
  <2>3. ASSUME NEW n \in L + 1..End(batch) PROVE n \in Range(messages')
    <3>1. n \in Nat /\ First(batch) <= n /\ n <= End(batch)
      BY <1>4, <1>5, <1>6
    <3>2. QED BY <1>2, <1>4, <3>1, BatchFacts
  <2>4. \A b \in Stored : Beside(End(batch), b)
    BY <1>4, <1>8, <1>9 DEF Beside
  <2>5. QED BY <1>3, <1>4, <1>5, <1>7, <2>1, <2>2, <2>3, <2>4 DEF CallInStep
<1>14. /\ Ascending(batch)
       /\ \A k \in 1..Len(batch) : batch[k] = L + k /\ batch[k] > L
  <2>1. \A k \in 1..Len(batch) : batch[k] = batch[1] + k - 1
    BY <1>4 DEF IsRun
  <2>2. batch[1] = L + 1
    BY <1>6 DEF First
  <2>3. QED BY <1>4, <1>5, <2>1, <2>2, RunFacts
<1>15. OrderInStep'
  <2>1. /\ ordersFed' = ordersFed /\ recovered' = recovered /\ orders' = orders
        /\ processed' = processed /\ messages' = batch
    BY <1>2, <1>3
  <2>2. QED BY <1>1, <1>5, <1>14, <2>1 DEF OrderInStep
<1>16. CountersInStep'
  <2>1. /\ recovered' = recovered /\ process' = "counting" /\ messages' = batch /\ index' = 1
        /\ expectedTransactionNum' = expectedTransactionNum
    BY <1>2, <1>3 DEF counters
  <2>2. ~recovered => expectedTransactionNum = L + 1
    BY <1>1, <1>3 DEF CountersInStep
  <2>3. 1 <= Len(batch) + 1
    BY <1>4
  <2>4. QED BY <1>5, <1>14, <2>1, <2>2, <2>3 DEF CountersInStep
<1>17. NoHole'
  BY <1>1, <1>3 DEF NoHole, counters
<1>18. QED BY <1>10, <1>11, <1>12, <1>13, <1>15, <1>16, <1>17 DEF Inv

-----------------------------------------------------------------------------
(* process(): the messages are counted and matched. *)

LEMMA ConcatFacts ==
  ASSUME NEW a \in Seq(Nat), NEW b \in Seq(Nat)
  PROVE  /\ a \o b \in Seq(Nat) /\ Len(a \o b) = Len(a) + Len(b) /\ Len(a) \in Nat
         /\ \A i \in 1..Len(a) : (a \o b)[i] = a[i]
         /\ \A i \in 1..Len(b) : (a \o b)[Len(a) + i] = b[i]
         /\ a \o <<>> = a /\ <<>> \o b = b
OBVIOUS

\* Retransmitted orders go in front of a message that is still to be counted.
LEMMA InsertFacts ==
  ASSUME NEW s \in Seq(Nat), NEW i \in 1..Len(s), NEW t \in Seq(Nat)
  PROVE  LET z == SubSeq(s, 1, i - 1) \o t \o SubSeq(s, i, Len(s))
         IN  /\ z \in Seq(Nat) /\ z # <<>>
             /\ End(z) = End(s)
             /\ Range(s) \subseteq Range(z)
             /\ t = <<>> => z = s
<1> DEFINE a == SubSeq(s, 1, i - 1)
           b == SubSeq(s, i, Len(s))
           y == a \o t
           z == y \o b
<1>1. /\ a \in Seq(Nat) /\ b \in Seq(Nat) /\ Len(a) = i - 1 /\ Len(b) = Len(s) - i + 1
      /\ Len(b) \in Nat \ {0} /\ b[Len(b)] = s[Len(s)] /\ s = a \o b
  <2>1. /\ a \in Seq(Nat) /\ Len(a) = i - 1 /\ \A k \in 1..i - 1 : a[k] = s[k]
        /\ b \in Seq(Nat) /\ Len(b) = Len(s) - i + 1
        /\ \A k \in 1..Len(s) - i + 1 : b[k] = s[i - 1 + k]
    <3>1. i - 1 \in 0..Len(s) /\ i - 1 + 1 = i /\ Len(s) - (i - 1) = Len(s) - i + 1
      OBVIOUS
    <3>2. QED BY <3>1, SubSeqFacts
  <2> HIDE DEF a, b
  <2>2. /\ Len(s) \in Nat /\ Len(b) \in 1..Len(b) /\ i - 1 + Len(b) = Len(s)
        /\ Len(a) + Len(b) = Len(s)
    BY <2>1
  <2>3. Len(b) \in Nat \ {0} /\ b[Len(b)] = s[Len(s)]
    <3>1. Len(b) \in 1..Len(s) - i + 1 /\ Len(b) \in Nat \ {0}
      BY <2>1, <2>2
    <3>2. b[Len(b)] = s[i - 1 + Len(b)]
      BY <2>1, <3>1
    <3>3. QED BY <2>2, <3>1, <3>2
  <2>4. /\ a \o b \in Seq(Nat) /\ Len(a \o b) = Len(s)
        /\ \A k \in 1..Len(a) : (a \o b)[k] = a[k]
        /\ \A k \in 1..Len(b) : (a \o b)[Len(a) + k] = b[k]
    <3>1. /\ a \o b \in Seq(Nat) /\ Len(a \o b) = Len(a) + Len(b)
          /\ \A k \in 1..Len(a) : (a \o b)[k] = a[k]
          /\ \A k \in 1..Len(b) : (a \o b)[Len(a) + k] = b[k]
      <4>1. a \in Seq(Nat) /\ b \in Seq(Nat)
        BY <2>1
      <4>2. QED BY <4>1, ConcatFacts
    <3>2. QED BY <3>1, <2>2
  <2>5. ASSUME NEW k \in 1..Len(s) PROVE s[k] = (a \o b)[k]
    <3>1. CASE k <= Len(a)
      BY <2>1, <2>4, <3>1
    <3>2. CASE k > Len(a)
      <4>1. k - Len(a) \in 1..Len(b) /\ Len(a) + (k - Len(a)) = k
        BY <2>1, <2>2, <3>2
      <4>2. (a \o b)[k] = b[k - Len(a)]
        BY <2>4, <4>1
      <4>3. b[k - Len(a)] = s[k]
        BY <2>1, <4>1
      <4>4. QED BY <4>2, <4>3
    <3>3. k <= Len(a) \/ k > Len(a)
      <4>1. Len(a) \in Int
        BY <2>1
      <4>2. QED BY <4>1
    <3>4. QED BY <3>1, <3>2, <3>3
  <2>6. s = a \o b
    BY <2>4, <2>5, SeqEqual
  <2>7. QED BY <2>1, <2>3, <2>6
<1> HIDE DEF a, b
<1>2. y \in Seq(Nat) /\ (t = <<>> => y = a)
  BY <1>1, ConcatFacts
<1> HIDE DEF y
<1>3. /\ z \in Seq(Nat) /\ Len(z) = Len(y) + Len(b) /\ Len(y) \in Nat
      /\ z[Len(y) + Len(b)] = b[Len(b)]
  <2>1. /\ z \in Seq(Nat) /\ Len(z) = Len(y) + Len(b) /\ Len(y) \in Nat
        /\ \A k \in 1..Len(b) : z[Len(y) + k] = b[k]
    BY <1>1, <1>2, ConcatFacts, ZenonT(30)
  <2>2. Len(b) \in 1..Len(b)
    BY <1>1
  <2>3. QED BY <2>1, <2>2
<1>4. Range(s) = Range(a) \union Range(b)
  BY <1>1, ConcatRange
<1>5. Range(y) = Range(a) \union Range(t)
  BY <1>1, ConcatRange DEF y
<1>6. Range(z) = Range(y) \union Range(b)
  BY <1>1, <1>2, ConcatRange
<1>7. z # <<>>
  BY <1>1, <1>3
<1>8. End(z) = End(s)
  BY <1>1, <1>3 DEF End
<1>9. QED BY <1>1, <1>2, <1>3, <1>4, <1>5, <1>6, <1>7, <1>8 DEF a, b, y

LEMMA RetransmittedFacts ==
  ASSUME orders \in Seq(Nat), NEW from \in Int, NEW to \in Int
  PROVE  /\ Retransmitted(from, to) \in Seq(Nat)
         /\ OrdersLeft(from, to) \in Seq(Nat)
         /\ orders = <<>> => Retransmitted(from, to) = <<>> /\ OrdersLeft(from, to) = <<>>
<1>1. TransactionIds \in Seq(Int) /\ Len(TransactionIds) = Len(orders) /\ Len(orders) \in Nat
  BY SMTT(30) DEF TransactionIds
<1>2. /\ Below(TransactionIds, from) \in 0..Len(orders)
      /\ Below(TransactionIds, to) \in 0..Len(orders)
  BY <1>1, BelowFacts
<1> DEFINE j == Below(TransactionIds, from)
           k == Below(TransactionIds, to)
<1> HIDE DEF j, k
<1>3. j \in 0..Len(orders) /\ k \in 0..Len(orders)
  BY <1>2 DEF j, k
<1>4. /\ SubSeq(orders, j + 1, k) \in Seq(Nat)
      /\ SubSeq(orders, k + 1, Len(orders)) \in Seq(Nat)
      /\ orders = <<>> => /\ SubSeq(orders, j + 1, k) = <<>>
                          /\ SubSeq(orders, k + 1, Len(orders)) = <<>>
  BY <1>1, <1>3, SMTT(30)
<1>5. <<>> \in Seq(Nat)
  OBVIOUS
<1>6. QED BY <1>4, <1>5 DEF Retransmitted, OrdersLeft, j, k

LEMMA CountKeeps ==
  ASSUME Inv, Count
  PROVE  Inv'
<1> DEFINE L == lastProcessedSeqNum
           from == expectedTransactionNum
           to == expectedTransactionNum + Len(messages) - index
<1>1. /\ TypeOK /\ BatchesInStep /\ StoresInStep /\ CallInStep
      /\ OrderInStep /\ CountersInStep /\ NoHole
  BY DEF Inv
<1>2. /\ process = "counting" /\ index <= Len(messages)
      /\ \/ messages[index] = expectedTransactionNum /\ UNCHANGED <<messages, orders>>
         \/ /\ messages[index] # expectedTransactionNum
            /\ messages' = SubSeq(messages, 1, index - 1) \o Retransmitted(from, to)
                             \o SubSeq(messages, index, Len(messages))
            /\ orders' = OrdersLeft(from, to)
      /\ expectedTransactionNum' = expectedTransactionNum + 1
      /\ index' = index + 1
      /\ UNCHANGED <<wire, tap, ordersFed, batchSnapshots, process, lastProcessedSeqNum, sent,
                     processed, evicted, histories>>
  BY DEF Count
<1>3. /\ messages \in Seq(Nat) /\ orders \in Seq(Nat) /\ index \in 1..Len(messages)
      /\ expectedTransactionNum \in Nat /\ from \in Int /\ to \in Int /\ index \in Nat \ {0}
      /\ L \in Nat /\ messages # <<>>
  BY <1>1, <1>2 DEF TypeOK
<1> HIDE DEF from, to
<1>4. /\ messages' \in Seq(Nat) /\ orders' \in Seq(Nat) /\ messages' # <<>>
      /\ End(messages') = End(messages)
      /\ Range(messages) \subseteq Range(messages')
      /\ orders = <<>> => messages' = messages /\ orders' = orders
  <2>1. CASE UNCHANGED <<messages, orders>>
    BY <1>3, <2>1
  <2>2. CASE /\ messages' = SubSeq(messages, 1, index - 1) \o Retransmitted(from, to)
                              \o SubSeq(messages, index, Len(messages))
             /\ orders' = OrdersLeft(from, to)
    <3>1. /\ Retransmitted(from, to) \in Seq(Nat) /\ OrdersLeft(from, to) \in Seq(Nat)
          /\ orders = <<>> => Retransmitted(from, to) = <<>> /\ OrdersLeft(from, to) = <<>>
      BY <1>3, RetransmittedFacts
    <3>2. /\ messages' \in Seq(Nat) /\ messages' # <<>> /\ End(messages') = End(messages)
          /\ Range(messages) \subseteq Range(messages')
          /\ Retransmitted(from, to) = <<>> => messages' = messages
      BY <1>3, <2>2, <3>1, InsertFacts
    <3>3. QED BY <2>2, <3>1, <3>2
  <2>3. QED BY <1>2, <2>1, <2>2
<1>5. ~recovered => messages' = messages /\ orders' = orders
  BY <1>1, <1>2, <1>3 DEF CountersInStep
<1>6. ~ordersFed => messages' = messages /\ orders' = orders
  BY <1>1, <1>4 DEF OrderInStep
<1>7. /\ process' = "counting" /\ L' = L /\ index' = index + 1 /\ Stored' = Stored
      /\ expectedTransactionNum' = expectedTransactionNum + 1
      /\ UNCHANGED <<wire, tap, ordersFed, batchSnapshots, sent, processed, evicted,
                     newest, recorded, recovered>>
  BY <1>2 DEF histories, Stored
<1>8. TypeOK'
  BY <1>1, <1>3, <1>4, <1>7 DEF TypeOK
<1>9. BatchesInStep'
  BY <1>1, <1>7 DEF BatchesInStep
<1>10. StoresInStep'
  BY <1>1, <1>2, <1>7 DEF StoresInStep
<1>11. CallInStep'
  BY <1>1, <1>2, <1>4, <1>7 DEF CallInStep
<1>12. OrderInStep'
  BY <1>1, <1>5, <1>6, <1>7 DEF OrderInStep
<1>13. CountersInStep'
  BY <1>1, <1>2, <1>3, <1>5, <1>7 DEF CountersInStep
<1>14. NoHole'
  BY <1>1, <1>7 DEF NoHole
<1>15. QED BY <1>8, <1>9, <1>10, <1>11, <1>12, <1>13, <1>14 DEF Inv

LEMMA MatchKeeps ==
  ASSUME Inv, Match
  PROVE  Inv'
<1> DEFINE L == lastProcessedSeqNum
           z == processed \o messages
<1>1. /\ TypeOK /\ BatchesInStep /\ StoresInStep /\ CallInStep
      /\ OrderInStep /\ CountersInStep /\ NoHole
  BY DEF Inv
<1>2. /\ process = "matching" \/ (process = "counting" /\ index > Len(messages))
      /\ process # "idle"
      /\ processed' = z /\ L' = End(messages)
      /\ process' = "idle" /\ messages' = <<>> /\ index' = 1
      /\ UNCHANGED <<wire, tap, ordersFed, stores, expectedTransactionNum, sent, evicted,
                     histories>>
  BY DEF Match, End
<1>3. /\ messages \in Seq(Nat) /\ processed \in Seq(Nat) /\ L \in Nat
      /\ index \in Nat \ {0} /\ messages # <<>>
      /\ L < End(messages) /\ End(messages) <= newest
      /\ recorded => End(messages) = newest
      /\ \A n \in L + 1..End(messages) : n \in Range(messages) \union evicted
      /\ \A b \in Stored : Beside(End(messages), b)
  BY <1>1, <1>2 DEF TypeOK, CallInStep
<1>4. Len(messages) \in Nat \ {0} /\ End(messages) \in Nat
  BY <1>3 DEF End
<1>5. z \in Seq(Nat) /\ Range(z) = Range(processed) \union Range(messages)
  BY <1>3, ConcatRange
<1>6. Stored' = Stored
  BY <1>2 DEF Stored, stores
<1>7. TypeOK'
  BY <1>1, <1>2, <1>4, <1>5 DEF TypeOK, stores, histories
<1>8. BatchesInStep'
  BY <1>1, <1>2, <1>6 DEF BatchesInStep, stores, histories
<1>9. StoresInStep'
  <2>1. \A n \in 1..sent : \/ n <= End(messages) \/ n \in evicted
                           \/ \E b \in Stored : First(b) <= n /\ n <= End(b)
    BY <1>1, <1>3, <1>4 DEF StoresInStep
  <2>2. QED BY <1>2, <1>3, <1>6, <2>1 DEF StoresInStep, histories
<1>10. CallInStep'
  BY <1>2, <1>3 DEF CallInStep, histories
<1>11. OrderInStep'
  <2>1. ~ordersFed => orders' = <<>>
    BY <1>1, <1>2 DEF OrderInStep, stores
  <2>2. ASSUME ~ordersFed \/ ~recovered
        PROVE  Ascending(z) /\ \A k \in 1..Len(z) : z[k] <= End(messages)
    <3>1. /\ Ascending(processed) /\ Ascending(messages)
          /\ \A k \in 1..Len(processed) : processed[k] <= L
          /\ \A k \in 1..Len(messages) : messages[k] > L
      BY <1>1, <2>2 DEF OrderInStep
    <3>2. CASE processed = <<>>
      <4>1. z = messages
        BY <1>3, <3>2, ConcatFacts
      <4>2. QED BY <1>3, <3>1, <4>1, AscendingEnds DEF End
    <3>3. CASE processed # <<>>
      <4>1. Len(processed) \in Nat \ {0} /\ Len(processed) \in 1..Len(processed)
            /\ 1 \in 1..Len(messages)
            /\ processed[Len(processed)] \in Nat /\ messages[1] \in Nat
        BY <1>3, <1>4, <3>3
      <4>2. Before(processed, messages)
        <5>1. processed[Len(processed)] <= L /\ L < messages[1]
          BY <1>3, <3>1, <4>1
        <5>2. processed[Len(processed)] < messages[1]
          BY <1>3, <4>1, <5>1
        <5>3. QED BY <5>2 DEF Before
      <4>3. Ascending(z) /\ z[Len(z)] = End(messages)
        BY <1>3, <3>1, <3>3, <4>2, ConcatAscends DEF End
      <4>4. QED BY <1>5, <4>3, AscendingEnds
    <3>4. QED BY <3>2, <3>3
  <2>3. Ascending(<<>>)
    BY DEF Ascending
  <2>4. ordersFed' = ordersFed /\ recovered' = recovered
    BY <1>2 DEF histories
  <2>5. QED BY <1>2, <2>1, <2>2, <2>3, <2>4 DEF OrderInStep
<1>12. CountersInStep'
  <2>1. ASSUME ~recovered PROVE expectedTransactionNum = End(messages) + 1
    <3>1. /\ process = "counting" /\ index <= Len(messages) + 1 /\ index > Len(messages)
          /\ expectedTransactionNum = L + index
          /\ \A k \in 1..Len(messages) : messages[k] = L + k
      BY <1>1, <1>2, <2>1 DEF CountersInStep
    <3>2. End(messages) = L + Len(messages)
      BY <1>4, <3>1 DEF End
    <3>3. index = Len(messages) + 1
      BY <1>3, <1>4, <3>1
    <3>4. QED BY <1>3, <1>4, <3>1, <3>2, <3>3
  <2>2. QED BY <1>2, <2>1 DEF CountersInStep, histories
<1>13. NoHole'
  <2>1. ASSUME NEW n \in 1..End(messages) PROVE n \in Range(z) \/ n \in evicted
    <3>1. n \in 1..L \/ n \in L + 1..End(messages)
      BY <1>3, <1>4
    <3>2. QED BY <1>1, <1>3, <1>5, <3>1 DEF NoHole
  <2>2. QED BY <1>2, <2>1 DEF NoHole
<1>14. QED BY <1>7, <1>8, <1>9, <1>10, <1>11, <1>12, <1>13 DEF Inv

LEMMA StutterKeeps ==
  ASSUME Inv, UNCHANGED vars
  PROVE  Inv'
<1>1. /\ TypeOK /\ BatchesInStep /\ StoresInStep /\ CallInStep
      /\ OrderInStep /\ CountersInStep /\ NoHole
  BY DEF Inv
<1>2. /\ wire' = wire /\ tap' = tap /\ batchSnapshots' = batchSnapshots /\ orders' = orders
      /\ ordersFed' = ordersFed /\ process' = process /\ messages' = messages
      /\ index' = index /\ lastProcessedSeqNum' = lastProcessedSeqNum
      /\ expectedTransactionNum' = expectedTransactionNum /\ sent' = sent
      /\ processed' = processed /\ evicted' = evicted /\ newest' = newest
      /\ recorded' = recorded /\ recovered' = recovered
  BY DEF vars, stores, counters, locals, histories
<1>3. Stored' = Stored
  BY <1>2 DEF Stored
<1>4. TypeOK' /\ NoHole'
  BY <1>1, <1>2 DEF TypeOK, NoHole
<1>5. BatchesInStep' /\ StoresInStep' /\ CallInStep'
  BY <1>1, <1>2, <1>3 DEF BatchesInStep, StoresInStep, CallInStep
<1>6. OrderInStep' /\ CountersInStep'
  BY <1>1, <1>2 DEF OrderInStep, CountersInStep
<1>7. QED BY <1>1, <1>4, <1>5, <1>6 DEF Inv

LEMMA StepKeeps == Inv /\ [Next]_vars => Inv'
BY SendKeeps, LoseKeeps, StoreKeeps, GapKeeps, InTurnKeeps, CountKeeps, MatchKeeps,
   StutterKeeps DEF Next

LEMMA Invariance == Spec => []Inv
BY StepKeeps, InitInv, PTL DEF Spec

-----------------------------------------------------------------------------
(* What is matched twice is not matched again. *)

AtMostTwice(s) ==
  \A i, j, k \in 1..Len(s) : i < j /\ j < k => ~(s[i] = s[j] /\ s[j] = s[k])

Once(s, n) == \A j, k \in 1..Len(s) : s[j] = n /\ s[k] = n => j = k

\* All that the strategy was given and what it is about to be given.
Handed == processed \o messages

\* The last order that came, or is about to come, from its batch.
Done == IF process = "idle" THEN lastProcessedSeqNum ELSE End(messages)

\* What the retransmission service may still hand out.
Awaited == Range(orders) \union UNION {Range(b) : b \in Range(tap)}

\* The orders of the retransmission service are handed out once and stand in line for it.
OrdersInLine ==
  /\ Ascending(orders)
  /\ \A n \in Range(orders), b \in Range(tap) : n < First(b)
  /\ \A n \in Range(orders) \union Range(Handed) : n <= sent

\* An order that has come from one of its two sources was handed over once, one that has
\* come from neither never.
FromEachSourceOnce ==
  /\ AtMostTwice(Handed)
  /\ \A n \in Awaited : Once(Handed, n)
  /\ \A n \in Nat : n > Done => Once(Handed, n) /\ (n \in Awaited => n \notin Range(Handed))

TwiceInv == Inv /\ OrdersInLine /\ FromEachSourceOnce

\* r is put between x and y.
LEMMA Inserted ==
  ASSUME NEW x \in Seq(Nat), NEW r \in Seq(Nat), NEW y \in Seq(Nat),
         Ascending(r), AtMostTwice(x \o y), \A n \in Range(r) : Once(x \o y, n)
  PROVE  LET z == (x \o r) \o y
         IN  /\ AtMostTwice(z)
             /\ \A n : n \notin Range(r) /\ Once(x \o y, n) => Once(z, n)
             /\ \A n \in Range(r) : n \notin Range(x \o y) => Once(z, n)
             /\ Range(z) = Range(x \o y) \union Range(r)
<1> DEFINE s == x \o y
           u == x \o r
           z == u \o y
           a == Len(x)
           b == Len(r)
           c == Len(y)
           Old(i) == i \in 1..a \/ i \in a + b + 1..a + b + c
           New(i) == i \in a + 1..a + b
           At(i) == IF i <= a THEN i ELSE i - b
<1>1. /\ s \in Seq(Nat) /\ Len(s) = a + c /\ a \in Nat /\ c \in Nat /\ b \in Nat
      /\ \A i \in 1..a : s[i] = x[i]
      /\ \A i \in 1..c : s[a + i] = y[i]
  BY ConcatFacts
<1>2. /\ u \in Seq(Nat) /\ Len(u) = a + b
      /\ \A i \in 1..a : u[i] = x[i]
      /\ \A i \in 1..b : u[a + i] = r[i]
  BY ConcatFacts
<1>3. Range(s) = Range(x) \union Range(y) /\ Range(u) = Range(x) \union Range(r)
  BY ConcatRange
<1> HIDE DEF u
<1>4. /\ z \in Seq(Nat) /\ Len(z) = a + b + c
      /\ \A i \in 1..a + b : z[i] = u[i]
      /\ \A i \in 1..c : z[a + b + i] = y[i]
  <2>1. /\ z \in Seq(Nat) /\ Len(z) = Len(u) + c
        /\ \A i \in 1..Len(u) : z[i] = u[i]
        /\ \A i \in 1..c : z[Len(u) + i] = y[i]
    BY <1>2, ConcatFacts
  <2> HIDE DEF z, a, b, c
  <2>2. QED BY <1>2, <2>1
<1>5. Range(z) = Range(u) \union Range(y)
  BY <1>2, ConcatRange
<1> HIDE DEF s, z, a, b, c
<1>6. ASSUME NEW i \in 1..Len(z) PROVE Old(i) \/ New(i)
  BY <1>1, <1>4, <1>6
<1>7. ASSUME NEW i \in 1..Len(z), Old(i)
      PROVE  At(i) \in 1..Len(s) /\ z[i] = s[At(i)]
  <2>1. CASE i \in 1..a
    BY <1>1, <1>2, <1>4, <2>1, SMTT(30)
  <2>2. CASE i \in a + b + 1..a + b + c
    <3>1. /\ i - (a + b) \in 1..c /\ a + b + (i - (a + b)) = i
          /\ At(i) = i - b /\ a + (i - (a + b)) = i - b /\ i - b \in 1..a + c
      BY <1>1, <2>2
    <3>2. z[i] = y[i - (a + b)] /\ s[i - b] = y[i - (a + b)]
      BY <1>1, <1>4, <3>1
    <3>3. QED BY <1>1, <3>1, <3>2
  <2>3. QED BY <1>7, <2>1, <2>2
<1>8. ASSUME NEW i \in 1..Len(z), New(i)
      PROVE  i - a \in 1..b /\ z[i] = r[i - a] /\ z[i] \in Range(r)
  <2>1. i - a \in 1..b /\ a + (i - a) = i /\ i \in 1..a + b
    BY <1>1, <1>8
  <2>2. z[i] = r[i - a]
    BY <1>2, <1>4, <2>1
  <2>3. r[i - a] \in Range(r)
    BY <2>1, RangeFacts DEF b
  <2>4. QED BY <2>1, <2>2, <2>3
<1>9. ASSUME NEW i \in 1..Len(z), NEW j \in 1..Len(z), Old(i), Old(j)
      PROVE  (i < j => At(i) < At(j)) /\ (At(i) = At(j) => i = j)
  BY <1>1, <1>4, <1>9
<1>10. ASSUME NEW i \in 1..Len(z), NEW j \in 1..Len(z), New(i), New(j), z[i] = z[j]
       PROVE  i = j
  <2>1. /\ i - a \in 1..b /\ j - a \in 1..b /\ r[i - a] = r[j - a]
        /\ r[i - a] \in Nat /\ r[j - a] \in Nat
    BY <1>8, <1>10, RangeFacts DEF b
  <2>2. ~(i - a < j - a) /\ ~(j - a < i - a)
    BY <2>1 DEF Ascending, b
  <2>3. QED BY <1>1, <1>4, <2>1, <2>2, SMTT(30)
<1>11. ASSUME NEW i \in 1..Len(z), NEW j \in 1..Len(z), Old(i), Old(j), z[i] = z[j],
              Once(s, z[i])
       PROVE  i = j
  <2>1. At(i) = At(j)
    BY <1>7, <1>11 DEF Once
  <2>2. QED BY <1>9, <1>11, <2>1
<1> HIDE DEF Old, New, At
<1>12. ASSUME NEW i \in 1..Len(z), NEW j \in 1..Len(z), NEW k \in 1..Len(z),
              i < j, j < k, z[i] = z[j], z[j] = z[k]
       PROVE  FALSE
  <2>1. i # j /\ j # k /\ i # k
    BY <1>4, <1>12
  <2>2. CASE New(i) \/ New(j) \/ New(k)
    <3>1. Once(s, z[i])
      <4>1. z[i] \in Range(r)
        BY <1>8, <1>12, <2>2
      <4>2. QED BY <4>1 DEF s
    <3>2. (Old(i) /\ Old(j)) \/ (Old(j) /\ Old(k)) \/ (Old(i) /\ Old(k))
      <4>1. ~(New(i) /\ New(j))
        BY <1>10, <1>12, <2>1
      <4>2. ~(New(j) /\ New(k))
        BY <1>10, <1>12, <2>1
      <4>3. ~(New(i) /\ New(k))
        BY <1>10, <1>12, <2>1
      <4>4. QED BY <1>6, <1>12, <4>1, <4>2, <4>3
    <3>3. QED BY <1>11, <1>12, <2>1, <3>1, <3>2
  <2>3. CASE Old(i) /\ Old(j) /\ Old(k)
    <3>1. /\ At(i) \in 1..Len(s) /\ At(j) \in 1..Len(s) /\ At(k) \in 1..Len(s)
          /\ s[At(i)] = s[At(j)] /\ s[At(j)] = s[At(k)]
      BY <1>7, <1>12, <2>3
    <3>2. At(i) < At(j) /\ At(j) < At(k)
      BY <1>9, <1>12, <2>3
    <3>3. AtMostTwice(s)
      BY DEF s
    <3>4. QED BY <3>1, <3>2, <3>3 DEF AtMostTwice
  <2>4. QED BY <1>6, <2>2, <2>3
<1>13. ASSUME NEW n, n \notin Range(r), Once(s, n) PROVE Once(z, n)
  <2>1. \A i \in 1..Len(z) : z[i] = n => Old(i)
    BY <1>6, <1>8, <1>13
  <2>2. QED BY <1>11, <1>13, <2>1 DEF Once
<1>14. ASSUME NEW n \in Range(r), n \notin Range(s) PROVE Once(z, n)
  <2>1. \A i \in 1..Len(s) : s[i] # n
    <3>1. \A i \in 1..Len(s) : s[i] \in Range(s)
      BY <1>1, RangeFacts
    <3>2. QED BY <1>14, <3>1
  <2>2. \A i \in 1..Len(z) : z[i] = n => New(i)
    <3>1. SUFFICES ASSUME NEW i \in 1..Len(z), z[i] = n, Old(i) PROVE FALSE
      BY <1>6
    <3>2. At(i) \in 1..Len(s) /\ s[At(i)] = n
      BY <1>7, <3>1
    <3>3. QED BY <2>1, <3>2
  <2>3. QED BY <1>10, <2>2 DEF Once
<1>15. AtMostTwice(z)
  BY <1>12 DEF AtMostTwice
<1>16. Range(z) = Range(s) \union Range(r)
  BY <1>3, <1>5
<1>17. QED BY <1>13, <1>14, <1>15, <1>16 DEF s, z, u

\* What batchRequest hands out it does not keep.
LEMMA HandedOut ==
  ASSUME orders \in Seq(Nat), Ascending(orders), NEW from \in Int, NEW to \in Int
  PROVE  LET r == Retransmitted(from, to)
             l == OrdersLeft(from, to)
         IN  /\ r \in Seq(Nat) /\ l \in Seq(Nat) /\ Ascending(r) /\ Ascending(l)
             /\ Range(r) \subseteq Range(orders) /\ Range(l) \subseteq Range(orders)
             /\ \A n \in Range(r) : n \notin Range(l)
<1>1. TransactionIds \in Seq(Int) /\ Len(TransactionIds) = Len(orders) /\ Len(orders) \in Nat
  BY SMTT(30) DEF TransactionIds
<1> DEFINE j == Below(TransactionIds, from)
           k == Below(TransactionIds, to)
           m == Len(orders)
<1>2. j \in 0..m /\ k \in 0..m
  BY <1>1, BelowFacts
<1> HIDE DEF j, k
<1> DEFINE r == SubSeq(orders, j + 1, k)
           l == SubSeq(orders, k + 1, m)
<1>3. /\ r \in Seq(Nat) /\ l \in Seq(Nat)
      /\ \A i \in 1..Len(r) : j + i \in 1..k /\ j + i \in 1..m /\ r[i] = orders[j + i]
      /\ \A i \in 1..Len(l) : k + i \in k + 1..m /\ k + i \in 1..m /\ l[i] = orders[k + i]
  BY <1>1, <1>2, SMTT(30)
<1>4. \A i \in 1..m : orders[i] \in Range(orders) /\ orders[i] \in Nat
  BY RangeFacts
<1> HIDE DEF r, l
<1>5. Len(r) \in Nat /\ Len(l) \in Nat
  BY <1>3
<1>6. Ascending(r)
  BY <1>2, <1>3, <1>5 DEF Ascending
<1>7. Ascending(l)
  BY <1>2, <1>3, <1>5 DEF Ascending
<1>8. Range(r) \subseteq Range(orders) /\ Range(l) \subseteq Range(orders)
  <2>1. ASSUME NEW n \in Range(r) PROVE n \in Range(orders)
    <3>1. PICK i \in 1..Len(r) : n = r[i]
      BY <1>3, RangeFacts
    <3>2. QED BY <1>3, <1>4, <3>1
  <2>2. ASSUME NEW n \in Range(l) PROVE n \in Range(orders)
    <3>1. PICK i \in 1..Len(l) : n = l[i]
      BY <1>3, RangeFacts
    <3>2. QED BY <1>3, <1>4, <3>1
  <2>3. QED BY <2>1, <2>2
<1>9. ASSUME NEW n \in Range(r), n \in Range(l) PROVE FALSE
  <2>1. PICK i \in 1..Len(r) : n = r[i]
    BY <1>3, RangeFacts
  <2>2. PICK h \in 1..Len(l) : n = l[h]
    BY <1>3, <1>9, RangeFacts
  <2>3. j + i < k + h /\ orders[j + i] = orders[k + h]
    <3>1. /\ j + i \in 1..k /\ r[i] = orders[j + i]
          /\ k + h \in k + 1..m /\ l[h] = orders[k + h]
      BY <1>3, <2>1, <2>2
    <3>2. j + i < k + h
      BY <1>2, <3>1
    <3>3. QED BY <2>1, <2>2, <3>1, <3>2
  <2>4. orders[j + i] < orders[k + h] /\ orders[j + i] \in Nat
    BY <1>3, <1>4, <2>3 DEF Ascending
  <2>5. QED BY <2>3, <2>4
<1>10. CASE from > to
  <2>1. Retransmitted(from, to) = <<>> /\ OrdersLeft(from, to) = orders
    BY <1>10 DEF Retransmitted, OrdersLeft
  <2>2. <<>> \in Seq(Nat) /\ Ascending(<<>>) /\ Range(<<>>) = {}
    BY DEF Ascending, Range
  <2>3. QED BY <2>1, <2>2
<1>11. CASE ~(from > to)
  <2>1. Retransmitted(from, to) = r /\ OrdersLeft(from, to) = l
    BY <1>11 DEF Retransmitted, OrdersLeft, j, k, r, l
  <2>2. QED BY <1>3, <1>6, <1>7, <1>8, <1>9, <2>1
<1>12. QED BY <1>10, <1>11

\* A step that puts r between two parts of what was handed over.
LEMMA HandedGrows ==
  ASSUME FromEachSourceOnce,
         NEW x \in Seq(Nat), NEW r \in Seq(Nat), NEW y \in Seq(Nat),
         Handed = x \o y, Handed' = (x \o r) \o y, Ascending(r),
         Awaited' \subseteq Awaited, Done \in Nat, Done' \in Nat, Done <= Done',
         \A n \in Range(r) : Once(Handed, n),
         \A n \in Range(r) : n \in Awaited' \/ n > Done' => n \notin Range(Handed),
         \A n \in Range(r) : ~(n \in Awaited' /\ n > Done')
  PROVE  FromEachSourceOnce' /\ Range(Handed') = Range(Handed) \union Range(r)
<1>1. /\ AtMostTwice(Handed')
      /\ \A n : n \notin Range(r) /\ Once(Handed, n) => Once(Handed', n)
      /\ \A n \in Range(r) : n \notin Range(Handed) => Once(Handed', n)
      /\ Range(Handed') = Range(Handed) \union Range(r)
  <2>1. AtMostTwice(x \o y) /\ \A n \in Range(r) : Once(x \o y, n)
    BY DEF FromEachSourceOnce
  <2>2. QED BY <2>1, Inserted
<1>2. ASSUME NEW n \in Nat, n > Done'
      PROVE  Once(Handed', n) /\ (n \in Awaited' => n \notin Range(Handed'))
  <2>1. n > Done
    BY <1>2
  <2>2. Once(Handed, n) /\ (n \in Awaited => n \notin Range(Handed))
    BY <2>1 DEF FromEachSourceOnce
  <2>3. QED BY <1>1, <1>2, <2>2
<1>3. ASSUME NEW n \in Awaited' PROVE Once(Handed', n)
  <2>1. Once(Handed, n)
    BY DEF FromEachSourceOnce
  <2>2. QED BY <1>1, <1>3, <2>1
<1>4. QED BY <1>1, <1>2, <1>3 DEF FromEachSourceOnce

\* A step that leaves it alone what was handed over, and adds to what the retransmission
\* service may hand out only orders that are new.
LEMMA HandedStays ==
  ASSUME FromEachSourceOnce, Handed' = Handed, Done' = Done, Handed \in Seq(Nat),
         \A n \in Awaited' : n \in Awaited \/ n \notin Range(Handed)
  PROVE  FromEachSourceOnce'
<1>1. \A n : n \notin Range(Handed) => Once(Handed, n)
  BY RangeFacts DEF Once
<1>2. AtMostTwice(Handed')
  BY DEF FromEachSourceOnce
<1>3. \A n \in Awaited' : Once(Handed', n)
  BY <1>1 DEF FromEachSourceOnce
<1>4. \A n \in Nat : n > Done' => Once(Handed', n) /\ (n \in Awaited' => n \notin Range(Handed'))
  BY <1>1 DEF FromEachSourceOnce
<1>5. QED BY <1>2, <1>3, <1>4 DEF FromEachSourceOnce

LEMMA HandedTypes ==
  ASSUME Inv
  PROVE  /\ Handed \in Seq(Nat) /\ Range(Handed) = Range(processed) \union Range(messages)
         /\ Done \in Nat
         /\ process = "idle" => Handed = processed
<1>1. /\ processed \in Seq(Nat) /\ messages \in Seq(Nat) /\ lastProcessedSeqNum \in Nat
      /\ process = "idle" => messages = <<>>
      /\ process # "idle" => messages # <<>>
  BY DEF Inv, TypeOK, CallInStep
<1>2. process # "idle" => End(messages) \in Nat
  BY <1>1 DEF End
<1>3. Done \in Nat
  BY <1>1, <1>2 DEF Done
<1>4. Handed \in Seq(Nat) /\ Range(Handed) = Range(processed) \union Range(messages)
  BY <1>1, ConcatFacts, ConcatRange DEF Handed
<1>5. process = "idle" => Handed = processed
  BY <1>1, ConcatFacts DEF Handed
<1>6. QED BY <1>3, <1>4, <1>5

LEMMA InitTwice == Init => TwiceInv
<1> SUFFICES ASSUME Init PROVE TwiceInv
  OBVIOUS
<1>1. Inv
  BY InitInv
<1>2. /\ orders = <<>> /\ tap = <<>> /\ processed = <<>> /\ messages = <<>>
      /\ Range(<<>>) = {}
  BY DEF Init, Range
<1>3. Handed = <<>> /\ Awaited = {}
  BY <1>2 DEF Handed, Awaited
<1>4. OrdersInLine
  BY <1>2, <1>3 DEF OrdersInLine, Ascending
<1>5. FromEachSourceOnce
  BY <1>2, <1>3 DEF FromEachSourceOnce, AtMostTwice, Once
<1>6. QED BY <1>1, <1>4, <1>5 DEF TwiceInv

LEMMA SendTwice ==
  ASSUME TwiceInv, Send
  PROVE  OrdersInLine' /\ FromEachSourceOnce'
<1>1. PICK n \in 1..BatchCap :
        LET batch == [i \in 1..n |-> sent + i]
        IN  tap' = Append(tap, batch) /\ sent' = sent + n
  BY DEF Send
<1>2. UNCHANGED <<stores, locals, counters, processed>>
  BY DEF Send
<1> DEFINE b == [i \in 1..n |-> sent + i]
<1>3. Inv /\ OrdersInLine /\ FromEachSourceOnce
  BY DEF TwiceInv
<1>4. sent \in Nat /\ n \in Nat \ {0} /\ tap \in Seq(Seq(Nat)) /\ orders \in Seq(Nat)
  BY <1>3, RecoveryAssumption DEF Inv, TypeOK
<1>5. /\ b \in Seq(Nat) /\ First(b) = sent + 1
      /\ \A h \in Range(b) : h \in Nat /\ sent < h
  <2>1. b \in Seq(Nat) /\ IsRun(b) /\ First(b) = sent + 1
    BY <1>4, NewBatch
  <2> HIDE DEF b
  <2>2. \A h \in Range(b) : h \in Nat /\ First(b) <= h
    BY <2>1, BatchFacts
  <2>3. QED BY <1>4, <2>1, <2>2
<1>6. tap' = Append(tap, b) /\ sent' = sent + n
  BY <1>1
<1> HIDE DEF b
<1>7. Range(tap') = Range(tap) \union {b}
  BY <1>4, <1>5, <1>6, RangeAppend
<1>8. Handed' = Handed /\ Done' = Done /\ orders' = orders /\ Handed \in Seq(Nat)
  BY <1>2, <1>3, HandedTypes DEF Handed, Done, locals, counters, stores
<1>9. \A h \in Range(orders) \union Range(Handed) : h \in Nat /\ h <= sent
  BY <1>3, <1>4, <1>8, RangeFacts DEF OrdersInLine
<1>10. OrdersInLine'
  <2>1. \A h \in Range(orders') \union Range(Handed') : h <= sent'
    BY <1>4, <1>6, <1>8, <1>9
  <2>2. \A h \in Range(orders'), c \in Range(tap') : h < First(c)
    BY <1>3, <1>4, <1>5, <1>7, <1>8, <1>9 DEF OrdersInLine
  <2>3. QED BY <1>3, <1>8, <2>1, <2>2 DEF OrdersInLine
<1>11. \A h \in Awaited' : h \in Awaited \/ h \notin Range(Handed)
  <2>1. Awaited' = Awaited \union Range(b)
    BY <1>7, <1>8 DEF Awaited
  <2>2. \A h \in Range(b) : h \notin Range(Handed)
    BY <1>4, <1>5, <1>9
  <2>3. QED BY <2>1, <2>2
<1>12. QED BY <1>3, <1>8, <1>10, <1>11, HandedStays

LEMMA StoreTwice ==
  ASSUME TwiceInv, Store
  PROVE  OrdersInLine' /\ FromEachSourceOnce'
<1>1. /\ tap # <<>> /\ tap' = Tail(tap)
      /\ orders' = IF ordersFed THEN orders \o Head(tap) ELSE orders
      /\ UNCHANGED <<locals, counters, sent, processed>>
  BY DEF Store
<1> DEFINE b == Head(tap)
<1>2. Inv /\ OrdersInLine /\ FromEachSourceOnce
  BY DEF TwiceInv
<1>3. /\ IsLine(tap) /\ orders \in Seq(Nat)
      /\ \A c \in Range(tap) : End(c) <= sent
  BY <1>2 DEF Inv, TypeOK, BatchesInStep, Stored
<1>4. /\ b \in Seq(Nat) /\ IsRun(b) /\ IsLine(tap')
      /\ Range(tap) = {b} \union Range(tap')
      /\ \A c \in Range(tap') : Before(b, c)
  BY <1>1, <1>3, LineTail
<1> HIDE DEF b
<1>5. /\ First(b) \in Nat /\ End(b) \in Nat /\ First(b) <= End(b) /\ b # <<>>
      /\ \A n \in Range(b) : n \in Nat /\ First(b) <= n /\ n <= End(b)
      /\ Ascending(b)
  BY <1>4, BatchFacts, RunFacts DEF IsRun
<1>6. \A c \in Range(tap') : End(b) < First(c)
  BY <1>4, BeforeMeans
<1>7. /\ Handed' = Handed /\ Done' = Done /\ Handed \in Seq(Nat) /\ sent' = sent /\ sent \in Nat
  BY <1>1, <1>2, HandedTypes DEF Handed, Done, locals, counters, Inv, TypeOK
<1>8. /\ Ascending(orders)
      /\ \A n \in Range(orders) : n \in Nat /\ n <= sent /\ n < First(b)
      /\ \A n \in Range(orders), c \in Range(tap') : n < First(c)
      /\ \A n \in Range(Handed) : n <= sent
  BY <1>2, <1>3, <1>4, RangeFacts DEF OrdersInLine
<1>9. CASE ~ordersFed
  <2>1. orders' = orders
    BY <1>1, <1>9
  <2>2. Awaited' \subseteq Awaited
    BY <1>4, <2>1 DEF Awaited
  <2>3. OrdersInLine'
    BY <1>7, <1>8, <2>1 DEF OrdersInLine
  <2>4. QED BY <1>2, <1>7, <2>2, <2>3, HandedStays
<1>10. CASE ordersFed
  <2>1. orders' = orders \o b
    BY <1>1, <1>10 DEF b
  <2>2. Range(orders') = Range(orders) \union Range(b)
    BY <1>3, <1>4, <2>1, ConcatRange
  <2>3. Awaited' \subseteq Awaited
    BY <1>4, <2>2 DEF Awaited
  <2>4. Ascending(orders')
    <3>1. CASE orders = <<>>
      BY <1>4, <1>5, <2>1, <3>1, ConcatFacts
    <3>2. CASE orders # <<>>
      <4>1. orders[Len(orders)] \in Range(orders)
        BY <1>3, <3>2, RangeFacts
      <4>2. Before(orders, b)
        BY <1>8, <4>1 DEF Before, First
      <4>3. QED BY <1>3, <1>4, <1>5, <1>8, <2>1, <3>2, <4>2, ConcatAscends
    <3>3. QED BY <3>1, <3>2
  <2>5. \A n \in Range(b) : n <= sent
    BY <1>3, <1>4, <1>5, <1>7
  <2>6. \A n \in Range(b), c \in Range(tap') : n < First(c)
    <3>1. \A c \in Range(tap') : First(c) \in Nat
      BY <1>4, LineFacts
    <3>2. QED BY <1>5, <1>6, <3>1
  <2>7. OrdersInLine'
    BY <1>7, <1>8, <2>2, <2>4, <2>5, <2>6 DEF OrdersInLine
  <2>8. QED BY <1>2, <1>7, <2>3, <2>7, HandedStays
<1>11. QED BY <1>9, <1>10

\* A batch is about to be handed over, from the wire or from the snapshots: all of it is
\* new to the strategy as far as batches go.
LEMMA DeliverTwice ==
  ASSUME TwiceInv, Inv', process = "idle",
         UNCHANGED <<tap, orders, counters, sent, processed>>,
         process' # "idle" =>
           /\ Ascending(messages')
           /\ \A n \in Range(messages') : lastProcessedSeqNum < n /\ n <= sent
  PROVE  OrdersInLine' /\ FromEachSourceOnce'
<1>1. Inv /\ OrdersInLine /\ FromEachSourceOnce
  BY DEF TwiceInv
<1> DEFINE r == messages'
           L == lastProcessedSeqNum
<1>2. /\ Handed \in Seq(Nat) /\ Handed = processed /\ Done = L /\ L \in Nat /\ Done' \in Nat
      /\ Awaited' = Awaited /\ sent' = sent /\ orders' = orders /\ tap' = tap
      /\ processed' = processed /\ L' = L /\ r \in Seq(Nat)
  <2>1. /\ Handed \in Seq(Nat) /\ Handed = processed /\ Done \in Nat
    BY <1>1, HandedTypes
  <2>2. Done' \in Nat
    <3>1. lastProcessedSeqNum' \in Nat /\ messages' \in Seq(Nat)
      BY DEF Inv, TypeOK
    <3>2. CASE process' = "idle"
      BY <3>1, <3>2 DEF Done
    <3>3. CASE process' # "idle"
      <4>1. messages' # <<>>
        BY <3>3 DEF Inv, CallInStep
      <4>2. QED BY <3>1, <3>3, <4>1 DEF Done, End
    <3>4. QED BY <3>2, <3>3
  <2>3. r \in Seq(Nat)
    BY DEF Inv, TypeOK
  <2>4. QED BY <2>1, <2>2, <2>3 DEF Done, counters, Awaited
<1>3. Handed' = (processed \o r) \o <<>>
  <2>1. Handed' = processed \o r
    BY <1>2 DEF Handed
  <2>2. processed \o r \in Seq(Nat)
    BY <1>2, ConcatFacts
  <2>3. QED BY <2>1, <2>2, ConcatFacts
<1>4. Ascending(r) /\ \A n \in Range(r) : n \in Nat /\ L < n /\ n <= sent /\ n <= Done'
  <2>1. CASE process' = "idle"
    <3>1. r = <<>>
      BY <2>1 DEF Inv, CallInStep
    <3>2. Ascending(<<>>) /\ Range(<<>>) = {}
      BY DEF Ascending, Range
    <3>3. QED BY <3>1, <3>2
  <2>2. CASE process' # "idle"
    <3>1. Done' = End(r)
      BY <2>2 DEF Done, End
    <3>2. ASSUME NEW n \in Range(r) PROVE n <= End(r) /\ n \in Nat
      <4>1. PICK i \in 1..Len(r) : n = r[i]
        BY <1>2, RangeFacts
      <4>2. QED BY <1>2, <2>2, <4>1, AscendingEnds DEF End
    <3>3. QED BY <2>2, <3>1, <3>2
  <2>3. QED BY <2>1, <2>2
<1>5. Done <= Done'
  <2>1. CASE process' = "idle"
    BY <1>2, <2>1 DEF Done
  <2>2. CASE process' # "idle"
    <3>1. Done' = End(r) /\ L' < End(r)
      BY <2>2 DEF Done, End, Inv, CallInStep
    <3>2. QED BY <1>2, <3>1
  <2>3. QED BY <2>1, <2>2
<1> HIDE DEF r, L
<1>6. \A n \in Range(r) : Once(Handed, n) /\ (n \in Awaited => n \notin Range(Handed))
  BY <1>2, <1>4, <1>1 DEF FromEachSourceOnce
<1>7. \A n \in Range(r) : ~(n > Done')
  BY <1>2, <1>4
<1>8. processed \in Seq(Nat) /\ <<>> \in Seq(Nat) /\ Handed = processed \o <<>>
  BY <1>2, ConcatFacts
<1>9. FromEachSourceOnce' /\ Range(Handed') = Range(Handed) \union Range(r)
  BY <1>1, <1>2, <1>3, <1>4, <1>5, <1>6, <1>7, <1>8, HandedGrows
<1>10. OrdersInLine'
  BY <1>1, <1>2, <1>4, <1>9 DEF OrdersInLine
<1>11. QED BY <1>9, <1>10

LEMMA GapTwice ==
  ASSUME TwiceInv, Inv', DeliverAfterGap
  PROVE  OrdersInLine' /\ FromEachSourceOnce'
<1>1. PICK batch \in Range(wire) :
        /\ Deliver(batch)
        /\ messages' = FlattenSeq(Snapshots(lastProcessedSeqNum + 1, batch[1]))
        /\ batchSnapshots' = SnapshotsLeft(lastProcessedSeqNum + 1, batch[1])
        /\ process' = IF messages' = <<>> THEN "idle" ELSE "matching"
  BY DEF DeliverAfterGap
<1>2. /\ process = "idle"
      /\ UNCHANGED <<tap, orders, counters, sent, processed>>
  BY <1>1 DEF Deliver
<1>3. /\ TypeOK /\ BatchesInStep /\ StoresInStep
      /\ lastProcessedSeqNum \in Nat /\ sent \in Nat
  BY DEF TwiceInv, Inv, TypeOK
<1> DEFINE found == Snapshots(lastProcessedSeqNum + 1, batch[1])
<1>4. /\ IsLine(found)
      /\ \A b \in Range(found) : b \in Range(batchSnapshots) /\ lastProcessedSeqNum < First(b)
  BY <1>1, <1>2, <1>3, GapFacts
<1>5. messages' = FlattenSeq(found)
  BY <1>1
<1> HIDE DEF found
<1>6. \A b \in Range(found) : \A n \in Range(b) :
        lastProcessedSeqNum < n /\ n <= sent
  <2>1. \A b \in Range(found) :
          /\ First(b) \in Nat /\ End(b) \in Nat /\ Range(b) \subseteq Nat
          /\ \A n \in Nat : n \in Range(b) <=> First(b) <= n /\ n <= End(b)
    BY <1>4, LineFacts
  <2>2. \A b \in Range(found) : End(b) <= sent
    BY <1>3, <1>4 DEF BatchesInStep, Stored
  <2>3. QED BY <1>3, <1>4, <2>1, <2>2
<1>7. ASSUME process' # "idle"
      PROVE  /\ Ascending(messages')
             /\ \A n \in Range(messages') : lastProcessedSeqNum < n /\ n <= sent
  <2>1. found # <<>>
    BY <1>1, <1>5, <1>7, FlattenEmpty
  <2>2. /\ Ascending(messages')
        /\ \A n \in Range(messages') : \E b \in Range(found) : n \in Range(b)
    BY <1>4, <1>5, <2>1, FlattenLine
  <2>3. QED BY <1>6, <2>2
<1>8. QED BY <1>2, <1>7, DeliverTwice

LEMMA InTurnTwice ==
  ASSUME TwiceInv, Inv', DeliverInTurn
  PROVE  OrdersInLine' /\ FromEachSourceOnce'
<1>1. PICK batch \in Range(wire) : Deliver(batch) /\ messages' = batch
  BY DEF DeliverInTurn
<1>2. /\ process = "idle"
      /\ UNCHANGED <<tap, orders, counters, sent, processed>>
  BY <1>1 DEF Deliver
<1>3. /\ TypeOK /\ BatchesInStep /\ StoresInStep
      /\ lastProcessedSeqNum \in Nat /\ sent \in Nat
  BY DEF TwiceInv, Inv, TypeOK
<1>4. /\ batch \in Seq(Nat) /\ IsRun(batch) /\ First(batch) \in Nat /\ End(batch) \in Nat
      /\ End(batch) <= sent /\ lastProcessedSeqNum < First(batch)
  BY <1>1, <1>3, DeliveredBatch
<1>5. Ascending(batch)
  BY <1>4, RunFacts
<1>6. \A n \in Range(batch) : n \in Nat /\ First(batch) <= n /\ n <= End(batch)
  BY <1>4, BatchFacts
<1>7. /\ Ascending(messages')
      /\ \A n \in Range(messages') : lastProcessedSeqNum < n /\ n <= sent
  BY <1>1, <1>3, <1>4, <1>5, <1>6
<1>8. QED BY <1>2, <1>7, DeliverTwice

\* A sequence cut in front of one of its elements, and put together again.
LEMMA SplitFacts ==
  ASSUME NEW q \in Seq(Nat), NEW i \in 1..Len(q)
  PROVE  /\ SubSeq(q, 1, i - 1) \in Seq(Nat) /\ SubSeq(q, i, Len(q)) \in Seq(Nat)
         /\ q = SubSeq(q, 1, i - 1) \o SubSeq(q, i, Len(q))
<1> DEFINE k == i - 1
<1>1. k \in 1 - 1..Len(q) /\ k + 1 = i /\ 1 \in 1..Len(q) + 1 /\ Len(q) \in k..Len(q)
  OBVIOUS
<1> HIDE DEF k
<1>2. SubSeq(q, 1, k) \o SubSeq(q, k + 1, Len(q)) = SubSeq(q, 1, Len(q))
  BY <1>1, ConcatAdjacentSubSeq
<1>3. SubSeq(q, 1, Len(q)) = q
  OBVIOUS
<1>4. SubSeq(q, 1, k) \in Seq(Nat) /\ SubSeq(q, k + 1, Len(q)) \in Seq(Nat)
  <2>1. k \in 0..Len(q)
    BY <1>1
  <2>2. QED BY <2>1, SubSeqFacts
<1>5. QED BY <1>1, <1>2, <1>3, <1>4 DEF k

LEMMA JoinFacts ==
  ASSUME NEW q \in Seq(Nat), NEW t \in Seq(Nat), NEW u \in Seq(Nat)
  PROVE  q \o (t \o u) = (q \o t) \o u
<1>1. (q \o t) \o u = q \o (t \o u)
  BY ConcatAssociative, SMTT(30)
<1>2. QED BY <1>1, ZenonT(30)

LEMMA CountTwice ==
  ASSUME TwiceInv, Inv', Count
  PROVE  OrdersInLine' /\ FromEachSourceOnce'
<1> DEFINE from == expectedTransactionNum
           to == expectedTransactionNum + Len(messages) - index
           r == Retransmitted(from, to)
           a == SubSeq(messages, 1, index - 1)
           b == SubSeq(messages, index, Len(messages))
<1>1. Inv /\ OrdersInLine /\ FromEachSourceOnce
  BY DEF TwiceInv
<1>2. /\ process = "counting" /\ process' = "counting" /\ index <= Len(messages)
      /\ \/ messages[index] = expectedTransactionNum /\ UNCHANGED <<messages, orders>>
         \/ messages' = (a \o r) \o b /\ orders' = OrdersLeft(from, to)
      /\ UNCHANGED <<tap, lastProcessedSeqNum, sent, processed>>
  BY DEF Count
<1>3. /\ messages \in Seq(Nat) /\ orders \in Seq(Nat) /\ index \in 1..Len(messages)
      /\ processed \in Seq(Nat) /\ sent \in Nat
      /\ from \in Int /\ to \in Int /\ messages # <<>>
  BY <1>1, <1>2 DEF Inv, TypeOK
<1>4. Handed \in Seq(Nat) /\ Done \in Nat
  BY <1>1, HandedTypes
<1> HIDE DEF from, to
<1>5. CASE UNCHANGED <<messages, orders>>
  <2>1. /\ Handed' = Handed /\ Done' = Done /\ Awaited' = Awaited /\ orders' = orders
        /\ tap' = tap /\ sent' = sent
    BY <1>2, <1>5 DEF Handed, Done, Awaited
  <2>2. OrdersInLine'
    BY <1>1, <2>1 DEF OrdersInLine
  <2>3. QED BY <1>1, <1>4, <2>1, <2>2, HandedStays
<1>6. CASE messages' = (a \o r) \o b /\ orders' = OrdersLeft(from, to)
  <2>1. /\ r \in Seq(Nat) /\ Ascending(r) /\ Ascending(orders')
        /\ Range(r) \subseteq Range(orders) /\ Range(orders') \subseteq Range(orders)
        /\ \A n \in Range(r) : n \notin Range(orders')
    <3>1. Ascending(orders)
      BY <1>1 DEF OrdersInLine
    <3>2. QED BY <1>3, <1>6, <3>1, HandedOut
  <2>2. a \in Seq(Nat) /\ b \in Seq(Nat) /\ messages = a \o b
    BY <1>3, SplitFacts
  <2>3. End(messages') = End(messages)
    BY <1>3, <1>6, <2>1, InsertFacts
  <2> DEFINE x == processed \o a
  <2> HIDE DEF a, b, r
  <2>4. x \in Seq(Nat) /\ a \o r \in Seq(Nat)
    BY <1>3, <2>1, <2>2, ConcatFacts
  <2>5. Handed = x \o b
    <3>1. processed \o (a \o b) = (processed \o a) \o b
      <4>1. processed \in Seq(Nat) /\ a \in Seq(Nat) /\ b \in Seq(Nat)
        BY <1>3, <2>2
      <4> HIDE DEF x
      <4>2. QED BY <4>1, JoinFacts, ZenonT(30)
    <3>2. QED BY <2>2, <3>1 DEF Handed
  <2>6. Handed' = (x \o r) \o b
    <3>1. processed \o ((a \o r) \o b) = (processed \o (a \o r)) \o b
      <4> DEFINE v == a \o r
      <4>1. processed \in Seq(Nat) /\ v \in Seq(Nat) /\ b \in Seq(Nat)
        BY <1>3, <2>2, <2>4
      <4> HIDE DEF v, x
      <4>2. processed \o (v \o b) = (processed \o v) \o b
        BY <4>1, JoinFacts, ZenonT(30)
      <4>3. QED BY <4>2 DEF v
    <3>2. processed \o (a \o r) = (processed \o a) \o r
      <4>1. processed \in Seq(Nat) /\ a \in Seq(Nat) /\ r \in Seq(Nat)
        BY <1>3, <2>1, <2>2
      <4> HIDE DEF x
      <4>2. QED BY <4>1, JoinFacts, ZenonT(30)
    <3>3. Handed' = processed \o ((a \o r) \o b)
      BY <1>2, <1>6 DEF Handed
    <3>4. QED BY <3>1, <3>2, <3>3
  <2>7. Done' = Done
    BY <1>2, <2>3 DEF Done
  <2>8. \A n \in Range(r) : n \in Awaited /\ n \in Nat
    BY <1>3, <2>1, RangeFacts DEF Awaited
  <2>9. ASSUME NEW n \in Range(r) PROVE n \notin Awaited'
    <3>1. n \notin Range(orders') /\ n \in Range(orders) /\ n \in Nat
      BY <2>1, <2>8
    <3>2. ASSUME NEW c \in Range(tap), n \in Range(c) PROVE FALSE
      <4>1. n < First(c)
        BY <1>1, <3>1 DEF OrdersInLine
      <4>2. First(c) \in Nat /\ First(c) <= n
        <5>1. IsLine(tap)
          BY <1>1 DEF Inv, BatchesInStep
        <5>2. QED BY <3>1, <3>2, <5>1, LineFacts
      <4>3. QED BY <3>1, <4>1, <4>2
    <3>3. tap' = tap
      BY <1>2
    <3>4. QED BY <3>1, <3>2, <3>3 DEF Awaited
  <2>10. Awaited' \subseteq Awaited
    BY <1>2, <2>1 DEF Awaited
  <2>11. /\ \A n \in Range(r) : Once(Handed, n)
         /\ \A n \in Range(r) : n > Done => n \notin Range(Handed)
    BY <1>1, <2>8 DEF FromEachSourceOnce
  <2>12. FromEachSourceOnce' /\ Range(Handed') = Range(Handed) \union Range(r)
    <3>1. Done' \in Nat /\ Done <= Done'
      BY <1>4, <2>7
    <3>2. \A n \in Range(r) : n \in Awaited' \/ n > Done' => n \notin Range(Handed)
      BY <2>7, <2>9, <2>11
    <3>3. \A n \in Range(r) : ~(n \in Awaited' /\ n > Done')
      BY <2>9
    <3> HIDE DEF x
    <3>4. QED BY <1>1, <1>4, <2>1, <2>2, <2>4, <2>5, <2>6, <2>10, <2>11, <3>1, <3>2, <3>3,
                 HandedGrows
  <2>13. OrdersInLine'
    BY <1>1, <1>2, <2>1, <2>12 DEF OrdersInLine
  <2>14. QED BY <2>12, <2>13
<1>7. QED BY <1>2, <1>5, <1>6

LEMMA MatchTwice ==
  ASSUME TwiceInv, Match
  PROVE  OrdersInLine' /\ FromEachSourceOnce'
<1>1. Inv /\ OrdersInLine /\ FromEachSourceOnce
  BY DEF TwiceInv
<1>2. /\ process # "idle" /\ process' = "idle"
      /\ processed' = Handed /\ messages' = <<>> /\ lastProcessedSeqNum' = End(messages)
      /\ orders' = orders /\ tap' = tap /\ sent' = sent
  BY DEF Match, Handed, End, stores
<1>3. Handed \in Seq(Nat)
  BY <1>1, HandedTypes
<1>4. Handed' = Handed
  <2>1. Handed' = processed' \o messages'
    BY DEF Handed
  <2>2. Handed \o <<>> = Handed
    BY <1>3, ConcatFacts
  <2>3. QED BY <1>2, <2>1, <2>2
<1>5. Done' = Done /\ Awaited' = Awaited
  BY <1>2 DEF Done, Awaited
<1>6. OrdersInLine'
  BY <1>1, <1>2, <1>4 DEF OrdersInLine
<1>7. QED BY <1>1, <1>3, <1>4, <1>5, <1>6, HandedStays

LEMMA TwiceInvariance == Spec => []TwiceInv
<1>1. ASSUME TwiceInv, [Next]_vars PROVE TwiceInv'
  <2>1. Inv'
    <3>1. Inv
      BY <1>1 DEF TwiceInv
    <3>2. QED BY <1>1, <3>1, StepKeeps
  <2>2. CASE Lose \/ UNCHANGED vars
    <3>1. Inv /\ OrdersInLine /\ FromEachSourceOnce
      BY <1>1 DEF TwiceInv
    <3>2. UNCHANGED <<tap, stores, locals, counters, sent, processed>>
      BY <2>2 DEF Lose, vars
    <3>3. /\ Handed' = Handed /\ Done' = Done /\ Awaited' = Awaited /\ orders' = orders
          /\ tap' = tap /\ sent' = sent
      BY <3>2 DEF Handed, Done, Awaited, stores, locals, counters
    <3>4. OrdersInLine'
      BY <3>1, <3>3 DEF OrdersInLine
    <3>5. FromEachSourceOnce'
      BY <3>1, <3>3, HandedTypes, HandedStays
    <3>6. QED BY <2>1, <3>4, <3>5 DEF TwiceInv
  <2>3. CASE Send \/ Store \/ DeliverAfterGap \/ DeliverInTurn \/ Count \/ Match
    <3>1. OrdersInLine' /\ FromEachSourceOnce'
      BY <1>1, <2>1, <2>3, SendTwice, StoreTwice, GapTwice, InTurnTwice, CountTwice, MatchTwice
    <3>2. QED BY <2>1, <3>1 DEF TwiceInv
  <2>4. QED BY <1>1, <2>2, <2>3 DEF Next
<1>2. QED BY <1>1, InitTwice, PTL DEF Spec

-----------------------------------------------------------------------------
(* The theorems. *)

\* Whatever is lost, evicted or late, the variables of process() and of the two stores
\* hold values of their types.
THEOREM RecoveryTypes == Spec => []TypeOK
<1>1. Inv => TypeOK
  BY DEF Inv
<1>2. QED BY <1>1, Invariance, PTL

\* Every order up to the last one processed was matched, unless the snapshot service had
\* let its batch go: what a gap skips is found in the store.
THEOREM LossesLeaveNoHole == Spec => []NoHole
<1>1. Inv => NoHole
  BY DEF Inv
<1>2. QED BY <1>1, Invariance, PTL

\* As long as the retransmission service has nothing to give, or no gap was seen, the
\* orders process() matches are in ascending order, none of them twice.
THEOREM RecoveredInOrder == Spec => []MatchedInOrder
<1>1. Inv => MatchedInOrder
  <2>1. SUFFICES ASSUME Inv, ~ordersFed \/ ~recovered
                 PROVE  \A j, k \in DOMAIN processed : j < k => processed[j] < processed[k]
    BY DEF MatchedInOrder
  <2>2. Ascending(processed) /\ DOMAIN processed = 1..Len(processed)
    BY <2>1 DEF Inv, OrderInStep, TypeOK
  <2>3. QED BY <2>2 DEF Ascending
<1>2. QED BY <1>1, Invariance, PTL

\* When the stores have the batch that revealed a gap, process() returns with that batch
\* matched, too.
THEOREM RecoveryCatchesUp == Spec => []CaughtUp
<1>1. Inv => CaughtUp
  BY DEF Inv, CallInStep, CaughtUp
<1>2. QED BY <1>1, Invariance, PTL

\* Retransmission gives the strategy an order once more at most, whatever is lost, however
\* the stores lag behind, and however often process() asks.
THEOREM TwiceAtMost == Spec => []MatchedAtMostTwice
<1>1. TwiceInv => MatchedAtMostTwice
  <2>1. SUFFICES ASSUME TwiceInv, NEW i \in DOMAIN processed, NEW j \in DOMAIN processed,
                        NEW k \in DOMAIN processed, i < j, j < k,
                        processed[i] = processed[j], processed[j] = processed[k]
                 PROVE  FALSE
    BY DEF MatchedAtMostTwice
  <2>2. processed \in Seq(Nat) /\ messages \in Seq(Nat) /\ AtMostTwice(Handed)
    BY <2>1 DEF TwiceInv, Inv, TypeOK, FromEachSourceOnce
  <2>3. /\ Len(Handed) = Len(processed) + Len(messages)
        /\ \A n \in 1..Len(processed) : Handed[n] = processed[n]
    BY <2>2, ConcatFacts DEF Handed
  <2>4. i \in 1..Len(processed) /\ j \in 1..Len(processed) /\ k \in 1..Len(processed)
    BY <2>2
  <2>5. /\ i \in 1..Len(Handed) /\ j \in 1..Len(Handed) /\ k \in 1..Len(Handed)
        /\ Handed[i] = Handed[j] /\ Handed[j] = Handed[k]
    BY <2>1, <2>2, <2>3, <2>4
  <2>6. QED BY <2>1, <2>2, <2>5 DEF AtMostTwice
<1>2. QED BY <1>1, TwiceInvariance, PTL
=============================================================================
