----------------------------- MODULE ListProofs -----------------------------
(***************************************************************************)
(* Induction over numbers, and the existence of what is defined by         *)
(* recursion on them, for sets and functions: the provers can instantiate  *)
(* these, and not the theorems of NaturalsInduction, which are about       *)
(* operators.  With it, what Without() leaves out.                         *)
(***************************************************************************)
EXTENDS Lists, Integers, WellFoundedInduction, TLAPS

(* Each set of numbers with an element has a least one. *)
LEMMA LeastNumber ==
  ASSUME NEW T \in SUBSET Nat, T # {}
  PROVE  \E n \in T : \A m \in T : ~(m < n)
<1> DEFINE R == {ss \in Nat \X Nat : ss[1] < ss[2]}
<1>1. IsWellFoundedOn(R, Nat)
  BY NatLessThanWellFounded DEF OpToRel
<1>2. \A m, n \in Nat : m < n => <<m, n>> \in R
  OBVIOUS
<1> HIDE DEF R
<1>3. PICK n \in T : \A m \in T : ~(<<m, n>> \in R)
  BY <1>1, WFMin
<1>4. ASSUME NEW m \in T PROVE ~(m < n)
  <2>1. m \in Nat /\ n \in Nat
    OBVIOUS
  <2>2. ~(<<m, n>> \in R)
    BY <1>3
  <2> QED
    BY <1>2, <2>1, <2>2
<1> QED
  BY <1>4

(* A set that holds 0, and with each number the next, holds them all. *)
LEMMA SetInduction ==
  ASSUME NEW G, 0 \in G, \A n \in Nat : n \in G => n + 1 \in G
  PROVE  \A n \in Nat : n \in G
<1> DEFINE T == Nat \ G
<1> SUFFICES ASSUME T # {} PROVE FALSE
  OBVIOUS
<1>1. PICK n \in T : \A m \in T : ~(m < n)
  BY LeastNumber
<1>2. n # 0 /\ n - 1 \in Nat /\ n - 1 < n
  BY <1>1
<1>3. n - 1 \in G
  BY <1>1, <1>2
<1> QED
  BY <1>1, <1>2, <1>3

(* The same up to a bound. *)
LEMMA BoundedInduction ==
  ASSUME NEW N \in Nat, NEW G, 0 \in G,
         \A n \in 1..N : n - 1 \in G => n \in G
  PROVE  \A n \in 0..N : n \in G
<1> DEFINE H == {n \in Nat : n <= N => n \in G}
<1>1. 0 \in H
  OBVIOUS
<1>2. ASSUME NEW n \in Nat, n \in H PROVE n + 1 \in H
  <2>1. CASE n + 1 <= N
    <3>1. n \in G /\ n + 1 \in 1..N /\ (n + 1) - 1 = n
      BY <1>2, <2>1
    <3> QED
      BY <3>1
  <2> QED
    BY <2>1
<1>3. \A n \in Nat : n \in H
  <2> HIDE DEF H
  <2> QED
    BY <1>1, <1>2, SetInduction
<1> QED
  BY <1>3

(* step takes b, in N steps, through values of S. *)
Iterates(N, S, b, step, f) ==
  /\ f \in [0..N -> S] /\ f[0] = b
  /\ \A n \in 1..N : f[n] = step[<<f[n - 1], n>>]

(* A recursion up to a bound defines something. *)
LEMMA BoundedRecursion ==
  ASSUME NEW N \in Nat, NEW S, NEW b \in S, NEW step \in [S \X (1..N) -> S]
  PROVE  \E f : Iterates(N, S, b, step, f)
<1> DEFINE G == {n \in 0..N : \E f : Iterates(n, S, b, step, f)}
<1>1. 0 \in G
  <2>1. Iterates(0, S, b, step, [i \in 0..0 |-> b])
    BY DEF Iterates
  <2> QED
    BY <2>1
<1>2. ASSUME NEW n \in 1..N, n - 1 \in G PROVE n \in G
  <2>1. PICK f : Iterates(n - 1, S, b, step, f)
    BY <1>2
  <2>2. f \in [0..(n - 1) -> S] /\ f[0] = b
    BY <2>1 DEF Iterates
  <2>3. \A i \in 1..(n - 1) : f[i] = step[<<f[i - 1], i>>]
    BY <2>1 DEF Iterates
  <2> DEFINE v == step[<<f[n - 1], n>>]
             g == [i \in 0..n |-> IF i = n THEN v ELSE f[i]]
  <2>4. v \in S
    <3>1. f[n - 1] \in S
      BY <2>2
    <3>2. <<f[n - 1], n>> \in S \X (1..N)
      BY <3>1
    <3> QED
      BY <3>2
  <2>5. g \in [0..n -> S]
    <3> SUFFICES ASSUME NEW i \in 0..n PROVE g[i] \in S
      OBVIOUS
    <3>1. i # n => i \in 0..(n - 1)
      OBVIOUS
    <3> HIDE DEF v
    <3> QED
      BY <2>2, <2>4, <3>1
  <2>6. g[0] = b
    BY <2>2
  <2>7. ASSUME NEW i \in 1..n PROVE g[i] = step[<<g[i - 1], i>>]
    <3>1. g[i - 1] = f[i - 1]
      OBVIOUS
    <3>2. CASE i = n
      <4>1. g[n] = v
        OBVIOUS
      <4>2. v = step[<<f[i - 1], i>>]
        BY <3>2
      <4> HIDE DEF g, v
      <4> QED
        BY <3>1, <3>2, <4>1, <4>2
    <3>3. CASE i # n
      <4>1. i \in 1..(n - 1) /\ i \in 0..n
        BY <3>3
      <4>2. g[i] = f[i]
        BY <3>3, <4>1
      <4> QED
        BY <2>3, <3>1, <4>1, <4>2
    <3> QED
      BY <3>2, <3>3
  <2>8. Iterates(n, S, b, step, g)
    <3> HIDE DEF g
    <3> QED
      BY <2>5, <2>6, <2>7 DEF Iterates
  <2> QED
    BY <2>8
<1>3. \A n \in 0..N : n \in G
  <2> HIDE DEF G
  <2> QED
    BY <1>1, <1>2, BoundedInduction
<1> QED
  BY <1>3

(* What follows the steps as long as it stays in S, stays in S. *)
LEMMA RecursionStays ==
  ASSUME NEW N \in Nat, NEW S, NEW step \in [S \X (1..N) -> S], NEW f,
         f[0] \in S,
         \A n \in 1..N : f[n - 1] \in S => f[n] = step[<<f[n - 1], n>>]
  PROVE  \A n \in 0..N : f[n] \in S
<1> DEFINE G == {n \in 0..N : f[n] \in S}
<1>1. 0 \in G
  OBVIOUS
<1>2. ASSUME NEW n \in 1..N, n - 1 \in G PROVE n \in G
  <2>1. f[n - 1] \in S
    BY <1>2
  <2>2. <<f[n - 1], n>> \in S \X (1..N)
    BY <2>1
  <2>3. step[<<f[n - 1], n>>] \in S
    BY <2>2
  <2> QED
    BY <2>1, <2>3
<1>3. \A n \in 0..N : n \in G
  <2> HIDE DEF G
  <2> QED
    BY <1>1, <1>2, BoundedInduction
<1> QED
  BY <1>3
-----------------------------------------------------------------------------
(* The recursion of WithoutUpTo() has a solution, which is what it is. *)
LEMMA WithoutDef ==
  ASSUME NEW S, NEW list \in Seq(S), NEW X
  PROVE  LET W == WithoutUpTo(list, X)
         IN  /\ W \in [0..Len(list) -> Seq(S)] /\ W[0] = <<>>
             /\ \A n \in 1..Len(list) :
                  W[n] = IF list[n] \in X THEN W[n - 1]
                         ELSE Append(W[n - 1], list[n])
<1> DEFINE N == Len(list)
           step == [v \in Seq(S) \X (1..N) |->
                      IF list[v[2]] \in X THEN v[1] ELSE Append(v[1], list[v[2]])]
           Body(f) == [n \in 0..N |->
                        IF n = 0 THEN <<>>
                        ELSE IF list[n] \in X THEN f[n - 1]
                             ELSE Append(f[n - 1], list[n])]
<1>1. N \in Nat /\ \A n \in 1..N : list[n] \in S
  OBVIOUS
<1> HIDE DEF N
<1>2. step \in [Seq(S) \X (1..N) -> Seq(S)] /\ <<>> \in Seq(S)
  BY <1>1
<1>3. PICK f : Iterates(N, Seq(S), <<>>, step, f)
  <2> HIDE DEF step
  <2> QED
    BY <1>1, <1>2, BoundedRecursion
<1>4. f \in [0..N -> Seq(S)] /\ f[0] = <<>>
  BY <1>3 DEF Iterates
<1>5. ASSUME NEW n \in 1..N
      PROVE  f[n] = IF list[n] \in X THEN f[n - 1] ELSE Append(f[n - 1], list[n])
  <2>1. f[n] = step[<<f[n - 1], n>>]
    BY <1>3 DEF Iterates
  <2>2. n - 1 \in 0..N
    BY <1>1
  <2>3. f[n - 1] \in Seq(S)
    BY <1>4, <2>2
  <2> QED
    BY <2>1, <2>3
<1>6. f = Body(f)
  <2>1. ASSUME NEW n \in 0..N PROVE f[n] = Body(f)[n]
    <3>1. CASE n = 0
      BY <1>4, <3>1
    <3>2. CASE n # 0
      <4>1. n \in 1..N
        BY <1>1, <3>2
      <4> QED
        BY <1>5, <3>2, <4>1
    <3> QED
      BY <3>1, <3>2
  <2>2. f = [n \in 0..N |-> f[n]]
    BY <1>4
  <2> QED
    BY <2>1, <2>2
<1>7. WithoutUpTo(list, X) = CHOOSE g : g = Body(g)
  BY DEF WithoutUpTo, N
<1> DEFINE W == WithoutUpTo(list, X)
<1>8. W = Body(W)
  BY <1>6, <1>7
<1>9. W[0] = <<>> /\ DOMAIN W = 0..N
  BY <1>1, <1>8
<1>10. ASSUME NEW n \in 1..N
       PROVE  W[n] = IF list[n] \in X THEN W[n - 1] ELSE Append(W[n - 1], list[n])
  <2>1. n \in 0..N /\ n # 0
    BY <1>1
  <2>2. W[n] = Body(W)[n]
    BY <1>8
  <2> QED
    BY <2>1, <2>2
<1> HIDE DEF W
<1>11. ASSUME NEW n \in 1..N, W[n - 1] \in Seq(S)
       PROVE  W[n] = step[<<W[n - 1], n>>]
  BY <1>10, <1>11
<1>12. \A n \in 0..N : W[n] \in Seq(S)
  <2> HIDE DEF step
  <2> QED
    BY <1>1, <1>2, <1>9, <1>11, RecursionStays
<1>13. W \in [0..N -> Seq(S)]
  <2>1. W = [n \in 0..N |-> W[n]]
    BY <1>8 DEF W
  <2> QED
    BY <1>12, <2>1
<1> QED
  BY <1>9, <1>10, <1>13 DEF N, W

(* What is to be left out is left out. *)
LEMMA WithoutClean ==
  ASSUME NEW S, NEW list \in Seq(S), NEW X
  PROVE  Without(list, X) \in Seq(S \ X)
<1> DEFINE N == Len(list)
           W == WithoutUpTo(list, X)
           T == S \ X
           step == [v \in Seq(T) \X (1..N) |->
                      IF list[v[2]] \in X THEN v[1] ELSE Append(v[1], list[v[2]])]
<1>1. N \in Nat /\ \A n \in 1..N : list[n] \notin X => list[n] \in T
  OBVIOUS
<1>2. W[0] = <<>> /\ <<>> \in Seq(T)
  BY WithoutDef
<1>3. \A n \in 1..N : W[n] = IF list[n] \in X THEN W[n - 1]
                              ELSE Append(W[n - 1], list[n])
  BY WithoutDef
<1> HIDE DEF N, W, T
<1>4. step \in [Seq(T) \X (1..N) -> Seq(T)]
  BY <1>1
<1>5. ASSUME NEW n \in 1..N, W[n - 1] \in Seq(T)
      PROVE  W[n] = step[<<W[n - 1], n>>]
  BY <1>3, <1>5
<1>6. \A n \in 0..N : W[n] \in Seq(T)
  <2> HIDE DEF step
  <2> QED
    BY <1>1, <1>2, <1>4, <1>5, RecursionStays
<1>7. W[N] \in Seq(T)
  BY <1>1, <1>6
<1> QED
  BY <1>7 DEF Without, N, W, T

(* Where there is nothing to leave out, everything is kept. *)
LEMMA WithoutNone ==
  ASSUME NEW S, NEW list \in Seq(S), NEW X, \A i \in 1..Len(list) : list[i] \notin X
  PROVE  Without(list, X) = list
<1> DEFINE N == Len(list)
           W == WithoutUpTo(list, X)
           P(n) == SubSeq(list, 1, n)
           G == {n \in 0..N : W[n] = P(n)}
<1>1. N \in Nat /\ 0 \in 0..N
  OBVIOUS
<1>2. /\ W[0] = <<>>
      /\ \A n \in 1..N : W[n] = IF list[n] \in X THEN W[n - 1]
                                 ELSE Append(W[n - 1], list[n])
  BY WithoutDef
<1>3. P(0) = <<>> /\ P(N) = list
  OBVIOUS
<1>4. \A n \in 1..N : P(n) = Append(P(n - 1), list[n]) /\ list[n] \notin X
  OBVIOUS
<1> HIDE DEF N, W, P
<1>5. 0 \in G
  BY <1>1, <1>2, <1>3
<1>6. ASSUME NEW n \in 1..N, n - 1 \in G PROVE n \in G
  <2>1. n \in 0..N /\ W[n - 1] = P(n - 1)
    BY <1>1, <1>6
  <2>2. W[n] = P(n)
    BY <1>2, <1>4, <2>1
  <2> QED
    BY <2>1, <2>2
<1>7. \A n \in 0..N : n \in G
  <2> HIDE DEF G
  <2> QED
    BY <1>1, <1>5, <1>6, BoundedInduction
<1>8. W[N] = P(N)
  BY <1>1, <1>7
<1> QED
  BY <1>3, <1>8 DEF Without, N, W

(* Without its head, a list in which the head stands once is its tail. *)
LEMMA WithoutHead ==
  ASSUME NEW S, NEW x \in S, NEW rest \in Seq(S),
         \A i \in 1..Len(rest) : rest[i] # x
  PROVE  Without(<<x>> \o rest, {x}) = rest
<1> DEFINE list == <<x>> \o rest
           N == Len(list)
           W == WithoutUpTo(list, {x})
           P(n) == SubSeq(rest, 1, n - 1)
           G == {n \in 0..N : n = 0 \/ W[n] = P(n)}
<1>1. list \in Seq(S) /\ N \in Nat /\ N = Len(rest) + 1
  OBVIOUS
<1>2. list[1] = x /\ \A n \in 2..N : list[n] = rest[n - 1]
  OBVIOUS
<1>3. P(1) = <<>> /\ P(N) = rest
  BY <1>1
<1>4. \A n \in 2..N : P(n) = Append(P(n - 1), rest[n - 1]) /\ rest[n - 1] # x
  <2> SUFFICES ASSUME NEW n \in 2..N
               PROVE  P(n) = Append(P(n - 1), rest[n - 1]) /\ rest[n - 1] # x
    OBVIOUS
  <2>1. n - 1 \in 1..Len(rest)
    BY <1>1
  <2> QED
    BY <2>1
<1> HIDE DEF list
<1>5. /\ W[0] = <<>>
      /\ \A n \in 1..N : W[n] = IF list[n] = x THEN W[n - 1]
                                 ELSE Append(W[n - 1], list[n])
  BY <1>1, WithoutDef
<1> HIDE DEF N, W, P
<1>6. 0 \in G
  BY <1>1
<1>7. ASSUME NEW n \in 1..N, n - 1 \in G PROVE n \in G
  <2>1. n \in 0..N
    BY <1>1
  <2>2. W[n] = P(n)
    <3>1. CASE n = 1
      BY <1>2, <1>3, <1>5, <3>1
    <3>2. CASE n # 1
      <4>1. n \in 2..N /\ W[n - 1] = P(n - 1)
        BY <1>1, <1>7, <3>2
      <4>2. W[n] = Append(W[n - 1], list[n])
        BY <1>2, <1>4, <1>5, <4>1
      <4> QED
        BY <1>2, <1>4, <4>1, <4>2
    <3> QED
      BY <3>1, <3>2
  <2> QED
    BY <2>1, <2>2
<1>8. \A n \in 0..N : n \in G
  <2> HIDE DEF G
  <2> QED
    BY <1>1, <1>6, <1>7, BoundedInduction
<1>9. W[N] = P(N)
  BY <1>1, <1>8
<1> QED
  BY <1>3, <1>9 DEF Without, N, W, list

(* What is not to be left out is kept. *)
LEMMA WithoutKeeps ==
  ASSUME NEW S, NEW list \in Seq(S), NEW X, NEW i \in 1..Len(list),
         list[i] \notin X
  PROVE  \E k \in 1..Len(Without(list, X)) : Without(list, X)[k] = list[i]
<1> DEFINE N == Len(list)
           W == WithoutUpTo(list, X)
           Kept(n) == \E k \in 1..Len(W[n]) : W[n][k] = list[i]
           G == {n \in 0..N : n >= i => Kept(n)}
<1>1. N \in Nat /\ i \in 1..N /\ \A n \in 1..N : list[n] \in S
  OBVIOUS
<1>2. W \in [0..N -> Seq(S)]
  BY WithoutDef
<1>3. \A n \in 1..N : W[n] = IF list[n] \in X THEN W[n - 1]
                              ELSE Append(W[n - 1], list[n])
  BY WithoutDef
<1> HIDE DEF N, W
<1>4. 0 \in G
  BY <1>1
<1>5. ASSUME NEW n \in 1..N, n - 1 \in G PROVE n \in G
  <2>1. n \in 0..N /\ n - 1 \in 0..N /\ W[n - 1] \in Seq(S)
    BY <1>1, <1>2
  <2>2. CASE n = i
    <3>1. W[n] = Append(W[n - 1], list[i])
      BY <1>3, <2>2
    <3>2. Len(W[n]) = Len(W[n - 1]) + 1 /\ W[n][Len(W[n - 1]) + 1] = list[i]
      BY <1>1, <2>1, <3>1
    <3>3. Kept(n)
      <4>1. Len(W[n - 1]) + 1 \in 1..Len(W[n])
        BY <2>1, <3>2
      <4> QED
        BY <3>2, <4>1
    <3> QED
      BY <2>1, <3>3
  <2>3. CASE n > i
    <3>1. Kept(n - 1)
      BY <1>1, <1>5, <2>3
    <3>2. Kept(n)
      <4>1. PICK k \in 1..Len(W[n - 1]) : W[n - 1][k] = list[i]
        BY <3>1
      <4>2. k \in 1..Len(W[n]) /\ W[n][k] = list[i]
        <5> DEFINE v == W[n - 1]
        <5>1. v \in Seq(S) /\ k \in 1..Len(v) /\ v[k] = list[i]
          BY <2>1, <4>1
        <5>2. list[n] \in S /\ (W[n] = v \/ W[n] = Append(v, list[n]))
          BY <1>1, <1>3
        <5> HIDE DEF v
        <5> QED
          BY <5>1, <5>2
      <4> QED
        BY <4>2
    <3> QED
      BY <2>1, <3>2
  <2> QED
    BY <1>1, <2>1, <2>2, <2>3
<1>6. \A n \in 0..N : n \in G
  <2> HIDE DEF G
  <2> QED
    BY <1>1, <1>4, <1>5, BoundedInduction
<1>7. Kept(N)
  BY <1>1, <1>6
<1> QED
  BY <1>7 DEF Without, N, W

-----------------------------------------------------------------------------
(* The entries of a list. *)
Entries(s) == {s[i] : i \in 1..Len(s)}

(* Each entry of s in C comes after one in B. *)
Before(s, B, C) ==
  \A i \in 1..Len(s) : s[i] \in C => \E k \in 1..Len(s) : k < i /\ s[k] \in B

(* c is at most one entry of s. *)
Once(s, c) == \A i, k \in 1..Len(s) : s[i] = c /\ s[k] = c => i = k

(* What is in two lists that follow each other. *)
LEMMA EntriesConcat ==
  ASSUME NEW S, NEW s \in Seq(S), NEW t \in Seq(S)
  PROVE  /\ s \o t \in Seq(S) /\ Entries(s) \subseteq S
         /\ Entries(s \o t) = Entries(s) \cup Entries(t)
<1>1. /\ s \o t \in Seq(S) /\ Len(s \o t) = Len(s) + Len(t)
      /\ Len(s) \in Nat /\ Len(t) \in Nat
      /\ \A i \in 1..Len(s) : (s \o t)[i] = s[i] /\ s[i] \in S
      /\ \A i \in 1..Len(t) : (s \o t)[Len(s) + i] = t[i]
  OBVIOUS
<1>2. ASSUME NEW i \in 1..Len(s \o t)
      PROVE  (s \o t)[i] \in Entries(s) \cup Entries(t)
  <2>1. CASE i <= Len(s)
    BY <1>1, <2>1 DEF Entries
  <2>2. CASE i > Len(s)
    <3>1. i - Len(s) \in 1..Len(t) /\ Len(s) + (i - Len(s)) = i
      BY <1>1, <2>2
    <3>2. (s \o t)[i] = t[i - Len(s)]
      BY <1>1, <3>1
    <3> QED
      BY <3>1, <3>2 DEF Entries
  <2> QED
    BY <1>1, <2>1, <2>2
<1>3. ASSUME NEW i \in 1..Len(s) PROVE s[i] \in Entries(s \o t)
  <2>1. i \in 1..Len(s \o t) /\ (s \o t)[i] = s[i]
    BY <1>1
  <2> QED
    BY <2>1 DEF Entries
<1>4. ASSUME NEW i \in 1..Len(t) PROVE t[i] \in Entries(s \o t)
  <2>1. Len(s) + i \in 1..Len(s \o t) /\ (s \o t)[Len(s) + i] = t[i]
    BY <1>1
  <2> QED
    BY <2>1 DEF Entries
<1> DEFINE u == s \o t
<1> HIDE DEF u
<1>5. Entries(u) \subseteq Entries(s) \cup Entries(t)
  BY <1>2 DEF Entries, u
<1>6. Entries(s) \subseteq Entries(u) /\ Entries(t) \subseteq Entries(u)
  BY <1>3, <1>4 DEF Entries, u
<1> QED
  BY <1>1, <1>5, <1>6 DEF Entries, u

(* Order in two lists that follow each other: it holds in both, or in the  *)
(* first, which has what is to come first.                                 *)
LEMMA BeforeConcat ==
  ASSUME NEW S, NEW s \in Seq(S), NEW t \in Seq(S), NEW B, NEW C,
         Before(s, B, C), Before(t, B, C) \/ Entries(s) \cap B # {}
  PROVE  Before(s \o t, B, C)
<1> DEFINE u == s \o t
<1>1. /\ Len(u) = Len(s) + Len(t)
      /\ Len(s) \in Nat /\ Len(t) \in Nat
      /\ \A i \in 1..Len(s) : u[i] = s[i]
      /\ \A i \in 1..Len(t) : u[Len(s) + i] = t[i]
  OBVIOUS
<1> HIDE DEF u
<1> SUFFICES ASSUME NEW i \in 1..Len(u), u[i] \in C
             PROVE  \E k \in 1..Len(u) : k < i /\ u[k] \in B
  BY DEF Before, u
<1>2. CASE i <= Len(s)
  <2>1. i \in 1..Len(s) /\ s[i] \in C
    BY <1>1, <1>2
  <2>2. PICK k \in 1..Len(s) : k < i /\ s[k] \in B
    BY <2>1 DEF Before
  <2>3. k \in 1..Len(u) /\ u[k] \in B
    BY <1>1, <2>2
  <2> QED
    BY <2>2, <2>3
<1>3. CASE i > Len(s)
  <2>1. i - Len(s) \in 1..Len(t) /\ Len(s) + (i - Len(s)) = i
    BY <1>1, <1>3
  <2>2. t[i - Len(s)] \in C
    BY <1>1, <2>1
  <2>3. CASE Before(t, B, C)
    <3>1. PICK k \in 1..Len(t) : k < i - Len(s) /\ t[k] \in B
      BY <2>1, <2>2, <2>3 DEF Before
    <3>2. Len(s) + k \in 1..Len(u) /\ Len(s) + k < i
      BY <1>1, <3>1
    <3>3. u[Len(s) + k] \in B
      BY <1>1, <3>1
    <3> QED
      BY <3>2, <3>3
  <2>4. CASE Entries(s) \cap B # {}
    <3>1. PICK k \in 1..Len(s) : s[k] \in B
      BY <2>4 DEF Entries
    <3>2. k \in 1..Len(u) /\ k < i /\ u[k] \in B
      BY <1>1, <1>3, <3>1
    <3> QED
      BY <3>2
  <2> QED
    BY <2>3, <2>4
<1> QED
  BY <1>1, <1>2, <1>3

(* It holds where there is nothing to come after. *)
LEMMA BeforeNone ==
  ASSUME NEW s, NEW B, NEW C, Entries(s) \cap C = {}
  PROVE  Before(s, B, C)
BY DEF Before, Entries

(* An entry stays the only one of its kind. *)
LEMMA OnceConcat ==
  ASSUME NEW S, NEW s \in Seq(S), NEW t \in Seq(S), NEW c,
         \/ Once(s, c) /\ c \notin Entries(t)
         \/ c \notin Entries(s) /\ Once(t, c)
  PROVE  Once(s \o t, c)
<1> DEFINE u == s \o t
<1>1. /\ Len(u) = Len(s) + Len(t)
      /\ Len(s) \in Nat /\ Len(t) \in Nat
      /\ \A i \in 1..Len(s) : u[i] = s[i]
      /\ \A i \in 1..Len(t) : u[Len(s) + i] = t[i]
  OBVIOUS
<1> HIDE DEF u
<1> SUFFICES ASSUME NEW i \in 1..Len(u), NEW k \in 1..Len(u), u[i] = c, u[k] = c
             PROVE  i = k
  BY DEF Once, u
<1>2. ASSUME NEW n \in 1..Len(u), n > Len(s)
      PROVE  n - Len(s) \in 1..Len(t) /\ u[n] = t[n - Len(s)]
  <2>1. n - Len(s) \in 1..Len(t) /\ Len(s) + (n - Len(s)) = n
    BY <1>1, <1>2
  <2> QED
    BY <1>1, <2>1
<1>3. CASE Once(s, c) /\ c \notin Entries(t)
  <2>1. ~(i > Len(s)) /\ ~(k > Len(s))
    BY <1>2, <1>3 DEF Entries
  <2>2. i \in 1..Len(s) /\ k \in 1..Len(s) /\ s[i] = c /\ s[k] = c
    BY <1>1, <2>1
  <2> QED
    BY <1>3, <2>2 DEF Once
<1>4. CASE c \notin Entries(s) /\ Once(t, c)
  <2>1. i > Len(s) /\ k > Len(s)
    BY <1>1, <1>4 DEF Entries
  <2>2. i - Len(s) = k - Len(s)
    BY <1>2, <1>4, <2>1 DEF Once
  <2> QED
    BY <1>1, <2>2
<1> QED
  BY <1>3, <1>4

(* What is not there is there at most once. *)
LEMMA OnceNone ==
  ASSUME NEW s, NEW c, c \notin Entries(s)
  PROVE  Once(s, c)
BY DEF Once, Entries

(* The list after its head. *)
LEMMA AfterHead ==
  ASSUME NEW S, NEW s \in Seq(S), s # <<>>
  PROVE  /\ Tail(s) \in Seq(S) /\ Head(s) \in S /\ Head(s) \in Entries(s)
         /\ Entries(s) = {Head(s)} \cup Entries(Tail(s))
         /\ \A B, C : Before(s, B, C) =>
              Head(s) \notin C /\ (Head(s) \in B \/ Before(Tail(s), B, C))
         /\ \A c : Once(s, c) =>
              Once(Tail(s), c) /\ (Head(s) = c => c \notin Entries(Tail(s)))
<1> DEFINE t == Tail(s)
<1>1. /\ Tail(s) \in Seq(S) /\ Head(s) \in S /\ Head(s) = s[1]
      /\ Len(s) \in Nat \ {0} /\ Len(t) = Len(s) - 1
      /\ \A i \in 1..Len(t) : t[i] = s[i + 1]
  OBVIOUS
<1> HIDE DEF t
<1>2. ASSUME NEW i \in 1..Len(s), i # 1 PROVE i - 1 \in 1..Len(t) /\ t[i - 1] = s[i]
  <2>1. i - 1 \in 1..Len(t) /\ (i - 1) + 1 = i
    BY <1>1, <1>2
  <2> QED
    BY <1>1, <2>1
<1>3. ASSUME NEW i \in 1..Len(t) PROVE i + 1 \in 1..Len(s) /\ t[i] = s[i + 1]
  BY <1>1
<1>4. 1 \in 1..Len(s)
  BY <1>1
<1>5. Head(s) \in Entries(s)
  BY <1>1, <1>4 DEF Entries
<1>6. Entries(s) = {Head(s)} \cup Entries(t)
  <2>1. Entries(t) \subseteq Entries(s)
    BY <1>3 DEF Entries
  <2>2. ASSUME NEW x \in Entries(s), x # Head(s) PROVE x \in Entries(t)
    <3>1. PICK i \in 1..Len(s) : s[i] = x
      BY DEF Entries
    <3>2. i # 1
      BY <1>1, <2>2, <3>1
    <3> QED
      BY <1>2, <3>1, <3>2 DEF Entries
  <2> QED
    BY <1>5, <2>1, <2>2
<1>7. ASSUME NEW B, NEW C, Before(s, B, C)
      PROVE  Head(s) \notin C /\ (Head(s) \in B \/ Before(t, B, C))
  <2>1. Head(s) \notin C
    BY <1>1, <1>4, <1>7 DEF Before
  <2>2. ASSUME Head(s) \notin B, NEW i \in 1..Len(t), t[i] \in C
        PROVE  \E k \in 1..Len(t) : k < i /\ t[k] \in B
    <3>1. i + 1 \in 1..Len(s) /\ s[i + 1] \in C
      BY <1>3, <2>2
    <3>2. PICK k \in 1..Len(s) : k < i + 1 /\ s[k] \in B
      BY <1>7, <3>1 DEF Before
    <3>3. k # 1
      BY <1>1, <2>2, <3>2
    <3>4. k - 1 \in 1..Len(t) /\ k - 1 < i /\ t[k - 1] \in B
      BY <1>1, <1>2, <3>2, <3>3
    <3> QED
      BY <3>4
  <2> QED
    BY <2>1, <2>2 DEF Before
<1>8. ASSUME NEW c, Once(s, c)
      PROVE  Once(t, c) /\ (Head(s) = c => c \notin Entries(t))
  <2>1. ASSUME NEW i \in 1..Len(t), NEW k \in 1..Len(t), t[i] = c, t[k] = c
        PROVE  i = k
    <3>1. i + 1 = k + 1
      BY <1>3, <1>8, <2>1 DEF Once
    <3> QED
      BY <1>1, <3>1
  <2>2. ASSUME Head(s) = c, NEW i \in 1..Len(t), t[i] = c PROVE FALSE
    <3>1. i + 1 = 1
      BY <1>1, <1>3, <1>4, <1>8, <2>2 DEF Once
    <3> QED
      BY <1>1, <3>1
  <2> QED
    BY <2>1, <2>2 DEF Once, Entries
<1> QED
  BY <1>1, <1>5, <1>6, <1>7, <1>8 DEF t

-----------------------------------------------------------------------------
(* What takes a value of S to another with each entry of a list over C. *)
Stepping(C, S) == [C \X S -> S]

(* What b becomes as step takes it along the first n entries of a list.    *)
FoldUpTo(step, list, b) ==
  LET W[n \in 0..Len(list)] == IF n = 0 THEN b ELSE step[<<list[n], W[n - 1]>>]
  IN  W

Fold(step, list, b) == FoldUpTo(step, list, b)[Len(list)]

(* The recursion of FoldUpTo() has a solution, which is what it is. *)
LEMMA FoldDef ==
  ASSUME NEW C, NEW S, NEW step \in Stepping(C, S), NEW list \in Seq(C), NEW b \in S
  PROVE  LET W == FoldUpTo(step, list, b)
         IN  /\ W \in [0..Len(list) -> S] /\ W[0] = b
             /\ \A n \in 1..Len(list) : W[n] = step[<<list[n], W[n - 1]>>]
<1> DEFINE N == Len(list)
           next == [v \in S \X (1..N) |-> step[<<list[v[2]], v[1]>>]]
           Body(f) == [n \in 0..N |-> IF n = 0 THEN b ELSE step[<<list[n], f[n - 1]>>]]
           W == FoldUpTo(step, list, b)
<1>1. N \in Nat /\ \A n \in 1..N : list[n] \in C
  OBVIOUS
<1>2. W = CHOOSE f : f = Body(f)
  BY DEF FoldUpTo
<1> HIDE DEF N
<1>3. next \in [S \X (1..N) -> S]
  BY <1>1 DEF Stepping
<1>4. PICK f : Iterates(N, S, b, next, f)
  <2> HIDE DEF next
  <2> QED
    BY <1>1, <1>3, BoundedRecursion
<1>5. f \in [0..N -> S] /\ f[0] = b
  BY <1>4 DEF Iterates
<1>6. ASSUME NEW n \in 1..N PROVE f[n] = step[<<list[n], f[n - 1]>>]
  <2>1. f[n] = next[<<f[n - 1], n>>]
    BY <1>4 DEF Iterates
  <2>2. n - 1 \in 0..N
    BY <1>1
  <2>3. f[n - 1] \in S
    BY <1>5, <2>2
  <2> QED
    BY <2>1, <2>3
<1>7. f = Body(f)
  <2>1. ASSUME NEW n \in 0..N PROVE f[n] = Body(f)[n]
    <3>1. CASE n = 0
      BY <1>5, <3>1
    <3>2. CASE n # 0
      <4>1. n \in 1..N
        BY <1>1, <3>2
      <4> QED
        BY <1>6, <3>2, <4>1
    <3> QED
      BY <3>1, <3>2
  <2>2. f = [n \in 0..N |-> f[n]]
    BY <1>5
  <2> QED
    BY <2>1, <2>2
<1>8. W = Body(W)
  <2> HIDE DEF W
  <2> QED
    BY <1>2, <1>7
<1>9. W[0] = b /\ W = [n \in 0..N |-> W[n]]
  BY <1>1, <1>8
<1>10. ASSUME NEW n \in 1..N PROVE W[n] = step[<<list[n], W[n - 1]>>]
  <2>1. n \in 0..N /\ n # 0
    BY <1>1
  <2>2. W[n] = Body(W)[n]
    BY <1>8
  <2> QED
    BY <2>1, <2>2
<1> HIDE DEF W
<1>11. ASSUME NEW n \in 1..N, W[n - 1] \in S
       PROVE  W[n] = next[<<W[n - 1], n>>]
  BY <1>10, <1>11
<1>12. \A n \in 0..N : W[n] \in S
  <2> HIDE DEF next
  <2> QED
    BY <1>1, <1>3, <1>9, <1>11, RecursionStays
<1>13. W \in [0..N -> S]
  BY <1>9, <1>12
<1> QED
  BY <1>9, <1>10, <1>13 DEF N, W

(* And the only one: what begins with b and follows the steps, as long as  *)
(* it stays in S, ends where the fold does.                                *)
LEMMA FoldIs ==
  ASSUME NEW C, NEW S, NEW step \in Stepping(C, S), NEW list \in Seq(C), NEW b \in S,
         NEW w, w[0] = b,
         \A n \in 1..Len(list) : w[n - 1] \in S => w[n] = step[<<list[n], w[n - 1]>>]
  PROVE  Fold(step, list, b) \in S /\ w[Len(list)] = Fold(step, list, b)
<1> DEFINE N == Len(list)
           W == FoldUpTo(step, list, b)
           G == {n \in 0..N : w[n] = W[n]}
<1>1. N \in Nat /\ 0 \in 0..N /\ N \in 0..N
  OBVIOUS
<1>2. /\ W \in [0..N -> S] /\ W[0] = b
      /\ \A n \in 1..N : W[n] = step[<<list[n], W[n - 1]>>]
  BY FoldDef
<1> HIDE DEF W
<1>3. 0 \in G
  BY <1>1, <1>2
<1>4. ASSUME NEW n \in 1..N, n - 1 \in G PROVE n \in G
  <2>1. n \in 0..N /\ n - 1 \in 0..N /\ w[n - 1] = W[n - 1]
    BY <1>1, <1>4
  <2>2. w[n - 1] \in S
    BY <1>2, <2>1
  <2> QED
    BY <1>2, <2>1, <2>2
<1> HIDE DEF N
<1>5. \A n \in 0..N : n \in G
  <2> HIDE DEF G
  <2> QED
    BY <1>1, <1>3, <1>4, BoundedInduction
<1>6. w[N] = W[N] /\ W[N] \in S
  BY <1>1, <1>2, <1>5
<1> QED
  BY <1>6 DEF Fold, N, W

(* The fold along nothing and along one entry. *)
LEMMA FoldOne ==
  ASSUME NEW C, NEW S, NEW step \in Stepping(C, S), NEW b \in S
  PROVE  /\ Fold(step, <<>>, b) = b
         /\ \A x \in C : Fold(step, <<x>>, b) = step[<<x, b>>]
<1>1. Fold(step, <<>>, b) = b
  <2> DEFINE l == <<>>
  <2>1. l \in Seq(C) /\ Len(l) = 0
    OBVIOUS
  <2> HIDE DEF l
  <2>2. l \in Seq(C)
    BY <2>1
  <2>3. FoldUpTo(step, l, b)[0] = b
    BY <2>2, FoldDef
  <2>4. Fold(step, l, b) = b
    BY <2>1, <2>3 DEF Fold
  <2> QED
    BY <2>4 DEF l
<1>2. ASSUME NEW x \in C PROVE Fold(step, <<x>>, b) = step[<<x, b>>]
  <2> DEFINE l == <<x>>
             W == FoldUpTo(step, l, b)
  <2>1. l \in Seq(C)
    OBVIOUS
  <2>2. Len(l) = 1 /\ l[1] = x
    OBVIOUS
  <2> HIDE DEF l
  <2>3. W[0] = b /\ \A n \in 1..Len(l) : W[n] = step[<<l[n], W[n - 1]>>]
    BY <2>1, FoldDef
  <2> HIDE DEF W
  <2>4. 1 \in 1..Len(l) /\ 1 - 1 = 0
    BY <2>2
  <2>5. W[1] = step[<<l[1], W[1 - 1]>>]
    BY <2>3, <2>4
  <2>6. W[1] = step[<<x, b>>]
    BY <2>2, <2>3, <2>4, <2>5
  <2> QED
    BY <2>2, <2>6 DEF Fold, W, l
<1> QED
  BY <1>1, <1>2

(* Along two lists, the second goes on where the first has come to. *)
LEMMA FoldConcat ==
  ASSUME NEW C, NEW S, NEW step \in Stepping(C, S), NEW b \in S,
         NEW s \in Seq(C), NEW t \in Seq(C)
  PROVE  /\ Fold(step, s, b) \in S /\ s \o t \in Seq(C)
         /\ Fold(step, s \o t, b) = Fold(step, t, Fold(step, s, b))
<1> DEFINE u == s \o t
           M == Len(s)
           N == Len(t)
           W == FoldUpTo(step, u, b)
           w == [n \in 0..N |-> W[M + n]]
<1>1. /\ u \in Seq(C) /\ Len(u) = M + N /\ M \in Nat /\ N \in Nat
      /\ \A i \in 1..M : u[i] = s[i]
      /\ \A i \in 1..N : u[M + i] = t[i]
  OBVIOUS
<1> HIDE DEF u
<1>2. /\ W \in [0..Len(u) -> S] /\ W[0] = b
      /\ \A n \in 1..Len(u) : W[n] = step[<<u[n], W[n - 1]>>]
  <2>1. u \in Seq(C)
    BY <1>1
  <2> QED
    BY <2>1, FoldDef
<1> HIDE DEF W
<1>3. \A n \in 1..M : W[n] = step[<<s[n], W[n - 1]>>]
  <2> SUFFICES ASSUME NEW n \in 1..M PROVE W[n] = step[<<s[n], W[n - 1]>>]
    OBVIOUS
  <2>1. n \in 1..Len(u) /\ u[n] = s[n]
    BY <1>1
  <2> QED
    BY <1>2, <2>1
<1>4. Fold(step, s, b) \in S /\ W[M] = Fold(step, s, b)
  <2>1. W[0] = b
    BY <1>2
  <2>2. \A n \in 1..Len(s) : W[n - 1] \in S => W[n] = step[<<s[n], W[n - 1]>>]
    BY <1>3
  <2> QED
    BY <2>1, <2>2, FoldIs
<1>5. ASSUME NEW n \in 1..N PROVE w[n] = step[<<t[n], w[n - 1]>>]
  <2>1. M + n \in 1..Len(u) /\ u[M + n] = t[n] /\ (M + n) - 1 = M + (n - 1)
    BY <1>1
  <2>2. n \in 0..N /\ n - 1 \in 0..N
    BY <1>1
  <2>3. W[M + n] = step[<<u[M + n], W[(M + n) - 1]>>]
    BY <1>2, <2>1
  <2>4. w[n] = W[M + n] /\ w[n - 1] = W[M + (n - 1)]
    BY <2>2
  <2> HIDE DEF w, N, M
  <2> QED
    BY <2>1, <2>3, <2>4
<1>6. w[0] = Fold(step, s, b)
  BY <1>1, <1>4
<1>7. w[N] = Fold(step, t, Fold(step, s, b))
  <2> HIDE DEF w
  <2> QED
    BY <1>4, <1>5, <1>6, FoldIs
<1>8. w[N] = W[Len(u)]
  BY <1>1
<1> QED
  BY <1>1, <1>4, <1>7, <1>8 DEF Fold, W, u

(* The fold goes on from the head of a list. *)
LEMMA FoldHead ==
  ASSUME NEW C, NEW S, NEW step \in Stepping(C, S), NEW b \in S,
         NEW s \in Seq(C), s # <<>>
  PROVE  Fold(step, s, b) = Fold(step, Tail(s), step[<<Head(s), b>>])
<1> DEFINE x == Head(s)
           h == <<x>>
           t == Tail(s)
<1>1. x \in C /\ h \in Seq(C) /\ t \in Seq(C) /\ s = h \o t
  OBVIOUS
<1> HIDE DEF t
<1>2. Fold(step, h, b) = step[<<x, b>>]
  BY <1>1, FoldOne
<1> HIDE DEF h, x
<1>3. Fold(step, h \o t, b) = Fold(step, t, Fold(step, h, b))
  BY <1>1, FoldConcat
<1> QED
  BY <1>1, <1>2, <1>3 DEF t, x

(* What the entries of a list keep, the fold along it keeps. *)
LEMMA FoldStays ==
  ASSUME NEW C, NEW S, NEW step \in Stepping(C, S), NEW list \in Seq(C), NEW T \in SUBSET S,
         NEW b \in T, \A x \in Entries(list), v \in T : step[<<x, v>>] \in T
  PROVE  Fold(step, list, b) \in T
<1> DEFINE N == Len(list)
           W == FoldUpTo(step, list, b)
           G == {n \in 0..N : W[n] \in T}
<1>1. N \in Nat /\ 0 \in 0..N /\ N \in 0..N /\ \A n \in 1..N : list[n] \in Entries(list)
  BY DEF Entries
<1>2. W[0] = b /\ \A n \in 1..N : W[n] = step[<<list[n], W[n - 1]>>]
  BY FoldDef
<1> HIDE DEF W, N
<1>3. 0 \in G
  BY <1>1, <1>2
<1>4. ASSUME NEW n \in 1..N, n - 1 \in G PROVE n \in G
  <2>1. n \in 0..N /\ W[n - 1] \in T
    BY <1>1, <1>4
  <2> QED
    BY <1>1, <1>2, <2>1
<1>5. \A n \in 0..N : n \in G
  <2> HIDE DEF G
  <2> QED
    BY <1>1, <1>3, <1>4, BoundedInduction
<1>6. W[N] \in T
  BY <1>1, <1>5
<1> QED
  BY <1>6 DEF Fold, N, W

(* The entries in H, and no other, take a to b, which all keep. *)
Hitting(step, list, a, b, H) ==
  \A x \in Entries(list) :
    step[<<x, a>>] = (IF x \in H THEN b ELSE a) /\ step[<<x, b>>] = b

(* So one of them is enough. *)
LEMMA FoldHits ==
  ASSUME NEW C, NEW S, NEW step \in Stepping(C, S), NEW list \in Seq(C),
         NEW a \in S, NEW b \in S, NEW H, Hitting(step, list, a, b, H)
  PROVE  Fold(step, list, a) = IF Entries(list) \cap H # {} THEN b ELSE a
<1> DEFINE N == Len(list)
           W == FoldUpTo(step, list, a)
           Hit(n) == \E k \in 1..N : k <= n /\ list[k] \in H
           G == {n \in 0..N : W[n] = IF Hit(n) THEN b ELSE a}
<1>1. N \in Nat /\ 0 \in 0..N /\ N \in 0..N /\ \A n \in 1..N : list[n] \in Entries(list)
  BY DEF Entries
<1>2. W[0] = a /\ \A n \in 1..N : W[n] = step[<<list[n], W[n - 1]>>]
  BY FoldDef
<1>3. Hit(N) <=> Entries(list) \cap H # {}
  BY <1>1 DEF Entries
<1> HIDE DEF W, N
<1>4. 0 \in G
  <2>1. ~Hit(0)
    BY <1>1
  <2> QED
    BY <1>1, <1>2, <2>1
<1>5. ASSUME NEW n \in 1..N, n - 1 \in G PROVE n \in G
  <2>1. n \in 0..N /\ W[n - 1] = IF Hit(n - 1) THEN b ELSE a
    BY <1>1, <1>5
  <2>2. Hit(n) <=> Hit(n - 1) \/ list[n] \in H
    BY <1>1
  <2>3. W[n] = step[<<list[n], W[n - 1]>>]
    BY <1>2
  <2> HIDE DEF Hit
  <2>4. W[n] = IF Hit(n) THEN b ELSE a
    <3>1. step[<<list[n], a>>] = (IF list[n] \in H THEN b ELSE a) /\ step[<<list[n], b>>] = b
      BY <1>1 DEF Hitting
    <3>2. CASE Hit(n - 1)
      <4>1. Hit(n) /\ W[n - 1] = b
        BY <2>1, <2>2, <3>2
      <4> QED
        BY <2>3, <3>1, <4>1
    <3>3. CASE ~Hit(n - 1)
      BY <2>1, <2>2, <2>3, <3>1, <3>3
    <3> QED
      BY <3>2, <3>3
  <2> QED
    BY <2>1, <2>4
<1>6. \A n \in 0..N : n \in G
  <2> HIDE DEF G
  <2> QED
    BY <1>1, <1>4, <1>5, BoundedInduction
<1>7. W[N] = IF Hit(N) THEN b ELSE a
  BY <1>1, <1>6
<1> HIDE DEF Hit
<1> QED
  BY <1>3, <1>7 DEF Fold, N, W
=============================================================================
