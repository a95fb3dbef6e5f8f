------------------------------ MODULE Basics -------------------------------
(***************************************************************************)
(* What the proofs about texts, lines and loops share: sequences element by*)
(* element, and induction and recursion over intervals of numbers, stated  *)
(* about sets and functions, so that the provers can instantiate them.     *)
(***************************************************************************)
EXTENDS Integers, Sequences, FiniteSetTheorems, SequenceTheorems,
        WellFoundedInduction, TLAPS

-----------------------------------------------------------------------------
(* Sequences.                                                              *)

LEMMA FunctionIsSeq ==
  ASSUME NEW S, NEW n \in Nat, NEW f \in [1 .. n -> S]
  PROVE  f \in Seq(S) /\ Len(f) = n
<1>1. f \in Seq(S)
  BY SeqDef, Zenon
<1>2. Len(f) \in Nat /\ DOMAIN f = 1 .. Len(f) /\ DOMAIN f = 1 .. n
  BY <1>1
<1> QED BY <1>1, <1>2

LEMMA SameSeq ==
  ASSUME NEW S, NEW s \in Seq(S), NEW t \in Seq(S), Len(s) = Len(t),
         \A k \in 1 .. Len(s) : s[k] = t[k]
  PROVE  s = t
  BY SeqEqual, Zenon

LEMMA SubSeqIs ==
  ASSUME NEW S, NEW s \in Seq(S), NEW m \in Nat \ {0}, NEW n \in 0 .. Len(s)
  PROVE  /\ SubSeq(s, m, n) \in Seq(S)
         /\ Len(SubSeq(s, m, n)) = IF m <= n THEN n - m + 1 ELSE 0
         /\ \A k \in 1 .. n - m + 1 : SubSeq(s, m, n)[k] = s[m + k - 1]
<1>1. \A k \in m .. n : s[k] \in S
  BY LenProperties
<1>2. m \in Int /\ n \in Int
  OBVIOUS
<1> QED BY <1>1, <1>2, SubSeqProperties

LEMMA ConcatIs ==
  ASSUME NEW S, NEW s \in Seq(S), NEW t \in Seq(S)
  PROVE  /\ s \o t \in Seq(S)
         /\ Len(s \o t) = Len(s) + Len(t)
         /\ \A k \in 1 .. Len(s) : (s \o t)[k] = s[k]
         /\ \A k \in 1 .. Len(t) : (s \o t)[Len(s) + k] = t[k]
<1>1. /\ s \o t \in Seq(S) /\ Len(s \o t) = Len(s) + Len(t)
      /\ \A k \in 1 .. Len(s) + Len(t) :
           (s \o t)[k] = IF k <= Len(s) THEN s[k] ELSE t[k - Len(s)]
  BY ConcatProperties
<1>2. Len(s) \in Nat /\ Len(t) \in Nat
  OBVIOUS
<1> QED BY <1>1, <1>2

LEMMA AppendIs ==
  ASSUME NEW S, NEW s \in Seq(S), NEW e \in S
  PROVE  /\ Append(s, e) \in Seq(S)
         /\ Len(Append(s, e)) = Len(s) + 1
         /\ \A k \in 1 .. Len(s) : Append(s, e)[k] = s[k]
         /\ Append(s, e)[Len(s) + 1] = e
  BY AppendProperties

(* A sequence with its element n + 1 replaced, or one put at its end.      *)
Replaced(s, n, e) == SubSeq(s, 1, n) \o <<e>> \o SubSeq(s, n + 2, Len(s))

LEMMA ReplaceIs ==
  ASSUME NEW S, NEW s \in Seq(S), NEW n \in 0 .. Len(s), NEW e \in S
  PROVE  /\ Replaced(s, n, e) \in Seq(S)
         /\ Len(Replaced(s, n, e)) = IF n = Len(s) THEN n + 1 ELSE Len(s)
         /\ \A k \in 1 .. Len(Replaced(s, n, e)) :
              Replaced(s, n, e)[k] = IF k = n + 1 THEN e ELSE s[k]
<1> DEFINE a == SubSeq(s, 1, n)
           b == SubSeq(s, n + 2, Len(s))
           f == a \o <<e>>
           r == f \o b
           L == Len(s)
<1>1. L \in Nat /\ n \in 0 .. L
  OBVIOUS
<1>2. /\ a \in Seq(S) /\ Len(a) = n
      /\ \A k \in 1 .. n : a[k] = s[k]
  <2>1. 1 \in Nat \ {0}
    OBVIOUS
  <2>2. /\ a \in Seq(S) /\ Len(a) = IF 1 <= n THEN n - 1 + 1 ELSE 0
        /\ \A k \in 1 .. n - 1 + 1 : a[k] = s[1 + k - 1]
    BY <1>1, <2>1, SubSeqIs
  <2> HIDE DEF a
  <2> QED BY <1>1, <2>2
<1>3. /\ b \in Seq(S) /\ Len(b) = IF n = L THEN 0 ELSE L - n - 1
      /\ \A k \in 1 .. L - n - 1 : b[k] = s[n + 1 + k]
  <2>1. n + 2 \in Nat \ {0} /\ L \in 0 .. L
    BY <1>1
  <2>2. /\ b \in Seq(S) /\ Len(b) = IF n + 2 <= L THEN L - (n + 2) + 1 ELSE 0
        /\ \A k \in 1 .. L - (n + 2) + 1 : b[k] = s[n + 2 + k - 1]
    BY <2>1, SubSeqIs
  <2> HIDE DEF b, L
  <2> QED BY <1>1, <2>2
<1> HIDE DEF a, b
<1>4. <<e>> \in Seq(S) /\ Len(<<e>>) = 1 /\ <<e>>[1] = e
  OBVIOUS
<1>5. /\ f \in Seq(S) /\ Len(f) = n + 1
      /\ \A k \in 1 .. n : f[k] = s[k]
      /\ f[n + 1] = e
  BY <1>1, <1>2, <1>4, ConcatIs
<1> HIDE DEF f
<1>6. f \in Seq(S) /\ b \in Seq(S)
  BY <1>3, <1>5
<1>7. /\ r \in Seq(S) /\ Len(r) = Len(f) + Len(b)
      /\ \A k \in 1 .. Len(f) : r[k] = f[k]
      /\ \A k \in 1 .. Len(b) : r[Len(f) + k] = b[k]
  BY <1>6, ConcatIs
<1> HIDE DEF r
<1>8. Len(b) \in Nat /\ Len(r) \in Nat
  BY <1>6, <1>7
<1> HIDE DEF L
<1>9. Len(r) = IF n = L THEN n + 1 ELSE L
  BY <1>1, <1>3, <1>5, <1>7, <1>8
<1>10. ASSUME NEW k \in 1 .. Len(r) PROVE r[k] = IF k = n + 1 THEN e ELSE s[k]
  <2>1. CASE k <= n
    BY <1>1, <1>5, <1>7, <2>1
  <2>2. CASE k = n + 1
    BY <1>1, <1>5, <1>7, <2>2
  <2>3. CASE k > n + 1
    <3> DEFINE l == k - (n + 1)
    <3>1. l \in 1 .. L - n - 1 /\ l \in 1 .. Len(b) /\ n + 1 + l = k
      BY <1>1, <1>3, <1>9, <2>3
    <3> HIDE DEF l
    <3>2. r[k] = b[l] /\ b[l] = s[k]
      BY <1>3, <1>5, <1>7, <3>1
    <3> QED BY <1>1, <2>3, <3>2
  <2> QED BY <1>1, <1>9, <2>1, <2>2, <2>3
<1> QED BY <1>7, <1>9, <1>10 DEF L, r, f, a, b, Replaced

-----------------------------------------------------------------------------
(* Induction.                                                              *)

(* A well-founded order on the intervals 0 .. n gives the least n.         *)
LEMMA LeastElement ==
  ASSUME NEW N \in Nat, NEW S \in SUBSET (0 .. N), S # {}
  PROVE  \E n \in S : \A m \in S : n <= m
<1> DEFINE T == {0 .. n : n \in S}
           R == StrictSubsetOrdering(0 .. N)
<1>1. IsFiniteSet(0 .. N)
  BY FS_Interval
<1>2. IsWellFoundedOn(R, SUBSET (0 .. N))
  <2>1. FiniteSubsetsOf(0 .. N) = SUBSET (0 .. N)
    BY <1>1, FS_FiniteSubsetsOfFinite, Zenon
  <2> QED BY <2>1, FS_StrictSubsetOrderingWellFounded, Zenon
<1>3. T # {} /\ T \subseteq SUBSET (0 .. N)
  <2>1. PICK n \in S : TRUE
    OBVIOUS
  <2>2. 0 .. n \in T
    BY <2>1, Zenon
  <2>3. ASSUME NEW X \in T PROVE X \in SUBSET (0 .. N)
    <3>1. PICK m \in S : X = 0 .. m
      BY <2>3, Zenon
    <3> QED BY <3>1
  <2> QED BY <2>2, <2>3, Zenon
<1>4. \E X \in T : \A Y \in T : <<Y, X>> \notin R
  <2> HIDE DEF T, R
  <2> QED BY <1>2, <1>3, WFMin, Zenon
<1>5. PICK n \in S : \A m \in S : <<0 .. m, 0 .. n>> \notin R
  BY <1>4
<1>6. ASSUME NEW m \in S PROVE n <= m
  <2>1. SUFFICES ASSUME m < n PROVE FALSE
    OBVIOUS
  <2>2. 0 .. m \subseteq 0 .. n /\ n \notin 0 .. m /\ n \in 0 .. n
    BY <2>1
  <2>3. 0 .. m # 0 .. n
    BY <2>2
  <2>4. <<0 .. m, 0 .. n>> \in R
    BY <2>2, <2>3 DEF StrictSubsetOrdering
  <2> QED BY <2>4, <1>5
<1> QED BY <1>6

(* A set that has 0, and n + 1 with n, has the whole interval.             *)
LEMMA SetInduction ==
  ASSUME NEW N \in Nat, NEW S, 0 \in S,
         \A n \in 0 .. N-1 : n \in S => n + 1 \in S
  PROVE  0 .. N \subseteq S
<1> DEFINE T == (0 .. N) \ S
<1>1. SUFFICES ASSUME T # {} PROVE FALSE
  OBVIOUS
<1>2. PICK n \in T : \A m \in T : n <= m
  BY <1>1, LeastElement
<1>3. n # 0 /\ n - 1 \in 0 .. N-1
  BY <1>2
<1>4. n - 1 \in S
  BY <1>2, <1>3
<1> QED BY <1>2, <1>3, <1>4

(* What a first value has, and each value hands on to the next, all have.  *)
LEMMA AllAlong ==
  ASSUME NEW N \in Nat, NEW S, NEW f, f[0] \in S,
         \A n \in 1 .. N : f[n - 1] \in S => f[n] \in S
  PROVE  \A n \in 0 .. N : f[n] \in S
<1> DEFINE T == {n \in 0 .. N : f[n] \in S}
<1>1. 0 \in T
  OBVIOUS
<1>2. ASSUME NEW n \in 0 .. N-1, n \in T PROVE n + 1 \in T
  <2>1. n + 1 \in 1 .. N /\ n + 1 \in 0 .. N /\ (n + 1) - 1 = n
    OBVIOUS
  <2> QED BY <1>2, <2>1
<1>3. 0 .. N \subseteq T
  <2> HIDE DEF T
  <2> QED BY <1>1, <1>2, SetInduction
<1> QED BY <1>3

(***************************************************************************)
(* Recursion: from a start in S, steps 1 .. N, each a function on S, can   *)
(* be made one after the other.                                            *)
(***************************************************************************)
Iterates(f, n, a, step) ==
  f = [k \in 0 .. n |-> IF k = 0 THEN a ELSE step[k][f[k - 1]]]

LEMMA Recursion ==
  ASSUME NEW N \in Nat, NEW S, NEW a \in S,
         NEW step \in [1 .. N -> [S -> S]]
  PROVE  \E f \in [0 .. N -> S] : Iterates(f, N, a, step)
<1> DEFINE T == {n \in 0 .. N : \E f \in [0 .. n -> S] : Iterates(f, n, a, step)}
<1>1. 0 \in T
  <2> DEFINE f == [k \in 0 .. 0 |-> a]
  <2>1. f \in [0 .. 0 -> S] /\ Iterates(f, 0, a, step)
    BY DEF Iterates
  <2> QED BY <2>1
<1>2. ASSUME NEW n \in 0 .. N-1, n \in T PROVE n + 1 \in T
  <2>1. PICK f \in [0 .. n -> S] : Iterates(f, n, a, step)
    BY <1>2
  <2>2. n \in 0 .. n /\ n + 1 \in 1 .. N /\ n + 1 \in 0 .. N
    OBVIOUS
  <2>3. f[n] \in S /\ step[n + 1] \in [S -> S]
    BY <2>2
  <2>4. step[n + 1][f[n]] \in S
    BY <2>3
  <2>5. \A k \in 0 .. n : f[k] = IF k = 0 THEN a ELSE step[k][f[k - 1]]
    BY <2>1 DEF Iterates
  <2> HIDE DEF T
  <2> DEFINE g == [k \in 0 .. n+1 |-> IF k = n + 1 THEN step[n + 1][f[n]] ELSE f[k]]
  <2>6. g \in [0 .. n+1 -> S]
    <3>1. ASSUME NEW k \in 0 .. n+1, k # n + 1 PROVE f[k] \in S
      <4>1. k \in 0 .. n
        BY <3>1
      <4> QED BY <4>1
    <3> QED BY <2>4, <3>1
  <2>7. ASSUME NEW k \in 0 .. n+1
        PROVE  g[k] = IF k = 0 THEN a ELSE step[k][g[k - 1]]
    <3>1. CASE k = n + 1
      <4>1. k - 1 = n /\ n \in 0 .. n+1 /\ n # n + 1 /\ k # 0
        BY <3>1
      <4>2. g[n] = f[n] /\ g[k] = step[n + 1][f[n]]
        BY <3>1, <4>1
      <4> QED BY <3>1, <4>1, <4>2
    <3>2. CASE k # n + 1
      <4>1. k \in 0 .. n /\ (k # 0 => k - 1 \in 0 .. n)
        BY <3>2
      <4>2. g[k] = f[k] /\ (k # 0 => g[k - 1] = f[k - 1])
        BY <4>1
      <4> QED BY <2>5, <4>1, <4>2
    <3> QED BY <3>1, <3>2
  <2>8. Iterates(g, n + 1, a, step)
    <3> HIDE DEF g
    <3>1. g = [k \in 0 .. n+1 |-> g[k]]
      BY <2>6
    <3> QED BY <2>7, <3>1 DEF Iterates
  <2>9. \E h \in [0 .. n+1 -> S] : Iterates(h, n + 1, a, step)
    <3> HIDE DEF g
    <3> QED BY <2>6, <2>8
  <2> QED BY <2>2, <2>9 DEF T
<1>3. 0 .. N \subseteq T
  <2> HIDE DEF T
  <2> QED BY <1>1, <1>2, SetInduction
<1> QED BY <1>3

=============================================================================
