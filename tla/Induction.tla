-------------------------------- MODULE Induction --------------------------------
(***************************************************************************)
(* Induction and recursion over the natural numbers, stated for sets and   *)
(* functions: no lemma here has an operator for a parameter, so that each  *)
(* can be cited with a set of the numbers for which a claim holds.         *)
(***************************************************************************)
EXTENDS Naturals, SequencesExt, WellFoundedInduction, SequenceTheorems, TLAPS

(* Every set of numbers with a member has a least one.                     *)
LEMMA LeastNumber ==
  ASSUME NEW S, S \subseteq Nat, S # {}
  PROVE  \E m \in S : \A k \in S : m <= k
  <1> DEFINE R == OpToRel(<, Nat)
  <1>1. IsWellFoundedOn(R, Nat)
    BY NatLessThanWellFounded
  <1>2. \A x, y \in Nat : x < y => <<x, y>> \in R
    BY DEF OpToRel
  <1> HIDE DEF R
  <1>3. PICK x \in S : \A y \in S : <<y, x>> \notin R
    BY <1>1, WFMin, Zenon
  <1>4. \A y \in S : y \in Nat /\ x \in Nat /\ ~(y < x)
    BY <1>2, <1>3
  <1>5. \A y \in S : x <= y
    BY <1>4
  <1> QED BY <1>5

(* A set with 0 and the successor of each of its members has all numbers.  *)
LEMMA SetInduction ==
  ASSUME NEW S, 0 \in S, \A n \in Nat : n \in S => n + 1 \in S
  PROVE  Nat \subseteq S
  <1> SUFFICES ASSUME NEW n \in Nat, n \notin S
               PROVE  FALSE
    OBVIOUS
  <1>1. PICK m \in Nat \ S : \A k \in Nat \ S : m <= k
    BY LeastNumber
  <1>2. m # 0 /\ m - 1 \in Nat
    BY <1>1
  <1>3. m - 1 \in S
    BY <1>1, <1>2
  <1> QED BY <1>1, <1>2, <1>3

(* A function on 0..n can be given by its first value and by a function    *)
(* that makes each value from the one before it.                           *)
Steps(n, T) == [(1..n) \X T -> T]
Runs(n, T, b, g) == {f \in [0..n -> T] :
                        f[0] = b /\ \A i \in 1..n : f[i] = g[<<i, f[i - 1]>>]}

LEMMA Recursion ==
  ASSUME NEW T, NEW b \in T, NEW n \in Nat, NEW g \in Steps(n, T)
  PROVE  Runs(n, T, b, g) # {}
  <1>a. g \in [(1..n) \X T -> T]
    BY DEF Steps
  <1> DEFINE Fits(f, k) ==
               /\ f \in [0..k -> T] /\ f[0] = b
               /\ \A i \in 1..k : f[i] = g[<<i, f[i - 1]>>]
  <1> DEFINE S == {k \in Nat : k <= n => \E f : Fits(f, k)}
  <1>1. 0 \in S
    <2>1. Fits([i \in 0..0 |-> b], 0)
      OBVIOUS
    <2> QED BY <2>1
  <1>2. ASSUME NEW k \in Nat, k \in S
        PROVE  k + 1 \in S
    <2> SUFFICES ASSUME k + 1 <= n
                 PROVE  \E f : Fits(f, k + 1)
      OBVIOUS
    <2>1. PICK f : Fits(f, k)
      BY <1>2
    <2> DEFINE h == [i \in 0..(k + 1) |->
                        IF i = k + 1 THEN g[<<i, f[k]>>] ELSE f[i]]
    <2>2. g[<<k + 1, f[k]>>] \in T
      <3>1. f[k] \in T
        BY <2>1
      <3>2. k + 1 \in 1..n
        OBVIOUS
      <3> QED BY <1>a, <3>1, <3>2
    <2>3. h \in [0..(k + 1) -> T]
      BY <2>1, <2>2
    <2>4. h[0] = b
      BY <2>1
    <2>5. ASSUME NEW i \in 1..(k + 1)
          PROVE  h[i] = g[<<i, h[i - 1]>>]
      BY <2>1
    <2>6. Fits(h, k + 1)
      BY <2>3, <2>4, <2>5
    <2> QED BY <2>6
  <1> HIDE DEF S
  <1>3. n \in S
    BY <1>1, <1>2, SetInduction
  <1>4. \E f : Fits(f, n)
    BY <1>3 DEF S
  <1> QED BY <1>4 DEF Runs

(* Induction from m to n.                                                  *)
LEMMA RangeInduction ==
  ASSUME NEW S, NEW m \in Nat, NEW n \in Nat, m \in S,
         \A i \in Nat : m <= i /\ i < n /\ i \in S => i + 1 \in S
  PROVE  m..n \subseteq S
  <1> DEFINE U == {k \in Nat : m <= k /\ k <= n => k \in S}
  <1>1. 0 \in U
    OBVIOUS
  <1>2. ASSUME NEW k \in Nat, k \in U
        PROVE  k + 1 \in U
    <2>1. CASE m <= k /\ k < n
      BY <1>2, <2>1
    <2>2. CASE ~(m <= k) /\ m <= k + 1
      <3>1. k + 1 = m
        BY <2>2
      <3> QED BY <3>1
    <2>3. CASE ~(m <= k + 1) \/ ~(k < n)
      BY <2>3
    <2> QED BY <2>1, <2>2, <2>3
  <1> HIDE DEF U
  <1>3. Nat \subseteq U
    BY <1>1, <1>2, SetInduction
  <1> QED BY <1>3 DEF U

(* A set with the empty sequence, and with each sequence also the longer   *)
(* ones by one element, has all sequences.                                 *)
LEMMA SeqInduction ==
  ASSUME NEW T, NEW S, <<>> \in S,
         \A s \in Seq(T), t \in T : s \in S => Append(s, t) \in S
  PROVE  Seq(T) \subseteq S
  <1> DEFINE U == {n \in Nat : \A s \in Seq(T) : Len(s) = n => s \in S}
  <1>1. 0 \in U
    BY EmptySeq
  <1>2. ASSUME NEW n \in Nat, n \in U
        PROVE  n + 1 \in U
    <2> SUFFICES ASSUME NEW s \in Seq(T), Len(s) = n + 1
                 PROVE  s \in S
      OBVIOUS
    <2> DEFINE front == SubSeq(s, 1, n)
    <2>1. front \in Seq(T) /\ Len(front) = n /\ s[n + 1] \in T
      BY <1>2
    <2>2. Append(front, s[n + 1]) = s
      BY <1>2, <2>1
    <2>3. front \in S
      BY <1>2, <2>1
    <2> QED BY <2>1, <2>2, <2>3
  <1> HIDE DEF U
  <1>3. Nat \subseteq U
    BY <1>1, <1>2, SetInduction
  <1> QED
    <2> SUFFICES ASSUME NEW s \in Seq(T)
                 PROVE  s \in S
      OBVIOUS
    <2>1. Len(s) \in U
      BY <1>3, LenProperties
    <2> QED BY <2>1 DEF U

-----------------------------------------------------------------------------
(* FlattenSeq of the community modules, by the last sequence.              *)
LEMMA FlattenIs ==
  ASSUME NEW T, NEW ss \in Seq(Seq(T)), NEW f \in [0..Len(ss) -> Seq(T)],
         f[0] = <<>>, \A i \in 1..Len(ss) : f[i] = f[i - 1] \o ss[i]
  PROVE  FlattenSeq(ss) = f[Len(ss)]
  <1> DEFINE n == Len(ss)
  <1> DEFINE Made(h) == h = [i \in 1..n |-> IF i = 1 THEN ss[i]
                                            ELSE h[i - 1] \o ss[i]]
  <1> DEFINE F == CHOOSE h : Made(h)
  <1>1. n \in Nat
    BY LenProperties
  <1>2. CASE n = 0
    <2>1. ss = <<>>
      BY <1>2, EmptySeq
    <2> QED BY <1>2, <2>1 DEF FlattenSeq
  <1>3. CASE n # 0
    <2>1. FlattenSeq(ss) = F[n]
      BY <1>3, Zenon DEF FlattenSeq
    <2>2. f[1] = ss[1]
      <3>1. 1 \in 1..Len(ss) /\ 1 - 1 = 0
        BY <1>1, <1>3
      <3>2. f[1] = <<>> \o ss[1]
        BY <3>1, Zenon
      <3>3. ss[1] \in Seq(T)
        BY <3>1, ElementOfSeq
      <3> QED BY <3>2, <3>3, ConcatEmptySeq, Zenon
    <2> DEFINE h0 == [i \in 1..n |-> f[i]]
    <2>3. Made(h0)
      <3>1. \A i \in 1..n : i # 1 => i - 1 \in 1..n
        BY <1>1
      <3>2. ASSUME NEW i \in 1..n
            PROVE  f[i] = IF i = 1 THEN ss[i] ELSE h0[i - 1] \o ss[i]
        BY <2>2, <3>1, Zenon
      <3> QED BY <3>2, Zenon
    <2>4. Made(F)
      BY <2>3, Zenon
    <2> HIDE DEF F
    <2>5. \A i \in 1..n : F[i] = IF i = 1 THEN ss[i] ELSE F[i - 1] \o ss[i]
      BY <2>4, Zenon
    <2>6. 1 \in 1..n /\ n \in 1..n
      BY <1>1, <1>3
    <2>7. F[1] = f[1]
      BY <2>2, <2>5, <2>6
    <2> DEFINE S == {i \in Nat : F[i] = f[i]}
    <2>8. ASSUME NEW i \in Nat, 1 <= i, i < n, i \in S
          PROVE  i + 1 \in S
      <3>1. i + 1 \in 1..Len(ss) /\ i + 1 # 1 /\ (i + 1) - 1 = i
        BY <1>1, <2>8
      <3>2. F[i + 1] = F[i] \o ss[i + 1]
        BY <2>5, <3>1
      <3>3. f[i + 1] = f[i] \o ss[i + 1]
        BY <3>1
      <3>4. F[i + 1] = f[i + 1]
        BY <2>8, <3>2, <3>3, Zenon
      <3> QED BY <3>4
    <2>9. 1 \in S
      BY <2>7
    <2> HIDE DEF S, n
    <2>10. 1..n \subseteq S
      BY <1>1, <2>8, <2>9, RangeInduction
    <2> QED BY <2>1, <2>6, <2>10 DEF n, S
  <1> QED BY <1>2, <1>3

LEMMA Flattening ==
  ASSUME NEW T, NEW ss \in Seq(Seq(T))
  PROVE  \E f \in [0..Len(ss) -> Seq(T)] :
            f[0] = <<>> /\ \A i \in 1..Len(ss) : f[i] = f[i - 1] \o ss[i]
  <1> DEFINE n == Len(ss)
  <1> DEFINE g == [p \in (1..n) \X Seq(T) |-> p[2] \o ss[p[1]]]
  <1>1. n \in Nat /\ \A i \in 1..n : ss[i] \in Seq(T)
    BY LenProperties, ElementOfSeq
  <1>2. g \in [(1..n) \X Seq(T) -> Seq(T)]
    <2>1. ASSUME NEW p \in (1..n) \X Seq(T)
          PROVE  p[2] \o ss[p[1]] \in Seq(T)
      <3>1. p[2] \in Seq(T) /\ ss[p[1]] \in Seq(T)
        BY <1>1
      <3> QED BY <3>1, ConcatProperties
    <2> QED BY <2>1
  <1>3. <<>> \in Seq(T)
    OBVIOUS
  <1>4. \A i \in 1..n, s \in Seq(T) : g[<<i, s>>] = s \o ss[i]
    OBVIOUS
  <1> HIDE DEF g, n
  <1> DEFINE TT == Seq(T)
  <1> DEFINE empty == <<>>
  <1> HIDE DEF TT, empty
  <1>5. n \in Nat /\ empty \in TT /\ g \in Steps(n, TT)
    BY <1>1, <1>2, <1>3 DEF TT, empty, Steps
  <1>6. PICK f : f \in Runs(n, TT, empty, g)
    BY <1>5, Recursion, Zenon
  <1>7. /\ f \in [0..n -> TT] /\ f[0] = empty
        /\ \A i \in 1..n : f[i] = g[<<i, f[i - 1]>>]
    BY <1>6 DEF Runs
  <1>8. ASSUME NEW i \in 1..n
        PROVE  f[i] = f[i - 1] \o ss[i]
    <2>1. f[i - 1] \in Seq(T)
      BY <1>1, <1>7 DEF TT
    <2> QED BY <1>4, <1>7, <2>1
  <1> QED BY <1>7, <1>8 DEF n, TT, empty

LEMMA FlattenEmpty == FlattenSeq(<<>>) = <<>>
  BY DEF FlattenSeq

LEMMA FlattenAppend ==
  ASSUME NEW T, NEW ss \in Seq(Seq(T)), NEW t \in Seq(T)
  PROVE  /\ FlattenSeq(ss) \in Seq(T)
         /\ FlattenSeq(Append(ss, t)) = FlattenSeq(ss) \o t
  <1> DEFINE tt == Append(ss, t)
  <1> DEFINE n == Len(ss)
  <1>1. /\ n \in Nat /\ tt \in Seq(Seq(T)) /\ Len(tt) = n + 1
        /\ \A i \in 1..n : tt[i] = ss[i]
        /\ tt[n + 1] = t
    BY LenProperties, AppendProperties
  <1>2. PICK f \in [0..Len(tt) -> Seq(T)] :
            f[0] = <<>> /\ \A i \in 1..Len(tt) : f[i] = f[i - 1] \o tt[i]
    BY <1>1, Flattening
  <1> HIDE DEF tt
  <1>3. FlattenSeq(tt) = f[n + 1]
    BY <1>1, <1>2, FlattenIs
  <1> DEFINE h == [i \in 0..n |-> f[i]]
  <1>a. \A i \in 1..(n + 1) : f[i] = f[i - 1] \o tt[i]
    BY <1>1, <1>2
  <1>b. n + 1 \in 1..(n + 1) /\ (n + 1) - 1 = n
    BY <1>1
  <1>4. h \in [0..n -> Seq(T)] /\ h[0] = <<>> /\ h[n] = f[n]
    BY <1>1, <1>2
  <1>5. ASSUME NEW i \in 1..n
        PROVE  h[i] = h[i - 1] \o ss[i]
    <2>1. i \in 1..(n + 1) /\ i \in 0..n /\ i - 1 \in 0..n
      BY <1>1
    <2>2. h[i] = f[i] /\ h[i - 1] = f[i - 1] /\ tt[i] = ss[i]
      BY <1>1, <2>1
    <2> QED BY <1>a, <2>1, <2>2
  <1> HIDE DEF h
  <1>6. FlattenSeq(ss) = h[n]
    BY <1>4, <1>5, FlattenIs
  <1>7. f[n + 1] = f[n] \o t
    BY <1>1, <1>a, <1>b
  <1> QED BY <1>1, <1>3, <1>4, <1>6, <1>7 DEF tt
=============================================================================
