------------------------ MODULE ResourceBuilderProofs ------------------------
(***************************************************************************)
(* Proofs about the builders and the command parser, for every             *)
(* configuration and every command line.                                   *)
(*                                                                         *)
(* The loops of the code are recursive functions over the positions of a   *)
(* sequence.  What such a function computes is proved by induction, and    *)
(* the induction itself as a statement about sets (Induction,              *)
(* SequenceInduction), from the library's theorem that a nonempty set of   *)
(* naturals has a least element: a set of sequences that has the empty     *)
(* one and is closed under Append has them all.                            *)
(***************************************************************************)
EXTENDS ResourceBuilderMC, SequenceTheorems, FiniteSetTheorems, TLAPS

-----------------------------------------------------------------------------
(* Induction, and the recursion it justifies.                              *)

LEMMA Induction ==
  ASSUME NEW S, 0 \in S, \A n \in Nat : n \in S => n + 1 \in S
  PROVE  Nat \subseteq S
  <1> DEFINE R == OpToRel(<, Nat)
             T == Nat \ S
  <1> SUFFICES ASSUME T # {} PROVE FALSE
    OBVIOUS
  <1>1. IsWellFoundedOn(R, Nat)
    BY NatLessThanWellFounded
  <1>2. PICK x \in T : \A y \in T : ~(<<y, x>> \in R)
    <2> HIDE DEF R
    <2> QED BY <1>1, WFMin
  <1>3. \A y \in T : ~(y < x)
    BY <1>2 DEF OpToRel
  <1>4. x # 0 /\ x - 1 \in Nat /\ x - 1 < x
    OBVIOUS
  <1>5. x - 1 \in S
    BY <1>3, <1>4
  <1>6. QED  BY <1>4, <1>5

LEMMA Appended ==
  ASSUME NEW A, NEW s \in Seq(A), NEW a \in A
  PROVE  /\ Append(s, a) \in Seq(A) /\ Append(s, a) # <<>>
         /\ Len(s) \in Nat /\ DOMAIN s = 1 .. Len(s)
         /\ Len(Append(s, a)) = Len(s) + 1
         /\ DOMAIN Append(s, a) = 1 .. Len(s) + 1
         /\ Append(s, a)[Len(s) + 1] = a
         /\ \A i \in 1 .. Len(s) : Append(s, a)[i] = s[i] /\ s[i] \in A
         /\ \A i \in 1 .. Len(s) + 1 : i = Len(s) + 1 \/ i \in 1 .. Len(s)
  BY AppendProperties, LenProperties

LEMMA SequenceInduction ==
  ASSUME NEW A, NEW T, <<>> \in T,
         \A s \in Seq(A), a \in A : s \in T => Append(s, a) \in T
  PROVE  Seq(A) \subseteq T
  <1> DEFINE S == {n \in Nat : \A s \in Seq(A) : Len(s) = n => s \in T}
  <1>1. 0 \in S
    BY EmptySeq
  <1>2. ASSUME NEW n \in Nat, n \in S PROVE n + 1 \in S
    <2> SUFFICES ASSUME NEW s \in Seq(A), Len(s) = n + 1 PROVE s \in T
      OBVIOUS
    <2>1. PICK r \in Seq(A), a \in A : s = Append(r, a)
      BY SequenceEmptyOrAppend, EmptySeq
    <2>2. Len(r) = n
      BY <2>1, Appended
    <2>3. QED  BY <1>2, <2>1, <2>2
  <1> HIDE DEF S
  <1>3. Nat \subseteq S
    BY <1>1, <1>2, Induction
  <1>4. QED  BY <1>3, LenProperties DEF S

(* A function defined by its value at 0 and the step from i - 1 to i: it   *)
(* exists, and its values are where the step leads.                        *)
LEMMA Recursion ==
  ASSUME NEW X, NEW x \in X, NEW n \in Nat, NEW step \in [1 .. n -> [X -> X]]
  PROVE  \E f \in [0 .. n -> X] : f[0] = x /\ \A i \in 1 .. n : f[i] = step[i][f[i - 1]]
  <1> DEFINE Partial(m, f) == f[0] = x /\ \A i \in 1 .. m : f[i] = step[i][f[i - 1]]
             S == {m \in Nat : m <= n => \E f \in [0 .. m -> X] : Partial(m, f)}
  <1>1. 0 \in S
    <2>1. [i \in 0 .. 0 |-> x] \in [0 .. 0 -> X] /\ Partial(0, [i \in 0 .. 0 |-> x])
      OBVIOUS
    <2>2. QED  BY <2>1
  <1>2. ASSUME NEW m \in Nat, m \in S PROVE m + 1 \in S
    <2> SUFFICES ASSUME m + 1 <= n PROVE \E f \in [0 .. m + 1 -> X] : Partial(m + 1, f)
      OBVIOUS
    <2>1. PICK f \in [0 .. m -> X] : Partial(m, f)
      BY <1>2
    <2> DEFINE g == [i \in 0 .. m + 1 |-> IF i = m + 1 THEN step[m + 1][f[m]] ELSE f[i]]
    <2>2. f[m] \in X /\ step[m + 1] \in [X -> X] /\ step[m + 1][f[m]] \in X
      OBVIOUS
    <2>3. g \in [0 .. m + 1 -> X]
      BY <2>2
    <2>4. g[0] = x
      BY <2>1
    <2>5. g[m + 1] = step[m + 1][f[m]] /\ \A i \in 0 .. m : g[i] = f[i]
      OBVIOUS
    <2> HIDE DEF g
    <2>6. ASSUME NEW i \in 1 .. m + 1 PROVE g[i] = step[i][g[i - 1]]
      <3>1. CASE i = m + 1
        <4>1. i - 1 = m /\ m \in 0 .. m
          BY <3>1
        <4>2. QED  BY <2>5, <3>1, <4>1
      <3>2. CASE i # m + 1
        <4>1. i \in 1 .. m /\ i \in 0 .. m /\ i - 1 \in 0 .. m
          BY <3>2
        <4>2. g[i] = f[i] /\ g[i - 1] = f[i - 1]
          BY <2>5, <4>1
        <4>3. QED  BY <2>1, <4>1, <4>2
      <3>3. QED  BY <3>1, <3>2
    <2>7. QED  BY <2>3, <2>4, <2>6
  <1> HIDE DEF S
  <1>3. n \in S
    BY <1>1, <1>2, Induction
  <1>4. QED  BY <1>3 DEF S

-----------------------------------------------------------------------------
(* KeptAt: the elements of a sequence at given positions.                  *)

LEMMA KeptUpToDef ==
  ASSUME NEW A, NEW s \in Seq(A), NEW P
  PROVE  KeptUpTo(s, P) =
           [i \in 0 .. Len(s) |->
              IF i = 0 THEN <<>>
              ELSE IF i \in P THEN Append(KeptUpTo(s, P)[i - 1], s[i]) ELSE KeptUpTo(s, P)[i - 1]]
  <1> DEFINE Next1(i, r) == IF i \in P THEN Append(r, s[i]) ELSE r
             step == [i \in 1 .. Len(s) |-> [r \in Seq(A) |-> Next1(i, r)]]
             Body(f) == [i \in 0 .. Len(s) |-> IF i = 0 THEN <<>> ELSE Next1(i, f[i - 1])]
  <1>1. Len(s) \in Nat /\ <<>> \in Seq(A) /\ \A i \in 1 .. Len(s) : s[i] \in A
    BY LenProperties, EmptySeq
  <1>2. \A i \in 1 .. Len(s), r \in Seq(A) : Next1(i, r) \in Seq(A)
    BY <1>1, AppendProperties
  <1>3. KeptUpTo(s, P) = CHOOSE g : g = Body(g)
    BY DEF KeptUpTo
  <1> HIDE DEF Next1
  <1>4. step \in [1 .. Len(s) -> [Seq(A) -> Seq(A)]]
    BY <1>2
  <1>5. \A i \in 1 .. Len(s), r \in Seq(A) : step[i][r] = Next1(i, r)
    OBVIOUS
  <1> HIDE DEF step
  <1>6. PICK f \in [0 .. Len(s) -> Seq(A)] :
           f[0] = <<>> /\ \A i \in 1 .. Len(s) : f[i] = step[i][f[i - 1]]
    <2> DEFINE X == Seq(A)
               n == Len(s)
               e == <<>>
    <2>1. e \in X /\ n \in Nat /\ step \in [1 .. n -> [X -> X]]
      BY <1>1, <1>4
    <2> SUFFICES \E f \in [0 .. n -> X] : f[0] = e /\ \A i \in 1 .. n : f[i] = step[i][f[i - 1]]
      OBVIOUS
    <2> HIDE DEF X, n, e
    <2>2. QED  BY <2>1, Recursion
  <1>7. f = Body(f)
    <2>1. ASSUME NEW i \in 1 .. Len(s) PROVE f[i] = Next1(i, f[i - 1])
      <3>1. i - 1 \in 0 .. Len(s)
        BY <1>1
      <3>2. QED  BY <1>5, <1>6, <3>1
    <2>2. \A i \in 0 .. Len(s) : i = 0 \/ i \in 1 .. Len(s)
      BY <1>1
    <2>3. \A i \in 0 .. Len(s) : f[i] = IF i = 0 THEN <<>> ELSE Next1(i, f[i - 1])
      BY <1>6, <2>1, <2>2
    <2>4. QED  BY <2>3
  <1> HIDE DEF Body
  <1>8. KeptUpTo(s, P) = Body(KeptUpTo(s, P))
    BY <1>3, <1>7
  <1>9. QED  BY <1>8 DEF Body, Next1

LEMMA KeptUpToStep ==
  ASSUME NEW A, NEW s \in Seq(A), NEW P
  PROVE  /\ KeptUpTo(s, P)[0] = <<>>
         /\ \A n \in Nat : n + 1 <= Len(s) =>
              KeptUpTo(s, P)[n + 1] = IF n + 1 \in P THEN Append(KeptUpTo(s, P)[n], s[n + 1])
                                                     ELSE KeptUpTo(s, P)[n]
  <1> DEFINE k == KeptUpTo(s, P)
  <1>1. Len(s) \in Nat
    BY LenProperties
  <1>2. k = [n \in 0 .. Len(s) |->
               IF n = 0 THEN <<>> ELSE IF n \in P THEN Append(k[n - 1], s[n]) ELSE k[n - 1]]
    BY KeptUpToDef
  <1> HIDE DEF k
  <1>3. k[0] = <<>>
    BY <1>1, <1>2
  <1>4. ASSUME NEW n \in Nat, n + 1 <= Len(s)
        PROVE  k[n + 1] = IF n + 1 \in P THEN Append(k[n], s[n + 1]) ELSE k[n]
    <2>1. n + 1 \in 0 .. Len(s) /\ n + 1 # 0 /\ (n + 1) - 1 = n
      BY <1>1, <1>4
    <2>2. QED  BY <1>2, <2>1
  <1>5. QED  BY <1>3, <1>4 DEF k

LEMMA KeptUpToTyped ==
  ASSUME NEW A, NEW s \in Seq(A), NEW P, NEW i \in 0 .. Len(s)
  PROVE  KeptUpTo(s, P)[i] \in Seq(A)
  <1> DEFINE k == KeptUpTo(s, P)
             S == {n \in Nat : n <= Len(s) => k[n] \in Seq(A)}
  <1>1. Len(s) \in Nat /\ \A n \in 1 .. Len(s) : s[n] \in A
    BY LenProperties
  <1>2. /\ k[0] = <<>>
        /\ \A n \in Nat : n + 1 <= Len(s) =>
             k[n + 1] = IF n + 1 \in P THEN Append(k[n], s[n + 1]) ELSE k[n]
    BY KeptUpToStep
  <1> HIDE DEF k
  <1>3. 0 \in S
    BY <1>1, <1>2, EmptySeq
  <1>4. ASSUME NEW n \in Nat, n \in S PROVE n + 1 \in S
    <2> SUFFICES ASSUME n + 1 <= Len(s) PROVE k[n + 1] \in Seq(A)
      OBVIOUS
    <2>1. k[n] \in Seq(A) /\ n + 1 \in 1 .. Len(s) /\ s[n + 1] \in A
      BY <1>1, <1>4
    <2>2. k[n + 1] = IF n + 1 \in P THEN Append(k[n], s[n + 1]) ELSE k[n]
      BY <1>2
    <2>3. QED  BY <2>1, <2>2, AppendProperties
  <1> HIDE DEF S
  <1>5. i \in S
    BY <1>1, <1>3, <1>4, Induction
  <1>6. QED  BY <1>1, <1>5 DEF S, k

LEMMA KeptAtTyped ==
  ASSUME NEW A, NEW s \in Seq(A), NEW P
  PROVE  KeptAt(s, P) \in Seq(A)
  BY KeptUpToTyped, LenProperties DEF KeptAt

(* What is kept of a prefix depends on the prefix alone.                   *)
LEMMA KeptUpToSame ==
  ASSUME NEW A, NEW s \in Seq(A), NEW t \in Seq(A), NEW P, NEW Q,
         NEW m \in Nat, m <= Len(s), m <= Len(t),
         \A i \in 1 .. m : s[i] = t[i] /\ (i \in P <=> i \in Q)
  PROVE  KeptUpTo(s, P)[m] = KeptUpTo(t, Q)[m]
  <1> DEFINE k == KeptUpTo(s, P)
             l == KeptUpTo(t, Q)
             S == {n \in Nat : n <= m => k[n] = l[n]}
  <1>1. Len(s) \in Nat /\ Len(t) \in Nat
    BY LenProperties
  <1>2. /\ k[0] = <<>> /\ l[0] = <<>>
        /\ \A n \in Nat : n + 1 <= Len(s) =>
             k[n + 1] = IF n + 1 \in P THEN Append(k[n], s[n + 1]) ELSE k[n]
        /\ \A n \in Nat : n + 1 <= Len(t) =>
             l[n + 1] = IF n + 1 \in Q THEN Append(l[n], t[n + 1]) ELSE l[n]
    BY KeptUpToStep
  <1> HIDE DEF k, l
  <1>3. 0 \in S
    BY <1>1, <1>2
  <1>4. ASSUME NEW n \in Nat, n \in S PROVE n + 1 \in S
    <2> SUFFICES ASSUME n + 1 <= m PROVE k[n + 1] = l[n + 1]
      OBVIOUS
    <2>1. k[n] = l[n] /\ n + 1 \in 1 .. m /\ s[n + 1] = t[n + 1] /\ (n + 1 \in P <=> n + 1 \in Q)
      BY <1>4
    <2>2. /\ k[n + 1] = IF n + 1 \in P THEN Append(k[n], s[n + 1]) ELSE k[n]
          /\ l[n + 1] = IF n + 1 \in Q THEN Append(l[n], t[n + 1]) ELSE l[n]
      <3>1. n + 1 <= Len(s) /\ n + 1 <= Len(t)
        BY <1>1
      <3>2. QED  BY <1>2, <3>1
    <2>3. QED  BY <2>1, <2>2
  <1> HIDE DEF S
  <1>5. m \in S
    BY <1>3, <1>4, Induction
  <1>6. QED  BY <1>5 DEF S, k, l

LEMMA KeptAtSame ==
  ASSUME NEW A, NEW s \in Seq(A), NEW P, NEW Q, \A i \in DOMAIN s : i \in P <=> i \in Q
  PROVE  KeptAt(s, P) = KeptAt(s, Q)
  <1>1. Len(s) \in Nat /\ DOMAIN s = 1 .. Len(s)
    BY LenProperties
  <1>2. KeptUpTo(s, P)[Len(s)] = KeptUpTo(s, Q)[Len(s)]
    <2> DEFINE m == Len(s)
    <2>1. m \in Nat /\ m <= Len(s) /\ \A i \in 1 .. m : s[i] = s[i] /\ (i \in P <=> i \in Q)
      BY <1>1
    <2> HIDE DEF m
    <2>2. KeptUpTo(s, P)[m] = KeptUpTo(s, Q)[m]
      BY <2>1, KeptUpToSame
    <2>3. QED  BY <2>2 DEF m
  <1>3. QED  BY <1>2 DEF KeptAt

LEMMA KeptAtNothing ==
  ASSUME NEW P
  PROVE  KeptAt(<<>>, P) = <<>>
  <1>1. <<>> \in Seq({}) /\ Len(<<>>) = 0
    BY EmptySeq
  <1>2. KeptUpTo(<<>>, P)[0] = <<>>
    BY <1>1, KeptUpToStep
  <1>3. QED  BY <1>1, <1>2 DEF KeptAt

LEMMA KeptAtAppend ==
  ASSUME NEW A, NEW s \in Seq(A), NEW a \in A, NEW P
  PROVE  KeptAt(Append(s, a), P) =
           IF Len(s) + 1 \in P THEN Append(KeptAt(s, P), a) ELSE KeptAt(s, P)
  <1> DEFINE t == Append(s, a)
             k == KeptUpTo(t, P)
  <1>1. /\ t \in Seq(A) /\ Len(s) \in Nat /\ Len(t) = Len(s) + 1 /\ t[Len(s) + 1] = a
        /\ \A i \in 1 .. Len(s) : t[i] = s[i]
    BY Appended
  <1> HIDE DEF t
  <1>2. \A n \in Nat : n + 1 <= Len(t) =>
           k[n + 1] = IF n + 1 \in P THEN Append(k[n], t[n + 1]) ELSE k[n]
    BY <1>1, KeptUpToStep
  <1>3. k[Len(s)] = KeptUpTo(s, P)[Len(s)]
    <2>1. Len(s) <= Len(t) /\ Len(s) <= Len(s)
      BY <1>1
    <2>2. QED  BY <1>1, <2>1, KeptUpToSame
  <1> HIDE DEF k
  <1>4. k[Len(s) + 1] = IF Len(s) + 1 \in P THEN Append(k[Len(s)], a) ELSE k[Len(s)]
    BY <1>1, <1>2
  <1>5. QED  BY <1>1, <1>3, <1>4 DEF KeptAt, k, t

LEMMA KeptAtNone ==
  ASSUME NEW A, NEW s \in Seq(A), NEW P, \A i \in DOMAIN s : i \notin P
  PROVE  KeptAt(s, P) = <<>>
  <1> DEFINE T == {t \in Seq(A) : KeptAt(t, {}) = <<>>}
  <1>1. <<>> \in T
    BY EmptySeq, KeptAtNothing
  <1>2. \A t \in Seq(A), a \in A : t \in T => Append(t, a) \in T
    BY Appended, KeptAtAppend
  <1> HIDE DEF T
  <1>3. s \in T
    BY <1>1, <1>2, SequenceInduction
  <1>4. KeptAt(s, P) = KeptAt(s, {})
    BY KeptAtSame
  <1>5. QED  BY <1>3, <1>4 DEF T

LEMMA KeptAtAll ==
  ASSUME NEW A, NEW s \in Seq(A), NEW P, \A i \in DOMAIN s : i \in P
  PROVE  KeptAt(s, P) = s
  <1> DEFINE T == {t \in Seq(A) : KeptAt(t, Nat) = t}
  <1>1. <<>> \in T
    BY EmptySeq, KeptAtNothing
  <1>2. ASSUME NEW t \in Seq(A), NEW a \in A, t \in T PROVE Append(t, a) \in T
    <2>1. Len(t) + 1 \in Nat
      BY LenProperties
    <2>2. QED  BY <1>2, <2>1, Appended, KeptAtAppend
  <1> HIDE DEF T
  <1>3. s \in T
    BY <1>1, <1>2, SequenceInduction
  <1>4. KeptAt(s, P) = KeptAt(s, Nat)
    BY KeptAtSame, LenProperties
  <1>5. QED  BY <1>3, <1>4 DEF T

(* What every kept element satisfies holds of the elements of the result.  *)
LEMMA KeptAtIn ==
  ASSUME NEW A, NEW s \in Seq(A), NEW P, NEW B, \A i \in DOMAIN s : i \in P => s[i] \in B
  PROVE  KeptAt(s, P) \in Seq(B)
  <1> DEFINE T == {t \in Seq(A) : (\A i \in DOMAIN t : i \in P => t[i] \in B)
                                    => KeptAt(t, P) \in Seq(B)}
  <1>1. <<>> \in T
    BY EmptySeq, KeptAtNothing
  <1>2. ASSUME NEW t \in Seq(A), NEW a \in A, t \in T PROVE Append(t, a) \in T
    <2> SUFFICES ASSUME \A i \in DOMAIN Append(t, a) : i \in P => Append(t, a)[i] \in B
                 PROVE  KeptAt(Append(t, a), P) \in Seq(B)
      BY Appended
    <2>1. \A i \in DOMAIN t : i \in P => t[i] \in B
      BY Appended
    <2>2. KeptAt(t, P) \in Seq(B)
      BY <1>2, <2>1
    <2>3. Len(t) + 1 \in P => a \in B
      BY Appended
    <2>4. CASE Len(t) + 1 \in P
      BY <2>2, <2>3, <2>4, KeptAtAppend, AppendProperties
    <2>5. CASE Len(t) + 1 \notin P
      BY <2>2, <2>5, KeptAtAppend
    <2>6. QED  BY <2>4, <2>5
  <1> HIDE DEF T
  <1>3. s \in T
    BY <1>1, <1>2, SequenceInduction
  <1>4. QED  BY <1>3 DEF T

(* Kept: the elements of a sequence that are in a set.                     *)

LEMMA KeptTyped ==
  ASSUME NEW A, NEW s \in Seq(A), NEW S
  PROVE  Kept(s, S) \in Seq(A) /\ Kept(s, S) \in Seq(S)
  BY KeptAtTyped, KeptAtIn DEF Kept

LEMMA KeptNothing == \A S : Kept(<<>>, S) = <<>>
  BY KeptAtNothing DEF Kept

LEMMA KeptNone ==
  ASSUME NEW A, NEW s \in Seq(A), NEW S, \A i \in DOMAIN s : s[i] \notin S
  PROVE  Kept(s, S) = <<>>
  BY KeptAtNone DEF Kept

LEMMA KeptAppend ==
  ASSUME NEW A, NEW s \in Seq(A), NEW a \in A, NEW S
  PROVE  Kept(Append(s, a), S) = IF a \in S THEN Append(Kept(s, S), a) ELSE Kept(s, S)
  <1> DEFINE t == Append(s, a)
             P == {i \in DOMAIN s : s[i] \in S}
             Q == {i \in DOMAIN t : t[i] \in S}
  <1>1. (Len(s) + 1 \in Q <=> a \in S) /\ \A i \in DOMAIN s : i \in P <=> i \in Q
    BY Appended
  <1> HIDE DEF P, Q
  <1>2. KeptAt(s, P) = KeptAt(s, Q)
    BY <1>1, KeptAtSame
  <1>3. KeptAt(t, Q) = IF Len(s) + 1 \in Q THEN Append(KeptAt(s, Q), a) ELSE KeptAt(s, Q)
    BY KeptAtAppend
  <1>4. QED  BY <1>1, <1>2, <1>3 DEF Kept, P, Q

LEMMA KeptOfKeptAt ==
  ASSUME NEW A, NEW s \in Seq(A), NEW P, NEW S
  PROVE  Kept(KeptAt(s, P), S) = KeptAt(s, {i \in DOMAIN s : i \in P /\ s[i] \in S})
  <1> DEFINE Both(t) == {i \in DOMAIN t : i \in P /\ t[i] \in S}
             T == {t \in Seq(A) : Kept(KeptAt(t, P), S) = KeptAt(t, Both(t))}
  <1>1. <<>> \in T
    BY EmptySeq, KeptAtNothing, KeptNothing
  <1>2. ASSUME NEW t \in Seq(A), NEW a \in A, t \in T PROVE Append(t, a) \in T
    <2>1. Append(t, a) \in Seq(A)
      BY Appended
    <2>2. /\ Len(t) + 1 \in Both(Append(t, a)) <=> (Len(t) + 1 \in P /\ a \in S)
          /\ \A i \in DOMAIN t : i \in Both(t) <=> i \in Both(Append(t, a))
      BY Appended
    <2> HIDE DEF Both
    <2>3. KeptAt(t, Both(t)) = KeptAt(t, Both(Append(t, a)))
      BY <2>2, KeptAtSame
    <2>4. KeptAt(Append(t, a), Both(Append(t, a))) =
            IF Len(t) + 1 \in Both(Append(t, a)) THEN Append(KeptAt(t, Both(t)), a)
                                                 ELSE KeptAt(t, Both(t))
      BY <2>3, KeptAtAppend
    <2>5. KeptAt(Append(t, a), P) =
            IF Len(t) + 1 \in P THEN Append(KeptAt(t, P), a) ELSE KeptAt(t, P)
      BY KeptAtAppend
    <2>6. Kept(Append(KeptAt(t, P), a), S) =
            IF a \in S THEN Append(Kept(KeptAt(t, P), S), a) ELSE Kept(KeptAt(t, P), S)
      BY KeptAtTyped, KeptAppend
    <2>7. Kept(KeptAt(t, P), S) = KeptAt(t, Both(t))
      BY <1>2
    <2>8. QED  BY <2>1, <2>2, <2>4, <2>5, <2>6, <2>7
  <1> HIDE DEF T
  <1>3. s \in T
    BY <1>1, <1>2, SequenceInduction
  <1>4. QED  BY <1>3 DEF T

LEMMA ConcatAppend ==
  ASSUME NEW A, NEW s \in Seq(A), NEW t \in Seq(A), NEW a \in A
  PROVE  s \o Append(t, a) = Append(s \o t, a)
  <1>1. /\ s \o Append(t, a) \in Seq(A)
        /\ Len(s \o Append(t, a)) = Len(s) + (Len(t) + 1)
        /\ \A i \in 1 .. Len(s) + (Len(t) + 1) :
             (s \o Append(t, a))[i] = IF i <= Len(s) THEN s[i] ELSE Append(t, a)[i - Len(s)]
    <2> DEFINE u == Append(t, a)
    <2>1. u \in Seq(A) /\ Len(u) = Len(t) + 1
      BY Appended
    <2> HIDE DEF u
    <2>2. /\ s \o u \in Seq(A)
          /\ Len(s \o u) = Len(s) + Len(u)
          /\ \A i \in 1 .. Len(s) + Len(u) : (s \o u)[i] = IF i <= Len(s) THEN s[i] ELSE u[i - Len(s)]
      BY <2>1, ConcatProperties
    <2>3. QED  BY <2>1, <2>2 DEF u
  <1>2. /\ Append(s \o t, a) \in Seq(A)
        /\ Len(Append(s \o t, a)) = (Len(s) + Len(t)) + 1
        /\ \A i \in 1 .. Len(s) + Len(t) :
             Append(s \o t, a)[i] = IF i <= Len(s) THEN s[i] ELSE t[i - Len(s)]
        /\ Append(s \o t, a)[(Len(s) + Len(t)) + 1] = a
    BY ConcatProperties, Appended
  <1>3. /\ Len(s) \in Nat /\ Len(t) \in Nat /\ Append(t, a)[Len(t) + 1] = a
        /\ \A i \in 1 .. Len(t) : Append(t, a)[i] = t[i]
    BY Appended, LenProperties
  <1>4. ASSUME NEW i \in 1 .. Len(s) + (Len(t) + 1)
        PROVE  (s \o Append(t, a))[i] = Append(s \o t, a)[i]
    <2>1. CASE i <= Len(s)
      BY <1>1, <1>2, <1>3, <2>1
    <2>2. CASE i > Len(s) /\ i <= Len(s) + Len(t)
      <3>1. i - Len(s) \in 1 .. Len(t) /\ i \in 1 .. Len(s) + Len(t) /\ ~(i <= Len(s))
        BY <1>3, <2>2
      <3>2. QED  BY <1>1, <1>2, <1>3, <3>1
    <2>3. CASE i > Len(s) + Len(t)
      <3>1. i = (Len(s) + Len(t)) + 1 /\ i - Len(s) = Len(t) + 1 /\ ~(i <= Len(s))
        BY <1>3, <2>3
      <3>2. QED  BY <1>1, <1>2, <1>3, <3>1
    <2>4. QED  BY <1>3, <2>1, <2>2, <2>3
  <1>5. Len(s \o Append(t, a)) = Len(Append(s \o t, a))
    BY <1>1, <1>2, <1>3
  <1>6. QED  BY <1>1, <1>2, <1>4, <1>5, SeqEqual

LEMMA KeptConcat ==
  ASSUME NEW A, NEW s \in Seq(A), NEW t \in Seq(A), NEW S
  PROVE  Kept(s \o t, S) = Kept(s, S) \o Kept(t, S)
  <1> DEFINE T == {u \in Seq(A) : Kept(s \o u, S) = Kept(s, S) \o Kept(u, S)}
  <1>1. <<>> \in T
    <2>1. s \o <<>> = s /\ Kept(s, S) \o <<>> = Kept(s, S)
      BY ConcatEmptySeq, KeptTyped
    <2>2. QED  BY <2>1, KeptNothing, EmptySeq
  <1>2. ASSUME NEW u \in Seq(A), NEW a \in A, u \in T PROVE Append(u, a) \in T
    <2>1. s \o u \in Seq(A) /\ s \o Append(u, a) = Append(s \o u, a)
      BY ConcatProperties, ConcatAppend
    <2>2. Kept(Append(s \o u, a), S) =
            IF a \in S THEN Append(Kept(s \o u, S), a) ELSE Kept(s \o u, S)
      BY <2>1, KeptAppend
    <2>3. Kept(Append(u, a), S) = IF a \in S THEN Append(Kept(u, S), a) ELSE Kept(u, S)
      BY KeptAppend
    <2>4. Kept(s, S) \o Append(Kept(u, S), a) = Append(Kept(s, S) \o Kept(u, S), a)
      <3> DEFINE p == Kept(s, S)
                 q == Kept(u, S)
      <3>1. p \in Seq(A) /\ q \in Seq(A)
        BY KeptTyped
      <3> HIDE DEF p, q
      <3>2. p \o Append(q, a) = Append(p \o q, a)
        BY <3>1, ConcatAppend
      <3>3. QED  BY <3>2 DEF p, q
    <2>5. QED  BY <1>2, <2>1, <2>2, <2>3, <2>4, Appended
  <1> HIDE DEF T
  <1>3. t \in T
    BY <1>1, <1>2, SequenceInduction
  <1>4. QED  BY <1>3 DEF T

LEMMA KeptElements ==
  ASSUME NEW A, NEW s \in Seq(A), NEW S
  PROVE  ToSet(Kept(s, S)) = ToSet(s) \cap S
  <1>1. ToSet(<<>>) = {}
    BY EmptySeq DEF ToSet
  <1>2. \A t \in Seq(A), a \in A : ToSet(Append(t, a)) = ToSet(t) \union {a}
    <2> TAKE t \in Seq(A), a \in A
    <2>1. \A x \in ToSet(Append(t, a)) : x \in ToSet(t) \union {a}
      BY Appended DEF ToSet
    <2>2. \A x \in ToSet(t) \union {a} : x \in ToSet(Append(t, a))
      <3>1. Len(t) + 1 \in DOMAIN Append(t, a) /\ DOMAIN t \subseteq DOMAIN Append(t, a)
        BY Appended
      <3>2. QED  BY <3>1, Appended DEF ToSet
    <2>3. QED  BY <2>1, <2>2
  <1> DEFINE T == {t \in Seq(A) : ToSet(Kept(t, S)) = ToSet(t) \cap S}
  <1>3. <<>> \in T
    BY <1>1, EmptySeq, KeptNothing
  <1>4. ASSUME NEW t \in Seq(A), NEW a \in A, t \in T PROVE Append(t, a) \in T
    <2>1. ToSet(Append(t, a)) = ToSet(t) \union {a} /\ Append(t, a) \in Seq(A)
      BY <1>2, Appended
    <2>2. Kept(t, S) \in Seq(A)
      BY KeptTyped
    <2>3. ToSet(Append(Kept(t, S), a)) = ToSet(Kept(t, S)) \union {a}
      BY <1>2, <2>2
    <2>4. Kept(Append(t, a), S) = IF a \in S THEN Append(Kept(t, S), a) ELSE Kept(t, S)
      BY KeptAppend
    <2>5. ToSet(Kept(t, S)) = ToSet(t) \cap S
      BY <1>4
    <2>6. QED  BY <2>1, <2>3, <2>4, <2>5
  <1> HIDE DEF T
  <1>5. s \in T
    BY <1>3, <1>4, SequenceInduction
  <1>6. QED  BY <1>5 DEF T

(* What is selected and what is not are together as many as there are.     *)
LEMMA KeptLengths ==
  ASSUME NEW A, NEW s \in Seq(A), NEW S, NEW T, \A x \in ToSet(s) : x \in T <=> x \notin S
  PROVE  Len(Kept(s, S)) + Len(Kept(s, T)) = Len(s)
  <1> DEFINE U == {t \in Seq(A) : (\A x \in ToSet(t) : x \in T <=> x \notin S)
                                    => Len(Kept(t, S)) + Len(Kept(t, T)) = Len(t)}
  <1>1. <<>> \in U
    BY EmptySeq, KeptNothing
  <1>2. ASSUME NEW t \in Seq(A), NEW a \in A, t \in U PROVE Append(t, a) \in U
    <2>1. /\ Append(t, a) \in Seq(A) /\ Len(Append(t, a)) = Len(t) + 1 /\ Len(t) \in Nat
          /\ \A x \in ToSet(t) : x \in ToSet(Append(t, a))
          /\ a \in ToSet(Append(t, a))
      BY Appended, LenProperties DEF ToSet
    <2>2. /\ Kept(Append(t, a), S) = IF a \in S THEN Append(Kept(t, S), a) ELSE Kept(t, S)
          /\ Kept(Append(t, a), T) = IF a \in T THEN Append(Kept(t, T), a) ELSE Kept(t, T)
      BY KeptAppend
    <2>3. /\ Kept(t, S) \in Seq(A) /\ Kept(t, T) \in Seq(A)
          /\ Len(Kept(t, S)) \in Nat /\ Len(Kept(t, T)) \in Nat
      BY KeptTyped, LenProperties
    <2>4. /\ Len(Append(Kept(t, S), a)) = Len(Kept(t, S)) + 1
          /\ Len(Append(Kept(t, T), a)) = Len(Kept(t, T)) + 1
      BY <2>3, Appended
    <2> SUFFICES ASSUME \A x \in ToSet(Append(t, a)) : x \in T <=> x \notin S
                 PROVE  Len(Kept(Append(t, a), S)) + Len(Kept(Append(t, a), T)) = Len(Append(t, a))
      BY <2>1
    <2>5. Len(Kept(t, S)) + Len(Kept(t, T)) = Len(t) /\ (a \in T <=> a \notin S)
      BY <1>2, <2>1
    <2>6. CASE a \in S
      <3>1. /\ Len(Kept(Append(t, a), S)) = Len(Kept(t, S)) + 1
            /\ Len(Kept(Append(t, a), T)) = Len(Kept(t, T))
        BY <2>2, <2>4, <2>5, <2>6
      <3>2. PICK k, m, n \in Nat : k = Len(t) /\ m = Len(Kept(t, S)) /\ n = Len(Kept(t, T))
        BY <2>1, <2>3, Zenon
      <3>3. m + n = k
        BY <2>5, <3>2, Zenon
      <3>4. Len(Append(t, a)) = k + 1
        BY <2>1, <3>2, Zenon
      <3>5. /\ Len(Kept(Append(t, a), S)) = m + 1
            /\ Len(Kept(Append(t, a), T)) = n
        BY <3>1, <3>2, Zenon
      <3>6. (m + 1) + n = k + 1
        BY <3>3
      <3>7. QED  BY <3>4, <3>5, <3>6, Zenon
    <2>7. CASE a \notin S
      <3>1. /\ Len(Kept(Append(t, a), S)) = Len(Kept(t, S))
            /\ Len(Kept(Append(t, a), T)) = Len(Kept(t, T)) + 1
        BY <2>2, <2>4, <2>5, <2>7
      <3>2. PICK k, m, n \in Nat : k = Len(t) /\ m = Len(Kept(t, S)) /\ n = Len(Kept(t, T))
        BY <2>1, <2>3, Zenon
      <3>3. m + n = k
        BY <2>5, <3>2, Zenon
      <3>4. Len(Append(t, a)) = k + 1
        BY <2>1, <3>2, Zenon
      <3>5. /\ Len(Kept(Append(t, a), S)) = m
            /\ Len(Kept(Append(t, a), T)) = n + 1
        BY <3>1, <3>2, Zenon
      <3>6. m + (n + 1) = k + 1
        BY <3>3
      <3>7. QED  BY <3>4, <3>5, <3>6, Zenon
    <2>8. QED  BY <2>6, <2>7
  <1> HIDE DEF U
  <1>3. s \in U
    BY <1>1, <1>2, SequenceInduction
  <1>4. QED  BY <1>3 DEF U

-----------------------------------------------------------------------------
(* The builders.                                                           *)

LEMMA ServicePorts ==
  ASSUME NEW type \in {"ClusterIP", "NodePort"}, NEW ports \in Seq(Port)
  PROVE  PortList(ServiceOf(type, ports)) = ports
  <1>1. CASE ports = <<>>
    BY <1>1 DEF PortList, ServiceOf
  <1>2. CASE ports # <<>>
    <2> DEFINE service == [type |-> type, ports |-> ports]
    <2>1. ServiceOf(type, ports) = service /\ service.ports = ports
      BY <1>2 DEF ServiceOf
    <2>2. service # NotNeeded
      BY NotNeededAssumption
    <2>3. QED  BY <2>1, <2>2 DEF PortList
  <1>3. QED  BY <1>1, <1>2

(* What the two Services of a configuration serve: its ports without and   *)
(* with a NodePort.                                                        *)
LEMMA ServedPorts ==
  ASSUME NEW c \in Config
  PROVE  /\ PortsOf(BuildServices(c).base) = {p \in ToSet(c.ports) : HasNoNodePort(p)}
         /\ PortsOf(BuildServices(c).nodeport) = {p \in ToSet(c.ports) : HasNodePort(p)}
         /\ Len(PortList(BuildServices(c).base)) + Len(PortList(BuildServices(c).nodeport))
              = Len(c.ports)
  <1> DEFINE without == {p \in ToSet(c.ports) : HasNoNodePort(p)}
             with == {p \in ToSet(c.ports) : HasNodePort(p)}
  <1>1. c.ports \in Seq(Port)
    BY DEF Config
  <1>2. /\ BuildServices(c).base = ServiceOf("ClusterIP", Kept(c.ports, without))
        /\ BuildServices(c).nodeport = ServiceOf("NodePort", Kept(c.ports, with))
    BY DEF BuildServices
  <1>3. /\ without \subseteq ToSet(c.ports) /\ with \subseteq ToSet(c.ports)
        /\ \A p \in ToSet(c.ports) : p \in with <=> p \notin without
    BY DEF HasNodePort, HasNoNodePort
  <1> HIDE DEF without, with
  <1>4. Kept(c.ports, without) \in Seq(Port) /\ Kept(c.ports, with) \in Seq(Port)
    BY <1>1, KeptTyped
  <1>5. /\ PortList(ServiceOf("ClusterIP", Kept(c.ports, without))) = Kept(c.ports, without)
        /\ PortList(ServiceOf("NodePort", Kept(c.ports, with))) = Kept(c.ports, with)
    BY <1>4, ServicePorts
  <1>6. /\ ToSet(Kept(c.ports, without)) = ToSet(c.ports) \cap without
        /\ ToSet(Kept(c.ports, with)) = ToSet(c.ports) \cap with
    BY <1>1, KeptElements
  <1>7. Len(Kept(c.ports, without)) + Len(Kept(c.ports, with)) = Len(c.ports)
    BY <1>1, <1>3, KeptLengths
  <1>8. QED  BY <1>2, <1>3, <1>5, <1>6, <1>7 DEF PortsOf, without, with

LEMMA EveryPortServedOnce ==
  ASSUME NEW c \in Config
  PROVE  PortsPartitioned(c)
  <1>1. \A p : HasNodePort(p) <=> ~HasNoNodePort(p)
    BY DEF HasNodePort, HasNoNodePort
  <1>2. QED  BY <1>1, ServedPorts DEF PortsPartitioned

(* The Ingress, where one is built.                                        *)
LEMMA IngressRules ==
  ASSUME NEW c \in Config, BuildIngress(c) # NotNeeded
  PROVE  /\ c.hosts # <<>> /\ c.public /\ c.ports # <<>>
         /\ BuildIngress(c) =
              [rules |-> [i \in DOMAIN c.hosts |->
                            [host    |-> c.hosts[i].host,
                             service |-> "base",
                             port    |-> BackendPort(c, c.hosts[i])]]]
  BY DEF BuildIngress, Config

LEMMA DefaultBackendInService ==
  ASSUME NEW c \in Config
  PROVE  DefaultBackendExposedIfClusterIP(c)
  <1> SUFFICES ASSUME \A p \in ToSet(c.ports) : HasNoNodePort(p), BuildIngress(c) # NotNeeded,
                      NEW i \in DOMAIN BuildIngress(c).rules, c.hosts[i].port = NoPort
               PROVE  \E p \in PortsOf(BuildServices(c)[BuildIngress(c).rules[i].service]) :
                         p.port = BuildIngress(c).rules[i].port
    BY DEF DefaultBackendExposedIfClusterIP, DefaultBackendExposed
  <1>1. i \in DOMAIN c.hosts /\ c.ports # <<>>
    BY IngressRules
  <1>2. /\ BuildIngress(c).rules[i].service = "base"
        /\ BuildIngress(c).rules[i].port = c.ports[1].port
    BY <1>1, IngressRules DEF BackendPort
  <1>3. c.ports[1] \in ToSet(c.ports)
    <2>1. c.ports \in Seq(Port)
      BY DEF Config
    <2>2. 1 \in DOMAIN c.ports
      BY <1>1, <2>1, EmptySeq, LenProperties
    <2>3. QED  BY <2>2 DEF ToSet
  <1>4. c.ports[1] \in PortsOf(BuildServices(c).base)
    BY <1>3, ServedPorts
  <1>5. QED  BY <1>2, <1>4

(* Where an Ingress can be built the error is not what comes out.          *)
LEMMA IngressBuilt ==
  ASSUME NEW c \in Config, c.hosts # <<>>, c.ports # <<>>, c.public
  PROVE  BuildIngress(c) # NotNeeded
  <1> DEFINE Rule == [host : Hosts, service : Services, port : PortNumbers]
             rules == [i \in DOMAIN c.hosts |-> [host    |-> c.hosts[i].host,
                                                 service |-> "base",
                                                 port    |-> BackendPort(c, c.hosts[i])]]
  <1>1. c.ports \in Seq(Port) /\ c.hosts \in Seq(Host)
    BY DEF Config
  <1>2. c.ports[1].port \in PortNumbers
    <2>1. 1 \in DOMAIN c.ports
      BY <1>1, EmptySeq, LenProperties
    <2>2. c.ports[1] \in Port
      BY <1>1, <2>1, LenProperties
    <2>3. QED  BY <2>2 DEF Port
  <1>3. ASSUME NEW i \in DOMAIN c.hosts PROVE rules[i] \in Rule
    <2>1. c.hosts[i] \in Host
      BY <1>1, LenProperties
    <2>2. c.hosts[i].host \in Hosts /\ BackendPort(c, c.hosts[i]) \in PortNumbers
      BY <1>2, <2>1 DEF Host, BackendPort
    <2>3. QED  BY <2>2 DEF Services
  <1>4. DOMAIN c.hosts = 1 .. Len(c.hosts) /\ Len(c.hosts) \in Nat
    BY <1>1, LenProperties
  <1>5. rules \in Seq(Rule)
    <2>1. rules = [i \in 1 .. Len(c.hosts) |-> rules[i]]
      BY <1>4
    <2>2. \A i \in 1 .. Len(c.hosts) : rules[i] \in Rule
      BY <1>3, <1>4
    <2> HIDE DEF rules, Rule
    <2>3. QED  BY <1>4, <2>1, <2>2, IsASeq
  <1>6. BuildIngress(c) = [rules |-> rules]
    BY DEF BuildIngress
  <1> HIDE DEF rules
  <1>7. [rules |-> rules] \in [rules : Seq(Rule)]
    BY <1>5
  <1>8. QED  BY <1>6, <1>7, NotNeededAssumption

LEMMA RoutedAnnouncedOf ==
  ASSUME NEW c \in Config
  PROVE  RoutedHostsAnnounced(c)
  <1>1. c.hosts \in Seq(Host) /\ c.public \in BOOLEAN
    BY DEF Config
  <1>2. CASE BuildIngress(c) # NotNeeded
    <2> DEFINE rules == [i \in DOMAIN c.hosts |-> [host    |-> c.hosts[i].host,
                                                   service |-> "base",
                                                   port    |-> BackendPort(c, c.hosts[i])]]
    <2>1. BuildIngress(c).rules = rules
      BY <1>2, IngressRules
    <2>2. NewURLs(c) = [i \in DOMAIN c.hosts |-> c.hosts[i].host]
      BY <1>2, IngressRules DEF NewURLs, URLOf
    <2>3. /\ DOMAIN rules = DOMAIN c.hosts
          /\ \A i \in DOMAIN c.hosts : rules[i].host = c.hosts[i].host
      OBVIOUS
    <2> HIDE DEF rules
    <2>4. [i \in DOMAIN rules |-> rules[i].host] = [i \in DOMAIN c.hosts |-> c.hosts[i].host]
      BY <2>3
    <2>5. NewURLs(c) = RoutedHosts(c)
      BY <1>2, <2>1, <2>2, <2>4 DEF RoutedHosts
    <2>6. QED  BY <1>2, <2>5, IngressRules DEF RoutedHostsAnnounced
  <1>3. CASE BuildIngress(c) = NotNeeded /\ c.hosts # <<>> /\ c.public
    <2>1. c.ports = <<>>
      BY <1>3, IngressBuilt
    <2>2. NewURLs(c) # <<>>
      <3>1. NewURLs(c) = [i \in DOMAIN c.hosts |-> URLOf(c.hosts[i])]
        BY <1>3 DEF NewURLs
      <3>2. 1 \in DOMAIN c.hosts
        BY <1>1, <1>3, EmptySeq, LenProperties
      <3>3. DOMAIN NewURLs(c) # DOMAIN <<>>
        BY <3>1, <3>2, EmptySeq, LenProperties
      <3>4. QED  BY <3>3
    <2>3. RoutedHosts(c) = <<>>
      BY <1>3 DEF RoutedHosts
    <2>4. QED  BY <1>3, <2>1, <2>2, <2>3 DEF RoutedHostsAnnounced
  <1>4. CASE BuildIngress(c) = NotNeeded /\ ~(c.hosts # <<>> /\ c.public)
    BY <1>4 DEF RoutedHosts, NewURLs, RoutedHostsAnnounced
  <1>5. QED  BY <1>2, <1>3, <1>4

-----------------------------------------------------------------------------
(* The sequence of sequences that a container's command is, as one.        *)

FlatUpTo(seqs) ==
  LET flatten[i \in 1 .. Len(seqs)] == IF i = 1 THEN seqs[i] ELSE flatten[i - 1] \o seqs[i]
  IN  flatten

(* A set of sequences that has the concatenations of its members.          *)
Closed(B) ==
  <<>> \in B /\ \A r, s \in B : r \o s \in B /\ <<>> \o r = r /\ r \o <<>> = r

LEMMA SequencesClosed ==
  ASSUME NEW A
  PROVE  Closed(Seq(A))
  BY EmptySeq, ConcatProperties, ConcatEmptySeq DEF Closed

LEMMA FlatUpToDef ==
  ASSUME NEW B, Closed(B), NEW ss \in Seq(B)
  PROVE  FlatUpTo(ss) =
           [i \in 1 .. Len(ss) |-> IF i = 1 THEN ss[i] ELSE FlatUpTo(ss)[i - 1] \o ss[i]]
  <1> DEFINE Body(g) == [i \in 1 .. Len(ss) |-> IF i = 1 THEN ss[i] ELSE g[i - 1] \o ss[i]]
             step == [i \in 1 .. Len(ss) |-> [r \in B |-> r \o ss[i]]]
  <1>1. Len(ss) \in Nat /\ <<>> \in B /\ \A i \in 1 .. Len(ss) : ss[i] \in B
    BY LenProperties DEF Closed
  <1>2. FlatUpTo(ss) = CHOOSE g : g = Body(g)
    BY DEF FlatUpTo
  <1>3. \A i \in 1 .. Len(ss), r \in B : r \o ss[i] \in B
    BY <1>1 DEF Closed
  <1>4. step \in [1 .. Len(ss) -> [B -> B]]
    BY <1>3
  <1>5. \A i \in 1 .. Len(ss), r \in B : step[i][r] = r \o ss[i]
    OBVIOUS
  <1> HIDE DEF step
  <1>6. PICK f \in [0 .. Len(ss) -> B] :
           f[0] = <<>> /\ \A i \in 1 .. Len(ss) : f[i] = step[i][f[i - 1]]
    <2> DEFINE X == B
               n == Len(ss)
               e == <<>>
    <2>1. e \in X /\ n \in Nat /\ step \in [1 .. n -> [X -> X]]
      BY <1>1, <1>4
    <2> SUFFICES \E f \in [0 .. n -> X] : f[0] = e /\ \A i \in 1 .. n : f[i] = step[i][f[i - 1]]
      OBVIOUS
    <2> HIDE DEF X, n, e
    <2>2. QED  BY <2>1, Recursion
  <1> DEFINE g == [i \in 1 .. Len(ss) |-> f[i]]
  <1>7. g = Body(g)
    <2>1. ASSUME NEW i \in 1 .. Len(ss)
          PROVE  f[i] = IF i = 1 THEN ss[i] ELSE g[i - 1] \o ss[i]
      <3>1. i - 1 \in 0 .. Len(ss) /\ f[i - 1] \in B
        BY <1>1, <1>6
      <3>2. f[i] = f[i - 1] \o ss[i]
        BY <1>5, <1>6, <3>1
      <3>3. CASE i = 1
        <4>1. i - 1 = 0 /\ ss[i] \in B
          BY <1>1, <3>3
        <4>2. f[i - 1] = <<>>
          BY <1>6, <4>1
        <4>3. f[i] = ss[i]
          BY <3>2, <4>1, <4>2 DEF Closed
        <4>4. QED  BY <3>3, <4>3
      <3>4. CASE i # 1
        <4>1. i - 1 \in 1 .. Len(ss)
          BY <1>1, <3>4
        <4>2. QED  BY <3>2, <3>4, <4>1
      <3>5. QED  BY <3>3, <3>4
    <2>2. QED  BY <2>1
  <1> HIDE DEF Body, g
  <1>8. FlatUpTo(ss) = Body(FlatUpTo(ss))
    BY <1>2, <1>7
  <1>9. QED  BY <1>8 DEF Body

LEMMA FlatUpToStep ==
  ASSUME NEW B, Closed(B), NEW ss \in Seq(B)
  PROVE  /\ 1 <= Len(ss) => FlatUpTo(ss)[1] = ss[1]
         /\ \A n \in Nat \ {0} : n + 1 <= Len(ss) =>
              FlatUpTo(ss)[n + 1] = FlatUpTo(ss)[n] \o ss[n + 1]
  <1> DEFINE f == FlatUpTo(ss)
  <1>1. Len(ss) \in Nat
    BY LenProperties
  <1>2. f = [i \in 1 .. Len(ss) |-> IF i = 1 THEN ss[i] ELSE f[i - 1] \o ss[i]]
    BY FlatUpToDef
  <1> HIDE DEF f
  <1>3. 1 <= Len(ss) => f[1] = ss[1]
    BY <1>1, <1>2
  <1>4. ASSUME NEW n \in Nat \ {0}, n + 1 <= Len(ss) PROVE f[n + 1] = f[n] \o ss[n + 1]
    <2>1. n + 1 \in 1 .. Len(ss) /\ n + 1 # 1 /\ (n + 1) - 1 = n
      BY <1>1, <1>4
    <2>2. QED  BY <1>2, <2>1
  <1>5. QED  BY <1>3, <1>4 DEF f

LEMMA FlattenAppend ==
  ASSUME NEW B, Closed(B), NEW ss \in Seq(B), NEW s \in B
  PROVE  FlattenSeq(Append(ss, s)) = FlattenSeq(ss) \o s
  <1> DEFINE tt == Append(ss, s)
             f == FlatUpTo(ss)
             g == FlatUpTo(tt)
             S == {n \in Nat : n + 1 <= Len(ss) => f[n + 1] = g[n + 1]}
  <1>1. /\ tt \in Seq(B) /\ Len(ss) \in Nat /\ Len(tt) = Len(ss) + 1 /\ tt[Len(ss) + 1] = s
        /\ \A i \in 1 .. Len(ss) : tt[i] = ss[i]
    BY Appended
  <1>2. /\ FlattenSeq(ss) = IF Len(ss) = 0 THEN ss ELSE f[Len(ss)]
        /\ FlattenSeq(tt) = IF Len(tt) = 0 THEN tt ELSE g[Len(tt)]
    BY DEF FlattenSeq, FlatUpTo
  <1> HIDE DEF tt
  <1>3. /\ 1 <= Len(ss) => f[1] = ss[1]
        /\ \A n \in Nat \ {0} : n + 1 <= Len(ss) => f[n + 1] = f[n] \o ss[n + 1]
        /\ 1 <= Len(tt) => g[1] = tt[1]
        /\ \A n \in Nat \ {0} : n + 1 <= Len(tt) => g[n + 1] = g[n] \o tt[n + 1]
    BY <1>1, FlatUpToStep
  <1> HIDE DEF f, g
  <1>4. 0 \in S
    BY <1>1, <1>3
  <1>5. ASSUME NEW n \in Nat, n \in S PROVE n + 1 \in S
    <2> SUFFICES ASSUME (n + 1) + 1 <= Len(ss) PROVE f[(n + 1) + 1] = g[(n + 1) + 1]
      OBVIOUS
    <2>1. /\ n + 1 \in Nat \ {0} /\ n + 1 <= Len(ss) /\ (n + 1) + 1 <= Len(tt)
          /\ (n + 1) + 1 \in 1 .. Len(ss)
      BY <1>1
    <2>2. f[n + 1] = g[n + 1]
      BY <1>5, <2>1
    <2>3. QED  BY <1>1, <1>3, <2>1, <2>2
  <1> HIDE DEF S
  <1>6. Nat \subseteq S
    BY <1>4, <1>5, Induction
  <1>7. CASE Len(ss) = 0
    <2>1. ss = <<>>
      BY <1>7, EmptySeq
    <2>2. FlattenSeq(tt) = s
      BY <1>1, <1>2, <1>3, <1>7
    <2>3. <<>> \o s = s
      BY DEF Closed
    <2>4. QED  BY <1>2, <1>7, <2>1, <2>2, <2>3 DEF tt
  <1>8. CASE Len(ss) # 0
    <2>1. Len(ss) - 1 \in Nat /\ (Len(ss) - 1) + 1 = Len(ss)
      BY <1>1, <1>8
    <2>2. Len(ss) - 1 \in S
      BY <1>6, <2>1
    <2>3. f[(Len(ss) - 1) + 1] = g[(Len(ss) - 1) + 1]
      BY <2>1, <2>2 DEF S
    <2>4. f[Len(ss)] = g[Len(ss)]
      BY <2>1, <2>3
    <2>5. Len(ss) \in Nat \ {0} /\ Len(ss) + 1 <= Len(tt)
      BY <1>1, <1>8
    <2>6. g[Len(ss) + 1] = g[Len(ss)] \o tt[Len(ss) + 1]
      BY <1>3, <2>5
    <2>7. FlattenSeq(ss) = f[Len(ss)] /\ FlattenSeq(tt) = g[Len(ss) + 1]
      BY <1>1, <1>2, <2>5
    <2>8. FlattenSeq(tt) = FlattenSeq(ss) \o s
      BY <1>1, <2>4, <2>6, <2>7
    <2>9. QED  BY <2>8 DEF tt
  <1>9. QED  BY <1>7, <1>8

LEMMA FlattenNothing == FlattenSeq(<<>>) = <<>>
  BY EmptySeq DEF FlattenSeq

LEMMA FlattenTyped ==
  ASSUME NEW B, Closed(B), NEW ss \in Seq(B)
  PROVE  FlattenSeq(ss) \in B
  <1> DEFINE T == {tt \in Seq(B) : FlattenSeq(tt) \in B}
  <1>1. <<>> \in T
    BY EmptySeq, FlattenNothing DEF Closed
  <1>2. ASSUME NEW tt \in Seq(B), NEW s \in B, tt \in T PROVE Append(tt, s) \in T
    <2>1. FlattenSeq(tt) \o s \in B
      BY <1>2 DEF Closed
    <2>2. QED  BY <2>1, Appended, FlattenAppend
  <1> HIDE DEF T
  <1>3. ss \in T
    BY <1>1, <1>2, SequenceInduction
  <1>4. QED  BY <1>3 DEF T

-----------------------------------------------------------------------------
(* parseCommand: the loop over the characters.                             *)

LoopState == [words : Seq(Seq(Chars)), current : Seq(Chars), quote : Quotes \union {NoQuote}]

LEMMA StartTyped == Start \in LoopState
  <1>1. <<>> \in Seq(Seq(Chars)) /\ <<>> \in Seq(Chars)
    BY EmptySeq
  <1>2. QED  BY <1>1 DEF Start, LoopState

LEMMA EndWordFacts ==
  ASSUME NEW s \in LoopState
  PROVE  /\ EndWord(s) \in LoopState /\ EndWord(s).quote = s.quote /\ EndWord(s).current = <<>>
         /\ EndWord(s).words = IF s.current = <<>> THEN s.words ELSE Append(s.words, s.current)
  <1>1. s.words \in Seq(Seq(Chars)) /\ s.current \in Seq(Chars) /\ <<>> \in Seq(Chars)
    BY EmptySeq DEF LoopState
  <1>2. Append(s.words, s.current) \in Seq(Seq(Chars))
    <2> DEFINE B == Seq(Chars)
    <2> HIDE DEF B
    <2>1. s.words \in Seq(B) /\ s.current \in B => Append(s.words, s.current) \in Seq(B)
      BY AppendProperties
    <2>2. QED  BY <1>1, <2>1 DEF B
  <1>3. CASE s.current = <<>>
    BY <1>3 DEF EndWord
  <1>4. CASE s.current # <<>>
    <2>1. EndWord(s) = [s EXCEPT !.words = Append(s.words, s.current), !.current = <<>>]
      BY <1>4 DEF EndWord
    <2>2. QED  BY <1>1, <1>2, <1>4, <2>1 DEF LoopState
  <1>5. QED  BY <1>3, <1>4

(* What one character does, a conjunct per case of the switch.             *)
LEMMA ReadFacts ==
  ASSUME NEW s \in LoopState, NEW c \in Chars
  PROVE  /\ Read(s, c) \in LoopState
         /\ c \in Quotes /\ s.quote = c =>
              Read(s, c).words = s.words /\ Read(s, c).current = s.current
                /\ Read(s, c).quote = NoQuote
         /\ c \in Quotes /\ s.quote = NoQuote =>
              Read(s, c).words = s.words /\ Read(s, c).current = s.current
                /\ Read(s, c).quote = c
         /\ c = "space" /\ s.quote = NoQuote =>
              Read(s, c) = EndWord(s)
         /\ ~(c \in Quotes /\ s.quote \in {c, NoQuote}) /\ ~(c = "space" /\ s.quote = NoQuote) =>
              Read(s, c).words = s.words /\ Read(s, c).current = Append(s.current, c)
                /\ Read(s, c).quote = s.quote
  <1>1. NoQuote \notin Quotes /\ "space" \notin Quotes
    BY DEF NoQuote, Quotes
  <1>2. /\ s.words \in Seq(Seq(Chars)) /\ s.current \in Seq(Chars)
        /\ s.quote \in Quotes \union {NoQuote}
    BY DEF LoopState
  <1>3. CASE c \in Quotes /\ s.quote = c
    <2>1. Read(s, c) = [s EXCEPT !.quote = NoQuote]
      BY <1>1, <1>3 DEF Read
    <2>2. QED  BY <1>1, <1>2, <1>3, <2>1 DEF LoopState
  <1>4. CASE c \in Quotes /\ s.quote = NoQuote
    <2>1. Read(s, c) = [s EXCEPT !.quote = c]
      BY <1>1, <1>4 DEF Read
    <2>2. QED  BY <1>1, <1>2, <1>4, <2>1 DEF LoopState
  <1>5. CASE c = "space" /\ s.quote = NoQuote
    <2>1. Read(s, c) = EndWord(s)
      BY <1>1, <1>5 DEF Read
    <2>2. QED  BY <1>1, <1>5, <2>1, EndWordFacts
  <1>6. CASE ~(c \in Quotes /\ s.quote \in {c, NoQuote}) /\ ~(c = "space" /\ s.quote = NoQuote)
    <2>1. Read(s, c) = [s EXCEPT !.current = Append(s.current, c)]
      BY <1>6 DEF Read
    <2>2. Append(s.current, c) \in Seq(Chars)
      BY <1>2, AppendProperties
    <2>3. QED  BY <1>1, <1>2, <1>6, <2>1, <2>2 DEF LoopState
  <1>7. QED  BY <1>3, <1>4, <1>5, <1>6

LEMMA LoopDef ==
  ASSUME NEW text \in Seq(Chars)
  PROVE  Loop(text) =
           [i \in 0 .. Len(text) |-> IF i = 0 THEN Start ELSE Read(Loop(text)[i - 1], text[i])]
  <1> DEFINE Body(g) ==
               [i \in 0 .. Len(text) |-> IF i = 0 THEN Start ELSE Read(g[i - 1], text[i])]
             step == [i \in 1 .. Len(text) |-> [s \in LoopState |-> Read(s, text[i])]]
  <1>1. Len(text) \in Nat /\ \A i \in 1 .. Len(text) : text[i] \in Chars
    BY LenProperties
  <1>2. Loop(text) = CHOOSE g : g = Body(g)
    BY DEF Loop
  <1>3. \A i \in 1 .. Len(text), s \in LoopState : Read(s, text[i]) \in LoopState
    BY <1>1, ReadFacts
  <1>4. step \in [1 .. Len(text) -> [LoopState -> LoopState]]
    BY <1>3
  <1>5. \A i \in 1 .. Len(text), s \in LoopState : step[i][s] = Read(s, text[i])
    OBVIOUS
  <1> HIDE DEF step
  <1>6. PICK f \in [0 .. Len(text) -> LoopState] :
           f[0] = Start /\ \A i \in 1 .. Len(text) : f[i] = step[i][f[i - 1]]
    <2> DEFINE X == LoopState
               n == Len(text)
               e == Start
    <2>1. e \in X /\ n \in Nat /\ step \in [1 .. n -> [X -> X]]
      BY <1>1, <1>4, StartTyped
    <2> SUFFICES \E f \in [0 .. n -> X] : f[0] = e /\ \A i \in 1 .. n : f[i] = step[i][f[i - 1]]
      OBVIOUS
    <2> HIDE DEF X, n, e
    <2>2. QED  BY <2>1, Recursion
  <1>7. f = Body(f)
    <2>1. ASSUME NEW i \in 1 .. Len(text) PROVE f[i] = Read(f[i - 1], text[i])
      <3>1. i - 1 \in 0 .. Len(text)
        BY <1>1
      <3>2. QED  BY <1>5, <1>6, <3>1
    <2>2. \A i \in 0 .. Len(text) : i = 0 \/ i \in 1 .. Len(text)
      BY <1>1
    <2>3. \A i \in 0 .. Len(text) : f[i] = IF i = 0 THEN Start ELSE Read(f[i - 1], text[i])
      BY <1>6, <2>1, <2>2
    <2>4. QED  BY <2>3
  <1> HIDE DEF Body
  <1>8. Loop(text) = Body(Loop(text))
    BY <1>2, <1>7
  <1>9. QED  BY <1>8 DEF Body

LEMMA LoopStep ==
  ASSUME NEW text \in Seq(Chars)
  PROVE  /\ Loop(text)[0] = Start
         /\ \A n \in Nat : n + 1 <= Len(text) =>
              Loop(text)[n + 1] = Read(Loop(text)[n], text[n + 1])
  <1> DEFINE f == Loop(text)
  <1>1. Len(text) \in Nat
    BY LenProperties
  <1>2. f = [i \in 0 .. Len(text) |-> IF i = 0 THEN Start ELSE Read(f[i - 1], text[i])]
    BY LoopDef
  <1> HIDE DEF f
  <1>3. f[0] = Start
    BY <1>1, <1>2
  <1>4. ASSUME NEW n \in Nat, n + 1 <= Len(text) PROVE f[n + 1] = Read(f[n], text[n + 1])
    <2>1. n + 1 \in 0 .. Len(text) /\ n + 1 # 0 /\ (n + 1) - 1 = n
      BY <1>1, <1>4
    <2>2. QED  BY <1>2, <2>1
  <1>5. QED  BY <1>3, <1>4 DEF f

LEMMA AfterNothing == After(<<>>) = Start
  <1>1. <<>> \in Seq(Chars) /\ Len(<<>>) = 0
    BY EmptySeq
  <1>2. Loop(<<>>)[0] = Start
    BY <1>1, LoopStep
  <1>3. QED  BY <1>1, <1>2 DEF After

LEMMA AfterAppend ==
  ASSUME NEW text \in Seq(Chars), NEW c \in Chars
  PROVE  After(Append(text, c)) = Read(After(text), c)
  <1> DEFINE tt == Append(text, c)
             f == Loop(text)
             g == Loop(tt)
             S == {n \in Nat : n <= Len(text) => f[n] = g[n]}
  <1>1. /\ tt \in Seq(Chars) /\ Len(text) \in Nat /\ Len(tt) = Len(text) + 1
        /\ tt[Len(text) + 1] = c /\ \A i \in 1 .. Len(text) : tt[i] = text[i]
    BY Appended
  <1> HIDE DEF tt
  <1>2. /\ f[0] = Start /\ g[0] = Start
        /\ \A n \in Nat : n + 1 <= Len(text) => f[n + 1] = Read(f[n], text[n + 1])
        /\ \A n \in Nat : n + 1 <= Len(tt) => g[n + 1] = Read(g[n], tt[n + 1])
    BY <1>1, LoopStep
  <1> HIDE DEF f, g
  <1>3. 0 \in S
    BY <1>2
  <1>4. ASSUME NEW n \in Nat, n \in S PROVE n + 1 \in S
    <2> SUFFICES ASSUME n + 1 <= Len(text) PROVE f[n + 1] = g[n + 1]
      OBVIOUS
    <2>1. n + 1 \in 1 .. Len(text) /\ n + 1 <= Len(tt) /\ f[n] = g[n]
      BY <1>1, <1>4
    <2>2. QED  BY <1>1, <1>2, <2>1
  <1> HIDE DEF S
  <1>5. Len(text) \in S
    BY <1>1, <1>3, <1>4, Induction
  <1>6. f[Len(text)] = g[Len(text)]
    BY <1>1, <1>5 DEF S
  <1>7. g[Len(text) + 1] = Read(f[Len(text)], c)
    BY <1>1, <1>2, <1>6
  <1>8. QED  BY <1>1, <1>7 DEF After, f, g, tt

LEMMA AfterTyped ==
  ASSUME NEW text \in Seq(Chars)
  PROVE  After(text) \in LoopState
  <1> DEFINE T == {t \in Seq(Chars) : After(t) \in LoopState}
  <1>1. <<>> \in T
    BY EmptySeq, AfterNothing, StartTyped
  <1>2. \A t \in Seq(Chars), c \in Chars : t \in T => Append(t, c) \in T
    BY AfterAppend, ReadFacts, Appended
  <1> HIDE DEF T
  <1>3. text \in T
    BY <1>1, <1>2, SequenceInduction
  <1>4. QED  BY <1>3 DEF T

-----------------------------------------------------------------------------
(* parseCommand loses no letter and no operator.                           *)

Substances == Letters \union {"operator"}

(* The characters of a container's command: those of the text and the      *)
(* shell in front of it.                                                   *)
Texts == Chars \union {"sh", "/bin/sh", "-c"}

LEMMA SubstanceFacts ==
  /\ Substances \subseteq Chars /\ Chars \subseteq Texts
  /\ \A c \in Quotes \union {"space", "sh", "/bin/sh", "-c"} : c \in Texts /\ c \notin Substances
  BY LettersAssumption DEF Substances, Texts, Chars, Quotes

LEMMA SubstanceOf ==
  /\ Substance(<<>>) = <<>>
  /\ \A s \in Seq(Texts) : Substance(s) \in Seq(Texts)
  /\ \A s, t \in Seq(Texts) : Substance(s \o t) = Substance(s) \o Substance(t)
  /\ \A s \in Seq(Texts), c \in Texts :
        Substance(Append(s, c)) = IF c \in Substances THEN Append(Substance(s), c) ELSE Substance(s)
  <1>1. \A s : Substance(s) = Kept(s, Substances)
    BY DEF Substance, Substances
  <1>2. Substance(<<>>) = <<>>
    BY <1>1, KeptNothing
  <1>3. \A s \in Seq(Texts) : Substance(s) \in Seq(Texts)
    BY <1>1, KeptTyped
  <1>4. \A s, t \in Seq(Texts) : Substance(s \o t) = Substance(s) \o Substance(t)
    <2> TAKE s, t \in Seq(Texts)
    <2>1. Kept(s \o t, Substances) = Kept(s, Substances) \o Kept(t, Substances)
      BY KeptConcat
    <2>2. QED  BY <1>1, <2>1
  <1>5. \A s \in Seq(Texts), c \in Texts :
          Substance(Append(s, c)) = IF c \in Substances THEN Append(Substance(s), c) ELSE Substance(s)
    <2> TAKE s \in Seq(Texts), c \in Texts
    <2>1. Kept(Append(s, c), Substances) =
            IF c \in Substances THEN Append(Kept(s, Substances), c) ELSE Kept(s, Substances)
      BY KeptAppend
    <2>2. QED  BY <1>1, <2>1
  <1>6. QED  BY <1>2, <1>3, <1>4, <1>5

LEMMA TextTyped == \A s \in Seq(Chars) : s \in Seq(Texts)
  <1>1. Seq(Chars) \subseteq Seq(Texts)
    BY SubstanceFacts, SeqMonotonic
  <1>2. QED  BY <1>1

LEMMA TrimFacts ==
  ASSUME NEW A, NEW text \in Seq(A), NEW cutset
  PROVE  /\ Trim(text, cutset) \in Seq(A)
         /\ (\A i \in DOMAIN text : text[i] \notin cutset) => Trim(text, cutset) = text
         /\ cutset \cap Substances = {} => Substance(Trim(text, cutset)) = Substance(text)
  <1> DEFINE P == {i \in DOMAIN text : \E j, k \in {n \in DOMAIN text : text[n] \notin cutset} :
                                          j <= i /\ i <= k}
             Q == {i \in DOMAIN text : i \in P /\ text[i] \in Substances}
             R == {i \in DOMAIN text : text[i] \in Substances}
  <1>1. Trim(text, cutset) = KeptAt(text, P)
    BY DEF Trim
  <1>2. \A i \in DOMAIN text : i <= i
    BY LenProperties
  <1>3. \A i \in DOMAIN text : text[i] \notin cutset => i \in P
    BY <1>2
  <1> HIDE DEF P
  <1>4. Trim(text, cutset) \in Seq(A)
    BY <1>1, KeptAtTyped
  <1>5. (\A i \in DOMAIN text : text[i] \notin cutset) => Trim(text, cutset) = text
    BY <1>1, <1>3, KeptAtAll
  <1>6. ASSUME cutset \cap Substances = {}
        PROVE  Substance(Trim(text, cutset)) = Substance(text)
    <2>1. Q = R
      BY <1>3, <1>6
    <2>2. Kept(KeptAt(text, P), Substances) = KeptAt(text, Q)
      BY KeptOfKeptAt
    <2>3. Kept(text, Substances) = KeptAt(text, R)
      BY DEF Kept
    <2> HIDE DEF Q, R
    <2>4. QED  BY <1>1, <2>1, <2>2, <2>3 DEF Substance, Substances
  <1>7. QED  BY <1>4, <1>5, <1>6

(* The loop's invariant: the substance of what has been read is in the     *)
(* complete words and the current one, in order.                           *)
Gathered(s) == Substance(FlattenSeq(s.words) \o s.current)

LEMMA EndWordGathers ==
  ASSUME NEW s \in LoopState
  PROVE  Substance(FlattenSeq(EndWord(s).words)) = Gathered(s)
  <1> DEFINE B == Seq(Chars)
  <1>1. s.words \in Seq(B) /\ s.current \in B
    BY DEF LoopState
  <1>2. Closed(B)
    BY SequencesClosed
  <1> HIDE DEF B
  <1>3. FlattenSeq(s.words) \in B
    BY <1>1, <1>2, FlattenTyped
  <1>4. CASE s.current = <<>>
    <2>1. FlattenSeq(s.words) \o s.current = FlattenSeq(s.words)
      BY <1>2, <1>3, <1>4 DEF Closed
    <2>2. QED  BY <1>4, <2>1, EndWordFacts DEF Gathered
  <1>5. CASE s.current # <<>>
    <2>1. FlattenSeq(Append(s.words, s.current)) = FlattenSeq(s.words) \o s.current
      BY <1>1, <1>2, FlattenAppend
    <2>2. QED  BY <1>5, <2>1, EndWordFacts DEF Gathered
  <1>6. QED  BY <1>4, <1>5

LEMMA ReadGathers ==
  ASSUME NEW s \in LoopState, NEW c \in Chars
  PROVE  Gathered(Read(s, c)) = IF c \in Substances THEN Append(Gathered(s), c) ELSE Gathered(s)
  <1> DEFINE B == Seq(Chars)
             flat == FlattenSeq(s.words)
  <1>1. s.words \in Seq(B) /\ s.current \in B
    BY DEF LoopState
  <1>2. Closed(B)
    BY SequencesClosed
  <1>3. flat \in Seq(Chars) /\ s.current \in Seq(Chars) /\ flat \o s.current \in Seq(Chars)
    <2> HIDE DEF B
    <2>1. flat \in B
      BY <1>1, <1>2, FlattenTyped
    <2>2. QED  BY <1>1, <1>2, <2>1 DEF B, Closed
  <1> HIDE DEF B
  <1>4. c \in Quotes \/ c = "space" => c \notin Substances
    BY SubstanceFacts
  <1>5. CASE c \in Quotes /\ s.quote \in {c, NoQuote}
    BY <1>4, <1>5, ReadFacts DEF Gathered
  <1>6. CASE c = "space" /\ s.quote = NoQuote
    <2>1. Read(s, c) = EndWord(s) /\ EndWord(s).current = <<>> /\ EndWord(s) \in LoopState
      BY <1>6, ReadFacts, EndWordFacts
    <2>2. EndWord(s).words \in Seq(B)
      BY <2>1 DEF LoopState, B
    <2>3. FlattenSeq(EndWord(s).words) \o <<>> = FlattenSeq(EndWord(s).words)
      BY <1>2, <2>2, FlattenTyped DEF Closed
    <2>4. QED  BY <1>4, <1>6, <2>1, <2>3, EndWordGathers DEF Gathered
  <1>7. CASE ~(c \in Quotes /\ s.quote \in {c, NoQuote}) /\ ~(c = "space" /\ s.quote = NoQuote)
    <2>1. Read(s, c).words = s.words /\ Read(s, c).current = Append(s.current, c)
      BY <1>7, ReadFacts
    <2>2. flat \o Append(s.current, c) = Append(flat \o s.current, c)
      <3> DEFINE p == flat
                 q == s.current
      <3>1. p \in Seq(Chars) /\ q \in Seq(Chars)
        BY <1>3
      <3> HIDE DEF p, q
      <3>2. p \o Append(q, c) = Append(p \o q, c)
        BY <3>1, ConcatAppend
      <3>3. QED  BY <3>2 DEF p, q
    <2>3. flat \o s.current \in Seq(Texts) /\ c \in Texts
      BY <1>3, TextTyped, SubstanceFacts
    <2>4. Substance(Append(flat \o s.current, c)) =
            IF c \in Substances THEN Append(Substance(flat \o s.current), c)
                                ELSE Substance(flat \o s.current)
      BY <2>3, SubstanceOf
    <2>5. QED  BY <2>1, <2>2, <2>4 DEF Gathered
  <1>8. QED  BY <1>5, <1>6, <1>7

LEMMA LoopGathers ==
  ASSUME NEW text \in Seq(Chars)
  PROVE  Gathered(After(text)) = Substance(text)
  <1> DEFINE T == {t \in Seq(Chars) : Gathered(After(t)) = Substance(t)}
  <1>1. <<>> \in T
    <2>1. FlattenSeq(<<>>) \o <<>> = <<>>
      BY FlattenNothing, SequencesClosed DEF Closed
    <2>2. Start.words = <<>> /\ Start.current = <<>>
      BY DEF Start
    <2>3. Gathered(After(<<>>)) = Substance(<<>>)
      BY <2>1, <2>2, AfterNothing DEF Gathered
    <2>4. QED  BY <2>3, EmptySeq
  <1>2. ASSUME NEW t \in Seq(Chars), NEW c \in Chars, t \in T PROVE Append(t, c) \in T
    <2>1. Gathered(Read(After(t), c)) =
            IF c \in Substances THEN Append(Substance(t), c) ELSE Substance(t)
      BY <1>2, AfterTyped, ReadGathers
    <2>2. Substance(Append(t, c)) =
            IF c \in Substances THEN Append(Substance(t), c) ELSE Substance(t)
      BY TextTyped, SubstanceFacts, SubstanceOf
    <2>3. QED  BY <2>1, <2>2, AfterAppend, Appended
  <1> HIDE DEF T
  <1>3. text \in T
    BY <1>1, <1>2, SequenceInduction
  <1>4. QED  BY <1>3 DEF T

(* Trimming the quotes off the words takes no substance.                   *)
LEMMA TrimmedWords ==
  ASSUME NEW words \in Seq(Seq(Chars))
  PROVE  LET trimmed == [i \in DOMAIN words |-> Trim(words[i], Quotes)]
         IN  /\ trimmed \in Seq(Seq(Chars))
             /\ Substance(FlattenSeq(trimmed)) = Substance(FlattenSeq(words))
  <1> DEFINE B == Seq(Chars)
             trimmed(ws) == [i \in DOMAIN ws |-> Trim(ws[i], Quotes)]
             T == {ws \in Seq(B) : trimmed(ws) \in Seq(B) /\
                                   Substance(FlattenSeq(trimmed(ws))) = Substance(FlattenSeq(ws))}
  <1>1. Closed(B) /\ (\A w \in B : w \in Seq(Texts)) /\ words \in Seq(B)
    BY SequencesClosed, TextTyped
  <1>2. Quotes \cap Substances = {}
    BY SubstanceFacts
  <1>3. \A w \in B : Trim(w, Quotes) \in B /\ Substance(Trim(w, Quotes)) = Substance(w)
    BY <1>2, TrimFacts
  <1> HIDE DEF B
  <1>4. <<>> \in T
    <2>1. trimmed(<<>>) = <<>>
      OBVIOUS
    <2>2. QED  BY <2>1, EmptySeq
  <1>5. ASSUME NEW ws \in Seq(B), NEW w \in B, ws \in T PROVE Append(ws, w) \in T
    <2> DEFINE x == Trim(w, Quotes)
               tt == trimmed(ws)
               vs == Append(ws, w)
    <2>1. tt \in Seq(B) /\ x \in B /\ Substance(x) = Substance(w)
      BY <1>3, <1>5
    <2>2. trimmed(vs) = Append(tt, x)
      <3>1. /\ vs \in Seq(B) /\ Len(ws) \in Nat /\ DOMAIN ws = 1 .. Len(ws)
            /\ DOMAIN vs = 1 .. Len(ws) + 1 /\ vs[Len(ws) + 1] = w
            /\ \A i \in 1 .. Len(ws) : vs[i] = ws[i]
            /\ \A i \in 1 .. Len(ws) + 1 : i = Len(ws) + 1 \/ i \in 1 .. Len(ws)
        BY Appended
      <3>2. DOMAIN tt = 1 .. Len(ws) /\ \A i \in 1 .. Len(ws) : tt[i] = Trim(ws[i], Quotes)
        BY <3>1
      <3> HIDE DEF tt, vs, x
      <3>3. Len(tt) = Len(ws)
        BY <2>1, <3>1, <3>2, LenProperties
      <3>4. /\ DOMAIN Append(tt, x) = 1 .. Len(ws) + 1 /\ Append(tt, x)[Len(ws) + 1] = x
            /\ \A i \in 1 .. Len(ws) : Append(tt, x)[i] = tt[i]
            /\ Append(tt, x) \in Seq(B) /\ Len(Append(tt, x)) = Len(ws) + 1
        BY <2>1, <3>3, Appended
      <3>5. Append(tt, x) = [i \in 1 .. Len(ws) + 1 |-> Append(tt, x)[i]]
        BY <3>4, LenProperties
      <3>6. \A i \in 1 .. Len(ws) + 1 : Append(tt, x)[i] = Trim(vs[i], Quotes)
        BY <3>1, <3>2, <3>4 DEF x
      <3>7. QED  BY <3>1, <3>5, <3>6
    <2>3. Append(tt, x) \in Seq(B) /\ vs \in Seq(B)
      BY <2>1, AppendProperties
    <2>4. /\ FlattenSeq(Append(tt, x)) = FlattenSeq(tt) \o x
          /\ FlattenSeq(vs) = FlattenSeq(ws) \o w
      BY <1>1, <2>1, FlattenAppend
    <2>5. FlattenSeq(tt) \in B /\ FlattenSeq(ws) \in B
      BY <1>1, <2>1, FlattenTyped
    <2>6. /\ Substance(FlattenSeq(tt) \o x) = Substance(FlattenSeq(tt)) \o Substance(x)
          /\ Substance(FlattenSeq(ws) \o w) = Substance(FlattenSeq(ws)) \o Substance(w)
      BY <1>1, <2>1, <2>5, SubstanceOf
    <2>7. Substance(FlattenSeq(tt)) = Substance(FlattenSeq(ws))
      BY <1>5
    <2> HIDE DEF tt, x
    <2>8. Substance(FlattenSeq(Append(tt, x))) = Substance(FlattenSeq(vs))
      BY <2>1, <2>4, <2>6, <2>7
    <2>9. QED  BY <2>2, <2>3, <2>8
  <1> HIDE DEF T
  <1>6. words \in T
    BY <1>1, <1>4, <1>5, SequenceInduction
  <1>7. QED  BY <1>6 DEF T, B

LEMMA SplitDelivers ==
  ASSUME NEW text \in Seq(Chars)
  PROVE  /\ Words(text) \in Seq(Seq(Chars)) /\ SplitCommand(text) \in Seq(Seq(Chars))
         /\ Substance(FlattenSeq(SplitCommand(text))) = Substance(text)
  <1>1. EndWord(After(text)) \in LoopState
    BY AfterTyped, EndWordFacts
  <1>2. Words(text) \in Seq(Seq(Chars))
    BY <1>1 DEF LoopState, Words
  <1>3. Substance(FlattenSeq(Words(text))) = Substance(text)
    BY AfterTyped, EndWordGathers, LoopGathers DEF Words
  <1>4. QED  BY <1>2, <1>3, TrimmedWords DEF SplitCommand

LEMMA ThreeParts ==
  ASSUME NEW B, Closed(B), NEW parts \in Seq(B), Len(parts) = 3
  PROVE  FlattenSeq(parts) = (parts[1] \o parts[2]) \o parts[3]
  <1> DEFINE x == parts[1]
             y == parts[2]
             z == parts[3]
  <1>1. x \in B /\ y \in B /\ z \in B /\ parts = <<x, y, z>>
    <2>1. DOMAIN parts = 1 .. 3 /\ \A i \in 1 .. 3 : parts[i] \in B
      BY LenProperties
    <2>2. x \in B /\ y \in B /\ z \in B
      BY <2>1
    <2>3. <<x, y, z>> \in Seq(B) /\ Len(<<x, y, z>>) = 3
      BY <2>2
    <2>4. \A i \in 1 .. 3 : parts[i] = <<x, y, z>>[i]
      OBVIOUS
    <2>5. QED  BY <2>2, <2>3, <2>4, SeqEqual
  <1> HIDE DEF x, y, z
  <1>2. <<>> \in Seq(B) /\ <<x>> \in Seq(B) /\ <<x, y>> \in Seq(B)
    BY <1>1
  <1>3. /\ <<x>> = Append(<<>>, x) /\ <<x, y>> = Append(<<x>>, y)
        /\ <<x, y, z>> = Append(<<x, y>>, z)
    OBVIOUS
  <1>4. /\ FlattenSeq(Append(<<>>, x)) = FlattenSeq(<<>>) \o x
        /\ FlattenSeq(Append(<<x>>, y)) = FlattenSeq(<<x>>) \o y
        /\ FlattenSeq(Append(<<x, y>>, z)) = FlattenSeq(<<x, y>>) \o z
    BY <1>1, <1>2, FlattenAppend
  <1>5. FlattenSeq(<<>>) \o x = x
    BY <1>1, FlattenNothing DEF Closed
  <1>6. QED  BY <1>1, <1>3, <1>4, <1>5 DEF x, y, z

(* A shell command: what stands before its argument has no substance.      *)
LEMMA ShellDelivers ==
  ASSUME NEW shell \in {"sh", "/bin/sh"}, NEW arg \in Seq(Chars)
  PROVE  /\ <<<<shell>>, <<"-c">>, arg>> \in Seq(Seq(Texts))
         /\ Substance(FlattenSeq(<<<<shell>>, <<"-c">>, arg>>)) = Substance(arg)
  <1> DEFINE B == Seq(Texts)
  <1>1. /\ <<shell>> \in B /\ <<"-c">> \in B /\ arg \in B /\ Closed(B)
        /\ <<shell>> = Append(<<>>, shell) /\ <<"-c">> = Append(<<>>, "-c") /\ <<>> \in B
    BY SubstanceFacts, TextTyped, SequencesClosed
  <1>2. Substance(<<shell>>) = <<>> /\ Substance(<<"-c">>) = <<>>
    <2>1. \A c \in {shell, "-c"} : c \in Texts /\ c \notin Substances
      BY SubstanceFacts
    <2>2. \A c \in {shell, "-c"} : Substance(Append(<<>>, c)) = <<>>
      <3> TAKE c \in {shell, "-c"}
      <3>1. Substance(Append(<<>>, c)) =
              IF c \in Substances THEN Append(Substance(<<>>), c) ELSE Substance(<<>>)
        <4> HIDE DEF B
        <4>1. c \in Texts /\ <<>> \in Seq(Texts)
          BY <1>1, <2>1 DEF B
        <4>2. QED  BY <4>1, SubstanceOf
      <3>2. QED  BY <2>1, <3>1, SubstanceOf
    <2>3. QED  BY <1>1, <2>2
  <1>3. /\ <<shell>> \o <<"-c">> \in B
        /\ Substance((<<shell>> \o <<"-c">>) \o arg) = Substance(<<shell>> \o <<"-c">>) \o Substance(arg)
        /\ Substance(<<shell>> \o <<"-c">>) = Substance(<<shell>>) \o Substance(<<"-c">>)
    BY <1>1, SubstanceOf DEF Closed
  <1>4. Substance(arg) \in B
    BY <1>1, SubstanceOf
  <1>5. <<>> \o <<>> = <<>> /\ <<>> \o Substance(arg) = Substance(arg)
    BY <1>1, <1>4 DEF Closed
  <1>6. Substance((<<shell>> \o <<"-c">>) \o arg) = Substance(arg)
    BY <1>2, <1>3, <1>5
  <1> HIDE DEF B
  <1>7. /\ <<<<shell>>, <<"-c">>, arg>> \in Seq(B)
        /\ FlattenSeq(<<<<shell>>, <<"-c">>, arg>>) = (<<shell>> \o <<"-c">>) \o arg
    <2> DEFINE parts == <<<<shell>>, <<"-c">>, arg>>
    <2>1. /\ parts \in Seq(B) /\ Len(parts) = 3
          /\ parts[1] = <<shell>> /\ parts[2] = <<"-c">> /\ parts[3] = arg
      BY <1>1
    <2> HIDE DEF parts
    <2>2. FlattenSeq(parts) = (parts[1] \o parts[2]) \o parts[3]
      BY <1>1, <2>1, ThreeParts
    <2>3. QED  BY <2>1, <2>2 DEF parts
  <1>8. QED  BY <1>6, <1>7 DEF B

(* The quotes around an argument go, its substance stays.                  *)
LEMMA UnquotedDelivers ==
  ASSUME NEW arg \in Seq(Chars), Quoted(arg), Len(arg) # 1
  PROVE  /\ SubSeq(arg, 2, Len(arg) - 1) \in Seq(Chars)
         /\ Substance(SubSeq(arg, 2, Len(arg) - 1)) = Substance(arg)
  <1> DEFINE n == Len(arg)
             q == arg[1]
             inner == SubSeq(arg, 2, n - 1)
             p == Append(<<>>, q)
  <1>1. /\ n \in Nat /\ n # 0 /\ n # 1 /\ q \in Quotes /\ arg[n] = q
        /\ \A i \in 1 .. n : arg[i] \in Chars
    BY EmptySeq, LenProperties DEF Quoted
  <1>2. /\ inner \in Seq(Chars) /\ Len(inner) = n - 2
        /\ \A i \in 1 .. n - 2 : inner[i] = arg[i + 1]
    <2>1. 2 \in Int /\ n - 1 \in Int /\ \A i \in 2 .. n - 1 : arg[i] \in Chars
      BY <1>1
    <2>2. /\ inner \in Seq(Chars)
          /\ Len(inner) = IF 2 <= n - 1 THEN (n - 1) - 2 + 1 ELSE 0
          /\ \A i \in 1 .. (n - 1) - 2 + 1 : inner[i] = arg[2 + i - 1]
      <3> HIDE DEF n
      <3>1. QED  BY <2>1, SubSeqProperties
    <2> HIDE DEF inner, n
    <2>3. \A i \in 1 .. n - 2 : i \in 1 .. (n - 1) - 2 + 1 /\ 2 + i - 1 = i + 1
      BY <1>1
    <2>4. Len(inner) = n - 2
      BY <1>1, <2>2
    <2>5. \A i \in 1 .. n - 2 : inner[i] = arg[i + 1]
      BY <2>2, <2>3
    <2>6. QED  BY <2>2, <2>4, <2>5
  <1>3. <<>> \in Seq(Chars) /\ q \in Chars /\ p \in Seq(Chars) /\ Len(p) = 1 /\ p[1] = q
    BY <1>1 DEF Chars
  <1> HIDE DEF inner, p, q, n
  <1> DEFINE r == p \o inner
  <1>4. /\ r \in Seq(Chars) /\ Len(r) = n - 1 /\ r[1] = q
        /\ \A i \in 2 .. n - 1 : r[i] = arg[i]
    <2>1. /\ r \in Seq(Chars) /\ Len(r) = Len(p) + Len(inner)
          /\ \A i \in 1 .. Len(p) + Len(inner) : r[i] = IF i <= Len(p) THEN p[i] ELSE inner[i - Len(p)]
      <3>1. p \in Seq(Chars) /\ inner \in Seq(Chars)
        BY <1>2, <1>3
      <3>2. QED  BY <3>1, ConcatProperties
    <2>2. \A i \in 1 .. n - 1 : r[i] = IF i <= 1 THEN p[i] ELSE inner[i - 1]
      BY <1>1, <1>2, <1>3, <2>1
    <2>3. ASSUME NEW i \in 2 .. n - 1 PROVE r[i] = arg[i]
      <3>1. i \in 1 .. n - 1 /\ ~(i <= 1) /\ i - 1 \in 1 .. n - 2 /\ (i - 1) + 1 = i
        BY <1>1
      <3>2. inner[i - 1] = arg[i]
        BY <1>2, <3>1
      <3>3. QED  BY <2>2, <3>1, <3>2
    <2>4. 1 \in 1 .. n - 1 /\ Len(r) = n - 1
      BY <1>1, <1>2, <1>3, <2>1
    <2>5. QED  BY <1>3, <2>1, <2>2, <2>3, <2>4
  <1> HIDE DEF r
  <1>5. arg = Append(r, q)
    <2>1. /\ Append(r, q) \in Seq(Chars) /\ Len(Append(r, q)) = n
          /\ \A i \in 1 .. n - 1 : Append(r, q)[i] = r[i]
          /\ Append(r, q)[n] = q
      <3>1. Len(r) + 1 = n
        BY <1>1, <1>4
      <3>2. QED  BY <1>3, <1>4, <3>1, Appended
    <2>2. \A i \in 1 .. n : Append(r, q)[i] = arg[i]
      <3>1. \A i \in 1 .. n : i = 1 \/ i = n \/ i \in 2 .. n - 1
        BY <1>1
      <3>2. 1 \in 1 .. n - 1
        BY <1>1
      <3>3. \A i \in 2 .. n - 1 : i \in 1 .. n - 1
        BY <1>1
      <3>4. arg[1] = q
        BY DEF q
      <3>5. QED  BY <1>1, <1>4, <2>1, <3>1, <3>2, <3>3, <3>4
    <2>3. Len(Append(r, q)) = Len(arg)
      BY <2>1 DEF n
    <2>4. QED  BY <2>1, <2>2, <2>3, SeqEqual DEF n
  <1>6. q \notin Substances /\ Substance(<<>>) = <<>>
    BY <1>1, SubstanceFacts, SubstanceOf
  <1>7. Substance(arg) = Substance(r)
    BY <1>3, <1>4, <1>5, <1>6, TextTyped, SubstanceFacts, SubstanceOf
  <1>8. Substance(p) = <<>>
    BY <1>3, <1>6, TextTyped, SubstanceFacts, SubstanceOf DEF p
  <1>9. Substance(r) = Substance(p) \o Substance(inner) /\ Substance(inner) \in Seq(Texts)
    BY <1>2, <1>3, TextTyped, SubstanceOf DEF r
  <1>10. Substance(r) = Substance(inner)
    BY <1>8, <1>9, ConcatEmptySeq
  <1>11. QED  BY <1>2, <1>7, <1>10 DEF inner, n

LEMMA ContainerWhole ==
  ASSUME NEW B, NEW parsed \in Seq(B)
  PROVE  Container(parsed).command \o Container(parsed).args = parsed
  <1>1. CASE IsShellCommand(parsed)
    <2>1. parsed # <<>>
      BY <1>1, EmptySeq DEF IsShellCommand
    <2>2. Container(parsed) = [command |-> parsed, args |-> <<>>]
      BY <1>1, <2>1 DEF Container
    <2>3. QED  BY <2>2, ConcatEmptySeq
  <1>2. CASE ~IsShellCommand(parsed) /\ parsed = <<>>
    <2>1. Container(parsed) = [command |-> <<>>, args |-> <<>>]
      BY <1>2 DEF Container
    <2>2. QED  BY <1>2, <2>1, ConcatEmptySeq
  <1>3. CASE ~IsShellCommand(parsed) /\ parsed # <<>>
    <2>1. Container(parsed) = [command |-> <<parsed[1]>>, args |-> Tail(parsed)]
      BY <1>3 DEF Container
    <2>2. <<parsed[1]>> \o Tail(parsed) = parsed
      BY <1>3
    <2>3. QED  BY <2>1, <2>2
  <1>4. QED  BY <1>1, <1>2, <1>3

LEMMA EveryTextDelivered ==
  ASSUME NEW line \in CommandLine
  PROVE  TextDelivered(line)
  <1> SUFFICES ASSUME ~Panics(line)
               PROVE  /\ ParseCommand(line) \in Seq(Seq(Texts))
                      /\ Substance(FlattenSeq(ParseCommand(line))) = Substance(line.text)
    <2> DEFINE B == Seq(Texts)
    <2> HIDE DEF B
    <2>1. ParseCommand(line) \in Seq(B) =>
            Container(ParseCommand(line)).command \o Container(ParseCommand(line)).args
              = ParseCommand(line)
      BY ContainerWhole
    <2>2. QED  BY <2>1 DEF TextDelivered, B
  <1>1. line.text \in Seq(Chars) /\ line.shell \in {"none", "sh", "/bin/sh"}
    BY DEF CommandLine, Shells
  <1>2. CASE line.shell # NoShell
    <2> DEFINE arg == Trim(line.text, {"space"})
               bare == IF Quoted(arg) THEN SubSeq(arg, 2, Len(arg) - 1) ELSE arg
    <2>1. arg \in Seq(Chars) /\ Substance(arg) = Substance(line.text)
      <3>1. {"space"} \cap Substances = {}
        BY SubstanceFacts
      <3>2. QED  BY <1>1, <3>1, TrimFacts
    <2>2. Quoted(arg) => Len(arg) # 1
      BY <1>2 DEF Panics
    <2>3. ParseCommand(line) = <<<<line.shell>>, <<"-c">>, bare>>
      BY <1>2 DEF ParseCommand, ShellCommand
    <2> HIDE DEF arg
    <2>4. bare \in Seq(Chars) /\ Substance(bare) = Substance(line.text)
      BY <2>1, <2>2, UnquotedDelivers
    <2>5. line.shell \in {"sh", "/bin/sh"}
      BY <1>1, <1>2 DEF NoShell
    <2> HIDE DEF bare
    <2>6. QED  BY <2>3, <2>4, <2>5, ShellDelivers
  <1>3. CASE line.shell = NoShell /\ "operator" \in ToSet(line.text)
    <2>1. ParseCommand(line) = <<<<"/bin/sh">>, <<"-c">>, line.text>>
      BY <1>3 DEF ParseCommand
    <2>2. QED  BY <1>1, <2>1, ShellDelivers
  <1>4. CASE line.shell = NoShell /\ "operator" \notin ToSet(line.text)
    <2>1. ParseCommand(line) = SplitCommand(line.text)
      BY <1>4 DEF ParseCommand
    <2>2. ParseCommand(line) \in Seq(Seq(Texts))
      <3>1. Seq(Chars) \subseteq Seq(Texts)
        BY TextTyped
      <3>2. Seq(Seq(Chars)) \subseteq Seq(Seq(Texts))
        BY <3>1, SeqMonotonic
      <3>3. QED  BY <1>1, <2>1, <3>2, SplitDelivers
    <2>3. QED  BY <1>1, <2>1, <2>2, SplitDelivers
  <1>5. QED  BY <1>2, <1>3, <1>4

-----------------------------------------------------------------------------
(* parseCommand splits the text at the spaces outside quotes.              *)

LEMMA Countable ==
  ASSUME NEW text \in Seq(Chars), NEW i \in Nat
  PROVE  /\ IsFiniteSet(QuotesBefore(text, i)) /\ Cardinality(QuotesBefore(text, i)) \in Nat
         /\ IsFiniteSet(Separators(text)) /\ Cardinality(Separators(text)) \in Nat
         /\ IsFiniteSet(SeparatorsBefore(text, i))
         /\ Cardinality(SeparatorsBefore(text, i)) \in Nat
         /\ Cardinality(SeparatorsBefore(text, i)) <= Cardinality(Separators(text))
  <1>1. Len(text) \in Nat /\ DOMAIN text = 1 .. Len(text)
    BY LenProperties
  <1>2. IsFiniteSet(1 .. i - 1) /\ IsFiniteSet(1 .. Len(text))
    BY <1>1, FS_Interval
  <1>3. /\ QuotesBefore(text, i) \subseteq 1 .. i - 1
        /\ Separators(text) \subseteq 1 .. Len(text)
        /\ SeparatorsBefore(text, i) \subseteq Separators(text)
    BY <1>1 DEF QuotesBefore, Separators, SeparatorsBefore
  <1>4. IsFiniteSet(QuotesBefore(text, i)) /\ IsFiniteSet(Separators(text))
    BY <1>2, <1>3, FS_Subset
  <1>5. /\ IsFiniteSet(SeparatorsBefore(text, i))
        /\ Cardinality(SeparatorsBefore(text, i)) <= Cardinality(Separators(text))
    BY <1>3, <1>4, FS_Subset
  <1>6. QED  BY <1>4, <1>5, FS_CardinalityType

Even(text) == Cardinality(QuotesBefore(text, Len(text) + 1)) % 2 = 0

LEMMA Parity == \A n \in Nat : (n + 1) % 2 = 0 <=> ~(n % 2 = 0)
  OBVIOUS

(* What one more character does to the quotes and to the separators.       *)
LEMMA SeparatorsAppend ==
  ASSUME NEW text \in Seq(Chars), NEW c \in Chars
  PROVE  LET tt == Append(text, c)
             n  == Len(text) + 1
         IN  /\ Even(tt) <=> IF c \in Quotes THEN ~Even(text) ELSE Even(text)
             /\ Separators(tt) =
                  Separators(text) \union (IF c = "space" /\ Even(text) THEN {n} ELSE {})
             /\ n \notin Separators(text)
             /\ \A i \in 1 .. n : SeparatorsBefore(tt, i) = SeparatorsBefore(text, i)
             /\ SeparatorsBefore(text, n) = Separators(text)
  <1> DEFINE tt == Append(text, c)
             n == Len(text) + 1
  <1>1. /\ tt \in Seq(Chars) /\ Len(text) \in Nat /\ Len(tt) = n
        /\ DOMAIN text = 1 .. Len(text) /\ DOMAIN tt = 1 .. n
        /\ tt[n] = c /\ \A i \in 1 .. Len(text) : tt[i] = text[i]
        /\ \A i \in 1 .. n : i = n \/ i \in 1 .. Len(text)
    BY Appended
  <1> HIDE DEF tt
  <1>2. ASSUME NEW i \in 1 .. n PROVE QuotesBefore(tt, i) = QuotesBefore(text, i)
    <2>1. \A j \in 1 .. i - 1 : tt[j] = text[j]
      BY <1>1
    <2>2. QED  BY <2>1 DEF QuotesBefore
  <1>3. QuotesBefore(tt, n + 1) =
          QuotesBefore(text, n) \union (IF c \in Quotes THEN {n} ELSE {})
    <2>1. 1 .. (n + 1) - 1 = (1 .. n - 1) \union {n} /\ \A j \in 1 .. n - 1 : tt[j] = text[j]
      BY <1>1
    <2>2. QED  BY <1>1, <2>1 DEF QuotesBefore
  <1>4. Even(tt) <=> IF c \in Quotes THEN ~Even(text) ELSE Even(text)
    <2> DEFINE q == QuotesBefore(text, n)
    <2>1. n \in Nat /\ IsFiniteSet(q) /\ Cardinality(q) \in Nat /\ n \notin q
      <3>1. n \in Nat
        BY <1>1
      <3>2. IsFiniteSet(q) /\ Cardinality(q) \in Nat
        BY <3>1, Countable
      <3>3. n \notin q
        BY <1>1 DEF QuotesBefore
      <3>4. QED  BY <3>1, <3>2, <3>3
    <2>2. Cardinality(q \union {n}) = Cardinality(q) + 1
      BY <2>1, FS_AddElement
    <2>3. (Cardinality(q) + 1) % 2 = 0 <=> ~(Cardinality(q) % 2 = 0)
      BY <2>1, Parity
    <2>4. /\ Even(tt) <=> Cardinality(QuotesBefore(tt, n + 1)) % 2 = 0
          /\ Even(text) <=> Cardinality(q) % 2 = 0
      BY <1>1 DEF Even
    <2>5. q \union {} = q
      OBVIOUS
    <2> HIDE DEF q
    <2>6. QuotesBefore(tt, n + 1) = q \union (IF c \in Quotes THEN {n} ELSE {})
      BY <1>3 DEF q
    <2>7. CASE c \in Quotes
      <3>1. Cardinality(QuotesBefore(tt, n + 1)) = Cardinality(q) + 1
        BY <2>2, <2>6, <2>7
      <3>2. Even(tt) <=> (Cardinality(q) + 1) % 2 = 0
        BY <2>4, <3>1, Zenon
      <3>3. Even(tt) <=> ~Even(text)
        BY <2>3, <2>4, <3>2, Zenon
      <3>4. QED  BY <2>7, <3>3, Zenon
    <2>8. CASE c \notin Quotes
      BY <2>4, <2>5, <2>6, <2>8
    <2>9. QED  BY <2>7, <2>8
  <1>5. Separators(tt) = Separators(text) \union (IF c = "space" /\ Even(text) THEN {n} ELSE {})
    <2>1. \A i \in 1 .. Len(text) : i \in Separators(tt) <=> i \in Separators(text)
      BY <1>1, <1>2 DEF Separators
    <2>2. n \in Separators(tt) <=> c = "space" /\ Even(text)
      BY <1>1, <1>2 DEF Separators, Even
    <2>3. Separators(tt) \subseteq 1 .. n /\ Separators(text) \subseteq 1 .. Len(text)
      BY <1>1 DEF Separators
    <2>4. 1 .. n = (1 .. Len(text)) \union {n}
      BY <1>1
    <2>5. QED  BY <2>1, <2>2, <2>3, <2>4
  <1>6. Separators(text) \subseteq 1 .. Len(text)
    BY <1>1 DEF Separators
  <1>7. n \notin Separators(text) /\ SeparatorsBefore(text, n) = Separators(text)
    BY <1>1, <1>6 DEF SeparatorsBefore
  <1>8. ASSUME NEW i \in 1 .. n PROVE SeparatorsBefore(tt, i) = SeparatorsBefore(text, i)
    <2>1. ~(n < i)
      BY <1>1
    <2>2. QED  BY <1>5, <2>1 DEF SeparatorsBefore
  <1>9. QED  BY <1>4, <1>5, <1>7, <1>8 DEF tt

(* ... and to the pieces between the separators.                           *)
LEMMA PieceTyped ==
  ASSUME NEW text \in Seq(Chars), NEW k
  PROVE  Piece(text, k) \in Seq(Chars) /\ Piece(text, k) \in Seq(Chars \ Quotes)
  <1> DEFINE P == {i \in DOMAIN text \ Separators(text) :
                     text[i] \notin Quotes /\ Cardinality(SeparatorsBefore(text, i)) = k - 1}
  <1>1. \A i \in DOMAIN text : i \in P => text[i] \in Chars \ Quotes
    BY LenProperties
  <1>2. Piece(text, k) = KeptAt(text, P)
    BY DEF Piece
  <1> HIDE DEF P
  <1>3. Piece(text, k) \in Seq(Chars)
    BY <1>2, KeptAtTyped
  <1>4. Piece(text, k) \in Seq(Chars \ Quotes)
    BY <1>1, <1>2, KeptAtIn
  <1>5. QED  BY <1>3, <1>4

LEMMA PieceAppend ==
  ASSUME NEW text \in Seq(Chars), NEW c \in Chars, NEW k \in Nat
  PROVE  Piece(Append(text, c), k) =
           IF /\ c \notin Quotes /\ ~(c = "space" /\ Even(text))
              /\ Cardinality(Separators(text)) = k - 1
             THEN Append(Piece(text, k), c)
             ELSE Piece(text, k)
  <1> DEFINE tt == Append(text, c)
             n == Len(text) + 1
             In(t) == {i \in DOMAIN t \ Separators(t) :
                         t[i] \notin Quotes /\ Cardinality(SeparatorsBefore(t, i)) = k - 1}
  <1>1. /\ Len(text) \in Nat /\ DOMAIN text = 1 .. Len(text) /\ DOMAIN tt = 1 .. n
        /\ tt[n] = c /\ \A i \in 1 .. Len(text) : tt[i] = text[i]
    BY Appended
  <1>2. /\ Separators(tt) = Separators(text) \union (IF c = "space" /\ Even(text) THEN {n} ELSE {})
        /\ n \notin Separators(text)
        /\ \A i \in 1 .. n : SeparatorsBefore(tt, i) = SeparatorsBefore(text, i)
        /\ SeparatorsBefore(text, n) = Separators(text)
    BY SeparatorsAppend
  <1> HIDE DEF tt
  <1>3. \A i \in 1 .. Len(text) : i \in In(tt) <=> i \in In(text)
    <2> TAKE i \in 1 .. Len(text)
    <2>1. i \in 1 .. n /\ i # n
      BY <1>1
    <2>2. i \in Separators(tt) <=> i \in Separators(text)
      BY <1>2, <2>1
    <2>3. SeparatorsBefore(tt, i) = SeparatorsBefore(text, i) /\ tt[i] = text[i]
      BY <1>1, <1>2, <2>1
    <2>4. i \in DOMAIN tt /\ i \in DOMAIN text
      BY <1>1, <2>1
    <2>5. QED  BY <2>2, <2>3, <2>4
  <1>4. n \in In(tt) <=> /\ c \notin Quotes /\ ~(c = "space" /\ Even(text))
                         /\ Cardinality(Separators(text)) = k - 1
    <2>1. n \in 1 .. n /\ n \in DOMAIN tt
      BY <1>1
    <2>2. SeparatorsBefore(tt, n) = Separators(text) /\ tt[n] = c
      BY <1>1, <1>2, <2>1
    <2>3. n \in Separators(tt) <=> c = "space" /\ Even(text)
      <3>1. CASE c = "space" /\ Even(text)
        BY <1>2, <3>1
      <3>2. CASE ~(c = "space" /\ Even(text))
        BY <1>2, <3>2
      <3>3. QED  BY <3>1, <3>2, Zenon
    <2>4. n \in In(tt) <=> /\ n \notin Separators(tt) /\ c \notin Quotes
                           /\ Cardinality(Separators(text)) = k - 1
      BY <2>1, <2>2
    <2> HIDE DEF In
    <2>5. QED  BY <2>3, <2>4, Zenon
  <1>5. Piece(tt, k) = KeptAt(tt, In(tt)) /\ Piece(text, k) = KeptAt(text, In(text))
    BY DEF Piece
  <1> HIDE DEF In
  <1>6. KeptAt(text, In(tt)) = KeptAt(text, In(text))
    BY <1>1, <1>3, KeptAtSame
  <1>7. KeptAt(tt, In(tt)) =
          IF n \in In(tt) THEN Append(KeptAt(text, In(tt)), c) ELSE KeptAt(text, In(tt))
    BY KeptAtAppend DEF tt
  <1>8. CASE n \in In(tt)
    <2>1. Piece(tt, k) = Append(Piece(text, k), c)
      BY <1>5, <1>6, <1>7, <1>8
    <2>2. QED  BY <1>4, <1>8, <2>1, Zenon DEF tt
  <1>9. CASE n \notin In(tt)
    <2>1. Piece(tt, k) = Piece(text, k)
      BY <1>5, <1>6, <1>7, <1>9
    <2>2. QED  BY <1>4, <1>9, <2>1, Zenon DEF tt
  <1>10. QED  BY <1>8, <1>9, Zenon

(* There is nothing after the last separator's piece.                      *)
LEMMA NoPieceBeyond ==
  ASSUME NEW text \in Seq(Chars)
  PROVE  Piece(text, Cardinality(Separators(text)) + 2) = <<>>
  <1> DEFINE m == Cardinality(Separators(text))
             P == {i \in DOMAIN text \ Separators(text) :
                     text[i] \notin Quotes /\ Cardinality(SeparatorsBefore(text, i)) = (m + 2) - 1}
  <1>1. \A i \in DOMAIN text : i \in Nat
    BY LenProperties
  <1>2. m \in Nat /\ \A i \in DOMAIN text : Cardinality(SeparatorsBefore(text, i)) \in Nat
                                           /\ Cardinality(SeparatorsBefore(text, i)) <= m
    <2>1. 0 \in Nat
      OBVIOUS
    <2>2. QED  BY <1>1, <2>1, Countable
  <1>3. Piece(text, m + 2) = KeptAt(text, P)
    BY DEF Piece
  <1> HIDE DEF m
  <1>4. \A i \in DOMAIN text : i \notin P
    BY <1>2
  <1> HIDE DEF P
  <1>5. KeptAt(text, P) = <<>>
    BY <1>4, KeptAtNone
  <1>6. QED  BY <1>3, <1>5 DEF m

LEMMA NonEmptyFacts ==
  /\ NonEmpty(<<>>) = <<>>
  /\ \A B : \A ps \in Seq(B), p \in B :
       /\ NonEmpty(ps) \in Seq(B)
       /\ NonEmpty(Append(ps, p)) = IF p = <<>> THEN NonEmpty(ps) ELSE Append(NonEmpty(ps), p)
  <1>1. NonEmpty(<<>>) = <<>>
    BY KeptAtNothing DEF NonEmpty
  <1>2. ASSUME NEW B, NEW ps \in Seq(B), NEW p \in B
        PROVE  /\ NonEmpty(ps) \in Seq(B)
               /\ NonEmpty(Append(ps, p)) = IF p = <<>> THEN NonEmpty(ps) ELSE Append(NonEmpty(ps), p)
    <2> DEFINE S == B \ {<<>>}
    <2>1. ASSUME NEW qs \in Seq(B) PROVE NonEmpty(qs) = Kept(qs, S)
      <3>1. \A i \in DOMAIN qs : qs[i] \in B
        BY LenProperties
      <3>2. {i \in DOMAIN qs : qs[i] # <<>>} = {i \in DOMAIN qs : qs[i] \in S}
        BY <3>1
      <3>3. QED  BY <3>2 DEF NonEmpty, Kept
    <2>2. Append(ps, p) \in Seq(B) /\ (p \in S <=> p # <<>>)
      BY AppendProperties
    <2> HIDE DEF S
    <2>3. Kept(Append(ps, p), S) = IF p \in S THEN Append(Kept(ps, S), p) ELSE Kept(ps, S)
      BY KeptAppend
    <2>4. Kept(ps, S) \in Seq(B)
      BY KeptTyped
    <2>5. QED  BY <2>1, <2>2, <2>3, <2>4
  <1>3. QED  BY <1>1, <1>2

(* The loop's invariant: the complete words are the nonempty pieces before *)
(* the last separator, the current one is the piece after it, and the loop *)
(* is inside quotes exactly when it has read an odd number of them.        *)
Pieces(text) == [k \in 1 .. Cardinality(Separators(text)) |-> Piece(text, k)]

SplitSoFar(text) ==
  /\ After(text).words = NonEmpty(Pieces(text))
  /\ After(text).current = Piece(text, Cardinality(Separators(text)) + 1)
  /\ (After(text).quote = NoQuote) <=> Even(text)
  /\ After(text).quote # NoQuote => After(text).quote \in ToSet(text)

LEMMA PiecesTyped ==
  ASSUME NEW text \in Seq(Chars)
  PROVE  /\ Cardinality(Separators(text)) \in Nat
         /\ Pieces(text) \in Seq(Seq(Chars)) /\ Len(Pieces(text)) = Cardinality(Separators(text))
  <1> DEFINE m == Cardinality(Separators(text))
             B == Seq(Chars)
  <1>1. m \in Nat
    <2>1. 0 \in Nat
      OBVIOUS
    <2>2. QED  BY <2>1, Countable
  <1>2. \A k \in 1 .. m : Piece(text, k) \in B
    BY PieceTyped
  <1>3. Pieces(text) = [k \in 1 .. m |-> Piece(text, k)]
    BY DEF Pieces
  <1> HIDE DEF m, B
  <1>4. Pieces(text) \in Seq(B) /\ Len(Pieces(text)) = m
    BY <1>1, <1>2, <1>3
  <1>5. QED  BY <1>1, <1>4 DEF m, B

(* One separator more: the piece before it joins the others.               *)
LEMMA PiecesExtended ==
  ASSUME NEW text \in Seq(Chars), NEW tt \in Seq(Chars),
         Cardinality(Separators(tt)) = Cardinality(Separators(text)) + 1,
         \A k \in Nat : Piece(tt, k) = Piece(text, k)
  PROVE  Pieces(tt) = Append(Pieces(text), Piece(text, Cardinality(Separators(text)) + 1))
  <1> DEFINE m == Cardinality(Separators(text))
             ps == Pieces(text)
             qs == Pieces(tt)
             p == Piece(text, m + 1)
             B == Seq(Chars)
  <1>1. m \in Nat /\ ps \in Seq(B) /\ Len(ps) = m /\ qs \in Seq(B) /\ Len(qs) = m + 1 /\ p \in B
    BY PiecesTyped, PieceTyped
  <1>2. \A k \in 1 .. m : ps[k] = Piece(text, k)
    BY DEF Pieces
  <1>3. \A k \in 1 .. m + 1 : qs[k] = Piece(text, k)
    <2>1. \A k \in 1 .. m + 1 : k \in Nat
      BY <1>1
    <2>2. QED  BY <2>1 DEF Pieces
  <1>4. qs[m + 1] = p
    BY <1>1, <1>3
  <1> HIDE DEF m, ps, qs, p, B
  <1>5. /\ Append(ps, p) \in Seq(B) /\ Len(Append(ps, p)) = m + 1 /\ Append(ps, p)[m + 1] = p
        /\ \A k \in 1 .. m : Append(ps, p)[k] = ps[k]
    BY <1>1, Appended
  <1>6. \A k \in 1 .. m + 1 : qs[k] = Append(ps, p)[k]
    <2>1. \A k \in 1 .. m + 1 : k = m + 1 \/ k \in 1 .. m
      BY <1>1
    <2>2. QED  BY <1>2, <1>3, <1>4, <1>5, <2>1
  <1>7. qs = Append(ps, p)
    BY <1>1, <1>5, <1>6, SeqEqual
  <1>8. QED  BY <1>7 DEF m, ps, qs, p

LEMMA SplitStart == SplitSoFar(<<>>)
  <1>1. <<>> \in Seq(Chars) /\ Len(<<>>) = 0 /\ DOMAIN <<>> = {}
    BY EmptySeq
  <1>2. Separators(<<>>) = {} /\ QuotesBefore(<<>>, 1) = {}
    BY <1>1 DEF Separators, QuotesBefore
  <1>3. Cardinality(Separators(<<>>)) = 0 /\ Cardinality(QuotesBefore(<<>>, 1)) = 0
    BY <1>2, FS_EmptySet
  <1>4. Even(<<>>)
    BY <1>1, <1>3 DEF Even
  <1>5. Pieces(<<>>) = <<>>
    BY <1>3 DEF Pieces
  <1>6. \A k : Piece(<<>>, k) = <<>>
    BY KeptAtNothing DEF Piece
  <1>7. /\ After(<<>>).words = <<>> /\ After(<<>>).current = <<>> /\ After(<<>>).quote = NoQuote
    BY AfterNothing DEF Start
  <1>8. QED  BY <1>4, <1>5, <1>6, <1>7, NonEmptyFacts DEF SplitSoFar

LEMMA SplitStep ==
  ASSUME NEW text \in Seq(Chars), NEW c \in Chars, SplitSoFar(text),
         OneKindOfQuote(Append(text, c))
  PROVE  SplitSoFar(Append(text, c))
  <1> DEFINE tt == Append(text, c)
             s == After(text)
             m == Cardinality(Separators(text))
             splits == c = "space" /\ Even(text)
  <1>1. tt \in Seq(Chars) /\ s \in LoopState /\ m \in Nat /\ After(tt) = Read(s, c)
    BY Appended, AfterTyped, PiecesTyped, AfterAppend
  <1>2. /\ s.words = NonEmpty(Pieces(text)) /\ s.current = Piece(text, m + 1)
        /\ s.quote # NoQuote => s.quote \in ToSet(text)
    BY DEF SplitSoFar
  <1>3. s.quote = NoQuote <=> Even(text)
    BY DEF SplitSoFar
  <1>4. c \in ToSet(tt) /\ ToSet(text) \subseteq ToSet(tt)
    BY Appended DEF ToSet
  <1>5. NoQuote \notin Quotes /\ "space" \notin Quotes /\ s.quote \in Quotes \union {NoQuote}
    BY <1>1 DEF LoopState, Quotes, NoQuote
  <1>6. Even(tt) <=> IF c \in Quotes THEN ~Even(text) ELSE Even(text)
    BY SeparatorsAppend
  <1>7. Separators(tt) = Separators(text) \union (IF splits THEN {Len(text) + 1} ELSE {})
    BY SeparatorsAppend
  <1>8. \A k \in Nat : Piece(tt, k) =
          IF c \notin Quotes /\ ~splits /\ m = k - 1 THEN Append(Piece(text, k), c)
                                                     ELSE Piece(text, k)
    BY PieceAppend
  <1> HIDE DEF tt, s
  (* Without a new separator the complete pieces are what they were. *)
  <1>9. ASSUME ~splits
        PROVE  Cardinality(Separators(tt)) = m /\ Pieces(tt) = Pieces(text)
    <2>1. Separators(tt) = Separators(text)
      BY <1>7, <1>9
    <2>2. \A k \in 1 .. m : k \in Nat /\ m # k - 1
      BY <1>1
    <2>3. \A k \in 1 .. m : Piece(tt, k) = Piece(text, k)
      BY <1>8, <2>2
    <2>4. QED  BY <2>1, <2>3 DEF Pieces
  <1>10. m + 1 \in Nat /\ m = (m + 1) - 1
    BY <1>1
  <1>11. CASE c \in Quotes /\ s.quote \in {c, NoQuote}
    <2>1. ~splits /\ Piece(tt, m + 1) = Piece(text, m + 1)
      BY <1>5, <1>8, <1>10, <1>11
    <2>2. After(tt).words = s.words /\ After(tt).current = s.current
      BY <1>1, <1>11, ReadFacts
    <2>3. CASE s.quote = c
      <3>1. After(tt).quote = NoQuote
        BY <1>1, <1>11, <2>3, ReadFacts
      <3>2. ~Even(text)
        BY <1>3, <1>5, <1>11, <2>3
      <3>3. Even(tt)
        BY <1>6, <1>11, <3>2, Zenon
      <3>4. (After(tt).quote = NoQuote) <=> Even(tt)
        BY <3>1, <3>3, Zenon
      <3>5. QED  BY <1>2, <1>9, <2>1, <2>2, <3>1, <3>4 DEF SplitSoFar, tt
    <2>4. CASE s.quote = NoQuote
      <3>1. After(tt).quote = c
        BY <1>1, <1>11, <2>4, ReadFacts
      <3>2. ~Even(tt)
        BY <1>3, <1>6, <1>11, <2>4, Zenon
      <3>3. After(tt).quote # NoQuote
        BY <1>5, <1>11, <3>1
      <3>4. (After(tt).quote = NoQuote) <=> Even(tt)
        BY <3>2, <3>3, Zenon
      <3>5. QED  BY <1>2, <1>4, <1>9, <2>1, <2>2, <3>1, <3>4 DEF SplitSoFar, tt
    <2>5. QED  BY <1>11, <2>3, <2>4
  (* A quote of the other kind would make two. *)
  <1>12. CASE c \in Quotes /\ s.quote \notin {c, NoQuote}
    <2>1. s.quote \in Quotes /\ s.quote \in ToSet(tt) /\ s.quote # c
      BY <1>2, <1>4, <1>5, <1>12
    <2>2. Quotes \subseteq ToSet(tt)
      BY <1>4, <1>12, <2>1 DEF Quotes
    <2>3. QED  BY <2>2 DEF OneKindOfQuote, tt
  <1>13. CASE c \notin Quotes /\ splits
    <2>1. s.quote = NoQuote /\ c = "space"
      BY <1>3, <1>13, Zenon
    <2>2. Read(s, c) = EndWord(s)
      BY <1>1, <2>1, ReadFacts
    <2>3. /\ After(tt).quote = NoQuote /\ After(tt).current = <<>>
          /\ After(tt).words = IF s.current = <<>> THEN s.words ELSE Append(s.words, s.current)
      BY <1>1, <2>1, <2>2, EndWordFacts
    <2>4. Even(tt)
      BY <1>6, <1>13, Zenon
    <2>5. \A k \in Nat : Piece(tt, k) = Piece(text, k)
      BY <1>8, <1>13
    <2>6. Cardinality(Separators(tt)) = m + 1
      <3> DEFINE seps == Separators(text)
                 n == Len(text) + 1
      <3>1. IsFiniteSet(seps) /\ n \notin seps
        <4>1. 0 \in Nat
          OBVIOUS
        <4>2. QED  BY <4>1, Countable, SeparatorsAppend
      <3>2. Separators(tt) = seps \union {n}
        BY <1>7, <1>13
      <3> HIDE DEF seps, n
      <3>3. Cardinality(seps \union {n}) = Cardinality(seps) + 1
        BY <3>1, FS_AddElement
      <3>4. QED  BY <3>2, <3>3 DEF seps
    <2>7. Pieces(tt) = Append(Pieces(text), Piece(text, m + 1))
      BY <1>1, <2>5, <2>6, PiecesExtended
    <2>8. NonEmpty(Pieces(tt)) =
            IF Piece(text, m + 1) = <<>> THEN NonEmpty(Pieces(text))
                                         ELSE Append(NonEmpty(Pieces(text)), Piece(text, m + 1))
      <3> DEFINE ps == Pieces(text)
                 p == Piece(text, m + 1)
                 B == Seq(Chars)
      <3>1. ps \in Seq(B) /\ p \in B
        BY PiecesTyped, PieceTyped
      <3> HIDE DEF ps, p, B
      <3>2. NonEmpty(Append(ps, p)) = IF p = <<>> THEN NonEmpty(ps) ELSE Append(NonEmpty(ps), p)
        BY <3>1, NonEmptyFacts
      <3>3. QED  BY <2>7, <3>2 DEF ps, p
    <2>9. After(tt).words = NonEmpty(Pieces(tt))
      BY <1>2, <2>3, <2>8
    <2>10. After(tt).current = Piece(tt, Cardinality(Separators(tt)) + 1)
      <3>1. (m + 1) + 1 = m + 2 /\ m + 2 \in Nat
        BY <1>1
      <3>2. Piece(tt, (m + 1) + 1) = <<>>
        BY <2>5, <3>1, NoPieceBeyond
      <3>3. QED  BY <2>3, <2>6, <3>2
    <2>11. (After(tt).quote = NoQuote) <=> Even(tt)
      BY <2>3, <2>4, Zenon
    <2>12. QED  BY <2>3, <2>9, <2>10, <2>11 DEF SplitSoFar, tt
  <1>14. CASE c \notin Quotes /\ ~splits
    <2>1. ~(c = "space" /\ s.quote = NoQuote)
      BY <1>3, <1>14, Zenon
    <2>2. /\ After(tt).words = s.words /\ After(tt).current = Append(s.current, c)
          /\ After(tt).quote = s.quote
      BY <1>1, <1>14, <2>1, ReadFacts
    <2>3. Piece(tt, m + 1) = Append(Piece(text, m + 1), c)
      BY <1>8, <1>10, <1>14
    <2>4. Even(tt) <=> Even(text)
      BY <1>6, <1>14, Zenon
    <2>5. (After(tt).quote = NoQuote) <=> Even(tt)
      BY <1>3, <2>2, <2>4, Zenon
    <2>6. QED  BY <1>2, <1>4, <1>9, <1>14, <2>2, <2>3, <2>5 DEF SplitSoFar, tt
  <1>15. QED  BY <1>11, <1>12, <1>13, <1>14

LEMMA LoopSplits ==
  ASSUME NEW text \in Seq(Chars), OneKindOfQuote(text)
  PROVE  SplitSoFar(text)
  <1> DEFINE T == {t \in Seq(Chars) : OneKindOfQuote(t) => SplitSoFar(t)}
  <1>1. <<>> \in T
    BY EmptySeq, SplitStart
  <1>2. ASSUME NEW t \in Seq(Chars), NEW c \in Chars, t \in T PROVE Append(t, c) \in T
    <2>1. ToSet(t) \subseteq ToSet(Append(t, c))
      BY Appended DEF ToSet
    <2>2. OneKindOfQuote(Append(t, c)) => OneKindOfQuote(t)
      BY <2>1 DEF OneKindOfQuote
    <2>3. Append(t, c) \in Seq(Chars)
      BY Appended
    <2>4. QED  BY <1>2, <2>2, <2>3, SplitStep
  <1> HIDE DEF T
  <1>3. text \in T
    BY <1>1, <1>2, SequenceInduction
  <1>4. QED  BY <1>3 DEF T

LEMMA WordsSplit ==
  ASSUME NEW text \in Seq(Chars), OneKindOfQuote(text)
  PROVE  Words(text) = WordsByPosition(text)
  <1> DEFINE m == Cardinality(Separators(text))
             ps == Pieces(text)
             p == Piece(text, m + 1)
             all == [k \in 1 .. m + 1 |-> Piece(text, k)]
             B == Seq(Chars)
  <1>1. ps \in Seq(B) /\ Len(ps) = m /\ p \in B /\ m \in Nat
    BY PiecesTyped, PieceTyped
  <1>2. After(text) \in LoopState /\ After(text).words = NonEmpty(ps) /\ After(text).current = p
    BY AfterTyped, LoopSplits DEF SplitSoFar
  <1>3. EndWord(After(text)).words = IF p = <<>> THEN NonEmpty(ps) ELSE Append(NonEmpty(ps), p)
    BY <1>2, EndWordFacts
  <1>4. all = Append(ps, p)
    <2>1. \A k \in 1 .. m : ps[k] = Piece(text, k)
      BY DEF Pieces
    <2>2. \A k \in 1 .. m + 1 : k = m + 1 \/ k \in 1 .. m
      BY <1>1
    <2>3. \A k \in 1 .. m + 1 : Piece(text, k) \in B
      BY PieceTyped
    <2>4. all[m + 1] = p
      BY <1>1
    <2>5. \A k \in 1 .. m + 1 : all[k] = Piece(text, k)
      OBVIOUS
    <2>6. all \in Seq(B) /\ Len(all) = m + 1
      <3> HIDE DEF B, m
      <3>1. QED  BY <1>1, <2>3
    <2> HIDE DEF m, ps, p, B, all
    <2>7. /\ Append(ps, p) \in Seq(B) /\ Len(Append(ps, p)) = m + 1 /\ Append(ps, p)[m + 1] = p
          /\ \A k \in 1 .. m : Append(ps, p)[k] = ps[k]
      BY <1>1, Appended
    <2>8. \A k \in 1 .. m + 1 : all[k] = Append(ps, p)[k]
      BY <2>1, <2>2, <2>4, <2>5, <2>7
    <2>9. QED  BY <2>6, <2>7, <2>8, SeqEqual
  <1> HIDE DEF ps, p, B, all
  <1>5. NonEmpty(all) = IF p = <<>> THEN NonEmpty(ps) ELSE Append(NonEmpty(ps), p)
    BY <1>1, <1>4, NonEmptyFacts
  <1>6. QED  BY <1>3, <1>5 DEF Words, WordsByPosition, all

LEMMA EveryTextSplit ==
  ASSUME NEW line \in CommandLine
  PROVE  SplitAsQuoted(line)
  <1> DEFINE text == line.text
             B == Seq(Chars \ Quotes)
  <1> SUFFICES ASSUME line.shell = NoShell, "operator" \notin ToSet(text), OneKindOfQuote(text)
               PROVE  ParseCommand(line) = WordsByPosition(text)
    BY DEF SplitAsQuoted
  <1>1. text \in Seq(Chars)
    BY DEF CommandLine
  <1>2. ParseCommand(line) = SplitCommand(text)
    BY DEF ParseCommand
  <1>3. Words(text) = WordsByPosition(text)
    BY <1>1, WordsSplit
  <1>4. WordsByPosition(text) \in Seq(B)
    <2> DEFINE m == Cardinality(Separators(text))
               all == [k \in 1 .. m + 1 |-> Piece(text, k)]
    <2>1. m \in Nat /\ \A k \in 1 .. m + 1 : Piece(text, k) \in B
      BY <1>1, PiecesTyped, PieceTyped
    <2>2. WordsByPosition(text) = NonEmpty(all)
      BY DEF WordsByPosition
    <2> HIDE DEF m, B
    <2>3. all \in Seq(B)
      BY <2>1
    <2> HIDE DEF all
    <2>4. NonEmpty(all) \in Seq(B)
      BY <2>3, KeptAtTyped DEF NonEmpty
    <2>5. QED  BY <2>2, <2>4
  <1>5. ASSUME NEW words \in Seq(B)
        PROVE  [i \in DOMAIN words |-> Trim(words[i], Quotes)] = words
    <2>1. \A i \in DOMAIN words : words[i] \in B
      BY <1>5, LenProperties
    <2>2. ASSUME NEW i \in DOMAIN words PROVE Trim(words[i], Quotes) = words[i]
      <3> DEFINE w == words[i]
      <3>1. w \in Seq(Chars \ Quotes)
        BY <2>1
      <3> HIDE DEF w
      <3>2. \A j \in DOMAIN w : w[j] \notin Quotes
        BY <3>1, LenProperties
      <3>3. QED  BY <3>1, <3>2, TrimFacts DEF w
    <2> HIDE DEF B
    <2>3. words = [i \in DOMAIN words |-> words[i]]
      BY <1>5, LenProperties
    <2>4. QED  BY <2>2, <2>3
  <1> HIDE DEF B, text
  <1>6. SplitCommand(text) = WordsByPosition(text)
    BY <1>3, <1>4, <1>5 DEF SplitCommand
  <1>7. QED  BY <1>2, <1>6

-----------------------------------------------------------------------------
(* The theorems.                                                           *)

(* The walk through the specs and the command lines writes only what a     *)
(* user may write: sequences of ports, of hosts and of characters.         *)
THEOREM TypesHold == Spec => []TypeOK
  <1>1. Init => TypeOK
    <2>1. <<>> \in Seq(Port) /\ <<>> \in Seq(Host) /\ <<>> \in Seq(Chars)
      BY EmptySeq
    <2>2. Blank \in Config /\ NoCommand \in CommandLine
      BY <2>1 DEF Blank, NoCommand, Config, CommandLine, Shells, NoShell
    <2>3. QED  BY <2>2 DEF Init, TypeOK
  <1>2. TypeOK /\ [Next]_vars => TypeOK'
    <2> SUFFICES ASSUME TypeOK, [Next]_vars PROVE TypeOK'
      OBVIOUS
    <2>1. /\ config.ports \in Seq(Port) /\ config.hosts \in Seq(Host) /\ command.text \in Seq(Chars)
          /\ config \in Config /\ command \in CommandLine
      BY DEF TypeOK, Config, CommandLine
    <2>2. /\ config.ports # <<>> => Tail(config.ports) \in Seq(Port)
          /\ config.hosts # <<>> => Tail(config.hosts) \in Seq(Host)
          /\ command.text # <<>> => Tail(command.text) \in Seq(Chars)
      BY <2>1, HeadTailProperties
    <2>3. /\ \A p \in Port : Append(config.ports, p) \in Seq(Port)
          /\ \A h \in Host : Append(config.hosts, h) \in Seq(Host)
          /\ \A c \in Chars : Append(command.text, c) \in Seq(Chars)
      BY <2>1, AppendProperties
    <2>4. ASSUME SetImage \/ TogglePublic \/ AddPort \/ AddHost \/ RemovePort \/ RemoveHost
          PROVE  config' \in Config
      <3>1. CASE SetImage
        BY <2>1, <3>1 DEF SetImage, Config
      <3>2. CASE TogglePublic
        BY <2>1, <3>2 DEF TogglePublic, Config
      <3>3. CASE AddPort
        <4>1. PICK p \in Port : config' = [config EXCEPT !.ports = Append(config.ports, p)]
          BY <3>3 DEF AddPort
        <4>2. QED  BY <2>1, <2>3, <4>1 DEF Config
      <3>4. CASE AddHost
        <4>1. PICK h \in Host : config' = [config EXCEPT !.hosts = Append(config.hosts, h)]
          BY <3>4 DEF AddHost
        <4>2. QED  BY <2>1, <2>3, <4>1 DEF Config
      <3>5. CASE RemovePort
        <4>1. config' = [config EXCEPT !.ports = Tail(config.ports)] /\ config.ports # <<>>
          BY <3>5 DEF RemovePort
        <4>2. QED  BY <2>1, <2>2, <4>1 DEF Config
      <3>6. CASE RemoveHost
        <4>1. config' = [config EXCEPT !.hosts = Tail(config.hosts)] /\ config.hosts # <<>>
          BY <3>6 DEF RemoveHost
        <4>2. QED  BY <2>1, <2>2, <4>1 DEF Config
      <3>7. QED  BY <2>4, <3>1, <3>2, <3>3, <3>4, <3>5, <3>6
    <2>5. ASSUME ChooseShell \/ Type \/ Erase
          PROVE  command' \in CommandLine
      <3>1. CASE ChooseShell
        BY <2>1, <3>1 DEF ChooseShell, CommandLine
      <3>2. CASE Type
        <4>1. PICK c \in Chars : command' = [command EXCEPT !.text = Append(command.text, c)]
          BY <3>2 DEF Type
        <4>2. QED  BY <2>1, <2>3, <4>1 DEF CommandLine
      <3>3. CASE Erase
        <4>1. command' = [command EXCEPT !.text = Tail(command.text)] /\ command.text # <<>>
          BY <3>3 DEF Erase
        <4>2. QED  BY <2>1, <2>2, <4>1 DEF CommandLine
      <3>4. QED  BY <2>5, <3>1, <3>2, <3>3
    <2>6. QED  BY <2>1, <2>4, <2>5 DEF Next, vars, TypeOK
  <1>3. QED  BY <1>1, <1>2, PTL DEF Spec

(* BuildServices: whatever the ports, each is served by exactly one of the *)
(* two Services.                                                           *)
THEOREM PortsAreServedOnce == Spec => []PortsServedOnce
  <1>1. TypeOK => PortsServedOnce
    BY EveryPortServedOnce DEF TypeOK, PortsServedOnce
  <1>2. QED  BY <1>1, TypesHold, PTL

(* BuildIngress and BuildServices: whatever the ports and the hosts, as    *)
(* long as no port asks for a NodePort, the default backend is exposed.    *)
THEOREM DefaultBackendIsServed == Spec => []DefaultBackendServed
  <1>1. TypeOK => DefaultBackendServed
    BY DefaultBackendInService DEF TypeOK, DefaultBackendServed
  <1>2. QED  BY <1>1, TypesHold, PTL

(* BuildIngress and Reconcile: whatever the ports and the hosts, the       *)
(* announced URLs are the routed hosts, in order, except where there are   *)
(* hosts and no port, and there they are not.                              *)
THEOREM RoutedAreAnnounced == Spec => []RoutedAnnounced
  <1>1. TypeOK => RoutedAnnounced
    BY RoutedAnnouncedOf DEF TypeOK, RoutedAnnounced
  <1>2. QED  BY <1>1, TypesHold, PTL

(* parseCommand: a command line of any length, without operators and with  *)
(* one kind of quote, is split at the spaces outside quotes and nowhere    *)
(* else.                                                                   *)
THEOREM CommandsAreSplit == Spec => []CommandsSplit
  <1>1. TypeOK => CommandsSplit
    BY EveryTextSplit DEF TypeOK, CommandsSplit
  <1>2. QED  BY <1>1, TypesHold, PTL

(* parseCommand and BuildDeployment: of a command line of any length,      *)
(* every letter and operator reaches the container, in order.              *)
THEOREM CommandsAreWhole == Spec => []CommandsWhole
  <1>1. TypeOK => CommandsWhole
    BY EveryTextDelivered DEF TypeOK, CommandsWhole
  <1>2. QED  BY <1>1, TypesHold, PTL

-----------------------------------------------------------------------------
(* Where the default backend is not a port of the Service it names.        *)

(* The first port's number is in the base Service.                         *)
FirstNumberServed ==
  \E p \in ToSet(config.ports) : HasNoNodePort(p) /\ p.port = config.ports[1].port

(* The Ingress names a port the base Service lacks exactly when it is      *)
(* built, some host gives no port and the first port asks for a NodePort   *)
(* that no other entry of its number does without.                         *)
BackendMissedExactly ==
  DefaultBackendIsServicePort <=>
    (BuildIngress(config) # NotNeeded /\ (\E h \in ToSet(config.hosts) : h.port = NoPort)
       => FirstNumberServed)

(* BuildIngress against BuildServices (ingress.go:23-38, service.go:24-47): *)
(* the default backend is missing because the first port is taken whether  *)
(* or not the base Service has its number, and in no other configuration.  *)
THEOREM BackendMissedByTheFirstPortOnly == Spec => []BackendMissedExactly
  <1>1. TypeOK => BackendMissedExactly
    <2> SUFFICES ASSUME TypeOK, BuildIngress(config) # NotNeeded
                 PROVE  DefaultBackendExposed(config) <=>
                          ((\E h \in ToSet(config.hosts) : h.port = NoPort)
                             => FirstNumberServed)
      BY DEF BackendMissedExactly, DefaultBackendIsServicePort, DefaultBackendExposed
    <2> DEFINE rules == BuildIngress(config).rules
               base  == PortsOf(BuildServices(config).base)
               first == config.ports[1]
    <2>1. config \in Config /\ config.ports \in Seq(Port)
      BY DEF TypeOK, Config
    <2>2. /\ config.ports # <<>>
          /\ rules = [i \in DOMAIN config.hosts |->
                        [host |-> config.hosts[i].host, service |-> "base",
                         port |-> BackendPort(config, config.hosts[i])]]
      BY <2>1, IngressRules
    <2>3. base = {p \in ToSet(config.ports) : HasNoNodePort(p)}
      BY <2>1, ServedPorts
    <2>4. (\E p \in base : p.port = first.port) <=> FirstNumberServed
      <3> HIDE DEF base
      <3>1. QED  BY <2>3 DEF FirstNumberServed
    <2>5. /\ DOMAIN rules = DOMAIN config.hosts
          /\ \A i \in DOMAIN config.hosts :
                /\ rules[i].service = "base"
                /\ config.hosts[i].port = NoPort => rules[i].port = first.port
      BY <2>2 DEF BackendPort
    <2>6. DefaultBackendExposed(config) <=>
            \A i \in DOMAIN rules :
              config.hosts[i].port = NoPort =>
                \E p \in PortsOf(BuildServices(config)[rules[i].service]) : p.port = rules[i].port
      BY DEF DefaultBackendExposed
    <2> HIDE DEF rules, first
    <2>7. DefaultBackendExposed(config) <=>
            \A i \in DOMAIN config.hosts :
              config.hosts[i].port = NoPort => \E p \in base : p.port = first.port
      BY <2>5, <2>6
    <2> HIDE DEF base
    <2>8. (\E h \in ToSet(config.hosts) : h.port = NoPort)
            <=> \E i \in DOMAIN config.hosts : config.hosts[i].port = NoPort
      BY DEF ToSet
    <2>9. QED  BY <2>4, <2>7, <2>8 DEF first
  <1>2. QED  BY <1>1, TypesHold, PTL

=============================================================================
