---------------------------- MODULE Assembly_proof ----------------------------
(***************************************************************************)
(* Proofs about Assembly, for every set of plans: whatever is built,       *)
(* called and asked.                                                       *)
(*                                                                         *)
(* AssemblyInv has four parts: types, the locks that each call holds at    *)
(* the step it is at (HoldInv), the drivers while calls of Lifecycle do    *)
(* not overlap (LifeInv), and what the control loop has written so far     *)
(* (MarshalInv): every interface it has passed, with its number, and       *)
(* exactly the tree as long as no endpoint has changed since the header.   *)
(*                                                                         *)
(* ServeInv: host and loop wait for each other in turn (AskInv), and as    *)
(* long as the tree stands still all that is written, sent and read is the *)
(* tree (ReadInv).  KnowInv: what goroutines and drivers are about to      *)
(* touch are endpoints of the configuration the host selects.              *)
(*                                                                         *)
(* AttachInv: while a driver is being attached, what it has not taken yet  *)
(* the interfaces it still has to visit have, and it is attached to none   *)
(* of those, so that no Close of the way there can be its own.  While its  *)
(* Init searches an interface, what it counts on is among the endpoints    *)
(* that were there when it began, of which it has read the first.          *)
(*                                                                         *)
(* The first lemmas make sums and joins of sequences, functions defined by *)
(* recursion over their positions, usable one element at a time.           *)
(***************************************************************************)
EXTENDS Assembly, SequenceTheorems, FiniteSetTheorems, WellFoundedInduction, TLAPS

(* Induction over the naturals, for a set instead of a predicate, and what *)
(* it gives for functions defined by recursion.                            *)
LEMMA Induction ==
  ASSUME NEW T, 0 \in T, \A n \in Nat : n \in T => n + 1 \in T
  PROVE  \A n \in Nat : n \in T
<1> SUFFICES ASSUME NEW x \in Nat, x \notin T PROVE FALSE
  OBVIOUS
<1> DEFINE less == OpToRel(<, Nat)
           rest == Nat \ T
<1>1. rest \subseteq Nat /\ rest # {}
  OBVIOUS
<1>2. IsWellFoundedOn(less, Nat)
  BY NatLessThanWellFounded
<1> HIDE DEF less, rest
<1>3. PICK n \in rest : \A m \in rest : ~(<<m, n>> \in less)
  BY <1>1, <1>2, WFMin
<1>4. n \in Nat /\ n \notin T /\ n # 0
  BY <1>3 DEF rest
<1>5. n - 1 \in Nat /\ n - 1 < n /\ (n - 1) + 1 = n
  BY <1>4
<1>6. n - 1 \notin T
  BY <1>4, <1>5
<1>7. n - 1 \in rest
  BY <1>5, <1>6 DEF rest
<1>8. <<n - 1, n>> \in less
  BY <1>4, <1>5 DEF less, OpToRel
<1> QED BY <1>3, <1>7, <1>8

(* A function defined by recursion over 1 .. n exists: step[k] makes the   *)
(* value at k from the one before.                                         *)
Recursive(V, b, n, step) ==
  \E g \in [0 .. n -> V] : \A k \in 0 .. n : g[k] = IF k = 0 THEN b ELSE step[k][g[k - 1]]
LEMMA Recursion ==
  ASSUME NEW V, NEW b \in V, NEW n \in Nat, NEW step \in [1 .. n -> [V -> V]]
  PROVE  Recursive(V, b, n, step)
<1> USE DEF Recursive
<1> DEFINE Upto(m) == Recursive(V, b, m, step)
           T == {m \in Nat : m <= n => Upto(m)}
<1>1. 0 \in T
  <2> DEFINE g == [k \in 0 .. 0 |-> b]
  <2>1. g \in [0 .. 0 -> V] /\ \A k \in 0 .. 0 : k = 0 /\ g[k] = b
    OBVIOUS
  <2> QED BY <2>1
<1>2. ASSUME NEW m \in Nat, m \in T PROVE m + 1 \in T
  <2> SUFFICES ASSUME m + 1 <= n PROVE Upto(m + 1)
    OBVIOUS
  <2>1. PICK g \in [0 .. m -> V] : \A k \in 0 .. m : g[k] = IF k = 0 THEN b ELSE step[k][g[k - 1]]
    BY <1>2
  <2> DEFINE last == step[m + 1][g[m]]
             h    == [k \in 0 .. m + 1 |-> IF k = m + 1 THEN last ELSE g[k]]
  <2>2. last \in V
    <3>1. step[m + 1] \in [V -> V] /\ g[m] \in V
      BY <2>1
    <3> QED BY <3>1
  <2> HIDE DEF last
  <2>3. \A k \in 0 .. m + 1 : k # m + 1 => k \in 0 .. m
    OBVIOUS
  <2>4. h \in [0 .. m + 1 -> V]
    BY <2>1, <2>2, <2>3
  <2>5. ASSUME NEW k \in 0 .. m + 1 PROVE h[k] = IF k = 0 THEN b ELSE step[k][h[k - 1]]
    <3>1. CASE k = m + 1
      <4>1. h[k] = last /\ h[k - 1] = g[m] /\ k # 0
        BY <3>1
      <4> QED BY <3>1, <4>1 DEF last
    <3>2. CASE k # m + 1
      <4>1. k \in 0 .. m /\ h[k] = g[k]
        BY <3>2
      <4>2. k # 0 => k - 1 \in 0 .. m + 1 /\ k - 1 # m + 1 /\ h[k - 1] = g[k - 1]
        BY <4>1
      <4> QED BY <2>1, <4>1, <4>2
    <3> QED BY <3>1, <3>2
  <2> HIDE DEF h
  <2> QED BY <2>4, <2>5
<1> HIDE DEF T
<1>3. n \in T
  BY <1>1, <1>2, Induction
<1> QED BY <1>3 DEF T

(* Totals so far: what they are, and that they depend on the sizes alone.  *)
LEMMA SumsDef ==
  ASSUME NEW b \in Nat, NEW s \in Seq(Nat)
  PROVE  /\ Sums(b, s) \in [0 .. Len(s) -> Nat]
         /\ Sums(b, s)[0] = b
         /\ \A k \in 1 .. Len(s) : Sums(b, s)[k] = Sums(b, s)[k - 1] + s[k]
<1> DEFINE n    == Len(s)
           step == [k \in 1 .. n |-> [x \in Nat |-> x + s[k]]]
           Def(g) == g = [k \in 0 .. n |-> IF k = 0 THEN b ELSE g[k - 1] + s[k]]
<1>1. n \in Nat /\ \A k \in 1 .. n : s[k] \in Nat
  BY LenProperties, ElementOfSeq
<1> HIDE DEF n
<1>2. step \in [1 .. n -> [Nat -> Nat]]
  BY <1>1
<1>3. PICK g \in [0 .. n -> Nat] : \A k \in 0 .. n : g[k] = IF k = 0 THEN b ELSE step[k][g[k - 1]]
  <2> DEFINE N == Nat
  <2>1. b \in N /\ step \in [1 .. n -> [N -> N]] /\ n \in Nat
    BY <1>1, <1>2
  <2> HIDE DEF step, N
  <2>2. Recursive(N, b, n, step)
    BY <2>1, Recursion
  <2> QED BY <2>2 DEF N, Recursive
<1>4. \A k \in 0 .. n : g[k] = IF k = 0 THEN b ELSE g[k - 1] + s[k]
  <2> SUFFICES ASSUME NEW k \in 0 .. n, k # 0 PROVE g[k] = g[k - 1] + s[k]
    BY <1>3
  <2>1. k \in 1 .. n /\ k - 1 \in 0 .. n
    BY <1>1
  <2>2. g[k - 1] \in Nat
    BY <1>3, <2>1
  <2> QED BY <1>3, <2>1, <2>2
<1>5. Def(g)
  BY <1>3, <1>4
<1>6. Sums(b, s) = CHOOSE f : Def(f)
  BY DEF Sums, n
<1>7. Def(Sums(b, s))
  <2> HIDE DEF Def
  <2> QED BY <1>5, <1>6
<1> DEFINE S == Sums(b, s)
<1>8. DOMAIN S = 0 .. n /\ \A k \in 0 .. n : S[k] = IF k = 0 THEN b ELSE S[k - 1] + s[k]
  BY <1>7
<1> HIDE DEF S
<1> DEFINE T == {m \in Nat : m <= n => S[m] \in Nat}
<1>9. 0 \in T
  BY <1>1, <1>8
<1>10. ASSUME NEW m \in Nat, m \in T PROVE m + 1 \in T
  <2> SUFFICES ASSUME m + 1 <= n PROVE S[m + 1] \in Nat
    OBVIOUS
  <2>1. m + 1 \in 0 .. n /\ m + 1 # 0 /\ (m + 1) - 1 = m /\ m + 1 \in 1 .. n
    BY <1>1
  <2>2. S[m + 1] = S[m] + s[m + 1]
    BY <1>8, <2>1
  <2> QED BY <1>1, <1>10, <2>1, <2>2
<1>11. \A k \in 0 .. n : S[k] \in Nat
  <2> HIDE DEF T
  <2>1. \A m \in Nat : m \in T
    BY <1>9, <1>10, Induction
  <2> QED BY <1>1, <2>1 DEF T
<1>12. S \in [0 .. n -> Nat]
  BY <1>7, <1>11 DEF S
<1>13. \A k \in 1 .. n : k \in 0 .. n /\ k # 0
  BY <1>1
<1>14. 0 \in 0 .. n
  BY <1>1
<1> QED BY <1>8, <1>12, <1>13, <1>14 DEF S, n
LEMMA SumsAgree ==
  ASSUME NEW b \in Nat, NEW s \in Seq(Nat), NEW t \in Seq(Nat), NEW n \in Nat, n <= Len(s), n <= Len(t),
         \A k \in 1 .. n : s[k] = t[k]
  PROVE  Sums(b, s)[n] = Sums(b, t)[n]
<1> DEFINE P == Sums(b, s)
           Q == Sums(b, t)
           T == {m \in Nat : m <= n => P[m] = Q[m]}
<1>1. Len(s) \in Nat /\ Len(t) \in Nat
  BY LenProperties
<1>2. /\ P[0] = b /\ \A k \in 1 .. Len(s) : P[k] = P[k - 1] + s[k]
      /\ Q[0] = b /\ \A k \in 1 .. Len(t) : Q[k] = Q[k - 1] + t[k]
  BY SumsDef
<1> HIDE DEF P, Q
<1>3. 0 \in T
  BY <1>2
<1>4. ASSUME NEW m \in Nat, m \in T PROVE m + 1 \in T
  <2> SUFFICES ASSUME m + 1 <= n PROVE P[m + 1] = Q[m + 1]
    OBVIOUS
  <2>1. /\ m + 1 \in 1 .. n /\ m + 1 \in 1 .. Len(s) /\ m + 1 \in 1 .. Len(t)
        /\ (m + 1) - 1 = m /\ m <= n
    BY <1>1
  <2> QED BY <1>2, <1>4, <2>1
<1> HIDE DEF T
<1>5. n \in T
  BY <1>3, <1>4, Induction
<1> QED BY <1>5 DEF P, Q, T

(* The sizes of a sequence with one more.                                  *)
LEMMA SumsAppend ==
  ASSUME NEW b \in Nat, NEW s \in Seq(Nat), NEW x \in Nat
  PROVE  Sums(b, Append(s, x))[Len(s) + 1] = Sums(b, s)[Len(s)] + x
<1> DEFINE t == Append(s, x)
           n == Len(s)
<1>1. t \in Seq(Nat) /\ Len(t) = n + 1 /\ t[n + 1] = x /\ n \in Nat /\ \A k \in 1 .. n : t[k] = s[k]
  BY AppendProperties, LenProperties
<1> HIDE DEF t
<1>2. n + 1 \in 1 .. Len(t) /\ (n + 1) - 1 = n /\ n <= Len(t) /\ n <= Len(s)
  BY <1>1
<1>3. Sums(b, t)[n + 1] = Sums(b, t)[n] + x
  BY <1>1, <1>2, SumsDef
<1>4. Sums(b, t)[n] = Sums(b, s)[n]
  BY <1>1, <1>2, SumsAgree
<1> QED BY <1>3, <1>4 DEF t

LEMMA SumsGrow ==
  ASSUME NEW b \in Nat, NEW s \in Seq(Nat), NEW k \in 0 .. Len(s)
  PROVE  Sums(b, s)[k] <= Sums(b, s)[Len(s)]
<1> DEFINE P == Sums(b, s)
           n == Len(s)
           T == {m \in Nat : k + m <= n => P[k] <= P[k + m]}
<1>1. n \in Nat /\ \A j \in 1 .. n : s[j] \in Nat
  BY LenProperties, ElementOfSeq
<1>2. P \in [0 .. n -> Nat] /\ \A j \in 1 .. n : P[j] = P[j - 1] + s[j]
  BY SumsDef
<1> HIDE DEF P, n
<1>3. k \in Nat /\ k <= n
  BY <1>1 DEF n
<1>4. 0 \in T
  <2>1. P[k] \in Nat /\ k + 0 = k
    BY <1>1, <1>2, <1>3
  <2> QED BY <2>1
<1>5. ASSUME NEW m \in Nat, m \in T PROVE m + 1 \in T
  <2> SUFFICES ASSUME k + (m + 1) <= n PROVE P[k] <= P[k + (m + 1)]
    OBVIOUS
  <2>1. /\ k + (m + 1) \in 1 .. n /\ (k + (m + 1)) - 1 = k + m /\ k + m <= n
        /\ k \in 0 .. n /\ k + m \in 0 .. n
    BY <1>1, <1>3
  <2>2. P[k + (m + 1)] = P[k + m] + s[k + (m + 1)] /\ s[k + (m + 1)] \in Nat
    BY <1>1, <1>2, <2>1
  <2>3. P[k] \in Nat /\ P[k + m] \in Nat /\ P[k] <= P[k + m]
    BY <1>2, <1>5, <2>1
  <2> QED BY <2>2, <2>3
<1> HIDE DEF T
<1>6. n - k \in Nat /\ k + (n - k) = n
  BY <1>1, <1>3
<1>7. n - k \in T
  BY <1>4, <1>5, <1>6, Induction
<1> QED BY <1>6, <1>7 DEF P, T, n

LEMMA SumsOfEqual ==
  ASSUME NEW b \in Nat, NEW c \in Nat, NEW n \in Nat
  PROVE  Sums(b, [k \in 1 .. n |-> c])[n] = b + c * n
<1> DEFINE s == [k \in 1 .. n |-> c]
           P == Sums(b, s)
           T == {m \in Nat : m <= n => P[m] = b + c * m}
<1>1. s \in Seq(Nat) /\ Len(s) = n
  <2>1. s \in [1 .. n -> Nat]
    OBVIOUS
  <2>2. s \in Seq(Nat)
    BY <2>1, SeqDef
  <2>3. DOMAIN s = 1 .. n
    OBVIOUS
  <2> HIDE DEF s
  <2> QED BY <2>2, <2>3, LenProperties
<1>2. \A k \in 1 .. n : s[k] = c
  OBVIOUS
<1> HIDE DEF s
<1>3. P[0] = b /\ \A k \in 1 .. n : P[k] = P[k - 1] + c
  <2>1. P[0] = b /\ \A k \in 1 .. Len(s) : P[k] = P[k - 1] + s[k]
    BY <1>1, SumsDef
  <2> HIDE DEF P
  <2> QED BY <1>1, <1>2, <2>1
<1> HIDE DEF P
<1>4. 0 \in T
  BY <1>3
<1>5. ASSUME NEW m \in Nat, m \in T PROVE m + 1 \in T
  <2> SUFFICES ASSUME m + 1 <= n PROVE P[m + 1] = b + c * (m + 1)
    OBVIOUS
  <2>1. m + 1 \in 1 .. n /\ (m + 1) - 1 = m /\ m <= n
    OBVIOUS
  <2>2. P[m + 1] = (b + c * m) + c
    BY <1>3, <1>5, <2>1
  <2>3. (b + c * m) + c = b + c * (m + 1)
    OBVIOUS
  <2> QED BY <2>2, <2>3
<1> HIDE DEF T
<1>6. n \in T
  BY <1>4, <1>5, Induction
<1>7. P[n] = b + c * n
  BY <1>6 DEF T
<1> QED BY <1>7 DEF P, s

-----------------------------------------------------------------------------
(* Sequences one after the other.                                          *)
LEMMA JoinsDef ==
  ASSUME NEW S, NEW s \in Seq(Seq(S))
  PROVE  /\ Joins(s) \in [0 .. Len(s) -> Seq(S)]
         /\ Joins(s)[0] = <<>>
         /\ \A k \in 1 .. Len(s) : Joins(s)[k] = Joins(s)[k - 1] \o s[k]
<1> DEFINE n == Len(s)
           V == Seq(S)
           step == [k \in 1 .. n |-> [x \in V |-> x \o s[k]]]
           Def(g) == g = [k \in 0 .. n |-> IF k = 0 THEN <<>> ELSE g[k - 1] \o s[k]]
           e == <<>>
<1>1. n \in Nat /\ \A k \in 1 .. n : s[k] \in V
  BY LenProperties, ElementOfSeq
<1>2. e \in V
  BY EmptySeq
<1>3. \A x \in V, y \in V : x \o y \in V
  BY ConcatProperties
<1> HIDE DEF n, V, e
<1>4. step \in [1 .. n -> [V -> V]]
  BY <1>1, <1>3
<1>5. PICK g \in [0 .. n -> V] : \A k \in 0 .. n : g[k] = IF k = 0 THEN e ELSE step[k][g[k - 1]]
  <2> HIDE DEF step
  <2>1. Recursive(V, e, n, step)
    BY <1>1, <1>2, <1>4, Recursion
  <2> QED BY <2>1 DEF Recursive
<1>6. \A k \in 0 .. n : g[k] = IF k = 0 THEN e ELSE g[k - 1] \o s[k]
  <2> SUFFICES ASSUME NEW k \in 0 .. n, k # 0 PROVE g[k] = g[k - 1] \o s[k]
    BY <1>5
  <2>1. k \in 1 .. n /\ k - 1 \in 0 .. n
    BY <1>1
  <2>2. g[k - 1] \in V
    BY <1>5, <2>1
  <2>3. step[k][g[k - 1]] = g[k - 1] \o s[k]
    BY <2>1, <2>2
  <2> HIDE DEF step
  <2> QED BY <1>5, <2>3
<1>7. Def(g)
  BY <1>5, <1>6 DEF e
<1>8. Joins(s) = CHOOSE f : Def(f)
  BY DEF Joins, n
<1>9. Def(Joins(s))
  <2> HIDE DEF Def
  <2> QED BY <1>7, <1>8
<1> DEFINE J == Joins(s)
<1>10. DOMAIN J = 0 .. n /\ \A k \in 0 .. n : J[k] = IF k = 0 THEN e ELSE J[k - 1] \o s[k]
  BY <1>9 DEF e
<1> DEFINE T == {m \in Nat : m <= n => J[m] \in V}
<1> HIDE DEF J
<1>11. 0 \in T
  <2>1. 0 \in 0 .. n
    BY <1>1
  <2>2. J[0] = e
    BY <1>10, <2>1
  <2> QED BY <1>2, <2>2
<1>12. ASSUME NEW m \in Nat, m \in T PROVE m + 1 \in T
  <2> SUFFICES ASSUME m + 1 <= n PROVE J[m + 1] \in V
    OBVIOUS
  <2>1. m + 1 \in 0 .. n /\ m + 1 # 0 /\ (m + 1) - 1 = m /\ m + 1 \in 1 .. n /\ m <= n
    BY <1>1
  <2>2. J[m + 1] = J[m] \o s[m + 1]
    BY <1>10, <2>1
  <2>3. J[m] \in V /\ s[m + 1] \in V
    BY <1>1, <1>12, <2>1
  <2> QED BY <1>3, <2>2, <2>3
<1>13. \A k \in 0 .. n : J[k] \in V
  <2> HIDE DEF T
  <2>1. \A m \in Nat : m \in T
    BY <1>11, <1>12, Induction
  <2> QED BY <1>1, <2>1 DEF T
<1>14. J \in [0 .. n -> V]
  BY <1>9, <1>13 DEF J
<1>15. \A k \in 1 .. n : k \in 0 .. n /\ k # 0
  BY <1>1
<1>16. 0 \in 0 .. n
  BY <1>1
<1> QED BY <1>10, <1>14, <1>15, <1>16 DEF J, n, V, e

LEMMA JoinedTyped ==
  ASSUME NEW S, NEW s \in Seq(Seq(S))
  PROVE  Joined(s) \in Seq(S)
<1>1. Len(s) \in Nat /\ Len(s) \in 0 .. Len(s)
  BY LenProperties
<1> QED BY <1>1, JoinsDef DEF Joined

LEMMA JoinsAgree ==
  ASSUME NEW S, NEW s \in Seq(Seq(S)), NEW t \in Seq(Seq(S)), NEW n \in Nat, n <= Len(s), n <= Len(t),
         \A k \in 1 .. n : s[k] = t[k]
  PROVE  Joins(s)[n] = Joins(t)[n]
<1> DEFINE P == Joins(s)
           Q == Joins(t)
           T == {m \in Nat : m <= n => P[m] = Q[m]}
<1>1. Len(s) \in Nat /\ Len(t) \in Nat
  BY LenProperties
<1>2. /\ P[0] = <<>> /\ \A k \in 1 .. Len(s) : P[k] = P[k - 1] \o s[k]
      /\ Q[0] = <<>> /\ \A k \in 1 .. Len(t) : Q[k] = Q[k - 1] \o t[k]
  BY JoinsDef
<1> HIDE DEF P, Q
<1>3. 0 \in T
  BY <1>2
<1>4. ASSUME NEW m \in Nat, m \in T PROVE m + 1 \in T
  <2> SUFFICES ASSUME m + 1 <= n PROVE P[m + 1] = Q[m + 1]
    OBVIOUS
  <2>1. /\ m + 1 \in 1 .. n /\ m + 1 \in 1 .. Len(s) /\ m + 1 \in 1 .. Len(t)
        /\ (m + 1) - 1 = m /\ m <= n
    BY <1>1
  <2>2. P[m + 1] = P[m] \o s[m + 1] /\ Q[m + 1] = Q[m] \o t[m + 1]
    BY <1>2, <2>1
  <2>3. P[m] = Q[m] /\ s[m + 1] = t[m + 1]
    BY <1>4, <2>1
  <2> QED BY <2>2, <2>3
<1> HIDE DEF T
<1>5. n \in T
  BY <1>3, <1>4, Induction
<1> QED BY <1>5 DEF P, Q, T

LEMMA JoinedAppend ==
  ASSUME NEW S, NEW s \in Seq(Seq(S)), NEW x \in Seq(S)
  PROVE  Joined(Append(s, x)) = Joined(s) \o x
<1> DEFINE t == Append(s, x)
           n == Len(s)
           X == Seq(S)
<1>1. t \in Seq(X) /\ Len(t) = n + 1 /\ t[n + 1] = x /\ n \in Nat /\ \A k \in 1 .. n : t[k] = s[k]
  <2> HIDE DEF X
  <2>1. s \in Seq(X) /\ x \in X
    BY DEF X
  <2> QED BY <2>1, AppendProperties, LenProperties
<1> HIDE DEF t
<1>2. n + 1 \in 1 .. Len(t) /\ (n + 1) - 1 = n /\ n <= Len(t) /\ n <= Len(s)
  BY <1>1
<1>3. Joins(t)[n + 1] = Joins(t)[n] \o x
  BY <1>1, <1>2, JoinsDef
<1>4. Joins(t)[n] = Joins(s)[n]
  BY <1>1, <1>2, JoinsAgree
<1>5. Joined(t) = Joins(t)[n + 1] /\ Joined(s) = Joins(s)[n]
  BY <1>1 DEF Joined
<1> QED BY <1>3, <1>4, <1>5 DEF t

(* Each of the sequences is in what they make together.                    *)
LEMMA JoinedContains ==
  ASSUME NEW S, NEW s \in Seq(Seq(S)), NEW k \in 1 .. Len(s), NEW j \in 1 .. Len(s[k])
  PROVE  \E i \in DOMAIN Joined(s) : Joined(s)[i] = s[k][j]
<1> DEFINE J == Joins(s)
           n == Len(s)
           Has(t) == \E i \in 1 .. Len(t) : t[i] = s[k][j]
           T == {m \in Nat : k + m <= n => Has(J[k + m])}
           X == Seq(S)
<1>1. n \in Nat /\ \A i \in 1 .. n : s[i] \in X
  BY LenProperties, ElementOfSeq
<1>2. J \in [0 .. n -> X] /\ \A i \in 1 .. n : J[i] = J[i - 1] \o s[i]
  BY JoinsDef
<1> HIDE DEF J, n
<1>3. k \in Nat \ {0} /\ k <= n /\ j \in Nat \ {0} /\ j <= Len(s[k])
  <2>1. Len(s[k]) \in Nat
    BY <1>1, LenProperties DEF n
  <2> QED BY <1>1, <2>1 DEF n
<1>4. ASSUME NEW a \in X, NEW b \in X
      PROVE  /\ a \o b \in X /\ Len(a) \in Nat /\ Len(b) \in Nat
             /\ Len(a \o b) = Len(a) + Len(b)
             /\ \A i \in 1 .. Len(a) : i \in 1 .. Len(a \o b) /\ (a \o b)[i] = a[i]
             /\ \A i \in 1 .. Len(b) : Len(a) + i \in 1 .. Len(a \o b) /\ (a \o b)[Len(a) + i] = b[i]
  <2>1. Len(a) \in Nat /\ Len(b) \in Nat
    BY LenProperties
  <2>2. /\ a \o b \in X /\ Len(a \o b) = Len(a) + Len(b)
        /\ \A i \in 1 .. Len(a) + Len(b) : (a \o b)[i] = IF i <= Len(a) THEN a[i] ELSE b[i - Len(a)]
    BY ConcatProperties
  <2>3. \A i \in 1 .. Len(b) :
          /\ Len(a) + i \in 1 .. Len(a) + Len(b)
          /\ ~(Len(a) + i <= Len(a)) /\ (Len(a) + i) - Len(a) = i
    BY <2>1
  <2>4. \A i \in 1 .. Len(a) : i \in 1 .. Len(a) + Len(b) /\ i <= Len(a)
    BY <2>1
  <2> HIDE DEF X
  <2> QED BY <2>1, <2>2, <2>3, <2>4
<1> HIDE DEF X
<1>5. 0 \in T
  <2>1. k \in 1 .. n /\ k - 1 \in 0 .. n /\ k + 0 = k
    BY <1>1, <1>3
  <2>2. J[k] = J[k - 1] \o s[k] /\ J[k - 1] \in X /\ s[k] \in X
    BY <1>1, <1>2, <2>1
  <2>3. j \in 1 .. Len(s[k])
    OBVIOUS
  <2> DEFINE a == J[k - 1]
             b == s[k]
  <2>4. a \in X /\ b \in X /\ j \in 1 .. Len(b)
    BY <2>2, <2>3
  <2>5. Len(a) + j \in 1 .. Len(a \o b) /\ (a \o b)[Len(a) + j] = b[j]
    <3> HIDE DEF a, b
    <3> QED BY <1>4, <2>4
  <2>6. Has(a \o b)
    BY <2>5
  <2> QED BY <2>1, <2>2, <2>6
<1>6. ASSUME NEW m \in Nat, m \in T PROVE m + 1 \in T
  <2> SUFFICES ASSUME k + (m + 1) <= n PROVE Has(J[k + (m + 1)])
    OBVIOUS
  <2>1. /\ k + (m + 1) \in 1 .. n /\ (k + (m + 1)) - 1 = k + m /\ k + m <= n /\ k + m \in 0 .. n
    BY <1>1, <1>3
  <2>2. /\ J[k + (m + 1)] = J[k + m] \o s[k + (m + 1)] /\ J[k + m] \in X /\ s[k + (m + 1)] \in X
    BY <1>1, <1>2, <2>1
  <2>3. PICK i \in 1 .. Len(J[k + m]) : J[k + m][i] = s[k][j]
    BY <1>6, <2>1
  <2> DEFINE a == J[k + m]
             b == s[k + (m + 1)]
  <2>4. i \in 1 .. Len(a \o b) /\ (a \o b)[i] = a[i]
    <3>1. a \in X /\ b \in X /\ i \in 1 .. Len(a)
      BY <2>2, <2>3
    <3> HIDE DEF a, b
    <3> QED BY <1>4, <3>1
  <2>5. Has(a \o b)
    BY <2>3, <2>4
  <2> QED BY <2>2, <2>5
<1> HIDE DEF T
<1>7. n - k \in Nat /\ k + (n - k) = n
  BY <1>1, <1>3
<1>8. n - k \in T
  BY <1>5, <1>6, <1>7, Induction
<1>9. Has(J[n])
  BY <1>7, <1>8 DEF T
<1>10. J[n] = Joined(s) /\ Joined(s) \in Seq(S)
  BY JoinedTyped DEF J, n, Joined
<1>11. DOMAIN Joined(s) = 1 .. Len(Joined(s))
  BY <1>10, LenProperties
<1> QED BY <1>9, <1>10, <1>11

-----------------------------------------------------------------------------
(* Sequences.                                                              *)
LEMMA RemoveAtProperties ==
  ASSUME NEW S, NEW s \in Seq(S), NEW k \in 1 .. Len(s)
  PROVE  RemoveAt(s, k) \in Seq(S) /\ Len(RemoveAt(s, k)) = Len(s) - 1
<1> DEFINE front == SubSeq(s, 1, k - 1)
           back  == SubSeq(s, k + 1, Len(s))
<1>1. front \in Seq(S) /\ Len(front) = k - 1
  BY SubSeqProperties, ElementOfSeq
<1>2. back \in Seq(S) /\ Len(back) = Len(s) - k
  BY SubSeqProperties, ElementOfSeq
<1>3. front \o back \in Seq(S) /\ Len(front \o back) = Len(front) + Len(back)
  <2> HIDE DEF front, back
  <2> QED BY <1>1, <1>2, ConcatProperties
<1>4. Len(s) \in Nat
  BY LenProperties
<1>5. RemoveAt(s, k) = front \o back
  BY DEF RemoveAt
<1> HIDE DEF front, back
<1> QED BY <1>1, <1>2, <1>3, <1>4, <1>5

LEMMA TailTyped ==
  ASSUME NEW S, NEW s \in Seq(S), s # <<>>
  PROVE  Head(s) \in S /\ Tail(s) \in Seq(S)
  BY HeadTailProperties

(* The builder: what it has made refers to what it has made.               *)
BuilderOK(b) ==
  /\ DOMAIN b = DOMAIN NewDeviceBuilder
  /\ b.values \in Seq(Values) /\ b.objs \in Seq(ObjectType)
  /\ b.tree \in [Values -> TreeType(Len(b.objs))]
  /\ b.config \in Values \union {0} /\ b.iface \in 0 .. Len(b.objs)

LEMMA TreeTypeGrows ==
  ASSUME NEW n \in Nat, NEW m \in Nat, n <= m
  PROVE  TreeType(n) \subseteq TreeType(m)
<1>1. Seq(1 .. n) \subseteq Seq(1 .. m)
  BY SeqMonotonic
<1> QED BY <1>1 DEF TreeType

LEMMA BuilderCallTyped ==
  ASSUME NEW b, BuilderOK(b), NEW c \in BuilderCalls
  PROVE  BuilderOK(BuilderCall(b, c))
<1>1. CASE c.op = "device"
  BY <1>1 DEF BuilderCall, WithVendorProduct, BuilderOK, NewDeviceBuilder
<1>2. CASE c.op = "configuration"
  <2>1. c.value \in Values
    BY <1>2 DEF BuilderCalls
  <2>2. Append(b.values, c.value) \in Seq(Values)
    BY <2>1, AppendProperties DEF BuilderOK
  <2> QED BY <1>2, <2>1, <2>2 DEF BuilderCall, AddConfigurationTo, FailsIf, BuilderOK, NewDeviceBuilder
<1>3. CASE c.op = "interface"
  <2>1. c.class \in STRING
    BY <1>3 DEF BuilderCalls
  <2>2. CASE b.config = 0 \/ Len(b.tree[b.config].interfaces) >= MaxInterfaces
    BY <1>3, <2>2 DEF BuilderCall, AddInterfaceTo, FailsIf, BuilderOK
  <2>3. CASE ~(b.config = 0 \/ Len(b.tree[b.config].interfaces) >= MaxInterfaces)
    <3> DEFINE n == Len(b.objs)
               known == b.tree[b.config].interfaces
               iface == [number |-> Len(known), class |-> c.class, endpoints |-> <<>>]
               next == [b EXCEPT !.objs = Append(@, iface), !.iface = n + 1,
                                 !.tree = [b.tree EXCEPT ![b.config].interfaces = Append(@, n + 1)]]
    <3>1. BuilderCall(b, c) = next
      BY <1>3, <2>3 DEF BuilderCall, AddInterfaceTo, FailsIf
    <3>2. n \in Nat /\ b.config \in Values /\ b.tree[b.config] \in TreeType(n)
      BY <2>3, LenProperties DEF BuilderOK
    <3>3. known \in Seq(1 .. n) /\ Len(known) \in Nat
      BY <3>2, LenProperties DEF TreeType
    <3>4. iface \in ObjectType
      BY <2>1, <3>3, EmptySeq DEF ObjectType
    <3>5. Append(b.objs, iface) \in Seq(ObjectType) /\ Len(Append(b.objs, iface)) = n + 1
      BY <3>4, AppendProperties DEF BuilderOK
    <3>6. Append(known, n + 1) \in Seq(1 .. n + 1)
      BY <3>2, <3>3, SeqMonotonic, AppendProperties
    <3>7. b.tree \in [Values -> TreeType(n + 1)]
      BY <3>2, TreeTypeGrows DEF BuilderOK
    <3>8. [b.tree EXCEPT ![b.config].interfaces = Append(@, n + 1)] \in [Values -> TreeType(n + 1)]
      BY <3>2, <3>6, <3>7 DEF TreeType
    <3> DEFINE objects == Append(b.objs, iface)
               trees == [b.tree EXCEPT ![b.config].interfaces = Append(@, n + 1)]
    <3>9. next = [b EXCEPT !.objs = objects, !.iface = n + 1, !.tree = trees]
      OBVIOUS
    <3>10. objects \in Seq(ObjectType) /\ Len(objects) = n + 1 /\ trees \in [Values -> TreeType(n + 1)]
      BY <3>5, <3>8
    <3> HIDE DEF objects, trees, next
    <3>11. /\ DOMAIN next = DOMAIN b /\ next.values = b.values /\ next.config = b.config
           /\ next.objs = objects /\ next.tree = trees /\ next.iface = n + 1
      BY <3>9 DEF BuilderOK, NewDeviceBuilder
    <3> QED BY <3>1, <3>2, <3>10, <3>11 DEF BuilderOK
  <2> QED BY <2>2, <2>3
<1>4. CASE c.op = "endpoint"
  <2>1. c.endpoint \in EndpointType
    BY <1>4 DEF BuilderCalls
  <2> DEFINE iface == b.objs[b.iface]
  <2>2. CASE \/ b.iface = 0
             \/ Len(iface.endpoints) >= MaxEndpoints
             \/ HasAddress(iface, c.endpoint.address)
    BY <1>4, <2>2 DEF BuilderCall, AddEndpointTo, FailsIf, BuilderOK
  <2>3. CASE ~(\/ b.iface = 0
               \/ Len(iface.endpoints) >= MaxEndpoints
               \/ HasAddress(iface, c.endpoint.address))
    <3> DEFINE objects == [b.objs EXCEPT ![b.iface].endpoints = Append(@, c.endpoint)]
    <3>1. BuilderCall(b, c) = [b EXCEPT !.objs = objects]
      BY <1>4, <2>3 DEF BuilderCall, AddEndpointTo, FailsIf, BuilderOK
    <3>2. b.iface \in 1 .. Len(b.objs) /\ iface \in ObjectType
      BY <2>3, ElementOfSeq DEF BuilderOK
    <3>3. Append(iface.endpoints, c.endpoint) \in Seq(EndpointType)
      BY <2>1, <3>2, AppendProperties DEF ObjectType
    <3>4. [iface EXCEPT !.endpoints = Append(@, c.endpoint)] \in ObjectType
      BY <3>2, <3>3 DEF ObjectType
    <3>5. objects \in Seq(ObjectType) /\ Len(objects) = Len(b.objs)
      BY <3>2, <3>4, ExceptSeq DEF BuilderOK
    <3> HIDE DEF objects
    <3> QED BY <3>1, <3>5 DEF BuilderOK
  <2> QED BY <2>2, <2>3
<1> QED BY <1>1, <1>2, <1>3, <1>4 DEF BuilderCalls

-----------------------------------------------------------------------------
(* Types, in parts.                                                        *)
AppStages  == {"ready", "swap", "close", "init", "search", "locked", "dropping", "closing", "emptying",
               "io", "panicked"}
Marshals   == {"header", "interface", "endpoints", "endpoint"}
(* The locals of a call fit the step it is at; n objects there are.        *)
FrameOK(f, n) ==
  /\ DOMAIN f = DOMAIN Frame(<<>>)
  /\ f.calls \in Seq(Calls) /\ f.at \in AppStages
  /\ f.todo \in Seq(1 .. n) /\ f.old \in Drivers \union {Nobody}
  /\ f.at # "ready" => f.calls # <<>>
  /\ f.at = "close" => f.old \in Drivers
  /\ f.at = "swap" /\ Head(f.calls).op \in {"attach", "detach"} => f.todo # <<>>
  /\ f.at \in {"init", "search", "close"} /\ Head(f.calls).op = "attach" => f.todo # <<>>
  /\ f.at = "search" => Head(f.calls).op = "attach" /\ f.read \in Seq(EndpointType) /\ f.slice \in Nat

TreeTyped ==
  /\ values \in Seq(Values) /\ objs \in Seq(ObjectType)
  /\ tree \in [Values -> TreeType(Len(objs))]
LockTyped ==
  /\ announced \in [Values -> Apps \union {Nobody}]
  /\ readers \in [Values -> 0 .. 1]
  /\ deviceLock \in Apps \union {Nobody}
DriverTyped ==
  /\ classDriver \in [1 .. Len(objs) -> Drivers \union {Nobody}]
  /\ DOMAIN driver = Drivers
  /\ \A d \in Drivers : DOMAIN driver[d] = DOMAIN Detached /\ Holds(d) \subseteq 1 .. Len(objs)
AppTyped == DOMAIN app = Apps /\ \A p \in Apps : FrameOK(app[p], Len(objs))
LoopTyped ==
  /\ DOMAIN loop = DOMAIN Idle
  /\ loop.at = "reach" => loop.object \in 1 .. Len(objs)
  /\ loop.at = "handle" => loop.target \in Drivers
BusTyped ==
  /\ onBus \in BOOLEAN /\ isConfigured \in BOOLEAN /\ active \in Values \union {0}
  /\ ~onBus => loop = Idle /\ request = NoRequest /\ host.at = "idle"
(* Until the device is built there is nothing but the builder.             *)
BuildTyped ==
  /\ plan \in Plans
  /\ phase \in {"building", "built", "failed"}
  /\ phase = "building" => builder.calls \in Seq(BuilderCalls) /\ BuilderOK(builder.made)
  /\ phase # "built" => ~onBus /\ objs = <<>> /\ \A p \in Apps : app[p].at = "ready" /\ app[p].todo = <<>>
HostTyped ==
  /\ request = NoRequest \/ request.kind \in {"GetDescriptor", "SetConfiguration", "Class", "lapsed"}
  /\ DOMAIN host = {"at", "tree", "requests"} /\ host.requests \in Seq(Requests)
TypeInv ==
  TreeTyped /\ LockTyped /\ DriverTyped /\ AppTyped /\ LoopTyped /\ BusTyped /\ BuildTyped /\ HostTyped

LEMMA NoBuilderOK == BuilderOK(NewDeviceBuilder)
<1>1. EmptyTree \in TreeType(0)
  BY EmptySeq DEF EmptyTree, TreeType
<1>2. <<>> \in Seq(ObjectType) /\ <<>> \in Seq(Values) /\ Len(<<>>) = 0
  BY EmptySeq
<1>3. [v \in Values |-> EmptyTree] \in [Values -> TreeType(Len(<<>>))]
  BY <1>1, <1>2
<1>4. 0 \in 0 .. Len(<<>>)
  BY <1>2
<1> QED BY <1>2, <1>3, <1>4 DEF NewDeviceBuilder, BuilderOK

LEMMA PlanFields ==
  ASSUME NEW pl \in Plans
  PROVE  /\ pl.script \in Seq(BuilderCalls) /\ pl.calls \in [Apps -> Seq(Calls)]
         /\ pl.requests \in Seq(Requests)
  BY PlansAssumption

LEMMA FrameTyped ==
  ASSUME NEW calls \in Seq(Calls), NEW n \in Nat
  PROVE  FrameOK(Frame(calls), n)
  BY EmptySeq DEF Frame, FrameOK, AppStages

LEMMA InitType == Init => TypeInv
<1> SUFFICES ASSUME Init PROVE TypeInv
  OBVIOUS
<1>1. /\ values = <<>> /\ objs = <<>> /\ tree = [v \in Values |-> EmptyTree]
      /\ announced = [v \in Values |-> Nobody] /\ readers = [v \in Values |-> 0] /\ deviceLock = Nobody
      /\ driver = [d \in Drivers |-> Detached] /\ classDriver = <<>>
      /\ plan \in Plans /\ phase = "building" /\ builder = [calls |-> plan.script, made |-> NewDeviceBuilder]
      /\ app = [p \in Apps |-> Frame(plan.calls[p])]
      /\ onBus = FALSE /\ active = 0 /\ isConfigured = FALSE /\ loop = Idle
      /\ request = NoRequest /\ host.at = "idle"
  BY DEF Init
<1>2. Len(objs) = 0 /\ 1 .. Len(objs) = {}
  BY <1>1, EmptySeq
<1>3. EmptyTree \in TreeType(0)
  BY EmptySeq DEF EmptyTree, TreeType
<1>4. TreeTyped
  BY <1>1, <1>2, <1>3, EmptySeq DEF TreeTyped
<1>5. LockTyped
  BY <1>1 DEF LockTyped
<1>6. DriverTyped
  <2>1. classDriver \in [{} -> Drivers \union {Nobody}]
    BY <1>1
  <2> QED BY <1>1, <1>2, <2>1 DEF DriverTyped, Holds, Detached
<1>7. AppTyped
  <2>1. \A p \in Apps : FrameOK(Frame(plan.calls[p]), Len(objs))
    BY <1>1, <1>2, PlanFields, FrameTyped
  <2> QED BY <1>1, <2>1 DEF AppTyped
<1>8. LoopTyped
  BY <1>1 DEF LoopTyped, Idle
<1>9. BusTyped
  BY <1>1 DEF BusTyped
<1>10. BuildTyped
  <2>1. \A p \in Apps : app[p].at = "ready" /\ app[p].todo = <<>>
    BY <1>1 DEF Frame
  <2>2. builder.calls \in Seq(BuilderCalls) /\ BuilderOK(builder.made)
    BY <1>1, PlanFields, NoBuilderOK
  <2> QED BY <1>1, <2>1, <2>2 DEF BuildTyped
<1>11. HostTyped
  BY <1>1, PlanFields DEF Init, HostTyped
<1> QED BY <1>4, <1>5, <1>6, <1>7, <1>8, <1>9, <1>10, <1>11 DEF TypeInv

-----------------------------------------------------------------------------
(* The locks a call holds at the step it is at.                            *)
Own(p) ==
  /\ Calling(p, Writers, "locked") => Call(p).value \in Values /\ announced[Call(p).value] = p
  /\ Calling(p, {"removeInterface"}, app[p].at) /\ app[p].at \in {"close", "dropping"} =>
       /\ Call(p).value \in Values /\ announced[Call(p).value] = p /\ readers[Call(p).value] = 0
       /\ app[p].todo # <<>> /\ Head(app[p].todo) \in ToSet(tree[Call(p).value].interfaces)
  /\ Calling(p, {"close"}, app[p].at) /\ app[p].at # "ready" => deviceLock = p
  /\ Calling(p, {"close"}, app[p].at) /\ app[p].at \in {"emptying", "close"} =>
       values # <<>> /\ announced[Head(values)] = p
HoldInv == \A p \in Apps : Own(p)

LEMMA CallFields ==
  ASSUME NEW c \in Calls
  PROVE  /\ c.op \in {"attach", "detach", "addEndpoint", "removeEndpoint", "setStack", "start", "close"}
                     \union Writers \union Uses
         /\ c.op = "attach" => c.driver \in Drivers /\ c.numbers \in Numbers
         /\ c.op = "detach" => c.driver = Nobody /\ c.numbers \in Numbers
         /\ c.op \in {"addEndpoint", "removeEndpoint"} => c.numbers \in Numbers /\ c.endpoint \in EndpointType
         /\ c.op \in Writers => c.number \in Nat /\ c.class \in STRING
         /\ c.op \in {"setStack"} \union Uses => c.driver \in Drivers
  BY DEF Calls, Writers, Uses

LEMMA CallTyped ==
  ASSUME AppTyped, NEW p \in Apps, app[p].calls # <<>>
  PROVE  Call(p) \in Calls /\ Tail(app[p].calls) \in Seq(Calls)
<1>1. app[p].calls \in Seq(Calls)
  BY DEF AppTyped, FrameOK
<1> QED BY <1>1, HeadTailProperties DEF Call

LEMMA ServedValue == \A v : GetConfiguration(v) /\ TreeTyped => v \in Values
<1> SUFFICES ASSUME NEW v, GetConfiguration(v), TreeTyped PROVE v \in Values
  OBVIOUS
<1>1. PICK i \in DOMAIN values : v = values[i]
  BY DEF GetConfiguration, ToSet
<1> QED BY <1>1, LenProperties, ElementOfSeq DEF TreeTyped

LEMMA InterfacesTyped ==
  ASSUME TreeTyped, NEW v \in Values
  PROVE  /\ tree[v].interfaces \in Seq(1 .. Len(objs)) /\ tree[v].associations \in Nat
         /\ DOMAIN tree[v].interfaces = 1 .. Len(tree[v].interfaces) /\ Len(tree[v].interfaces) \in Nat
         /\ ToSet(tree[v].interfaces) \subseteq 1 .. Len(objs)
<1>1. tree[v].interfaces \in Seq(1 .. Len(objs)) /\ tree[v].associations \in Nat
  BY DEF TreeTyped, TreeType
<1>2. DOMAIN tree[v].interfaces = 1 .. Len(tree[v].interfaces) /\ Len(tree[v].interfaces) \in Nat
  BY <1>1, LenProperties
<1>3. \A i \in DOMAIN tree[v].interfaces : tree[v].interfaces[i] \in 1 .. Len(objs)
  BY <1>1, <1>2, ElementOfSeq
<1> QED BY <1>1, <1>2, <1>3 DEF ToSet

LEMMA ObjectsTyped ==
  ASSUME TreeTyped
  PROVE  /\ Len(objs) \in Nat /\ DOMAIN objs = 1 .. Len(objs)
         /\ \A o \in 1 .. Len(objs) : objs[o] \in ObjectType
         /\ \A o \in 1 .. Len(objs) : objs[o].endpoints \in Seq(EndpointType) /\ objs[o].number \in Nat
<1>1. Len(objs) \in Nat /\ DOMAIN objs = 1 .. Len(objs)
  BY LenProperties DEF TreeTyped
<1>2. \A o \in 1 .. Len(objs) : objs[o] \in ObjectType
  BY ElementOfSeq DEF TreeTyped
<1> QED BY <1>1, <1>2 DEF ObjectType

LEMMA GetInterfaceTyped ==
  ASSUME TreeTyped, NEW v \in Values, NEW number, GetInterface(v, number) # 0
  PROVE  /\ GetInterface(v, number) \in ToSet(tree[v].interfaces)
         /\ GetInterface(v, number) \in 1 .. Len(objs)
<1> DEFINE found == {o \in ToSet(tree[v].interfaces) : objs[o].number = number}
<1>1. found # {} /\ GetInterface(v, number) = CHOOSE o \in found : TRUE
  BY DEF GetInterface
<1>2. GetInterface(v, number) \in found
  BY <1>1
<1> QED BY <1>2, InterfacesTyped

LEMMA NamedTyped ==
  ASSUME TreeTyped, NEW c, c.numbers \in Numbers, 0 \notin ToSet(Named(c))
  PROVE  Named(c) \in Seq(1 .. Len(objs)) /\ Named(c) # <<>> /\ GetConfiguration(c.value)
<1>1. GetConfiguration(c.value)
  <2> SUFFICES ASSUME ~GetConfiguration(c.value) PROVE FALSE
    OBVIOUS
  <2>1. Named(c) = <<0>> /\ <<0>>[1] = 0 /\ 1 \in DOMAIN <<0>>
    BY DEF Named
  <2> QED BY <2>1 DEF ToSet
<1>2. c.value \in Values
  BY <1>1, ServedValue
<1>3. c.numbers \in Seq(Nat) /\ c.numbers # <<>>
  BY DEF Numbers
<1> DEFINE n == Len(c.numbers)
<1>4. n \in Nat \ {0} /\ DOMAIN c.numbers = 1 .. n
  BY <1>3, EmptySeq, LenProperties
<1>5. Named(c) = [k \in 1 .. n |-> GetInterface(c.value, c.numbers[k])]
  BY <1>1, <1>4 DEF Named
<1> HIDE DEF n
<1>6. \A k \in 1 .. n : GetInterface(c.value, c.numbers[k]) \in 1 .. Len(objs)
  BY <1>2, <1>5, GetInterfaceTyped DEF ToSet
<1>7. Named(c) \in [1 .. n -> 1 .. Len(objs)]
  BY <1>5, <1>6
<1>8. Named(c) \in Seq(1 .. Len(objs))
  BY <1>4, <1>7, SeqDef
<1>9. DOMAIN Named(c) # {} /\ DOMAIN <<>> = {}
  BY <1>4, <1>5
<1> QED BY <1>1, <1>8, <1>9

-----------------------------------------------------------------------------
(* The steps of the application: what each changes.                        *)
Searches(p) == InitBegins(p) \/ InitReads(p)
AppActions(p) ==
  \/ Resolve(p) \/ Swap(p) \/ CloseOld(p) \/ Searches(p) \/ InitNew(p)
  \/ Lock(p) \/ Write(p) \/ RemoveInterface(p) \/ Drop(p)
  \/ CloseDevice(p) \/ CloseConfiguration(p) \/ CloseInterface(p)
  \/ ConfigurationClosed(p) \/ DeviceClosed(p)
  \/ ChangeEndpoints(p) \/ SetStack(p) \/ Start(p) \/ Prepare(p) \/ Transfer(p)

LEMMA AppCases ==
  ASSUME NEW p \in Apps, AppStep(p)
  PROVE  /\ phase = "built" /\ AppActions(p)
         /\ UNCHANGED <<plan, phase, builder, loop, hostVars>>
         /\ torn' = (torn \/ (Marshalling /\ EndpointsChange))
         /\ tangled' = (tangled \/ \E q \in Apps \ {p} : InLifecycle(q) /\ InLifecycle(p)')
  BY DEF AppStep, AppActions, Searches

(* Only the call of the goroutine goes on.                                 *)
LEMMA OnlyItsCall ==
  ASSUME AppTyped, NEW p \in Apps, AppActions(p)
  PROVE  /\ DOMAIN app' = Apps /\ \A q \in Apps : q # p => app'[q] = app[q]
         /\ DOMAIN app'[p] = DOMAIN app[p]
<1>1. DOMAIN app = Apps /\ DOMAIN app[p] = DOMAIN Frame(<<>>)
  BY DEF AppTyped, FrameOK
<1>2. CASE Resolve(p) \/ Swap(p)
  BY <1>1, <1>2 DEF Resolve, Swap, Returns, Frame
<1>3. CASE CloseOld(p) \/ Searches(p) \/ InitNew(p)
  BY <1>1, <1>3 DEF CloseOld, Searches, InitBegins, InitReads, InitNew, Returns, Goes, Frame
<1>4. CASE Lock(p) \/ Write(p) \/ Drop(p)
  BY <1>1, <1>4 DEF Lock, Write, Drop, Returns, Goes, Frame
<1>5. CASE RemoveInterface(p) \/ CloseInterface(p)
  BY <1>1, <1>5 DEF RemoveInterface, CloseInterface, Unplugged, Returns, Goes, Frame
<1>6. CASE CloseDevice(p) \/ CloseConfiguration(p) \/ ConfigurationClosed(p) \/ DeviceClosed(p)
  BY <1>1, <1>6 DEF CloseDevice, CloseConfiguration, ConfigurationClosed, DeviceClosed, Returns, Goes, Frame
<1>7. CASE ChangeEndpoints(p) \/ SetStack(p) \/ Start(p) \/ Prepare(p) \/ Transfer(p)
  BY <1>1, <1>7 DEF ChangeEndpoints, SetStack, Start, Prepare, Transfer, Returns, Frame
<1> QED BY <1>2, <1>3, <1>4, <1>5, <1>6, <1>7 DEF AppActions

(* Changing the tree keeps it a tree, and touches one configuration.       *)
Tidy(v) ==
  /\ TreeTyped' /\ Len(objs) <= Len(objs')
  /\ \A u \in Values : u # v => tree'[u] = tree[u]

LEMMA UntouchedTree ==
  ASSUME TreeTyped, UNCHANGED treeVars
  PROVE  Tidy(0) /\ tree' = tree
<1>1. Len(objs) \in Nat
  BY ObjectsTyped
<1> QED BY <1>1 DEF Tidy, TreeTyped, treeVars

LEMMA InterfaceAddedTyped ==
  ASSUME TreeTyped, NEW v \in Values, NEW number \in Nat, NEW class \in STRING,
         InterfaceAdded(v, number, class)
  PROVE  Tidy(v)
<1> DEFINE n     == Len(objs)
           known == tree[v].interfaces
           iface == [number |-> number, class |-> class, endpoints |-> <<>>]
<1>1. CASE UNCHANGED treeVars
  BY <1>1, UntouchedTree DEF Tidy
<1>2. CASE ~UNCHANGED treeVars
  <2>1. /\ objs' = Append(objs, iface) /\ values' = values
        /\ tree' = [tree EXCEPT ![v].interfaces = Append(@, n + 1)]
    BY <1>2 DEF InterfaceAdded
  <2>2. n \in Nat /\ tree \in [Values -> TreeType(n)] /\ tree[v] \in TreeType(n)
    BY ObjectsTyped DEF TreeTyped
  <2>3. iface \in ObjectType
    BY EmptySeq DEF ObjectType
  <2>4. objs' \in Seq(ObjectType) /\ Len(objs') = n + 1
    BY <2>1, <2>3, AppendProperties DEF TreeTyped
  <2>5. known \in Seq(1 .. n) /\ Seq(1 .. n) \subseteq Seq(1 .. n + 1)
    BY <2>2, InterfacesTyped, SeqMonotonic
  <2>6. Append(known, n + 1) \in Seq(1 .. n + 1)
    BY <2>2, <2>5, AppendProperties
  <2>7. tree \in [Values -> TreeType(n + 1)]
    BY <2>2, TreeTypeGrows
  <2>8. [tree[v] EXCEPT !.interfaces = Append(@, n + 1)] \in TreeType(n + 1)
    BY <2>6, <2>7 DEF TreeType
  <2>9. tree' = [tree EXCEPT ![v] = [tree[v] EXCEPT !.interfaces = Append(@, n + 1)]]
    BY <2>1, <2>2
  <2>10. tree' \in [Values -> TreeType(n + 1)] /\ \A u \in Values : u # v => tree'[u] = tree[u]
    BY <2>7, <2>8, <2>9
  <2> QED BY <2>1, <2>2, <2>4, <2>10 DEF TreeTyped, Tidy
<1> QED BY <1>1, <1>2

LEMMA InterfaceRemovedTyped ==
  ASSUME TreeTyped, NEW v \in Values, NEW k \in DOMAIN tree[v].interfaces, InterfaceRemoved(v, k)
  PROVE  Tidy(v)
<1> DEFINE n    == Len(objs)
           left == RemoveAt(tree[v].interfaces, k)
<1>1. n \in Nat /\ tree \in [Values -> TreeType(n)] /\ tree[v] \in TreeType(n)
  BY ObjectsTyped DEF TreeTyped
<1>2. left \in Seq(1 .. n)
  BY InterfacesTyped, RemoveAtProperties
<1>3. tree' = [tree EXCEPT ![v] = [tree[v] EXCEPT !.interfaces = left]] /\ UNCHANGED <<values, objs>>
  BY <1>1 DEF InterfaceRemoved
<1> HIDE DEF left
<1>4. [tree[v] EXCEPT !.interfaces = left] \in TreeType(n)
  BY <1>1, <1>2 DEF TreeType
<1>5. tree' \in [Values -> TreeType(n)] /\ \A u \in Values : u # v => tree'[u] = tree[u]
  BY <1>1, <1>3, <1>4
<1> QED BY <1>1, <1>3, <1>5 DEF TreeTyped, Tidy

LEMMA AssociationAddedTyped ==
  ASSUME TreeTyped, NEW v \in Values, AssociationAdded(v)
  PROVE  Tidy(v)
<1> DEFINE n    == Len(objs)
           more == IF tree[v].associations >= MaxAssociations THEN tree[v].associations
                   ELSE tree[v].associations + 1
<1>1. n \in Nat /\ tree \in [Values -> TreeType(n)] /\ tree[v] \in TreeType(n) /\ tree[v].associations \in Nat
  BY ObjectsTyped, InterfacesTyped DEF TreeTyped
<1>2. more \in Nat
  BY <1>1
<1>3. tree' = [tree EXCEPT ![v] = [tree[v] EXCEPT !.associations = more]] /\ UNCHANGED <<values, objs>>
  BY <1>1 DEF AssociationAdded
<1> HIDE DEF more
<1>4. [tree[v] EXCEPT !.associations = more] \in TreeType(n)
  BY <1>1, <1>2 DEF TreeType
<1>5. tree' \in [Values -> TreeType(n)] /\ \A u \in Values : u # v => tree'[u] = tree[u]
  BY <1>1, <1>3, <1>4
<1> QED BY <1>1, <1>3, <1>5 DEF TreeTyped, Tidy

(* A change of the endpoints of one interface.                             *)
LEMMA EndpointsTyped ==
  ASSUME TreeTyped, NEW o \in 1 .. Len(objs), NEW eps \in Seq(EndpointType),
         objs' = [objs EXCEPT ![o].endpoints = eps], UNCHANGED <<values, tree>>
  PROVE  TreeTyped' /\ Len(objs') = Len(objs)
<1>1. objs[o] \in ObjectType /\ DOMAIN objs = 1 .. Len(objs)
  BY ObjectsTyped
<1>2. [objs[o] EXCEPT !.endpoints = eps] \in ObjectType
  BY <1>1 DEF ObjectType
<1>3. objs' = [objs EXCEPT ![o] = [objs[o] EXCEPT !.endpoints = eps]]
  BY <1>1
<1>4. objs' \in Seq(ObjectType) /\ Len(objs') = Len(objs)
  BY <1>2, <1>3, ExceptSeq DEF TreeTyped
<1> QED BY <1>4 DEF TreeTyped

LEMMA EndpointAddedTyped ==
  ASSUME TreeTyped, NEW o \in 1 .. Len(objs), NEW ep \in EndpointType, EndpointAdded(o, ep)
  PROVE  TreeTyped' /\ Len(objs') = Len(objs) /\ UNCHANGED tree
<1>1. CASE objs' = objs
  BY <1>1 DEF EndpointAdded, TreeTyped
<1>2. CASE objs' # objs
  <2> DEFINE eps == Append(objs[o].endpoints, ep)
  <2>1. objs' = [objs EXCEPT ![o].endpoints = eps] /\ UNCHANGED <<values, tree>>
    BY <1>2 DEF EndpointAdded
  <2>2. eps \in Seq(EndpointType)
    BY ObjectsTyped, AppendProperties
  <2> HIDE DEF eps
  <2> QED BY <2>1, <2>2, EndpointsTyped
<1> QED BY <1>1, <1>2

LEMMA EndpointRemovedTyped ==
  ASSUME TreeTyped, NEW o \in 1 .. Len(objs), NEW address, EndpointRemoved(o, address)
  PROVE  TreeTyped' /\ Len(objs') = Len(objs) /\ UNCHANGED tree
<1>1. CASE ~HasAddress(objs[o], address)
  BY <1>1 DEF EndpointRemoved, TreeTyped
<1>2. CASE HasAddress(objs[o], address)
  <2> DEFINE k0  == CHOOSE k \in DOMAIN objs[o].endpoints : objs[o].endpoints[k].address = address
             eps == RemoveAt(objs[o].endpoints, k0)
  <2>1. k0 \in DOMAIN objs[o].endpoints
    BY <1>2 DEF HasAddress
  <2>2. objs' = [objs EXCEPT ![o].endpoints = eps] /\ UNCHANGED <<values, tree>>
    BY <1>2 DEF EndpointRemoved
  <2>3. objs[o].endpoints \in Seq(EndpointType)
    BY ObjectsTyped
  <2> HIDE DEF k0
  <2>4. eps \in Seq(EndpointType)
    BY <2>1, <2>3, LenProperties, RemoveAtProperties
  <2> HIDE DEF eps
  <2> QED BY <2>2, <2>4, EndpointsTyped
<1> QED BY <1>1, <1>2

(* A tree is changed by the call that holds its lock, while nobody reads.  *)
LEMMA TreeStep ==
  ASSUME TypeInv, HoldInv, NEW p \in Apps, AppActions(p)
  PROVE  /\ TreeTyped' /\ Len(objs) <= Len(objs') /\ Len(objs) \in Nat /\ Len(objs') \in Nat
         /\ Write(p) \/ Len(objs') = Len(objs)
         /\ \A u \in Values : tree'[u] # tree[u] => announced[u] = p /\ readers[u] = 0
         /\ values' = values \/ (deviceLock = p /\ values # <<>> /\ values' = Tail(values) /\ app'[p].at = "closing")
<1>1. TreeTyped /\ AppTyped /\ Own(p) /\ LockTyped
  BY DEF TypeInv, HoldInv
<1>2. CASE Write(p)
  <2>1. app[p].calls # <<>> /\ Call(p).op \in Writers /\ app[p].at = "locked" /\ Calling(p, Writers, "locked")
    BY <1>2 DEF Write, Calling
  <2>2. Call(p).value \in Values /\ announced[Call(p).value] = p /\ readers[Call(p).value] = 0
    BY <1>1, <1>2, <2>1 DEF Own, Write, Locked
  <2>3. Call(p).number \in Nat /\ Call(p).class \in STRING
    BY <1>1, <2>1, CallTyped, CallFields
  <2>4. \/ InterfaceAdded(Call(p).value, Call(p).number, Call(p).class)
        \/ AssociationAdded(Call(p).value) \/ UNCHANGED treeVars
    BY <1>2, <2>1 DEF Write, Calling, Writers
  <2>5. Tidy(Call(p).value) \/ (Tidy(0) /\ tree' = tree)
    BY <1>1, <2>2, <2>3, <2>4, InterfaceAddedTyped, AssociationAddedTyped, UntouchedTree
  <2>6. values' = values
    BY <2>4 DEF InterfaceAdded, AssociationAdded, treeVars
  <2> QED BY <1>1, <1>2, <2>2, <2>5, <2>6, ObjectsTyped DEF Tidy, TreeTyped
<1>3. CASE Drop(p)
  <2>1. app[p].calls # <<>> /\ Call(p).op = "removeInterface" /\ app[p].at = "dropping"
    BY <1>3 DEF Drop, Calling
  <2> DEFINE v == Call(p).value
             k == CHOOSE k \in DOMAIN tree[v].interfaces : tree[v].interfaces[k] = Head(app[p].todo)
  <2>2. v \in Values /\ announced[v] = p /\ readers[v] = 0 /\ Head(app[p].todo) \in ToSet(tree[v].interfaces)
    BY <1>1, <2>1 DEF Own, Calling
  <2>3. k \in DOMAIN tree[v].interfaces
    BY <2>2 DEF ToSet
  <2>4. InterfaceRemoved(v, k) /\ values' = values /\ objs' = objs
    BY <1>3 DEF Drop, InterfaceRemoved
  <2> HIDE DEF k, v
  <2>5. Tidy(v)
    BY <1>1, <2>2, <2>3, <2>4, InterfaceRemovedTyped
  <2> QED BY <1>1, <2>2, <2>4, <2>5, ObjectsTyped DEF Tidy, TreeTyped
<1>4. CASE CloseInterface(p)
  <2> DEFINE v == Head(values)
  <2>1. Calling(p, {"close"}, "emptying") /\ Locked(p, v) /\ tree[v].interfaces # <<>> /\ InterfaceRemoved(v, 1)
    BY <1>4 DEF CloseInterface
  <2>2. values # <<>> /\ announced[v] = p /\ readers[v] = 0
    BY <1>1, <2>1 DEF Own, Calling, Locked
  <2>3. v \in Values
    BY <1>1, <2>2, HeadTailProperties DEF TreeTyped
  <2>4. 1 \in DOMAIN tree[v].interfaces
    BY <1>1, <2>1, <2>3, InterfacesTyped, EmptySeq
  <2>5. values' = values /\ objs' = objs
    BY <2>1 DEF InterfaceRemoved
  <2> HIDE DEF v
  <2>6. Tidy(v)
    BY <1>1, <2>1, <2>3, <2>4, InterfaceRemovedTyped
  <2> QED BY <1>1, <2>2, <2>3, <2>5, <2>6, ObjectsTyped DEF Tidy, TreeTyped
<1>5. CASE ConfigurationClosed(p)
  <2>1. Calling(p, {"close"}, "emptying") /\ UNCHANGED <<objs, tree>> /\ values' = Tail(values) /\ Goes(p, "closing")
    BY <1>5 DEF ConfigurationClosed
  <2>2. values # <<>> /\ deviceLock = p
    BY <1>1, <2>1 DEF Own, Calling
  <2>3. values' \in Seq(Values)
    BY <1>1, <2>1, <2>2, HeadTailProperties DEF TreeTyped
  <2>4. app'[p].at = "closing"
    BY <1>1, <2>1 DEF Goes, AppTyped, FrameOK, Frame
  <2> QED BY <1>1, <2>1, <2>2, <2>3, <2>4, ObjectsTyped DEF TreeTyped
<1>6. CASE ChangeEndpoints(p)
  <2> DEFINE c == Call(p)
             o == Head(Named(c))
  <2>1. Calling(p, {"addEndpoint", "removeEndpoint"}, "ready") /\ values' = values /\ tree' = tree
    BY <1>6 DEF ChangeEndpoints, EndpointAdded, EndpointRemoved, treeVars
  <2>2. CASE UNCHANGED treeVars
    BY <1>1, <2>1, <2>2, UntouchedTree, ObjectsTyped DEF Tidy, TreeTyped, treeVars
  <2>3. CASE o # 0 /\ (EndpointAdded(o, c.endpoint) \/ EndpointRemoved(o, c.endpoint.address))
    <3>1. c \in Calls /\ c.numbers \in Numbers /\ c.endpoint \in EndpointType
      BY <1>1, <2>1, CallTyped, CallFields DEF Calling
    <3>2. GetConfiguration(c.value)
      BY <2>3 DEF Named
    <3>3. 1 \in DOMAIN c.numbers
      BY <3>1, EmptySeq, LenProperties DEF Numbers
    <3>4. o = GetInterface(c.value, c.numbers[1])
      <4>1. Named(c) = [k \in DOMAIN c.numbers |-> GetInterface(c.value, c.numbers[k])]
        BY <3>2 DEF Named
      <4> QED BY <3>3, <4>1 DEF Numbers
    <3>5. o \in 1 .. Len(objs)
      BY <1>1, <2>3, <3>2, <3>4, ServedValue, GetInterfaceTyped
    <3> HIDE DEF o, c
    <3>6. TreeTyped' /\ Len(objs') = Len(objs)
      BY <1>1, <2>3, <3>1, <3>5, EndpointAddedTyped, EndpointRemovedTyped
    <3> QED BY <1>1, <2>1, <3>6, ObjectsTyped
  <2> QED BY <1>6, <2>2, <2>3 DEF ChangeEndpoints
<1>7. CASE ~(Write(p) \/ Drop(p) \/ CloseInterface(p) \/ ConfigurationClosed(p) \/ ChangeEndpoints(p))
  <2>1. UNCHANGED treeVars
    BY <1>7 DEF AppActions, Resolve, Swap, CloseOld, Searches, InitBegins, InitReads, InitNew, Lock,
              RemoveInterface, CloseDevice,
       CloseConfiguration, DeviceClosed, SetStack, Start, Prepare, Transfer
  <2> QED BY <1>1, <2>1, UntouchedTree, ObjectsTyped DEF Tidy, treeVars, TreeTyped
<1> QED BY <1>2, <1>3, <1>4, <1>5, <1>6, <1>7

LEMMA SeqGrows ==
  ASSUME NEW n \in Nat, NEW m \in Nat, n <= m, NEW s \in Seq(1 .. n)
  PROVE  s \in Seq(1 .. m)
<1>1. 1 .. n \subseteq 1 .. m
  OBVIOUS
<1> QED BY <1>1, SeqMonotonic

(* The call a goroutine goes on with, and the one it goes back from.       *)
Onward(p) == app'[p].calls = app[p].calls
Back(p)   == app'[p] = Frame(Tail(app[p].calls))

LEMMA BackOK ==
  ASSUME AppTyped, NEW p \in Apps, Returns(p), app[p].calls # <<>>, NEW n \in Nat
  PROVE  Back(p) /\ FrameOK(app'[p], n)
<1>1. Back(p)
  BY DEF Returns, Back, AppTyped
<1> QED BY <1>1, CallTyped, FrameTyped DEF Back

LEMMA GoesOK ==
  ASSUME AppTyped, NEW p \in Apps, app[p].calls # <<>>, NEW to \in AppStages, Goes(p, to),
         to = "close" => app[p].old \in Drivers, to # "search",
         to \in {"swap", "init", "close"} => app[p].todo # <<>>
  PROVE  FrameOK(app'[p], Len(objs)) /\ Onward(p) /\ app'[p].at = to /\ app'[p].todo = app[p].todo
         /\ app'[p].old = app[p].old
<1>1. app'[p] = [app[p] EXCEPT !.at = to] /\ DOMAIN app[p] = DOMAIN Frame(<<>>)
  BY DEF Goes, AppTyped, FrameOK
<1>2. DOMAIN app'[p] = DOMAIN app[p] /\ app'[p].at = to /\ app'[p].calls = app[p].calls
      /\ app'[p].todo = app[p].todo /\ app'[p].old = app[p].old
  BY <1>1 DEF Frame
<1>3. FrameOK(app[p], Len(objs))
  BY DEF AppTyped
<1> QED BY <1>1, <1>2, <1>3 DEF Onward, FrameOK

LEMMA UnpluggedOK ==
  ASSUME TypeInv, NEW p \in Apps, app[p].calls # <<>>, NEW o \in 1 .. Len(objs),
         NEW then \in {"dropping", "emptying"}, Unplugged(p, o, then), Call(p).op \in {"removeInterface", "close"}
  PROVE  /\ FrameOK(app'[p], Len(objs)) /\ Onward(p) /\ app'[p].todo = <<o>> /\ app'[p].old = classDriver[o]
         /\ app'[p].at = IF classDriver[o] = Nobody THEN then ELSE "close"
<1>1. FrameOK(app[p], Len(objs)) /\ DOMAIN app = Apps /\ DOMAIN app[p] = DOMAIN Frame(<<>>)
  BY DEF TypeInv, AppTyped, FrameOK
<1>2. classDriver[o] \in Drivers \union {Nobody}
  BY DEF TypeInv, DriverTyped
<1>3. /\ DOMAIN app'[p] = DOMAIN app[p] /\ app'[p].calls = app[p].calls /\ app'[p].todo = <<o>>
      /\ app'[p].old = classDriver[o] /\ app'[p].at = IF classDriver[o] = Nobody THEN then ELSE "close"
  BY <1>1 DEF Unplugged, Frame
<1>4. <<o>> \in Seq(1 .. Len(objs)) /\ <<o>> # <<>>
  OBVIOUS
<1>5. Head(app'[p].calls).op \in {"removeInterface", "close"}
  BY <1>3 DEF Call
<1> QED BY <1>1, <1>2, <1>3, <1>4, <1>5 DEF Onward, FrameOK, AppStages

(* What the steps of attaching and detaching make of their call.           *)
LEMMA ResolveOK ==
  ASSUME TypeInv, NEW p \in Apps, Resolve(p)
  PROVE  /\ FrameOK(app'[p], Len(objs))
         /\ Back(p) \/ (Onward(p) /\ app'[p].at = "swap")
<1>1. app[p].calls # <<>> /\ Call(p).op \in {"attach", "detach"} /\ Call(p).numbers \in Numbers
  BY CallTyped, CallFields DEF Resolve, Calling, TypeInv
<1>2. DOMAIN app = Apps /\ DOMAIN app[p] = DOMAIN Frame(<<>>) /\ FrameOK(app[p], Len(objs)) /\ Len(objs) \in Nat
  BY ObjectsTyped DEF TypeInv, AppTyped, FrameOK
<1>3. CASE 0 \in ToSet(Named(Call(p)))
  <2>1. Returns(p)
    BY <1>3 DEF Resolve
  <2> QED BY <1>1, <1>2, <2>1, BackOK DEF TypeInv
<1>4. CASE 0 \notin ToSet(Named(Call(p)))
  <2>1. Named(Call(p)) \in Seq(1 .. Len(objs)) /\ Named(Call(p)) # <<>>
    BY <1>1, <1>4, NamedTyped DEF TypeInv
  <2>2. /\ DOMAIN app'[p] = DOMAIN app[p] /\ app'[p].calls = app[p].calls /\ app'[p].at = "swap"
        /\ app'[p].todo = Named(Call(p)) /\ app'[p].old = app[p].old
    BY <1>2, <1>4 DEF Resolve, Frame
  <2> QED BY <1>2, <2>1, <2>2, <1>1 DEF FrameOK, Onward, AppStages
<1> QED BY <1>3, <1>4

LEMMA SwapOK ==
  ASSUME TypeInv, NEW p \in Apps, Swap(p)
  PROVE  /\ FrameOK(app'[p], Len(objs)) /\ app[p].todo # <<>> /\ Head(app[p].todo) \in 1 .. Len(objs)
         /\ LET o == Head(app[p].todo)
            IN \/ Back(p) /\ classDriver[o] = Nobody /\ Call(p).driver = Nobody
               \/ /\ Onward(p) /\ app'[p].todo = app[p].todo /\ app'[p].old = classDriver[o]
                  /\ app'[p].at = IF classDriver[o] = Nobody THEN "init" ELSE "close"
<1> DEFINE o == Head(app[p].todo)
<1>1. app[p].calls # <<>> /\ Call(p).op \in {"attach", "detach"} /\ app[p].at = "swap"
  BY DEF Swap, Calling
<1>2. DOMAIN app = Apps /\ DOMAIN app[p] = DOMAIN Frame(<<>>) /\ FrameOK(app[p], Len(objs)) /\ Len(objs) \in Nat
  BY ObjectsTyped DEF TypeInv, AppTyped, FrameOK
<1>3. app[p].todo # <<>> /\ app[p].todo \in Seq(1 .. Len(objs))
  BY <1>1, <1>2 DEF FrameOK, Call
<1>4. o \in 1 .. Len(objs)
  BY <1>3, HeadTailProperties
<1>5. classDriver[o] \in Drivers \union {Nobody}
  BY <1>4 DEF TypeInv, DriverTyped
<1>6. CASE classDriver[o] = Nobody /\ Call(p).driver = Nobody
  <2>1. Returns(p)
    BY <1>6 DEF Swap
  <2> QED BY <1>1, <1>2, <1>3, <1>4, <1>6, <2>1, BackOK DEF TypeInv
<1>7. CASE ~(classDriver[o] = Nobody /\ Call(p).driver = Nobody)
  <2>1. app' = [app EXCEPT ![p].old = classDriver[o],
                           ![p].at = IF classDriver[o] = Nobody THEN "init" ELSE "close"]
    BY <1>7 DEF Swap
  <2>2. /\ DOMAIN app'[p] = DOMAIN app[p] /\ app'[p].calls = app[p].calls /\ app'[p].todo = app[p].todo
        /\ app'[p].old = classDriver[o] /\ app'[p].at = IF classDriver[o] = Nobody THEN "init" ELSE "close"
    BY <1>2, <2>1 DEF Frame
  <2> HIDE DEF o
  <2>3. FrameOK(app'[p], Len(objs))
    BY <1>1, <1>2, <1>3, <1>5, <2>2 DEF FrameOK, AppStages
  <2> QED BY <1>3, <1>4, <2>2, <2>3 DEF Onward, o
<1> QED BY <1>6, <1>7

LEMMA CloseOldOK ==
  ASSUME TypeInv, NEW p \in Apps, CloseOld(p)
  PROVE  /\ FrameOK(app'[p], Len(objs)) /\ app[p].old \in Drivers
         /\ \/ Back(p) /\ Call(p).op = "detach"
            \/ /\ Onward(p) /\ app'[p].todo = app[p].todo
               /\ \/ Call(p).op = "attach" /\ app'[p].at = "init"
                  \/ Call(p).op = "removeInterface" /\ app'[p].at = "dropping"
                  \/ Call(p).op = "close" /\ app'[p].at = "emptying"
<1>1. app[p].calls # <<>> /\ Call(p).op \in Lifecycle /\ app[p].at = "close"
  BY DEF CloseOld, Calling
<1>2. DOMAIN app = Apps /\ FrameOK(app[p], Len(objs)) /\ Len(objs) \in Nat /\ AppTyped
  BY ObjectsTyped DEF TypeInv, AppTyped
<1>3. app[p].old \in Drivers /\ (Call(p).op = "attach" => app[p].todo # <<>>)
  BY <1>1, <1>2 DEF FrameOK, Call
<1>4. CASE Call(p).op = "detach"
  BY <1>1, <1>2, <1>3, <1>4, BackOK DEF CloseOld
<1>5. CASE Call(p).op = "attach"
  <2>1. Goes(p, "init")
    BY <1>5 DEF CloseOld
  <2> QED BY <1>1, <1>2, <1>3, <1>5, <2>1, GoesOK DEF AppStages
<1>6. CASE Call(p).op = "removeInterface"
  <2>1. Goes(p, "dropping")
    BY <1>6 DEF CloseOld
  <2> QED BY <1>1, <1>2, <1>3, <1>6, <2>1, GoesOK DEF AppStages
<1>7. CASE Call(p).op = "close"
  <2>1. Goes(p, "emptying")
    BY <1>7 DEF CloseOld
  <2> QED BY <1>1, <1>2, <1>3, <1>7, <2>1, GoesOK DEF AppStages
<1> QED BY <1>1, <1>4, <1>5, <1>6, <1>7 DEF Lifecycle

(* Init of a driver goes through the endpoints of its interface.           *)
LEMMA SearchOK ==
  ASSUME TypeInv, NEW p \in Apps, Searches(p)
  PROVE  /\ FrameOK(app'[p], Len(objs)) /\ app[p].calls # <<>> /\ Call(p).op = "attach"
         /\ app[p].todo # <<>> /\ Head(app[p].todo) \in 1 .. Len(objs) /\ Call(p).driver \in Drivers
         /\ Onward(p) /\ app'[p].todo = app[p].todo /\ app'[p].old = app[p].old
         /\ app'[p].clean = app[p].clean /\ app'[p].endpoint = app[p].endpoint
         /\ app[p].at \in {"init", "search"} /\ app'[p].at \in {"search", "panicked"}
<1> DEFINE o == Head(app[p].todo)
           n == Len(app[p].read) + 1
           eps == objs[o].endpoints
<1>1. app[p].calls # <<>> /\ Call(p).op = "attach" /\ app[p].at \in {"init", "search"}
      /\ Call(p).driver \in Drivers
  BY CallTyped, CallFields DEF Searches, InitBegins, InitReads, Calling, TypeInv
<1>2. DOMAIN app = Apps /\ DOMAIN app[p] = DOMAIN Frame(<<>>) /\ FrameOK(app[p], Len(objs)) /\ Len(objs) \in Nat
  BY ObjectsTyped DEF TypeInv, AppTyped, FrameOK
<1>3. app[p].todo # <<>> /\ app[p].todo \in Seq(1 .. Len(objs))
  BY <1>1, <1>2 DEF FrameOK, Call
<1>4. o \in 1 .. Len(objs)
  BY <1>3, HeadTailProperties
<1>5. eps \in Seq(EndpointType) /\ Len(eps) \in Nat
  BY <1>4, ObjectsTyped, LenProperties DEF TypeInv
<1>6. CASE InitBegins(p)
  <2>1. /\ DOMAIN app'[p] = DOMAIN app[p] /\ app'[p].calls = app[p].calls /\ app'[p].todo = app[p].todo
        /\ app'[p].old = app[p].old /\ app'[p].at = "search" /\ app'[p].clean = app[p].clean
        /\ app'[p].endpoint = app[p].endpoint /\ app'[p].read = <<>>
        /\ app'[p].slice = IF Ranges(Call(p).driver, o) THEN Len(eps) ELSE 0
    BY <1>2, <1>6 DEF InitBegins, Frame
  <2>2. app'[p].slice \in Nat /\ app'[p].read \in Seq(EndpointType)
    BY <1>5, <2>1, EmptySeq
  <2>3. Head(app'[p].calls).op = "attach"
    BY <1>1, <2>1 DEF Call
  <2>4. FrameOK(app'[p], Len(objs))
    BY <1>1, <1>2, <1>3, <2>1, <2>2, <2>3 DEF FrameOK, AppStages
  <2> QED BY <1>1, <1>3, <1>4, <2>1, <2>4 DEF Onward
<1>7. CASE InitReads(p)
  <2>1. app[p].at = "search" /\ app[p].read \in Seq(EndpointType) /\ app[p].slice \in Nat
    BY <1>2, <1>7 DEF InitReads, Calling, FrameOK
  <2>2. n \in Nat \ {0}
    BY <2>1, LenProperties
  <2>3. CASE n > Len(eps)
    <3>1. Goes(p, "panicked")
      BY <1>7, <2>3 DEF InitReads
    <3>2. /\ app'[p].clean = app[p].clean /\ app'[p].endpoint = app[p].endpoint
      BY <1>2, <3>1 DEF Goes, Frame
    <3>3. AppTyped
      BY DEF TypeInv
    <3>4. FrameOK(app'[p], Len(objs)) /\ Onward(p) /\ app'[p].at = "panicked" /\ app'[p].todo = app[p].todo
          /\ app'[p].old = app[p].old
      BY <1>1, <3>1, <3>3, GoesOK DEF AppStages
    <3> QED BY <1>1, <1>3, <1>4, <3>2, <3>4
  <2>4. CASE ~(n > Len(eps))
    <3>1. /\ DOMAIN app'[p] = DOMAIN app[p] /\ app'[p].calls = app[p].calls /\ app'[p].todo = app[p].todo
          /\ app'[p].old = app[p].old /\ app'[p].at = app[p].at /\ app'[p].clean = app[p].clean
          /\ app'[p].endpoint = app[p].endpoint /\ app'[p].slice = app[p].slice
          /\ app'[p].read = Append(app[p].read, eps[n])
      BY <1>2, <1>7, <2>4 DEF InitReads, Frame
    <3>2. eps[n] \in EndpointType
      BY <1>5, <2>2, <2>4, ElementOfSeq
    <3>3. app'[p].read \in Seq(EndpointType)
      BY <2>1, <3>1, <3>2, AppendProperties
    <3>4. Head(app'[p].calls).op = "attach"
      BY <1>1, <3>1 DEF Call
    <3>5. FrameOK(app'[p], Len(objs))
      BY <1>1, <1>2, <1>3, <2>1, <3>1, <3>3, <3>4 DEF FrameOK, AppStages
    <3> QED BY <1>1, <1>3, <1>4, <2>1, <3>1, <3>5 DEF Onward
  <2> QED BY <2>3, <2>4
<1> QED BY <1>6, <1>7 DEF Searches

(* What Init has read of the interface.                                    *)
SearchStep(p, o, eps, n) ==
  \/ /\ InitBegins(p) /\ app'[p].read = <<>>
     /\ app'[p].slice = IF Ranges(Call(p).driver, o) THEN Len(eps) ELSE 0
  \/ /\ InitReads(p) /\ app[p].at = "search" /\ app'[p].slice = app[p].slice
     /\ app[p].read \in Seq(EndpointType) /\ app[p].slice \in Nat /\ Len(app[p].read) # app[p].slice
     /\ n \in Nat \ {0} /\ n <= Len(eps) /\ app'[p].read = Append(app[p].read, eps[n])
LEMMA SearchReads ==
  ASSUME TypeInv, NEW p \in Apps, Searches(p), app'[p].at # "panicked",
         NEW o, o = Head(app[p].todo), NEW eps, eps = objs[o].endpoints, NEW n, n = Len(app[p].read) + 1
  PROVE  SearchStep(p, o, eps, n)
<1>1. DOMAIN app = Apps /\ DOMAIN app[p] = DOMAIN Frame(<<>>) /\ FrameOK(app[p], Len(objs)) /\ o \in 1 .. Len(objs)
  BY SearchOK DEF TypeInv, AppTyped, FrameOK
<1>2. Len(eps) \in Nat
  BY <1>1, ObjectsTyped, LenProperties DEF TypeInv
<1>3. CASE InitBegins(p)
  <2>1. app'[p].read = <<>> /\ app'[p].slice = IF Ranges(Call(p).driver, o) THEN Len(eps) ELSE 0
    <3>1. app' = [app EXCEPT ![p].at = "search", ![p].read = <<>>,
                             ![p].slice = IF Ranges(Call(p).driver, o) THEN Len(eps) ELSE 0]
      BY <1>3 DEF InitBegins
    <3> QED BY <1>1, <3>1 DEF Frame
  <2> QED BY <1>3, <2>1 DEF SearchStep
<1>4. CASE InitReads(p)
  <2>1. app[p].at = "search" /\ app[p].read \in Seq(EndpointType) /\ app[p].slice \in Nat
    BY <1>1, <1>4 DEF InitReads, Calling, FrameOK
  <2>2. n \in Nat \ {0}
    BY <2>1, LenProperties
  <2>3. ~(n > Len(eps))
    <3>1. Goes(p, "panicked") => app'[p].at = "panicked"
      BY <1>1 DEF Goes, Frame
    <3> QED BY <1>4, <3>1 DEF InitReads
  <2>4. app' = [app EXCEPT ![p].read = Append(@, eps[n])]
    BY <1>4, <2>3 DEF InitReads
  <2>5. app'[p].slice = app[p].slice /\ app'[p].read = Append(app[p].read, eps[n])
    BY <1>1, <2>4 DEF Frame
  <2>6. Len(app[p].read) # app[p].slice
    BY <1>4 DEF InitReads, Searched
  <2>7. n <= Len(eps)
    BY <1>2, <2>2, <2>3
  <2> QED BY <1>4, <2>1, <2>2, <2>5, <2>6, <2>7 DEF SearchStep
<1> QED BY <1>3, <1>4 DEF Searches

LEMMA InitNewOK ==
  ASSUME TypeInv, NEW p \in Apps, InitNew(p)
  PROVE  /\ FrameOK(app'[p], Len(objs)) /\ app[p].todo # <<>> /\ Head(app[p].todo) \in 1 .. Len(objs)
         /\ Call(p).driver \in Drivers /\ app[p].read \in Seq(EndpointType) /\ app[p].slice \in Nat
         /\ Back(p) \/ (Onward(p) /\ app'[p].at = "swap")
<1>1. app[p].calls # <<>> /\ Call(p).op = "attach" /\ app[p].at = "search" /\ Call(p).driver \in Drivers
  BY CallTyped, CallFields DEF InitNew, Calling, TypeInv
<1>2. DOMAIN app = Apps /\ DOMAIN app[p] = DOMAIN Frame(<<>>) /\ FrameOK(app[p], Len(objs)) /\ Len(objs) \in Nat
  BY ObjectsTyped DEF TypeInv, AppTyped, FrameOK
<1>3. app[p].todo # <<>> /\ app[p].todo \in Seq(1 .. Len(objs))
      /\ app[p].read \in Seq(EndpointType) /\ app[p].slice \in Nat
  BY <1>1, <1>2 DEF FrameOK, Call
<1>4. Head(app[p].todo) \in 1 .. Len(objs)
  BY <1>3, HeadTailProperties
<1>5. CASE Returns(p)
  BY <1>1, <1>2, <1>3, <1>4, <1>5, BackOK DEF TypeInv
<1>6. CASE app' = [app EXCEPT ![p].at = "swap", ![p].todo = Tail(@)] /\ Len(app[p].todo) # 1
  <2>1. /\ DOMAIN app'[p] = DOMAIN app[p] /\ app'[p].calls = app[p].calls /\ app'[p].todo = Tail(app[p].todo)
        /\ app'[p].old = app[p].old /\ app'[p].at = "swap"
    BY <1>2, <1>6 DEF Frame
  <2>2. Tail(app[p].todo) \in Seq(1 .. Len(objs)) /\ Len(Tail(app[p].todo)) # 0
    <3> DEFINE t == app[p].todo
    <3>1. t \in Seq(1 .. Len(objs)) /\ t # <<>> /\ Len(t) # 1
      BY <1>3, <1>6
    <3> HIDE DEF t
    <3>2. Tail(t) \in Seq(1 .. Len(objs)) /\ Len(Tail(t)) = Len(t) - 1 /\ Len(t) \in Nat
      BY <3>1, HeadTailProperties, LenProperties
    <3> QED BY <3>1, <3>2 DEF t
  <2>3. Tail(app[p].todo) # <<>>
    BY <2>2, EmptySeq
  <2>4. FrameOK(app'[p], Len(objs))
    BY <1>1, <1>2, <2>1, <2>2, <2>3 DEF FrameOK, AppStages
  <2> QED BY <1>1, <1>3, <1>4, <2>1, <2>4 DEF Onward
<1> QED BY <1>5, <1>6 DEF InitNew

LEMMA RemoveInterfaceOK ==
  ASSUME TypeInv, HoldInv, NEW p \in Apps, RemoveInterface(p)
  PROVE  /\ FrameOK(app'[p], Len(objs))
         /\ \/ Back(p) /\ UNCHANGED classDriver
            \/ \E o \in ToSet(tree[Call(p).value].interfaces) :
                 /\ o \in 1 .. Len(objs) /\ Unplugged(p, o, "dropping") /\ UNCHANGED announced
                 /\ Onward(p) /\ app'[p].todo = <<o>> /\ app'[p].old = classDriver[o]
                 /\ app'[p].at = IF classDriver[o] = Nobody THEN "dropping" ELSE "close"
<1>1. app[p].calls # <<>> /\ Call(p).op = "removeInterface" /\ app[p].at = "locked"
  BY DEF RemoveInterface, Calling
<1>2. Call(p).value \in Values
  BY <1>1 DEF HoldInv, Own, Calling, Writers
<1> DEFINE o == GetInterface(Call(p).value, Call(p).number)
<1>3. CASE o = 0
  <2>1. Returns(p) /\ UNCHANGED classDriver
    BY <1>3 DEF RemoveInterface
  <2> QED BY <1>1, <2>1, BackOK, ObjectsTyped DEF TypeInv
<1>4. CASE o # 0
  <2>1. Unplugged(p, o, "dropping") /\ UNCHANGED announced
    BY <1>4 DEF RemoveInterface
  <2>2. o \in ToSet(tree[Call(p).value].interfaces) /\ o \in 1 .. Len(objs)
    BY <1>2, <1>4, GetInterfaceTyped DEF TypeInv
  <2> HIDE DEF o
  <2> QED BY <1>1, <2>1, <2>2, UnpluggedOK
<1> QED BY <1>3, <1>4

LEMMA CloseInterfaceOK ==
  ASSUME TypeInv, HoldInv, NEW p \in Apps, CloseInterface(p)
  PROVE  /\ FrameOK(app'[p], Len(objs)) /\ Head(values) \in Values
         /\ \E o \in 1 .. Len(objs) :
              /\ Unplugged(p, o, "emptying") /\ Onward(p) /\ app'[p].todo = <<o>> /\ app'[p].old = classDriver[o]
              /\ app'[p].at = IF classDriver[o] = Nobody THEN "emptying" ELSE "close"
<1>1. app[p].calls # <<>> /\ Call(p).op = "close" /\ app[p].at = "emptying"
  BY DEF CloseInterface, Calling
<1>2. values # <<>>
  BY <1>1 DEF HoldInv, Own, Calling
<1> DEFINE s == tree[Head(values)].interfaces
           o == Head(s)
<1>3. Head(values) \in Values
  BY <1>2, HeadTailProperties DEF TypeInv, TreeTyped
<1>4. Unplugged(p, o, "emptying") /\ s # <<>>
  BY DEF CloseInterface
<1>5. s \in Seq(1 .. Len(objs))
  BY <1>3, InterfacesTyped DEF TypeInv
<1>6. o \in 1 .. Len(objs)
  BY <1>4, <1>5, HeadTailProperties
<1> HIDE DEF o
<1>7. FrameOK(app'[p], Len(objs)) /\ Onward(p) /\ app'[p].todo = <<o>> /\ app'[p].old = classDriver[o]
      /\ app'[p].at = IF classDriver[o] = Nobody THEN "emptying" ELSE "close"
  BY <1>1, <1>4, <1>6, UnpluggedOK
<1> QED BY <1>3, <1>4, <1>6, <1>7

(* The remaining steps: forth to one stage, or back.                       *)
LEMMA PlainOK ==
  ASSUME TypeInv, NEW p \in Apps,
         \/ Lock(p) \/ CloseDevice(p) \/ CloseConfiguration(p) \/ ConfigurationClosed(p)
         \/ Write(p) \/ Drop(p) \/ DeviceClosed(p)
         \/ ChangeEndpoints(p) \/ SetStack(p) \/ Start(p) \/ Prepare(p) \/ Transfer(p)
  PROVE  /\ FrameOK(app'[p], Len(objs)) /\ app[p].calls # <<>>
         /\ \/ Back(p)
            \/ Lock(p) /\ Onward(p) /\ app'[p].at = "locked"
            \/ (CloseDevice(p) \/ ConfigurationClosed(p)) /\ Onward(p) /\ app'[p].at = "closing"
            \/ CloseConfiguration(p) /\ Onward(p) /\ app'[p].at = "emptying"
            \/ Prepare(p) /\ Onward(p) /\ app'[p].at = "io"
<1>1. AppTyped /\ Len(objs) \in Nat
  BY ObjectsTyped DEF TypeInv
<1>2. CASE Lock(p)
  <2>1. app[p].calls # <<>>
    BY <1>2 DEF Lock, Calling
  <2>2. Returns(p) \/ Goes(p, "locked")
    BY <1>2 DEF Lock
  <2> QED BY <1>1, <1>2, <2>1, <2>2, BackOK, GoesOK DEF AppStages
<1>3. CASE CloseDevice(p) \/ ConfigurationClosed(p)
  <2>1. app[p].calls # <<>> /\ Goes(p, "closing")
    BY <1>3 DEF CloseDevice, ConfigurationClosed, Calling
  <2> QED BY <1>1, <1>3, <2>1, GoesOK DEF AppStages
<1>4. CASE CloseConfiguration(p)
  <2>1. app[p].calls # <<>> /\ Goes(p, "emptying")
    BY <1>4 DEF CloseConfiguration, Calling
  <2> QED BY <1>1, <1>4, <2>1, GoesOK DEF AppStages
<1>5. CASE Write(p) \/ Drop(p) \/ DeviceClosed(p) \/ ChangeEndpoints(p) \/ SetStack(p) \/ Start(p) \/ Transfer(p)
  <2>1. app[p].calls # <<>> /\ Returns(p)
    BY <1>5 DEF Write, Drop, DeviceClosed, ChangeEndpoints, SetStack, Start, Transfer, Calling
  <2> QED BY <1>1, <2>1, BackOK
<1>6. CASE Prepare(p)
  <2>1. app[p].calls # <<>> /\ app[p].at = "ready" /\ DOMAIN app = Apps /\ FrameOK(app[p], Len(objs))
        /\ DOMAIN app[p] = DOMAIN Frame(<<>>)
    BY <1>1, <1>6 DEF Prepare, Calling, AppTyped, FrameOK
  <2>2. CASE Returns(p)
    BY <1>1, <2>1, <2>2, BackOK
  <2>3. CASE ~Returns(p)
    <3>1. /\ DOMAIN app'[p] = DOMAIN app[p] /\ app'[p].calls = app[p].calls /\ app'[p].todo = app[p].todo
          /\ app'[p].old = app[p].old /\ app'[p].at = "io"
      BY <1>6, <2>1, <2>3 DEF Prepare, Frame
    <3> QED BY <1>6, <2>1, <3>1 DEF FrameOK, AppStages, Onward
  <2> QED BY <2>2, <2>3
<1> QED BY <1>2, <1>3, <1>4, <1>5, <1>6

LEMMA AppTypedNext ==
  ASSUME TypeInv, HoldInv, NEW p \in Apps, AppActions(p)
  PROVE  AppTyped'
<1>1. DOMAIN app' = Apps /\ \A q \in Apps : q # p => app'[q] = app[q]
  BY OnlyItsCall DEF TypeInv
<1>2. FrameOK(app'[p], Len(objs))
  BY ResolveOK, SwapOK, CloseOldOK, SearchOK, InitNewOK, RemoveInterfaceOK, CloseInterfaceOK, PlainOK
  DEF AppActions
<1>3. \A q \in Apps : FrameOK(app'[q], Len(objs))
  BY <1>1, <1>2 DEF TypeInv, AppTyped
<1>4. Len(objs) \in Nat /\ Len(objs') \in Nat /\ Len(objs) <= Len(objs')
  BY TreeStep
<1>5. ASSUME NEW f, FrameOK(f, Len(objs)) PROVE FrameOK(f, Len(objs'))
  BY <1>4, <1>5, SeqGrows DEF FrameOK
<1>6. \A q \in Apps : FrameOK(app'[q], Len(objs'))
  BY <1>3, <1>5
<1> QED BY <1>1, <1>6 DEF AppTyped

(* A lock is given back by its holder only, and taken when it is free.     *)
LEMMA LockStep ==
  ASSUME TypeInv, HoldInv, NEW p \in Apps, AppActions(p)
  PROVE  /\ LockTyped' /\ readers' = readers
         /\ \A v \in Values : announced'[v] = announced[v] \/ announced[v] \in {p, Nobody}
         /\ deviceLock' = deviceLock \/ deviceLock \in {p, Nobody}
<1> DEFINE Fair  == \A v \in Values : announced'[v] = announced[v] \/ announced[v] \in {p, Nobody}
           Fine  == announced' \in [Values -> Apps \union {Nobody}]
<1>1. LockTyped /\ TreeTyped /\ Own(p)
  BY DEF TypeInv, HoldInv
<1>2. ASSUME NEW v \in Values, announced[v] \in {p, Nobody},
             announced' = [announced EXCEPT ![v] = p] \/ announced' = [announced EXCEPT ![v] = Nobody]
      PROVE  Fair /\ Fine
  BY <1>1, <1>2 DEF LockTyped
<1>3. CASE Lock(p)
  <2>1. CASE GetConfiguration(Call(p).value)
    <3>1. Announce(p, Call(p).value) /\ Call(p).value \in Values /\ UNCHANGED <<readers, deviceLock>>
      BY <1>1, <1>3, <2>1, ServedValue DEF Lock
    <3> QED BY <1>1, <1>2, <3>1 DEF Announce, LockTyped
  <2>2. CASE ~GetConfiguration(Call(p).value)
    BY <1>1, <1>3, <2>2 DEF Lock, LockTyped
  <2> QED BY <2>1, <2>2
<1>4. CASE Write(p) \/ Drop(p)
  <2>1. Call(p).value \in Values /\ announced[Call(p).value] = p
    BY <1>1, <1>4 DEF Write, Drop, Own, Calling
  <2>2. Unlock(Call(p).value) /\ UNCHANGED <<readers, deviceLock>>
    BY <1>4 DEF Write, Drop
  <2> QED BY <1>1, <1>2, <2>1, <2>2 DEF Unlock, LockTyped
<1>5. CASE RemoveInterface(p)
  <2>1. Call(p).value \in Values /\ announced[Call(p).value] = p
    BY <1>1, <1>5 DEF RemoveInterface, Own, Calling, Writers
  <2>2. (Unlock(Call(p).value) \/ UNCHANGED announced) /\ UNCHANGED <<readers, deviceLock>>
    BY <1>5 DEF RemoveInterface
  <2> QED BY <1>1, <1>2, <2>1, <2>2 DEF Unlock, LockTyped
<1>6. CASE CloseDevice(p)
  BY <1>1, <1>6 DEF CloseDevice, DeviceUnlocked, LockTyped
<1>7. CASE CloseConfiguration(p)
  <2>1. Announce(p, Head(values)) /\ Head(values) \in Values /\ UNCHANGED <<readers, deviceLock>>
    BY <1>1, <1>7, HeadTailProperties DEF CloseConfiguration, TreeTyped
  <2> QED BY <1>1, <1>2, <2>1 DEF Announce, LockTyped
<1>8. CASE ConfigurationClosed(p)
  <2>1. Calling(p, {"close"}, "emptying")
    BY <1>8 DEF ConfigurationClosed
  <2>2. values # <<>> /\ announced[Head(values)] = p
    BY <1>1, <2>1 DEF Own, Calling
  <2>3. Head(values) \in Values
    BY <1>1, <2>2, HeadTailProperties DEF TreeTyped
  <2>4. Unlock(Head(values)) /\ UNCHANGED <<readers, deviceLock>>
    BY <1>8 DEF ConfigurationClosed
  <2> QED BY <1>1, <1>2, <2>2, <2>3, <2>4 DEF Unlock, LockTyped
<1>9. CASE DeviceClosed(p)
  <2>1. deviceLock = p
    BY <1>1, <1>9 DEF DeviceClosed, Own, Calling
  <2> QED BY <1>1, <1>9, <2>1 DEF DeviceClosed, LockTyped
<1>10. CASE ~(Lock(p) \/ Write(p) \/ Drop(p) \/ RemoveInterface(p) \/ CloseDevice(p) \/ CloseConfiguration(p)
              \/ ConfigurationClosed(p) \/ DeviceClosed(p))
  <2>1. UNCHANGED lockVars
    BY <1>10 DEF AppActions, Resolve, Swap, CloseOld, Searches, InitBegins, InitReads, InitNew,
              CloseInterface, ChangeEndpoints, SetStack, Start,
       Prepare, Transfer, lockVars
  <2> QED BY <1>1, <2>1 DEF lockVars, LockTyped
<1> QED BY <1>3, <1>4, <1>5, <1>6, <1>7, <1>8, <1>9, <1>10

(* The calls under way keep their locks.                                   *)
LEMMA OwnOthers ==
  ASSUME TypeInv, HoldInv, NEW p \in Apps, AppActions(p), NEW q \in Apps, q # p
  PROVE  Own(q)'
<1> DEFINE v == Call(q).value
<1>1. app'[q] = app[q] /\ Own(q) /\ q # Nobody
  BY OnlyItsCall, ConfigurationAssumption DEF TypeInv, HoldInv
<1>2. \A u \in Values : announced[u] = q => announced'[u] = q /\ tree'[u] = tree[u]
  BY <1>1, LockStep, TreeStep
<1>3. deviceLock = q => deviceLock' = q /\ values' = values
  BY <1>1, LockStep, TreeStep
<1>4. readers' = readers
  BY LockStep
<1>5. (Calling(q, Writers, "locked") => Call(q).value \in Values /\ announced[Call(q).value] = q)'
  BY <1>1, <1>2 DEF Own, Calling, Call
<1>6. (Calling(q, {"removeInterface"}, app[q].at) /\ app[q].at \in {"close", "dropping"} =>
        /\ Call(q).value \in Values /\ announced[Call(q).value] = q /\ readers[Call(q).value] = 0
        /\ app[q].todo # <<>> /\ Head(app[q].todo) \in ToSet(tree[Call(q).value].interfaces))'
  BY <1>1, <1>2, <1>4 DEF Own, Calling, Call
<1>7. (Calling(q, {"close"}, app[q].at) /\ app[q].at # "ready" => deviceLock = q)'
  BY <1>1, <1>3 DEF Own, Calling, Call
<1>8. ASSUME Calling(q, {"close"}, app[q].at), app[q].at \in {"emptying", "close"}
      PROVE  values' # <<>> /\ announced'[Head(values')] = q
  <2>1. deviceLock = q /\ values # <<>> /\ announced[Head(values)] = q
    BY <1>1, <1>8 DEF Own, Calling
  <2> QED BY <1>2, <1>3, <2>1, HeadTailProperties DEF TypeInv, TreeTyped
<1>9. (Calling(q, {"close"}, app[q].at) /\ app[q].at \in {"emptying", "close"} =>
        values # <<>> /\ announced[Head(values)] = q)'
  BY <1>1, <1>8 DEF Calling, Call
<1> QED BY <1>5, <1>6, <1>7, <1>9 DEF Own

LEMMA BackOwns ==
  ASSUME NEW p \in Apps, Back(p)
  PROVE  Own(p)'
  BY DEF Back, Frame, Own, Calling

LEMMA FreeOwns ==
  ASSUME NEW p \in Apps, Onward(p), Call(p).op \notin Writers \union {"close"}
  PROVE  Own(p)'
<1>1. Call(p)' = Call(p)
  BY DEF Onward, Call
<1> QED BY <1>1 DEF Own, Calling, Writers

(* A call that writes a configuration, and one that closes the device.     *)
LEMMA WriterOwns ==
  ASSUME NEW p \in Apps, Onward(p), Call(p).op \in Writers,
         app'[p].at = "locked" => Call(p).value \in Values /\ announced'[Call(p).value] = p,
         app'[p].at \in {"close", "dropping"} /\ Call(p).op = "removeInterface" =>
           /\ Call(p).value \in Values /\ announced'[Call(p).value] = p /\ readers'[Call(p).value] = 0
           /\ app'[p].todo # <<>> /\ Head(app'[p].todo) \in ToSet(tree'[Call(p).value].interfaces)
  PROVE  Own(p)'
<1>1. Call(p)' = Call(p) /\ Call(p).op # "close"
  BY DEF Onward, Call, Writers
<1> QED BY <1>1 DEF Own, Calling

LEMMA CloserOwns ==
  ASSUME NEW p \in Apps, Onward(p), Call(p).op = "close", deviceLock' = p,
         app'[p].at \in {"emptying", "close"} => values' # <<>> /\ announced'[Head(values')] = p
  PROVE  Own(p)'
<1>1. Call(p)' = Call(p) /\ Call(p).op \notin Writers /\ Call(p).op # "removeInterface"
  BY DEF Onward, Call, Writers
<1> QED BY <1>1 DEF Own, Calling

LEMMA OwnSelf ==
  ASSUME TypeInv, HoldInv, NEW p \in Apps, AppActions(p)
  PROVE  Own(p)'
<1>1. Own(p) /\ TreeTyped /\ LockTyped
  BY DEF HoldInv, TypeInv
<1>2. CASE Resolve(p)
  <2>1. Call(p).op \notin Writers \union {"close"}
    BY <1>2 DEF Resolve, Calling, Writers
  <2> QED BY <1>2, <2>1, ResolveOK, BackOwns, FreeOwns
<1>3. CASE Swap(p)
  <2>1. Call(p).op \notin Writers \union {"close"}
    BY <1>3 DEF Swap, Calling, Writers
  <2>2. Back(p) \/ Onward(p)
    BY <1>3, SwapOK
  <2> QED BY <2>1, <2>2, BackOwns, FreeOwns
<1>4. CASE InitNew(p) \/ Searches(p)
  <2>1. Call(p).op \notin Writers \union {"close"}
    BY <1>4 DEF Searches, InitBegins, InitReads, InitNew, Calling, Writers
  <2> QED BY <1>4, <2>1, SearchOK, InitNewOK, BackOwns, FreeOwns
<1>5. CASE CloseOld(p)
  <2>1. /\ app[p].calls # <<>> /\ app[p].at = "close"
        /\ UNCHANGED <<values, objs, tree, announced, readers, deviceLock>>
    BY <1>5 DEF CloseOld, Calling, treeVars, lockVars
  <2>2. CASE Back(p)
    BY <2>2, BackOwns
  <2>3. CASE Onward(p) /\ Call(p).op = "attach"
    BY <2>3, FreeOwns DEF Writers
  <2>4. CASE Onward(p) /\ Call(p).op = "removeInterface" /\ app'[p].at = "dropping" /\ app'[p].todo = app[p].todo
    <3>1. /\ Call(p).value \in Values /\ announced[Call(p).value] = p /\ readers[Call(p).value] = 0
          /\ app[p].todo # <<>> /\ Head(app[p].todo) \in ToSet(tree[Call(p).value].interfaces)
      BY <1>1, <2>1, <2>4 DEF Own, Calling
    <3> QED BY <2>1, <2>4, <3>1, WriterOwns DEF Writers
  <2>5. CASE Onward(p) /\ Call(p).op = "close"
    <3>1. deviceLock = p /\ values # <<>> /\ announced[Head(values)] = p
      BY <1>1, <2>1, <2>5 DEF Own, Calling
    <3> QED BY <2>1, <2>5, <3>1, CloserOwns
  <2> QED BY <1>5, <2>2, <2>3, <2>4, <2>5, CloseOldOK
<1>6. CASE Lock(p)
  <2>1. app[p].calls # <<>> /\ Call(p).op \in Writers
    BY <1>6 DEF Lock, Calling
  <2>2. CASE Onward(p) /\ app'[p].at = "locked" /\ ~Back(p)
    <3>1. Announce(p, Call(p).value) /\ Call(p).value \in Values
      <4>1. ~Returns(p)
        BY <1>6, <2>1, <2>2, BackOK, ObjectsTyped DEF TypeInv
      <4> QED BY <1>1, <1>6, <4>1, ServedValue DEF Lock
    <3>2. announced'[Call(p).value] = p
      BY <1>1, <3>1 DEF Announce, LockTyped
    <3> QED BY <2>1, <2>2, <3>1, <3>2, WriterOwns
  <2>3. CASE Back(p)
    BY <2>3, BackOwns
  <2>4. Back(p) \/ (Onward(p) /\ app'[p].at = "locked")
    BY <1>6, PlainOK DEF Lock, CloseDevice, ConfigurationClosed, CloseConfiguration, Prepare, Calling,
              Writers, Uses
  <2> QED BY <2>2, <2>3, <2>4
<1>7. CASE RemoveInterface(p)
  <2>1. /\ app[p].calls # <<>> /\ Call(p).op = "removeInterface" /\ Call(p).op \in Writers
        /\ Locked(p, Call(p).value) /\ UNCHANGED <<tree, readers>>
    BY <1>7 DEF RemoveInterface, Calling, Writers, treeVars
  <2>2. Call(p).value \in Values
    BY <1>1, <1>7 DEF RemoveInterface, Own, Calling, Writers
  <2>3. CASE Back(p)
    BY <2>3, BackOwns
  <2>4. ASSUME NEW o \in ToSet(tree[Call(p).value].interfaces), UNCHANGED announced, Onward(p),
               app'[p].todo = <<o>>, app'[p].at = IF classDriver[o] = Nobody THEN "dropping" ELSE "close"
        PROVE  Own(p)'
    <3>1. app'[p].todo # <<>> /\ Head(app'[p].todo) = o
      BY <2>4
    <3>2. app'[p].at # "locked"
      BY <2>4
    <3> QED BY <2>1, <2>2, <2>4, <3>1, <3>2, WriterOwns DEF Locked
  <2> QED BY <1>7, <2>3, <2>4, RemoveInterfaceOK
<1>8. CASE CloseInterface(p)
  <2>1. /\ app[p].calls # <<>> /\ Call(p).op = "close" /\ app[p].at = "emptying"
        /\ UNCHANGED <<values, announced, deviceLock>>
    BY <1>8 DEF CloseInterface, Calling, InterfaceRemoved, lockVars
  <2>2. deviceLock = p /\ values # <<>> /\ announced[Head(values)] = p
    BY <1>1, <2>1 DEF Own, Calling
  <2> QED BY <1>8, <2>1, <2>2, CloseInterfaceOK, CloserOwns
<1>9. CASE CloseDevice(p)
  <2>1. Call(p).op = "close" /\ deviceLock' = p
    BY <1>9 DEF CloseDevice, Calling
  <2>2. Back(p) \/ (Onward(p) /\ app'[p].at = "closing")
    BY <1>9, PlainOK DEF Lock, CloseDevice, CloseConfiguration, Prepare, Calling, Writers, Uses
  <2> QED BY <2>1, <2>2, BackOwns, CloserOwns
<1>10. CASE CloseConfiguration(p)
  <2>1. /\ app[p].calls # <<>> /\ Call(p).op = "close" /\ app[p].at = "closing"
        /\ values # <<>> /\ Announce(p, Head(values)) /\ UNCHANGED <<values, deviceLock>>
    BY <1>10 DEF CloseConfiguration, Calling, treeVars
  <2>2. deviceLock = p
    BY <1>1, <2>1 DEF Own, Calling
  <2>3. announced'[Head(values)] = p
    BY <1>1, <2>1, HeadTailProperties DEF Announce, LockTyped, TreeTyped
  <2>4. Back(p) \/ Onward(p)
    BY <1>10, PlainOK
  <2> QED BY <2>1, <2>2, <2>3, <2>4, BackOwns, CloserOwns
<1>11. CASE ConfigurationClosed(p)
  <2>1. /\ app[p].calls # <<>> /\ Call(p).op = "close" /\ app[p].at = "emptying" /\ UNCHANGED deviceLock
    BY <1>11 DEF ConfigurationClosed, Calling
  <2>2. deviceLock = p
    BY <1>1, <2>1 DEF Own, Calling
  <2>3. Back(p) \/ (Onward(p) /\ app'[p].at = "closing")
    BY <1>11, PlainOK DEF Lock, ConfigurationClosed, CloseConfiguration, Prepare, Calling, Writers, Uses
  <2> QED BY <2>1, <2>2, <2>3, BackOwns, CloserOwns
<1>12. CASE Prepare(p)
  <2>1. Call(p).op \notin Writers \union {"close"}
    BY <1>12 DEF Prepare, Calling, Writers, Uses
  <2> QED BY <1>12, <2>1, PlainOK, BackOwns, FreeOwns
<1>13. CASE \/ Write(p) \/ Drop(p) \/ DeviceClosed(p) \/ ChangeEndpoints(p) \/ SetStack(p) \/ Start(p)
            \/ Transfer(p)
  <2>1. app[p].calls # <<>> /\ Returns(p)
    BY <1>13 DEF Write, Drop, DeviceClosed, ChangeEndpoints, SetStack, Start, Transfer, Calling
  <2> QED BY <2>1, BackOK, BackOwns, ObjectsTyped DEF TypeInv
<1> QED BY <1>2, <1>3, <1>4, <1>5, <1>6, <1>7, <1>8, <1>9, <1>10, <1>11, <1>12, <1>13 DEF AppActions

-----------------------------------------------------------------------------
(* The drivers.                                                            *)
KeepsDriver(d) ==
  /\ DOMAIN driver'[d] = DOMAIN driver[d]
  /\ driver'[d].control = driver[d].control /\ driver'[d].data = driver[d].data
  /\ driver'[d].configured = driver[d].configured

(* Init of a driver: it takes the interface as one of its two, and counts  *)
(* itself configured only with an interface.                               *)
LEMMA InitDriverTakes ==
  ASSUME NEW d \in Drivers, DOMAIN driver[d] = DOMAIN Detached, NEW o, NEW eps
  PROVE  /\ DOMAIN InitDriver(d, o, eps) = DOMAIN Detached
         /\ InitDriver(d, o, eps).control \in {driver[d].control, o}
         /\ InitDriver(d, o, eps).data \in {driver[d].data, o}
         /\ \/ ~InitDriver(d, o, eps).configured \/ driver[d].configured
            \/ InitDriver(d, o, eps).data = o \/ InitDriver(d, o, eps).data # 0
<1> DEFINE st == driver[d]
<1>1. CASE d \in Serials
  <2> DEFINE first == FirstOr(eps, OfKind(eps, "interrupt", TRUE), st.notify)
             in    == LastOr(eps, OfKind(eps, "bulk", TRUE), st.in)
             out   == LastOr(eps, OfKind(eps, "bulk", FALSE), st.out)
             next  == CASE objs[o].class = "cdc"      -> TakeControl(st, o, eps)
                        [] objs[o].class = "cdc data" -> TakeData(st, o, eps)
                        [] OTHER                      -> st
  <2>1. TakeControl(st, o, eps) = [st EXCEPT !.control = o, !.notify = first]
    BY DEF TakeControl
  <2>2. TakeData(st, o, eps) = [st EXCEPT !.data = o, !.in = in, !.out = out]
    BY DEF TakeData
  <2>3. InitDriver(d, o, eps) = [next EXCEPT !.configured = @ \/ Complete(next)]
    BY <1>1 DEF InitDriver, InitACM
  <2>4. next = TakeControl(st, o, eps) \/ next = TakeData(st, o, eps) \/ next = st
    OBVIOUS
  <2> HIDE DEF first, in, out, next
  <2>5. /\ DOMAIN next = DOMAIN Detached /\ next.control \in {st.control, o} /\ next.data \in {st.data, o}
        /\ next.configured = st.configured
    <3>1. CASE next = TakeControl(st, o, eps)
      BY <2>1, <3>1 DEF Detached
    <3>2. CASE next = TakeData(st, o, eps)
      BY <2>2, <3>2 DEF Detached
    <3> QED BY <2>4, <3>1, <3>2
  <2> DEFINE done == next.configured \/ Complete(next)
  <2>6. InitDriver(d, o, eps) = [next EXCEPT !.configured = done]
    BY <2>3
  <2>7. done => st.configured \/ next.data # 0
    BY <2>5 DEF Complete
  <2> HIDE DEF done
  <2>8. /\ DOMAIN InitDriver(d, o, eps) = DOMAIN Detached /\ InitDriver(d, o, eps).control = next.control
        /\ InitDriver(d, o, eps).data = next.data /\ InitDriver(d, o, eps).configured = done
    BY <2>5, <2>6 DEF Detached
  <2> QED BY <2>5, <2>7, <2>8
<1>2. CASE d \notin Serials
  <2> DEFINE in   == LastOr(eps, OfKind(eps, "interrupt", TRUE), st.in)
             out  == LastOr(eps, OfKind(eps, "interrupt", FALSE), st.out)
             next == [st EXCEPT !.data = o, !.in = in, !.out = out]
             done == next.configured \/ next.in # NoEndpoint
  <2>1. InitDriver(d, o, eps) = [next EXCEPT !.configured = done]
    BY <1>2 DEF InitDriver, InitHID
  <2> HIDE DEF in, out, done
  <2>2. next.control = st.control /\ next.data = o /\ DOMAIN next = DOMAIN Detached
    BY DEF Detached
  <2> HIDE DEF next
  <2>3. /\ DOMAIN InitDriver(d, o, eps) = DOMAIN Detached /\ InitDriver(d, o, eps).control = next.control
        /\ InitDriver(d, o, eps).data = next.data
    BY <2>1, <2>2 DEF Detached
  <2> QED BY <2>2, <2>3
<1> QED BY <1>1, <1>2

LEMMA CloseDriverDrops ==
  ASSUME NEW st
  PROVE  /\ DOMAIN CloseDriver(st) = DOMAIN Detached
         /\ CloseDriver(st).control = 0 /\ CloseDriver(st).data = 0 /\ CloseDriver(st).configured = FALSE
  BY DEF CloseDriver, Detached

LEMMA DriversKept ==
  ASSUME TypeInv, NEW p \in Apps, AppActions(p), ~CloseOld(p), ~InitNew(p)
  PROVE  DOMAIN driver' = Drivers /\ \A d \in Drivers : KeepsDriver(d)
<1>1. DOMAIN driver = Drivers /\ \A d \in Drivers : DOMAIN driver[d] = DOMAIN Detached
  BY DEF TypeInv, DriverTyped
<1>2. CASE SetStack(p)
  <2>1. Call(p).driver \in Drivers
    BY <1>2, CallTyped, CallFields DEF SetStack, Calling, TypeInv
  <2>2. driver' = [driver EXCEPT ![Call(p).driver].stack = TRUE]
    BY <1>2 DEF SetStack
  <2> QED BY <1>1, <2>1, <2>2 DEF KeepsDriver, Detached
<1>3. CASE ~SetStack(p)
  <2>1. driver' = driver
    BY <1>3 DEF AppActions, Resolve, Swap, Searches, InitBegins, InitReads, Lock, Write, RemoveInterface,
              Drop, CloseDevice,
       CloseConfiguration, CloseInterface, ConfigurationClosed, DeviceClosed, ChangeEndpoints, Start, Prepare,
       Transfer, driverVars
  <2> QED BY <1>1, <2>1 DEF KeepsDriver
<1> QED BY <1>2, <1>3

(* An interface that is added has no driver.                               *)
LEMMA ClassDriverKept ==
  ASSUME TypeInv, HoldInv, NEW p \in Apps, AppActions(p),
         ~Swap(p), ~RemoveInterface(p), ~CloseInterface(p)
  PROVE  /\ DOMAIN classDriver' = 1 .. Len(objs')
         /\ \A o \in 1 .. Len(objs') :
              classDriver'[o] = IF o \in 1 .. Len(objs) THEN classDriver[o] ELSE Nobody
<1>1. DOMAIN classDriver = 1 .. Len(objs)
  BY DEF TypeInv, DriverTyped
<1>2. CASE Write(p)
  <2>1. DOMAIN objs' = 1 .. Len(objs')
    <3>1. objs' \in Seq(ObjectType)
      BY TreeStep DEF TreeTyped
    <3> QED BY <3>1, LenProperties
  <2> QED BY <1>1, <1>2, <2>1 DEF Write
<1>3. CASE ~Write(p)
  <2>1. classDriver' = classDriver
    BY <1>3 DEF AppActions, Resolve, CloseOld, Searches, InitBegins, InitReads, InitNew, Lock, Drop,
              CloseDevice,
       CloseConfiguration, ConfigurationClosed, DeviceClosed, ChangeEndpoints, SetStack, Start, Prepare,
       Transfer, driverVars
  <2>2. Len(objs') = Len(objs)
    BY <1>3, TreeStep
  <2> QED BY <1>1, <2>1, <2>2
<1> QED BY <1>2, <1>3

(* The steps that change the driver of an interface.                       *)
LEMMA ClassDriverChanged ==
  ASSUME TypeInv, HoldInv, NEW p \in Apps, Swap(p) \/ RemoveInterface(p) \/ CloseInterface(p)
  PROVE  /\ Len(objs') = Len(objs) /\ driver' = driver
         /\ \/ UNCHANGED classDriver
            \/ \E o \in 1 .. Len(objs), new \in Drivers \union {Nobody} :
                 /\ classDriver' = [classDriver EXCEPT ![o] = new]
                 /\ \/ classDriver[o] = Nobody
                    \/ app'[p].at = "close" /\ app'[p].old = classDriver[o] /\ Onward(p)
                 /\ \/ app'[p].at \notin {"init", "close"}
                    \/ Call(p).op = "attach" => new = Call(p).driver /\ app'[p].todo # <<>> /\ Head(app'[p].todo) = o
                                                /\ Onward(p)
<1>1. Len(objs') = Len(objs) /\ driver' = driver
  BY DEF Swap, RemoveInterface, CloseInterface, InterfaceRemoved, treeVars
<1>2. CASE Swap(p)
  <2> DEFINE o == Head(app[p].todo)
             new == Call(p).driver
  <2>1. app[p].calls # <<>> /\ Call(p).op \in {"attach", "detach"}
    BY <1>2 DEF Swap, Calling
  <2>2. new \in Drivers \union {Nobody}
    BY <2>1, CallTyped, CallFields DEF TypeInv
  <2>3. classDriver' = [classDriver EXCEPT ![o] = new]
    BY <1>2 DEF Swap
  <2>4. /\ o \in 1 .. Len(objs) /\ app[p].todo # <<>>
        /\ \/ Back(p) /\ classDriver[o] = Nobody
           \/ /\ Onward(p) /\ app'[p].todo = app[p].todo /\ app'[p].old = classDriver[o]
              /\ app'[p].at = IF classDriver[o] = Nobody THEN "init" ELSE "close"
    BY <1>2, SwapOK
  <2>5. Back(p) => app'[p].at = "ready"
    BY DEF Back, Frame
  <2>6. /\ classDriver[o] = Nobody \/ (app'[p].at = "close" /\ app'[p].old = classDriver[o] /\ Onward(p))
        /\ app'[p].at \notin {"init", "close"} \/ (app'[p].todo = app[p].todo /\ Onward(p))
    BY <2>4, <2>5
  <2> HIDE DEF new
  <2> QED BY <1>1, <2>2, <2>3, <2>4, <2>6 DEF new
<1>3. CASE RemoveInterface(p)
  <2>1. Call(p).op = "removeInterface"
    BY <1>3 DEF RemoveInterface, Calling
  <2>2. UNCHANGED classDriver \/
        \E o \in 1 .. Len(objs) :
          /\ Unplugged(p, o, "dropping") /\ Onward(p) /\ app'[p].old = classDriver[o]
          /\ app'[p].at = IF classDriver[o] = Nobody THEN "dropping" ELSE "close"
    BY <1>3, RemoveInterfaceOK
  <2> QED BY <1>1, <2>1, <2>2 DEF Unplugged
<1>4. CASE CloseInterface(p)
  <2>1. Call(p).op = "close"
    BY <1>4 DEF CloseInterface, Calling
  <2>2. \E o \in 1 .. Len(objs) :
          /\ Unplugged(p, o, "emptying") /\ Onward(p) /\ app'[p].old = classDriver[o]
          /\ app'[p].at = IF classDriver[o] = Nobody THEN "emptying" ELSE "close"
    BY <1>4, CloseInterfaceOK
  <2> QED BY <1>1, <2>1, <2>2 DEF Unplugged
<1> QED BY <1>2, <1>3, <1>4

LEMMA DriverTypedNext ==
  ASSUME TypeInv, HoldInv, NEW p \in Apps, AppActions(p)
  PROVE  DriverTyped'
<1>1. /\ DOMAIN driver = Drivers /\ \A d \in Drivers : DOMAIN driver[d] = DOMAIN Detached
      /\ \A d \in Drivers : Holds(d) \subseteq 1 .. Len(objs)
      /\ classDriver \in [1 .. Len(objs) -> Drivers \union {Nobody}]
  BY DEF TypeInv, DriverTyped
<1>2. Len(objs) \in Nat /\ Len(objs') \in Nat /\ Len(objs) <= Len(objs')
  BY TreeStep
<1>3. classDriver' \in [1 .. Len(objs') -> Drivers \union {Nobody}]
  <2>1. CASE Swap(p) \/ RemoveInterface(p) \/ CloseInterface(p)
    BY <1>1, <2>1, ClassDriverChanged
  <2>2. CASE ~(Swap(p) \/ RemoveInterface(p) \/ CloseInterface(p))
    <3>1. /\ DOMAIN classDriver' = 1 .. Len(objs')
          /\ \A o \in 1 .. Len(objs') :
               classDriver'[o] = IF o \in 1 .. Len(objs) THEN classDriver[o] ELSE Nobody
      BY <2>2, ClassDriverKept
    <3>2. CASE Write(p)
      BY <1>1, <3>1, <3>2 DEF Write
    <3>3. CASE ~Write(p)
      <4>1. classDriver' = classDriver
        BY <2>2, <3>3 DEF AppActions, Resolve, CloseOld, Searches, InitBegins, InitReads, InitNew, Lock,
                Drop, CloseDevice,
           CloseConfiguration, ConfigurationClosed, DeviceClosed, ChangeEndpoints, SetStack, Start, Prepare,
           Transfer, driverVars
      <4> QED BY <1>1, <3>1, <4>1
    <3> QED BY <3>2, <3>3
  <2> QED BY <2>1, <2>2
<1>4. /\ DOMAIN driver' = Drivers
      /\ \A d \in Drivers : /\ DOMAIN driver'[d] = DOMAIN Detached
                            /\ driver'[d].control \in {0} \union 1 .. Len(objs)
                            /\ driver'[d].data \in {0} \union 1 .. Len(objs)
  <2>0. \A d \in Drivers :
          driver[d].control \in {0} \union 1 .. Len(objs) /\ driver[d].data \in {0} \union 1 .. Len(objs)
    BY <1>1 DEF Holds
  <2>1. CASE CloseOld(p)
    <3>1. app[p].old \in Drivers
      BY <2>1, CloseOldOK
    <3>2. driver' = [driver EXCEPT ![app[p].old] = CloseDriver(driver[app[p].old])]
      BY <2>1 DEF CloseOld
    <3>3. /\ DOMAIN CloseDriver(driver[app[p].old]) = DOMAIN Detached
          /\ CloseDriver(driver[app[p].old]).control = 0 /\ CloseDriver(driver[app[p].old]).data = 0
      BY CloseDriverDrops
    <3> QED BY <1>1, <2>0, <3>1, <3>2, <3>3
  <2>2. CASE InitNew(p)
    <3> DEFINE d == Call(p).driver
               o == Head(app[p].todo)
               eps == app[p].read
    <3>1. d \in Drivers /\ o \in 1 .. Len(objs)
      BY <2>2, InitNewOK
    <3>2. driver' = [driver EXCEPT ![d] = InitDriver(d, o, eps)]
      BY <2>2 DEF InitNew
    <3> HIDE DEF d, o, eps
    <3>3. /\ DOMAIN InitDriver(d, o, eps) = DOMAIN Detached /\ InitDriver(d, o, eps).control \in {driver[d].control, o}
          /\ InitDriver(d, o, eps).data \in {driver[d].data, o}
      BY <1>1, <3>1, InitDriverTakes
    <3> QED BY <1>1, <2>0, <3>1, <3>2, <3>3
  <2>3. CASE ~CloseOld(p) /\ ~InitNew(p)
    <3>1. DOMAIN driver' = Drivers /\ \A d \in Drivers : KeepsDriver(d)
      BY <2>3, DriversKept
    <3> QED BY <1>1, <2>0, <3>1 DEF KeepsDriver
  <2> QED BY <2>1, <2>2, <2>3
<1>5. \A d \in Drivers : Holds(d)' \subseteq 1 .. Len(objs')
  BY <1>2, <1>4 DEF Holds
<1> QED BY <1>3, <1>4, <1>5 DEF DriverTyped

-----------------------------------------------------------------------------
(* Drivers and the interfaces they are attached to, while one call of      *)
(* Lifecycle at a time is under way.                                       *)
Alone    == \A p, q \in Apps : InLifecycle(p) /\ InLifecycle(q) => p = q
Closing(d) == \E p \in Apps : InLifecycle(p) /\ app[p].at = "close" /\ app[p].old = d
Kept     == \A d \in Drivers : Holds(d) \subseteq Attached(d) \/ Closing(d)
Plugged(p) ==
  Calling(p, {"attach"}, app[p].at) /\ app[p].at \in {"close", "init", "search"} =>
    classDriver[Head(app[p].todo)] = Call(p).driver
LifeInv ==
  /\ \A d \in Drivers : driver[d].configured => Holds(d) # {}
  /\ ~tangled => Alone /\ Kept /\ \A p \in Apps : Plugged(p)

LEMMA InitLife == Init => LifeInv
<1> SUFFICES ASSUME Init PROVE LifeInv
  OBVIOUS
<1>1. driver = [d \in Drivers |-> Detached] /\ app = [p \in Apps |-> Frame(plan.calls[p])]
  BY DEF Init
<1>2. \A d \in Drivers : driver[d].configured = FALSE /\ Holds(d) = {}
  BY <1>1 DEF Holds, Detached
<1>3. \A p \in Apps : app[p].at = "ready"
  BY <1>1 DEF Frame
<1>4. \A p \in Apps : ~InLifecycle(p) /\ Plugged(p)
  BY <1>3 DEF InLifecycle, Plugged
<1> QED BY <1>2, <1>4 DEF LifeInv, Alone, Kept

LEMMA AloneNext ==
  ASSUME TypeInv, Alone, NEW p \in Apps, AppActions(p), ~tangled',
         tangled' = (tangled \/ \E q \in Apps \ {p} : InLifecycle(q) /\ InLifecycle(p)')
  PROVE  ~tangled /\ Alone' /\ \A q \in Apps : q # p => (InLifecycle(q)' <=> InLifecycle(q))
<1>1. \A q \in Apps : q # p => app'[q] = app[q]
  BY OnlyItsCall DEF TypeInv
<1>2. \A q \in Apps : q # p => (InLifecycle(q)' <=> InLifecycle(q))
  BY <1>1 DEF InLifecycle, Calling, Call
<1>3. ~tangled /\ \A q \in Apps : q # p => ~(InLifecycle(q) /\ InLifecycle(p)')
  OBVIOUS
<1>4. ASSUME NEW q \in Apps, NEW r \in Apps, InLifecycle(q)', InLifecycle(r)' PROVE q = r
  <2>1. CASE q # p /\ r # p
    BY <1>2, <1>4, <2>1 DEF Alone
  <2>2. CASE q = p \/ r = p
    BY <1>2, <1>3, <1>4, <2>2
  <2> QED BY <2>1, <2>2
<1>5. Alone'
  BY <1>4 DEF Alone
<1> QED BY <1>2, <1>3, <1>5

LEMMA AttachedGrows ==
  ASSUME DOMAIN classDriver \subseteq DOMAIN classDriver', NEW d,
         \A o \in DOMAIN classDriver : classDriver[o] = d => classDriver'[o] = d
  PROVE  Attached(d) \subseteq Attached(d)'
  BY DEF Attached

(* Where a call that closes or starts a driver comes from.                 *)
LEMMA Stages ==
  ASSUME TypeInv, HoldInv, NEW p \in Apps, AppActions(p)
  PROVE  /\ app[p].calls # <<>> /\ app[p].at = "close" => CloseOld(p)
         /\ app'[p].at \in {"close", "init"} => Swap(p) \/ CloseOld(p) \/ RemoveInterface(p) \/ CloseInterface(p)
         /\ app'[p].at = "search" => Searches(p)
         /\ Swap(p) \/ RemoveInterface(p) \/ CloseInterface(p) =>
              InLifecycle(p) /\ app[p].at \notin {"close", "init", "search"}
         /\ CloseOld(p) => InLifecycle(p) /\ app[p].at = "close"
         /\ InitNew(p) => InLifecycle(p) /\ app[p].at = "search" /\ Calling(p, {"attach"}, app[p].at)
         /\ Searches(p) => InLifecycle(p) /\ app[p].at \in {"init", "search"} /\ Calling(p, {"attach"}, app[p].at)
<1>1. app[p].calls # <<>> /\ app[p].at = "close" => CloseOld(p)
  BY DEF AppActions, Resolve, Swap, Searches, InitBegins, InitReads, InitNew, Lock, Write, RemoveInterface,
            Drop, CloseDevice, CloseConfiguration,
     CloseInterface, ConfigurationClosed, DeviceClosed, ChangeEndpoints, SetStack, Start, Prepare, Transfer, Calling
<1>2. Back(p) => app'[p].at = "ready"
  BY DEF Back, Frame
<1>3. app'[p].at \in {"close", "init"} => Swap(p) \/ CloseOld(p) \/ RemoveInterface(p) \/ CloseInterface(p)
  BY <1>2, ResolveOK, SearchOK, InitNewOK, PlainOK DEF AppActions
<1>4. app'[p].at = "search" => Searches(p)
  <2>1. SUFFICES ASSUME app'[p].at = "search", ~Searches(p) PROVE FALSE
    OBVIOUS
  <2>2. CASE Resolve(p) \/ Swap(p) \/ CloseOld(p) \/ InitNew(p)
    BY <1>2, <2>1, <2>2, ResolveOK, SwapOK, CloseOldOK, InitNewOK
  <2>3. CASE RemoveInterface(p)
    BY <1>2, <2>1, <2>3, RemoveInterfaceOK
  <2>4. CASE CloseInterface(p)
    BY <1>2, <2>1, <2>4, CloseInterfaceOK
  <2>5. CASE ~(Resolve(p) \/ Swap(p) \/ CloseOld(p) \/ InitNew(p) \/ RemoveInterface(p) \/ CloseInterface(p))
    BY <1>2, <2>1, <2>5, PlainOK DEF AppActions
  <2> QED BY <2>2, <2>3, <2>4, <2>5
<1>5. Swap(p) \/ RemoveInterface(p) \/ CloseInterface(p) =>
        InLifecycle(p) /\ app[p].at \notin {"close", "init", "search"}
  BY DEF Swap, RemoveInterface, CloseInterface, InLifecycle, Calling, Lifecycle
<1>6. CloseOld(p) => InLifecycle(p) /\ app[p].at = "close"
  BY DEF CloseOld, InLifecycle, Calling
<1>7. InitNew(p) => InLifecycle(p) /\ app[p].at = "search" /\ Calling(p, {"attach"}, app[p].at)
  BY DEF InitNew, InLifecycle, Calling, Lifecycle
<1>8. Searches(p) => InLifecycle(p) /\ app[p].at \in {"init", "search"} /\ Calling(p, {"attach"}, app[p].at)
  BY DEF Searches, InitBegins, InitReads, InLifecycle, Calling, Lifecycle
<1> QED BY <1>1, <1>3, <1>4, <1>5, <1>6, <1>7, <1>8

LEMMA ConfiguredNext ==
  ASSUME TypeInv, HoldInv, NEW p \in Apps, AppActions(p),
         \A d \in Drivers : driver[d].configured => Holds(d) # {}
  PROVE  (\A d \in Drivers : driver[d].configured => Holds(d) # {})'
<1>1. DOMAIN driver = Drivers /\ \A d \in Drivers : DOMAIN driver[d] = DOMAIN Detached
  BY DEF TypeInv, DriverTyped
<1>2. \A d \in Drivers : Holds(d) # {} <=> driver[d].control # 0 \/ driver[d].data # 0
  BY DEF Holds
<1>3. \A d \in Drivers : Holds(d)' # {} <=> driver'[d].control # 0 \/ driver'[d].data # 0
  BY DEF Holds
<1>4. CASE CloseOld(p)
  <2>1. app[p].old \in Drivers
    BY <1>4, CloseOldOK
  <2>2. driver' = [driver EXCEPT ![app[p].old] = CloseDriver(driver[app[p].old])]
    BY <1>4 DEF CloseOld
  <2>3. CloseDriver(driver[app[p].old]).configured = FALSE
    BY CloseDriverDrops
  <2>4. ASSUME NEW d \in Drivers PROVE driver'[d].configured => driver'[d].control # 0 \/ driver'[d].data # 0
    <3>1. CASE d = app[p].old
      <4>1. driver'[d] = CloseDriver(driver[app[p].old])
        BY <1>1, <2>1, <2>2, <3>1
      <4> QED BY <2>3, <4>1
    <3>2. CASE d # app[p].old
      <4>1. driver'[d] = driver[d]
        BY <1>1, <2>1, <2>2, <3>2
      <4> QED BY <1>2, <4>1
    <3> QED BY <3>1, <3>2
  <2> QED BY <1>3, <2>4
<1>5. CASE InitNew(p)
  <2> DEFINE c == Call(p).driver
             o == Head(app[p].todo)
             eps == app[p].read
  <2>1. c \in Drivers /\ o \in 1 .. Len(objs)
    BY <1>5, InitNewOK
  <2>2. driver' = [driver EXCEPT ![c] = InitDriver(c, o, eps)]
    BY <1>5 DEF InitNew
  <2> HIDE DEF c, o, eps
  <2>3. /\ InitDriver(c, o, eps).control \in {driver[c].control, o}
        /\ InitDriver(c, o, eps).data \in {driver[c].data, o}
        /\ \/ ~InitDriver(c, o, eps).configured \/ driver[c].configured
           \/ InitDriver(c, o, eps).data = o \/ InitDriver(c, o, eps).data # 0
    BY <1>1, <2>1, InitDriverTakes
  <2>4. o # 0
    BY <2>1
  <2>5. ASSUME NEW d \in Drivers PROVE driver'[d].configured => driver'[d].control # 0 \/ driver'[d].data # 0
    <3>1. CASE d = c
      <4>1. driver'[d] = InitDriver(c, o, eps)
        BY <1>1, <2>1, <2>2, <3>1
      <4>2. CASE driver[c].configured
        BY <1>2, <2>1, <2>3, <2>4, <4>1, <4>2
      <4>3. CASE ~driver[c].configured
        BY <2>3, <2>4, <4>1, <4>3
      <4> QED BY <4>2, <4>3
    <3>2. CASE d # c
      <4>1. driver'[d] = driver[d]
        BY <1>1, <2>1, <2>2, <3>2
      <4> QED BY <1>2, <4>1
    <3> QED BY <3>1, <3>2
  <2> QED BY <1>3, <2>5
<1>6. CASE ~CloseOld(p) /\ ~InitNew(p)
  <2>1. \A d \in Drivers : KeepsDriver(d)
    BY <1>6, DriversKept
  <2> QED BY <1>2, <1>3, <2>1 DEF KeepsDriver
<1> QED BY <1>4, <1>5, <1>6

LEMMA KeptNext ==
  ASSUME TypeInv, HoldInv, NEW p \in Apps, AppActions(p), Alone, Kept, Plugged(p),
         \A q \in Apps : q # p => (InLifecycle(q)' <=> InLifecycle(q))
  PROVE  Kept'
<1> SUFFICES ASSUME NEW d \in Drivers
             PROVE  Holds(d)' \subseteq Attached(d)' \/ Closing(d)'
  BY DEF Kept
<1>0. /\ DOMAIN driver = Drivers /\ \A c \in Drivers : DOMAIN driver[c] = DOMAIN Detached
      /\ DOMAIN classDriver = 1 .. Len(objs) /\ d # Nobody
  BY DriversAssumption DEF TypeInv, DriverTyped
<1>1. Holds(d) \subseteq Attached(d) \/ Closing(d)
  BY DEF Kept
<1>2. InLifecycle(p) /\ Closing(d) => app[p].at = "close" /\ app[p].old = d
  BY DEF Alone, Closing
<1>3. CASE Swap(p) \/ RemoveInterface(p) \/ CloseInterface(p)
  <2>1. InLifecycle(p) /\ app[p].at # "close"
    BY <1>3, Stages
  <2>2. Holds(d) \subseteq Attached(d) /\ Holds(d)' = Holds(d)
    BY <1>1, <1>2, <1>3, <2>1, ClassDriverChanged DEF Holds
  <2>3. CASE UNCHANGED classDriver
    BY <2>2, <2>3 DEF Attached
  <2>4. ASSUME NEW o \in 1 .. Len(objs), NEW new, classDriver' = [classDriver EXCEPT ![o] = new],
               \/ classDriver[o] = Nobody
               \/ app'[p].at = "close" /\ app'[p].old = classDriver[o] /\ Onward(p)
        PROVE  Holds(d)' \subseteq Attached(d)' \/ Closing(d)'
    <3>1. CASE classDriver[o] = d
      <4>1. app'[p].at = "close" /\ app'[p].old = d /\ Onward(p)
        BY <1>0, <2>4, <3>1
      <4>2. InLifecycle(p)'
        BY <2>1, <4>1 DEF InLifecycle, Calling, Call, Onward
      <4> QED BY <4>1, <4>2 DEF Closing
    <3>2. CASE classDriver[o] # d
      BY <1>0, <2>2, <2>4, <3>2, AttachedGrows
    <3> QED BY <3>1, <3>2
  <2> QED BY <1>3, <2>3, <2>4, ClassDriverChanged
<1>4. CASE CloseOld(p)
  <2>1. InLifecycle(p) /\ app[p].old \in Drivers
    BY <1>4, Stages, CloseOldOK
  <2>2. driver' = [driver EXCEPT ![app[p].old] = CloseDriver(driver[app[p].old])] /\ classDriver' = classDriver
    BY <1>4 DEF CloseOld
  <2>3. CASE d = app[p].old
    <3>1. driver'[d] = CloseDriver(driver[app[p].old])
      BY <1>0, <2>1, <2>2, <2>3
    <3>2. Holds(d)' = {}
      BY <3>1, CloseDriverDrops DEF Holds
    <3> QED BY <3>2
  <2>4. CASE d # app[p].old
    <3>1. driver'[d] = driver[d]
      BY <1>0, <2>1, <2>2, <2>4
    <3>2. Holds(d) \subseteq Attached(d)
      BY <1>1, <1>2, <2>1, <2>4
    <3> QED BY <2>2, <3>1, <3>2 DEF Holds, Attached
  <2> QED BY <2>3, <2>4
<1>5. CASE InitNew(p)
  <2> DEFINE c == Call(p).driver
             o == Head(app[p].todo)
             eps == app[p].read
  <2>1. /\ InLifecycle(p) /\ app[p].at = "search" /\ c \in Drivers /\ o \in 1 .. Len(objs)
        /\ classDriver[o] = c
    BY <1>5, Stages, InitNewOK DEF Plugged
  <2>2. driver' = [driver EXCEPT ![c] = InitDriver(c, o, eps)] /\ classDriver' = classDriver
    BY <1>5 DEF InitNew
  <2>3. Holds(d) \subseteq Attached(d)
    BY <1>1, <1>2, <2>1
  <2> HIDE DEF c, o, eps
  <2>4. CASE d = c
    <3>1. driver'[d] = InitDriver(c, o, eps)
      BY <1>0, <2>1, <2>2, <2>4
    <3>2. InitDriver(c, o, eps).control \in {driver[c].control, o} /\ InitDriver(c, o, eps).data \in {driver[c].data, o}
      BY <1>0, <2>1, InitDriverTakes
    <3>3. Holds(d)' \subseteq Holds(d) \union {o}
      BY <2>4, <3>1, <3>2 DEF Holds
    <3>4. o \in Attached(d)
      BY <1>0, <2>1, <2>4 DEF Attached
    <3> QED BY <2>2, <2>3, <3>3, <3>4 DEF Attached
  <2>5. CASE d # c
    <3>1. driver'[d] = driver[d]
      BY <1>0, <2>1, <2>2, <2>5
    <3> QED BY <2>2, <2>3, <3>1 DEF Holds, Attached
  <2> QED BY <2>4, <2>5
<1>6. CASE ~(Swap(p) \/ RemoveInterface(p) \/ CloseInterface(p) \/ CloseOld(p) \/ InitNew(p))
  <2>1. /\ DOMAIN classDriver' = 1 .. Len(objs')
        /\ \A o \in 1 .. Len(objs') : classDriver'[o] = IF o \in 1 .. Len(objs) THEN classDriver[o] ELSE Nobody
    BY <1>6, ClassDriverKept
  <2>2. Len(objs) \in Nat /\ Len(objs') \in Nat /\ Len(objs) <= Len(objs')
    BY TreeStep
  <2>3. /\ DOMAIN classDriver \subseteq DOMAIN classDriver'
        /\ \A o \in DOMAIN classDriver : classDriver'[o] = classDriver[o]
    BY <1>0, <2>1, <2>2
  <2>4. Attached(d) \subseteq Attached(d)'
    BY <2>3, AttachedGrows
  <2>5. Holds(d)' = Holds(d)
    BY <1>6, DriversKept DEF KeepsDriver, Holds
  <2>6. CASE Closing(d)
    <3>1. PICK q \in Apps : InLifecycle(q) /\ app[q].at = "close" /\ app[q].old = d
      BY <2>6 DEF Closing
    <3>2. q # p
      BY <1>6, <3>1, Stages DEF InLifecycle, Calling
    <3>3. app'[q] = app[q] /\ InLifecycle(q)'
      BY <3>1, <3>2, OnlyItsCall DEF TypeInv
    <3> QED BY <3>1, <3>3 DEF Closing
  <2> QED BY <1>1, <2>4, <2>5, <2>6
<1> QED BY <1>3, <1>4, <1>5, <1>6

LEMMA PluggedNext ==
  ASSUME TypeInv, HoldInv, NEW p \in Apps, AppActions(p), Alone, \A q \in Apps : Plugged(q)
  PROVE  \A q \in Apps : Plugged(q)'
<1> SUFFICES ASSUME NEW q \in Apps, Calling(q, {"attach"}, app[q].at)', app'[q].at \in {"close", "init", "search"}
             PROVE  classDriver'[Head(app'[q].todo)] = Call(q).driver'
  BY DEF Plugged
<1>0. DOMAIN classDriver = 1 .. Len(objs)
  BY DEF TypeInv, DriverTyped
<1>1. CASE q # p
  <2>1. app'[q] = app[q]
    BY <1>1, OnlyItsCall DEF TypeInv
  <2>2. /\ Calling(q, {"attach"}, app[q].at) /\ app[q].at \in {"close", "init", "search"} /\ InLifecycle(q)
        /\ Call(q)' = Call(q)
    BY <2>1 DEF Calling, Call, InLifecycle, Lifecycle
  <2>3. classDriver[Head(app[q].todo)] = Call(q).driver
    BY <2>2 DEF Plugged
  <2>4. ~(Swap(p) \/ RemoveInterface(p) \/ CloseInterface(p))
    BY <1>1, <2>2, Stages DEF Alone
  <2>5. app[q].todo # <<>> /\ app[q].todo \in Seq(1 .. Len(objs))
    BY <2>2 DEF TypeInv, AppTyped, FrameOK, Calling, Call
  <2>6. Head(app[q].todo) \in 1 .. Len(objs)
    BY <2>5, HeadTailProperties
  <2>7. classDriver'[Head(app[q].todo)] = classDriver[Head(app[q].todo)]
    BY <2>4, <2>6, TreeStep, ClassDriverKept
  <2> QED BY <2>1, <2>2, <2>3, <2>7
<1>2. CASE q = p
  <2>1. Swap(p) \/ CloseOld(p) \/ Searches(p) \/ RemoveInterface(p) \/ CloseInterface(p)
    BY <1>2, Stages
  <2>2. ~Back(p)
    BY <1>2 DEF Back, Frame
  <2>3. CASE Swap(p)
    <3>1. /\ app[p].todo # <<>> /\ Head(app[p].todo) \in 1 .. Len(objs) /\ Onward(p) /\ app'[p].todo = app[p].todo
      BY <2>2, <2>3, SwapOK
    <3>2. classDriver' = [classDriver EXCEPT ![Head(app[p].todo)] = Call(p).driver]
      BY <2>3 DEF Swap
    <3>3. Call(p)' = Call(p)
      BY <3>1 DEF Onward, Call
    <3> QED BY <1>0, <1>2, <3>1, <3>2, <3>3
  <2>4. CASE CloseOld(p)
    <3>1. Onward(p) /\ app'[p].todo = app[p].todo /\ classDriver' = classDriver
      BY <2>2, <2>4, CloseOldOK DEF CloseOld
    <3>2. Call(p)' = Call(p) /\ app[p].at = "close" /\ Calling(p, {"attach"}, app[p].at)
      BY <1>2, <2>4, <3>1 DEF Onward, Call, CloseOld, Calling
    <3>3. Plugged(p)
      OBVIOUS
    <3> QED BY <1>2, <3>1, <3>2, <3>3 DEF Plugged
  <2>5. CASE RemoveInterface(p) \/ CloseInterface(p)
    <3>1. Onward(p)
      BY <2>2, <2>5, RemoveInterfaceOK, CloseInterfaceOK
    <3>2. Call(p).op # "attach" /\ Call(p)' = Call(p)
      BY <2>5, <3>1 DEF RemoveInterface, CloseInterface, Calling, Onward, Call
    <3> QED BY <1>2, <3>2 DEF Calling
  <2>6. CASE Searches(p)
    <3>1. Onward(p) /\ app'[p].todo = app[p].todo /\ classDriver' = classDriver
      BY <2>6, SearchOK DEF Searches, InitBegins, InitReads, driverVars
    <3>2. Call(p)' = Call(p) /\ app[p].at \in {"init", "search"} /\ Calling(p, {"attach"}, app[p].at)
      BY <2>6, <3>1, Stages DEF Onward, Call
    <3>3. Plugged(p)
      OBVIOUS
    <3> QED BY <1>2, <3>1, <3>2, <3>3 DEF Plugged
  <2> QED BY <2>1, <2>3, <2>4, <2>5, <2>6
<1> QED BY <1>1, <1>2

LEMMA LifeNext ==
  ASSUME TypeInv, HoldInv, LifeInv, NEW p \in Apps, AppActions(p),
         tangled' = (tangled \/ \E q \in Apps \ {p} : InLifecycle(q) /\ InLifecycle(p)')
  PROVE  LifeInv'
<1>1. (\A d \in Drivers : driver[d].configured => Holds(d) # {})'
  BY ConfiguredNext DEF LifeInv
<1>2. ASSUME ~tangled' PROVE Alone' /\ Kept' /\ \A q \in Apps : Plugged(q)'
  <2>1. ~tangled
    BY <1>2
  <2>2. Alone /\ Kept /\ \A q \in Apps : Plugged(q)
    BY <2>1 DEF LifeInv
  <2>3. Alone' /\ \A q \in Apps : q # p => (InLifecycle(q)' <=> InLifecycle(q))
    BY <1>2, <2>2, AloneNext
  <2> QED BY <2>2, <2>3, KeptNext, PluggedNext
<1> QED BY <1>1, <1>2 DEF LifeInv

-----------------------------------------------------------------------------
(* What the control loop has written, and the lock it holds meanwhile.     *)
ItemType ==
  [type : {"association"}] \union [type : {"interface"}, number : Nat, endpoints : Nat]
  \union [type : {"endpoint"}, address : Nat]

LEMMA AssociationsTyped ==
  ASSUME TreeTyped
  PROVE  AssociationItems(Served) \in Seq(ItemType)
<1> DEFINE n     == tree[Served].associations
           items == AssociationItems(Served)
<1>1. n \in Nat
  BY InterfacesTyped, PlansAssumption
<1>2. items = [k \in 1 .. n |-> [type |-> "association"]]
  BY DEF AssociationItems
<1>3. [type |-> "association"] \in ItemType
  BY DEF ItemType
<1> HIDE DEF n, items
<1>4. items \in [1 .. n -> ItemType]
  BY <1>2, <1>3
<1> QED BY <1>1, <1>4, SeqDef DEF items

Known == Len(tree[Served].interfaces)
(* The first interfaces are written, each with its number.                 *)
Numbered(items, n) ==
  LET is == OfType(items, "interface")
  IN /\ is \in Seq(ItemType) /\ Len(is) = n
     /\ \A k \in 1 .. n : is[k].number = objs[tree[Served].interfaces[k]].number
Written ==
  /\ loop.items \in Seq(ItemType) /\ loop.header.interfaces = Known /\ loop.index \in Nat \ {0}
  /\ loop.at = "interface" => loop.index <= Known + 1 /\ Numbered(loop.items, loop.index - 1)
  /\ loop.at # "interface" => loop.index <= Known /\ Numbered(loop.items, loop.index)
  /\ loop.at = "endpoint" => loop.next \in Nat \ {0}

(* What a host reads from the items: the bytes they take, and the items of *)
(* a type.                                                                 *)
SizesOf(items) == [k \in DOMAIN items |-> SizeOf(items[k])]
PicksOf(items, type) == [k \in DOMAIN items |-> IF items[k].type = type THEN <<items[k]>> ELSE <<>>]

LEMMA SizeOfItem ==
  ASSUME NEW item \in ItemType
  PROVE  SizeOf(item) \in Nat /\ SizeOf(item) > 0
<1>1. item.type \in {"association", "interface", "endpoint"}
  BY DEF ItemType
<1> QED BY <1>1 DEF SizeOf

LEMMA PickOfItem ==
  ASSUME NEW item \in ItemType, NEW type
  PROVE  (IF item.type = type THEN <<item>> ELSE <<>>) \in Seq(ItemType)
<1>1. <<item>> \in Seq(ItemType)
  OBVIOUS
<1> QED BY <1>1, EmptySeq

LEMMA ItemsTyped ==
  ASSUME NEW items \in Seq(ItemType), NEW type
  PROVE  /\ Len(items) \in Nat /\ DOMAIN items = 1 .. Len(items)
         /\ \A k \in 1 .. Len(items) : items[k] \in ItemType
         /\ SizesOf(items) \in Seq(Nat) /\ Len(SizesOf(items)) = Len(items)
         /\ PicksOf(items, type) \in Seq(Seq(ItemType)) /\ Len(PicksOf(items, type)) = Len(items)
<1> DEFINE n == Len(items)
<1>1. n \in Nat /\ DOMAIN items = 1 .. n /\ \A k \in 1 .. n : items[k] \in ItemType
  BY LenProperties, ElementOfSeq
<1> HIDE DEF n
<1>2. SizesOf(items) \in [1 .. n -> Nat]
  BY <1>1, SizeOfItem DEF SizesOf
<1>3. SizesOf(items) \in Seq(Nat) /\ Len(SizesOf(items)) = n
  <2>1. SizesOf(items) \in Seq(Nat)
    BY <1>1, <1>2, SeqDef
  <2> QED BY <1>1, <1>2, <2>1, LenProperties
<1> DEFINE X == Seq(ItemType)
<1>4. \A k \in 1 .. n : (IF items[k].type = type THEN <<items[k]>> ELSE <<>>) \in X
  BY <1>1, PickOfItem
<1> HIDE DEF X
<1>5. PicksOf(items, type) \in [1 .. n -> X]
  BY <1>1, <1>4 DEF PicksOf
<1>6. PicksOf(items, type) \in Seq(X) /\ Len(PicksOf(items, type)) = n
  <2>1. PicksOf(items, type) \in Seq(X)
    BY <1>1, <1>5, SeqDef
  <2> QED BY <1>1, <1>5, <2>1, LenProperties
<1> QED BY <1>1, <1>3, <1>6 DEF n, X

(* One item more.                                                          *)
LEMMA ItemMore ==
  ASSUME NEW items \in Seq(ItemType), NEW item \in ItemType, NEW type
  PROVE  /\ DescriptorSize(Append(items, item)) = DescriptorSize(items) + SizeOf(item)
         /\ OfType(Append(items, item), type)
              = OfType(items, type) \o (IF item.type = type THEN <<item>> ELSE <<>>)
<1> DEFINE n    == Len(items)
           more == Append(items, item)
           pick == IF item.type = type THEN <<item>> ELSE <<>>
           X    == Seq(ItemType)
<1>1. /\ more \in Seq(ItemType) /\ Len(more) = n + 1 /\ more[n + 1] = item /\ n \in Nat
      /\ \A k \in 1 .. n : more[k] = items[k]
  BY AppendProperties, LenProperties
<1>2. DOMAIN more = 1 .. n + 1 /\ DOMAIN items = 1 .. n
  BY <1>1, LenProperties
<1>3. SizesOf(items) \in Seq(Nat) /\ Len(SizesOf(items)) = n /\ SizeOf(item) \in Nat
  BY ItemsTyped, SizeOfItem
<1>4. PicksOf(items, type) \in Seq(X) /\ Len(PicksOf(items, type)) = n /\ pick \in X
  BY ItemsTyped, PickOfItem
<1>5. Len(SizesOf(more)) = n + 1 /\ SizesOf(more) \in Seq(Nat)
      /\ Len(PicksOf(more, type)) = n + 1 /\ PicksOf(more, type) \in Seq(X)
  BY <1>1, ItemsTyped
<1> HIDE DEF more, n, X
<1>6. SizesOf(more) = Append(SizesOf(items), SizeOf(item))
  <2> DEFINE a == SizesOf(items)
             b == SizesOf(more)
             x == SizeOf(item)
  <2>1. \A k \in 1 .. n : b[k] = a[k]
    BY <1>1, <1>2 DEF SizesOf
  <2>2. b[n + 1] = x
    BY <1>1, <1>2 DEF SizesOf
  <2>3. a \in Seq(Nat) /\ b \in Seq(Nat) /\ x \in Nat /\ Len(a) = n /\ Len(b) = n + 1
    BY <1>3, <1>5
  <2> HIDE DEF a, b, x
  <2>4. /\ Append(a, x) \in Seq(Nat) /\ Len(Append(a, x)) = n + 1 /\ Append(a, x)[n + 1] = x
        /\ \A k \in 1 .. n : Append(a, x)[k] = a[k]
    BY <2>3, AppendProperties
  <2>5. \A k \in 1 .. n + 1 : b[k] = Append(a, x)[k]
    BY <1>1, <2>1, <2>2, <2>4
  <2>6. b = Append(a, x)
    BY <2>3, <2>4, <2>5, SeqEqual
  <2> QED BY <2>6 DEF a, b, x
<1>7. PicksOf(more, type) = Append(PicksOf(items, type), pick)
  <2> DEFINE a == PicksOf(items, type)
             b == PicksOf(more, type)
  <2>1. \A k \in 1 .. n : b[k] = a[k]
    BY <1>1, <1>2 DEF PicksOf
  <2>2. b[n + 1] = pick
    BY <1>1, <1>2 DEF PicksOf
  <2>3. a \in Seq(X) /\ b \in Seq(X) /\ pick \in X /\ Len(a) = n /\ Len(b) = n + 1
    BY <1>4, <1>5
  <2> HIDE DEF a, b, pick
  <2>4. /\ Append(a, pick) \in Seq(X) /\ Len(Append(a, pick)) = n + 1 /\ Append(a, pick)[n + 1] = pick
        /\ \A k \in 1 .. n : Append(a, pick)[k] = a[k]
    BY <2>3, AppendProperties
  <2>5. \A k \in 1 .. n + 1 : b[k] = Append(a, pick)[k]
    BY <1>1, <2>1, <2>2, <2>4
  <2>6. b = Append(a, pick)
    BY <2>3, <2>4, <2>5, SeqEqual
  <2> QED BY <2>6 DEF a, b, pick
<1>8. DescriptorSize(more) = Sums(HeaderSize, SizesOf(more))[n + 1]
      /\ DescriptorSize(items) = Sums(HeaderSize, SizesOf(items))[n]
  BY <1>1 DEF DescriptorSize, Ends, SizesOf, n
<1>9. DescriptorSize(more) = DescriptorSize(items) + SizeOf(item)
  BY <1>3, <1>6, <1>8, SumsAppend DEF HeaderSize
<1>10. OfType(more, type) = OfType(items, type) \o pick
  <2>1. OfType(more, type) = Joined(PicksOf(more, type)) /\ OfType(items, type) = Joined(PicksOf(items, type))
    BY DEF OfType, PicksOf
  <2> HIDE DEF pick
  <2> QED BY <1>4, <1>7, <2>1, JoinedAppend DEF X
<1> QED BY <1>9, <1>10 DEF more

(* A host that gets all the bytes the header announces reads all items.    *)
LEMMA ParsedWhole ==
  ASSUME NEW items \in Seq(ItemType)
  PROVE  DescriptorSize(items) \in Nat /\ Parsed(items, DescriptorSize(items), DescriptorSize(items)) = items
<1> DEFINE n     == Len(items)
           sizes == SizesOf(items)
           ends  == Ends(items)
           size  == DescriptorSize(items)
           Whole(k) == ends[k - 1] < size /\ ends[k] <= size
           whole == {k \in DOMAIN items : Whole(k)}
<1>1. /\ n \in Nat /\ DOMAIN items = 1 .. n /\ sizes \in Seq(Nat) /\ Len(sizes) = n
      /\ \A k \in 1 .. n : items[k] \in ItemType
  BY ItemsTyped
<1>2. ends = Sums(HeaderSize, sizes) /\ HeaderSize \in Nat /\ size = ends[n]
  BY DEF Ends, SizesOf, HeaderSize, DescriptorSize
<1>3. \A k \in 1 .. n : sizes[k] \in Nat /\ sizes[k] > 0
  BY <1>1, SizeOfItem DEF SizesOf
<1> HIDE DEF n, sizes, ends, size
<1>4. /\ ends \in [0 .. n -> Nat] /\ \A k \in 1 .. n : ends[k] = ends[k - 1] + sizes[k]
      /\ \A k \in 0 .. n : ends[k] <= ends[n]
  BY <1>1, <1>2, SumsDef, SumsGrow
<1>5. \A k \in 1 .. n : Whole(k)
  <2> SUFFICES ASSUME NEW k \in 1 .. n PROVE Whole(k)
    OBVIOUS
  <2>1. k - 1 \in 0 .. n /\ k \in 0 .. n
    BY <1>1
  <2>2. ends[k - 1] \in Nat /\ ends[k] = ends[k - 1] + sizes[k] /\ ends[k] <= ends[n] /\ ends[k] \in Nat
        /\ ends[n] \in Nat
    BY <1>1, <1>4, <2>1
  <2> QED BY <1>2, <1>3, <2>2
<1>6. whole = 1 .. n
  BY <1>1, <1>5
<1>7. Cardinality(1 .. n) = n
  BY <1>1, FS_Interval
<1>8. Parsed(items, size, size) = SubSeq(items, 1, Cardinality(whole))
  BY DEF Parsed, ends
<1>9. Parsed(items, size, size) = SubSeq(items, 1, n)
  BY <1>6, <1>7, <1>8
<1>10. SubSeq(items, 1, n) = items
  <2>1. \A k \in 1 .. n : items[k] \in ItemType
    BY <1>1
  <2>2. /\ SubSeq(items, 1, n) \in Seq(ItemType)
        /\ Len(SubSeq(items, 1, n)) = IF 1 <= n THEN n - 1 + 1 ELSE 0
        /\ \A k \in 1 .. n - 1 + 1 : SubSeq(items, 1, n)[k] = items[1 + k - 1]
    BY <1>1, <2>1, SubSeqProperties
  <2>3. Len(SubSeq(items, 1, n)) = n /\ n - 1 + 1 = n
    BY <1>1, <2>2
  <2>4. \A k \in 1 .. n : SubSeq(items, 1, n)[k] = items[k]
    <3> SUFFICES ASSUME NEW k \in 1 .. n PROVE SubSeq(items, 1, n)[k] = items[k]
      OBVIOUS
    <3>1. 1 + k - 1 = k
      OBVIOUS
    <3> QED BY <2>2, <2>3, <3>1
  <2> QED BY <2>2, <2>3, <2>4, SeqEqual DEF n
<1>11. size \in Nat
  BY <1>1, <1>2, <1>4
<1> QED BY <1>9, <1>10, <1>11 DEF size

(* Associations count, and a host finds nothing of the tree in them.       *)
LEMMA JoinedEmpty ==
  ASSUME NEW s, NEW n \in Nat, s = [k \in 1 .. n |-> <<>>]
  PROVE  Joined(s) = <<>>
<1> DEFINE J == Joins(s)
           e == <<>>
           T == {m \in Nat : m <= n => J[m] = e}
           X == Seq(ItemType)
<1>1. s \in Seq(X) /\ Len(s) = n /\ e \in X
  <2>1. e \in X
    BY EmptySeq
  <2>2. s \in [1 .. n -> X]
    BY <2>1
  <2> HIDE DEF X
  <2>3. s \in Seq(X)
    BY <2>2, SeqDef
  <2> QED BY <2>1, <2>2, <2>3, LenProperties
<1>2. J[0] = e /\ \A k \in 1 .. n : J[k] = J[k - 1] \o s[k]
  BY <1>1, JoinsDef
<1>3. e \o e = e
  OBVIOUS
<1>4. \A k \in 1 .. n : s[k] = e
  OBVIOUS
<1> HIDE DEF J, e
<1>5. 0 \in T
  BY <1>2
<1>6. ASSUME NEW m \in Nat, m \in T PROVE m + 1 \in T
  <2> SUFFICES ASSUME m + 1 <= n PROVE J[m + 1] = e
    OBVIOUS
  <2>1. m + 1 \in 1 .. n /\ (m + 1) - 1 = m /\ m <= n
    OBVIOUS
  <2> QED BY <1>2, <1>3, <1>4, <1>6, <2>1
<1> HIDE DEF T
<1>7. n \in T
  BY <1>5, <1>6, Induction
<1> QED BY <1>1, <1>7 DEF T, J, e, Joined

LEMMA AssociationsRead ==
  ASSUME TreeTyped
  PROVE  /\ DescriptorSize(AssociationItems(Served)) = HeaderSize + 8 * tree[Served].associations
         /\ OfType(AssociationItems(Served), "interface") = <<>>
         /\ OfType(AssociationItems(Served), "endpoint") = <<>>
<1> DEFINE n     == tree[Served].associations
           items == AssociationItems(Served)
<1>1. n \in Nat
  BY InterfacesTyped, PlansAssumption
<1>2. items = [k \in 1 .. n |-> [type |-> "association"]]
  BY DEF AssociationItems
<1>3. items \in Seq(ItemType)
  BY AssociationsTyped
<1> HIDE DEF n, items
<1>4. DOMAIN items = 1 .. n /\ \A k \in 1 .. n : items[k].type = "association"
  BY <1>2
<1>5. Len(items) = n
  BY <1>1, <1>3, <1>4, LenProperties
<1>6. [k \in DOMAIN items |-> SizeOf(items[k])] = [k \in 1 .. n |-> 8]
  BY <1>4 DEF SizeOf
<1>7. DescriptorSize(items) = HeaderSize + 8 * n
  <2>1. HeaderSize \in Nat /\ 8 \in Nat
    BY DEF HeaderSize
  <2>2. Sums(HeaderSize, [k \in 1 .. n |-> 8])[n] = HeaderSize + 8 * n
    BY <1>1, <2>1, SumsOfEqual
  <2> QED BY <1>5, <1>6, <2>2 DEF DescriptorSize, Ends
<1>8. ASSUME NEW type \in {"interface", "endpoint"} PROVE OfType(items, type) = <<>>
  <2> DEFINE picks == [k \in DOMAIN items |-> IF items[k].type = type THEN <<items[k]>> ELSE <<>>]
  <2>1. picks = [k \in 1 .. n |-> <<>>]
    BY <1>4
  <2>2. OfType(items, type) = Joined(picks)
    BY DEF OfType
  <2> HIDE DEF picks
  <2> QED BY <1>1, <2>1, <2>2, JoinedEmpty
<1> QED BY <1>7, <1>8 DEF n, items
-----------------------------------------------------------------------------
(* The tree as the loop is to write it: the header, the items, the bytes   *)
(* up to each interface.                                                   *)
HeaderNow     == [total |-> calculateTotalLength(Served), interfaces |-> Known, value |-> Served]
IfaceItems(n) == [k \in 1 .. n |-> InterfaceItem(tree[Served].interfaces[k])]
EpItems       == [k \in DOMAIN tree[Served].interfaces |-> EndpointItems(tree[Served].interfaces[k])]
FirstEps(o, j) == [m \in 1 .. j |-> EndpointItem(objs[o].endpoints[m])]
Upto(k)       == Sums(HeaderSize + 8 * tree[Served].associations, InterfaceSizes(Served))[k]

WrittenExactly ==
  LET i  == loop.index
      is == OfType(loop.items, "interface")
      es == OfType(loop.items, "endpoint")
      n  == DescriptorSize(loop.items)
  IN /\ loop.header = HeaderNow
     /\ loop.at = "interface" => is = IfaceItems(i - 1) /\ es = Joins(EpItems)[i - 1] /\ n = Upto(i - 1)
     /\ loop.at = "endpoints" => is = IfaceItems(i) /\ es = Joins(EpItems)[i - 1] /\ n = Upto(i - 1) + 9
     /\ loop.at = "endpoint"  =>
          /\ loop.slice = Len(objs[Current].endpoints) /\ loop.next \in 1 .. loop.slice
          /\ is = IfaceItems(i) /\ es = Joins(EpItems)[i - 1] \o FirstEps(Current, loop.next - 1)
          /\ n = Upto(i - 1) + 9 + 7 * (loop.next - 1)

Exactly(items, header) ==
  /\ items \in Seq(ItemType) /\ header = HeaderNow
  /\ OfType(items, "interface") = IfaceItems(Known) /\ OfType(items, "endpoint") = Joined(EpItems)
  /\ DescriptorSize(items) = calculateTotalLength(Served)

LEMMA TreeViews ==
  ASSUME TreeTyped
  PROVE  /\ Known \in Nat /\ DOMAIN tree[Served].interfaces = 1 .. Known
         /\ \A k \in 1 .. Known : tree[Served].interfaces[k] \in 1 .. Len(objs)
         /\ EpItems \in Seq(Seq(ItemType)) /\ Len(EpItems) = Known
         /\ InterfaceSizes(Served) \in Seq(Nat) /\ Len(InterfaceSizes(Served)) = Known
         /\ HeaderSize + 8 * tree[Served].associations \in Nat
         /\ \A k \in 1 .. Known :
              /\ EpItems[k] = EndpointItems(tree[Served].interfaces[k])
              /\ InterfaceSizes(Served)[k] = 9 + 7 * Len(objs[tree[Served].interfaces[k]].endpoints)
              /\ objs[tree[Served].interfaces[k]].endpoints \in Seq(EndpointType)
              /\ InterfaceItem(tree[Served].interfaces[k]) \in ItemType
<1> DEFINE ifs == tree[Served].interfaces
           sizes == InterfaceSizes(Served)
           X == Seq(ItemType)
<1>1. ifs \in Seq(1 .. Len(objs)) /\ Known \in Nat /\ DOMAIN ifs = 1 .. Known /\ tree[Served].associations \in Nat
  BY InterfacesTyped, PlansAssumption DEF Known
<1>2. \A k \in 1 .. Known : ifs[k] \in 1 .. Len(objs)
  BY <1>1, ElementOfSeq DEF Known
<1>3. \A o \in 1 .. Len(objs) : objs[o].endpoints \in Seq(EndpointType) /\ objs[o].number \in Nat
  BY ObjectsTyped
<1>4. \A o \in 1 .. Len(objs) :
        EndpointItems(o) \in X /\ Len(objs[o].endpoints) \in Nat /\ InterfaceItem(o) \in ItemType
  <2> SUFFICES ASSUME NEW o \in 1 .. Len(objs)
               PROVE  EndpointItems(o) \in X /\ Len(objs[o].endpoints) \in Nat /\ InterfaceItem(o) \in ItemType
    OBVIOUS
  <2> DEFINE eps == objs[o].endpoints
             n == Len(eps)
  <2>1. eps \in Seq(EndpointType)
    BY <1>3
  <2>2. n \in Nat /\ DOMAIN eps = 1 .. n /\ \A j \in 1 .. n : eps[j] \in EndpointType
    <3> HIDE DEF eps
    <3> QED BY <2>1, LenProperties, ElementOfSeq
  <2>3. EndpointItems(o) = [j \in DOMAIN eps |-> EndpointItem(eps[j])]
    BY DEF EndpointItems
  <2> HIDE DEF n, eps
  <2>4. \A j \in 1 .. n : EndpointItem(eps[j]) \in ItemType
    BY <2>2 DEF EndpointItem, EndpointType, ItemType
  <2>5. EndpointItems(o) \in [1 .. n -> ItemType]
    BY <2>2, <2>3, <2>4
  <2>6. EndpointItems(o) \in Seq(ItemType)
    BY <2>2, <2>5, SeqDef
  <2>7. InterfaceItem(o) \in ItemType
    BY <1>3, <2>2 DEF InterfaceItem, ItemType, n, eps
  <2> QED BY <2>2, <2>6, <2>7 DEF n, eps
<1> HIDE DEF ifs, X
<1>5. EpItems = [k \in 1 .. Known |-> EndpointItems(ifs[k])]
  BY <1>1 DEF EpItems, ifs
<1>6. sizes = [k \in 1 .. Known |-> 9 + 7 * Len(objs[ifs[k]].endpoints)]
  BY <1>1 DEF InterfaceSizes, ifs
<1> HIDE DEF sizes
<1>7. EpItems \in [1 .. Known -> X] /\ sizes \in [1 .. Known -> Nat]
  BY <1>2, <1>4, <1>5, <1>6
<1>8. EpItems \in Seq(X) /\ sizes \in Seq(Nat)
  BY <1>1, <1>7, SeqDef
<1>9. Len(EpItems) = Known /\ Len(sizes) = Known
  BY <1>1, <1>7, <1>8, LenProperties
<1>10. HeaderSize + 8 * tree[Served].associations \in Nat
  BY <1>1 DEF HeaderSize
<1>11. \A k \in 1 .. Known : EpItems[k] = EndpointItems(ifs[k]) /\ sizes[k] = 9 + 7 * Len(objs[ifs[k]].endpoints)
  BY <1>5, <1>6
<1> QED BY <1>1, <1>2, <1>3, <1>4, <1>8, <1>9, <1>10, <1>11 DEF ifs, sizes, X

(* A host that has all the bytes of them has read the tree.                *)
LEMMA ReadExactly ==
  ASSUME TreeTyped, NEW items, NEW header, Exactly(items, header)
  PROVE  /\ parseConfigurationTree(header, items, DescriptorSize(items)) = TreeOf(Served)
         /\ DescriptorSize(items) \in Nat /\ header.total = DescriptorSize(items)
<1>1. header.total = DescriptorSize(items) /\ header.interfaces = Known /\ header.value = Served
      /\ items \in Seq(ItemType)
  BY DEF Exactly, HeaderNow
<1>2. Parsed(items, header.total, DescriptorSize(items)) = items /\ DescriptorSize(items) \in Nat
  BY <1>1, ParsedWhole
<1>3. parseConfigurationTree(header, items, DescriptorSize(items))
        = [value |-> Served, announces |-> Known, interfaces |-> OfType(items, "interface"),
           endpoints |-> OfType(items, "endpoint")]
  BY <1>1, <1>2 DEF parseConfigurationTree
<1>4. TreeOf(Served) = [value |-> Served, announces |-> Known, interfaces |-> IfaceItems(Known),
                        endpoints |-> Joined(EpItems)]
  BY TreeViews DEF TreeOf, IfaceItems, EpItems, Known
<1> QED BY <1>1, <1>2, <1>3, <1>4 DEF Exactly

(* What these say of a tree that stands still.                             *)
LEMMA SameViews ==
  ASSUME UNCHANGED <<objs, tree>>
  PROVE  /\ HeaderNow' = HeaderNow /\ EpItems' = EpItems /\ TreeOf(Served)' = TreeOf(Served) /\ Known' = Known
         /\ calculateTotalLength(Served)' = calculateTotalLength(Served)
         /\ \A k : IfaceItems(k)' = IfaceItems(k)
         /\ \A k : Upto(k)' = Upto(k)
<1>1. calculateTotalLength(Served)' = calculateTotalLength(Served) /\ \A k : Upto(k)' = Upto(k)
  BY DEF calculateTotalLength, Upto, InterfaceSizes
<1>2. EpItems' = EpItems /\ TreeOf(Served)' = TreeOf(Served) /\ Known' = Known /\ \A k : IfaceItems(k)' = IfaceItems(k)
  BY DEF EpItems, EndpointItems, TreeOf, InterfaceItem, Known, IfaceItems
<1> QED BY <1>1, <1>2 DEF HeaderNow

-----------------------------------------------------------------------------
(* The first elements of a sequence, and one more.                         *)
LEMMA FirstMore ==
  ASSUME NEW S, NEW n \in Nat, NEW f \in [1 .. n -> S], NEW j \in 0 .. n
  PROVE  /\ [m \in 1 .. j |-> f[m]] \in Seq(S)
         /\ j < n => [m \in 1 .. j + 1 |-> f[m]] = [m \in 1 .. j |-> f[m]] \o <<f[j + 1]>>
<1> DEFINE F(i) == [m \in 1 .. i |-> f[m]]
<1>1. ASSUME NEW i \in 0 .. n
      PROVE  F(i) \in Seq(S) /\ Len(F(i)) = i /\ \A m \in 1 .. i : F(i)[m] = f[m]
  <2>1. i \in Nat /\ \A m \in 1 .. i : m \in 1 .. n
    OBVIOUS
  <2>2. \A m \in 1 .. i : F(i)[m] = f[m] /\ f[m] \in S
    BY <2>1
  <2>3. F(i) \in [1 .. i -> S]
    BY <2>2
  <2> HIDE DEF F
  <2>4. F(i) \in Seq(S)
    BY <2>1, <2>3, SeqDef
  <2> QED BY <2>1, <2>2, <2>3, <2>4, LenProperties
<1>2. ASSUME j < n PROVE F(j + 1) = F(j) \o <<f[j + 1]>>
  <2> DEFINE one == <<f[j + 1]>>
             t == F(j) \o one
  <2>1. j + 1 \in 0 .. n /\ j + 1 \in 1 .. n /\ f[j + 1] \in S
    BY <1>2
  <2>2. one \in Seq(S) /\ Len(one) = 1 /\ one[1] = f[j + 1]
    BY <2>1
  <2> HIDE DEF F, one
  <2>3. /\ t \in Seq(S) /\ Len(t) = j + 1
        /\ \A m \in 1 .. j + 1 : t[m] = IF m <= j THEN F(j)[m] ELSE one[m - j]
    <3> DEFINE head == F(j)
               both == head \o one
    <3>1. head \in Seq(S) /\ Len(head) = j
      BY <1>1
    <3> HIDE DEF head
    <3>2. /\ both \in Seq(S) /\ Len(both) = Len(head) + Len(one)
          /\ \A m \in 1 .. Len(head) + Len(one) :
               both[m] = IF m <= Len(head) THEN head[m] ELSE one[m - Len(head)]
      BY <2>2, <3>1, ConcatProperties
    <3> HIDE DEF both
    <3>3. /\ both \in Seq(S) /\ Len(both) = j + 1
          /\ \A m \in 1 .. j + 1 : both[m] = IF m <= j THEN head[m] ELSE one[m - j]
      BY <2>2, <3>1, <3>2
    <3> QED BY <3>3 DEF both, head
  <2>4. \A m \in 1 .. j + 1 : t[m] = f[m]
    <3> SUFFICES ASSUME NEW m \in 1 .. j + 1 PROVE t[m] = f[m]
      OBVIOUS
    <3>1. CASE m <= j
      <4>1. m \in 1 .. j
        BY <3>1
      <4> QED BY <1>1, <2>3, <3>1, <4>1
    <3>2. CASE ~(m <= j)
      <4>1. m = j + 1 /\ m - j = 1
        BY <3>2
      <4> QED BY <2>2, <2>3, <3>2, <4>1
    <3> QED BY <3>1, <3>2
  <2>5. F(j + 1) \in Seq(S) /\ Len(F(j + 1)) = j + 1 /\ \A m \in 1 .. j + 1 : F(j + 1)[m] = f[m]
    BY <1>1, <2>1
  <2> HIDE DEF t
  <2>6. F(j + 1) = t
    BY <2>3, <2>4, <2>5, SeqEqual
  <2> QED BY <2>6 DEF t, one
<1> QED BY <1>1, <1>2

LEMMA IfaceItemsMore ==
  ASSUME TreeTyped
  PROVE  /\ IfaceItems(0) = <<>>
         /\ \A k \in 0 .. Known : IfaceItems(k) \in Seq(ItemType)
         /\ \A k \in 1 .. Known : IfaceItems(k) = IfaceItems(k - 1) \o <<InterfaceItem(tree[Served].interfaces[k])>>
<1> DEFINE f == IfaceItems(Known)
<1>1. Known \in Nat /\ f = [k \in 1 .. Known |-> InterfaceItem(tree[Served].interfaces[k])]
      /\ \A k \in 1 .. Known : InterfaceItem(tree[Served].interfaces[k]) \in ItemType
  BY TreeViews DEF IfaceItems
<1>2. f \in [1 .. Known -> ItemType] /\ \A k \in 1 .. Known : f[k] = InterfaceItem(tree[Served].interfaces[k])
  BY <1>1
<1>3. ASSUME NEW k \in 0 .. Known PROVE IfaceItems(k) = [m \in 1 .. k |-> f[m]]
  <2>1. \A m \in 1 .. k : m \in 1 .. Known
    BY <1>1
  <2> QED BY <1>2, <2>1 DEF IfaceItems
<1> HIDE DEF f
<1>4. ASSUME NEW k \in 0 .. Known PROVE IfaceItems(k) \in Seq(ItemType)
  <2>1. [m \in 1 .. k |-> f[m]] \in Seq(ItemType)
    BY <1>1, <1>2, FirstMore
  <2> QED BY <1>3, <2>1
<1>5. ASSUME NEW k \in 1 .. Known
      PROVE  IfaceItems(k) = IfaceItems(k - 1) \o <<InterfaceItem(tree[Served].interfaces[k])>>
  <2>1. k - 1 \in 0 .. Known /\ k - 1 < Known /\ (k - 1) + 1 = k /\ k \in 0 .. Known
    BY <1>1
  <2>2. [m \in 1 .. (k - 1) + 1 |-> f[m]] = [m \in 1 .. k - 1 |-> f[m]] \o <<f[(k - 1) + 1]>>
    BY <1>1, <1>2, <2>1, FirstMore
  <2>3. [m \in 1 .. k |-> f[m]] = [m \in 1 .. k - 1 |-> f[m]] \o <<f[k]>>
    BY <2>1, <2>2
  <2> QED BY <1>2, <1>3, <2>1, <2>3
<1>6. IfaceItems(0) = <<>>
  BY DEF IfaceItems
<1> QED BY <1>4, <1>5, <1>6

LEMMA FirstEpsMore ==
  ASSUME TreeTyped, NEW o \in 1 .. Len(objs)
  PROVE  /\ FirstEps(o, 0) = <<>> /\ FirstEps(o, Len(objs[o].endpoints)) = EndpointItems(o)
         /\ \A j \in 0 .. Len(objs[o].endpoints) : FirstEps(o, j) \in Seq(ItemType)
         /\ \A j \in 1 .. Len(objs[o].endpoints) :
              /\ FirstEps(o, j) = FirstEps(o, j - 1) \o <<EndpointItem(objs[o].endpoints[j])>>
              /\ EndpointItem(objs[o].endpoints[j]) \in ItemType
<1> DEFINE eps == objs[o].endpoints
           n   == Len(eps)
           f   == EndpointItems(o)
<1>1. eps \in Seq(EndpointType)
  BY ObjectsTyped
<1>2. n \in Nat /\ DOMAIN eps = 1 .. n /\ \A j \in 1 .. n : eps[j] \in EndpointType
  <2> HIDE DEF eps
  <2> QED BY <1>1, LenProperties, ElementOfSeq
<1>3. f = [j \in DOMAIN eps |-> EndpointItem(eps[j])]
  BY DEF EndpointItems
<1>4. \A j : FirstEps(o, j) = [m \in 1 .. j |-> EndpointItem(eps[m])]
  BY DEF FirstEps
<1> HIDE DEF eps, f, n
<1>5. \A j \in 1 .. n : EndpointItem(eps[j]) \in ItemType
  BY <1>2 DEF EndpointItem, EndpointType, ItemType
<1>6. f \in [1 .. n -> ItemType] /\ \A j \in 1 .. n : f[j] = EndpointItem(eps[j])
  BY <1>2, <1>3, <1>5
<1>7. ASSUME NEW j \in 0 .. n PROVE FirstEps(o, j) = [m \in 1 .. j |-> f[m]]
  <2>1. \A m \in 1 .. j : m \in 1 .. n
    BY <1>2
  <2> QED BY <1>4, <1>6, <2>1
<1>8. \A j \in 0 .. n : FirstEps(o, j) \in Seq(ItemType)
  BY <1>2, <1>6, <1>7, FirstMore
<1>9. ASSUME NEW j \in 1 .. n PROVE FirstEps(o, j) = FirstEps(o, j - 1) \o <<EndpointItem(eps[j])>>
  <2>1. j - 1 \in 0 .. n /\ j - 1 < n /\ (j - 1) + 1 = j /\ j \in 0 .. n
    BY <1>2
  <2>2. [m \in 1 .. (j - 1) + 1 |-> f[m]] = [m \in 1 .. j - 1 |-> f[m]] \o <<f[(j - 1) + 1]>>
    BY <1>2, <1>6, <2>1, FirstMore
  <2>3. [m \in 1 .. j |-> f[m]] = [m \in 1 .. j - 1 |-> f[m]] \o <<f[j]>>
    BY <2>1, <2>2
  <2> QED BY <1>6, <1>7, <2>1, <2>3
<1>10. FirstEps(o, 0) = <<>>
  BY <1>4
<1>11. FirstEps(o, n) = f
  BY <1>2, <1>3, <1>4
<1> QED BY <1>5, <1>8, <1>9, <1>10, <1>11 DEF eps, n, f

-----------------------------------------------------------------------------
(* The control loop writes the tree exactly.                               *)
LEMMA JoinsNow ==
  ASSUME TreeTyped
  PROVE  /\ Joins(EpItems)[0] = <<>> /\ \A k \in 0 .. Known : Joins(EpItems)[k] \in Seq(ItemType)
         /\ \A k \in 1 .. Known : Joins(EpItems)[k] = Joins(EpItems)[k - 1] \o EndpointItems(tree[Served].interfaces[k])
         /\ Joined(EpItems) = Joins(EpItems)[Known]
         /\ Upto(0) = HeaderSize + 8 * tree[Served].associations /\ Upto(Known) = calculateTotalLength(Served)
         /\ \A k \in 0 .. Known : Upto(k) \in Nat
         /\ \A k \in 1 .. Known : Upto(k) = Upto(k - 1) + 9 + 7 * Len(objs[tree[Served].interfaces[k]].endpoints)
<1> DEFINE b == HeaderSize + 8 * tree[Served].associations
           sizes == InterfaceSizes(Served)
           J == Joins(EpItems)
           P == Sums(b, sizes)
<1>1. /\ Known \in Nat /\ EpItems \in Seq(Seq(ItemType)) /\ Len(EpItems) = Known
      /\ sizes \in Seq(Nat) /\ Len(sizes) = Known /\ b \in Nat
      /\ \A k \in 1 .. Known : /\ EpItems[k] = EndpointItems(tree[Served].interfaces[k])
                               /\ sizes[k] = 9 + 7 * Len(objs[tree[Served].interfaces[k]].endpoints)
                               /\ objs[tree[Served].interfaces[k]].endpoints \in Seq(EndpointType)
  BY TreeViews
<1>2. J \in [0 .. Known -> Seq(ItemType)] /\ J[0] = <<>> /\ \A k \in 1 .. Known : J[k] = J[k - 1] \o EpItems[k]
  BY <1>1, JoinsDef
<1>3. Joined(EpItems) = J[Known] /\ (\A k : Upto(k) = P[k]) /\ P[Known] = calculateTotalLength(Served)
  <2>1. Joined(EpItems) = J[Known]
    BY <1>1 DEF Joined
  <2>2. \A k : Upto(k) = P[k]
    BY DEF Upto
  <2>3. P[Known] = calculateTotalLength(Served)
    BY DEF calculateTotalLength, Known
  <2> QED BY <2>1, <2>2, <2>3
<1> HIDE DEF b, sizes, J
<1>4. P \in [0 .. Known -> Nat] /\ P[0] = b /\ \A k \in 1 .. Known : P[k] = P[k - 1] + sizes[k]
  <2>1. b \in Nat /\ sizes \in Seq(Nat) /\ Len(sizes) = Known
    BY <1>1
  <2>2. /\ Sums(b, sizes) \in [0 .. Len(sizes) -> Nat] /\ Sums(b, sizes)[0] = b
        /\ \A k \in 1 .. Len(sizes) : Sums(b, sizes)[k] = Sums(b, sizes)[k - 1] + sizes[k]
    BY <2>1, SumsDef
  <2> QED BY <2>1, <2>2
<1> HIDE DEF P
<1>5. Upto(0) = b /\ Upto(Known) = calculateTotalLength(Served) /\ \A k \in 0 .. Known : Upto(k) \in Nat
  BY <1>3, <1>4
<1>6. ASSUME NEW k \in 1 .. Known
      PROVE  Upto(k) = Upto(k - 1) + 9 + 7 * Len(objs[tree[Served].interfaces[k]].endpoints)
  <2> DEFINE l == Len(objs[tree[Served].interfaces[k]].endpoints)
  <2>1. l \in Nat
    BY <1>1, LenProperties
  <2>2. k - 1 \in 0 .. Known
    BY <1>1
  <2>3. Upto(k) = P[k - 1] + (9 + 7 * l) /\ P[k - 1] = Upto(k - 1) /\ P[k - 1] \in Nat
    BY <1>1, <1>3, <1>4, <2>2
  <2> HIDE DEF l
  <2>4. Upto(k) = Upto(k - 1) + 9 + 7 * l
    BY <2>1, <2>3
  <2> QED BY <2>4 DEF l
<1>7. \A k \in 1 .. Known : J[k] = J[k - 1] \o EndpointItems(tree[Served].interfaces[k])
  BY <1>1, <1>2
<1> QED BY <1>2, <1>3, <1>5, <1>6, <1>7 DEF J, b

(* What was read exactly stays exact while the tree stands still.          *)
LEMMA ExactlyStill ==
  ASSUME UNCHANGED <<objs, tree>>
  PROVE  \A items, header : Exactly(items, header)' <=> Exactly(items, header)
<1>1. /\ HeaderNow' = HeaderNow /\ EpItems' = EpItems /\ Known' = Known
      /\ calculateTotalLength(Served)' = calculateTotalLength(Served)
  BY SameViews
<1>2. IfaceItems(Known)' = IfaceItems(Known)
  BY <1>1 DEF IfaceItems, InterfaceItem
<1> QED BY <1>1, <1>2 DEF Exactly

(* The loop after a step, in terms of the tree before it.                  *)
LEMMA ExactlyThen ==
  ASSUME UNCHANGED <<objs, tree>>, NEW i, NEW m, loop'.index = i, loop'.next = m, loop'.header = HeaderNow,
         NEW is, is = OfType(loop'.items, "interface"), NEW es, es = OfType(loop'.items, "endpoint"),
         NEW n, n = DescriptorSize(loop'.items),
         loop'.at = "interface" => is = IfaceItems(i - 1) /\ es = Joins(EpItems)[i - 1] /\ n = Upto(i - 1),
         loop'.at = "endpoints" => is = IfaceItems(i) /\ es = Joins(EpItems)[i - 1] /\ n = Upto(i - 1) + 9,
         NEW o, o = tree[Served].interfaces[i],
         loop'.at = "endpoint" =>
           /\ loop'.slice = Len(objs[o].endpoints) /\ m \in 1 .. loop'.slice
           /\ is = IfaceItems(i) /\ es = Joins(EpItems)[i - 1] \o FirstEps(o, m - 1)
           /\ n = Upto(i - 1) + 9 + 7 * (m - 1)
  PROVE  WrittenExactly'
<1>1. HeaderNow' = HeaderNow /\ EpItems' = EpItems
  BY SameViews
<1>2. /\ IfaceItems(loop.index)' = IfaceItems(i) /\ IfaceItems(loop.index - 1)' = IfaceItems(i - 1)
      /\ Upto(loop.index - 1)' = Upto(i - 1)
  BY DEF IfaceItems, InterfaceItem, Upto, InterfaceSizes
<1>3. Current' = o /\ FirstEps(Current, loop.next - 1)' = FirstEps(o, m - 1) /\ objs'[o] = objs[o]
  BY DEF Current, FirstEps
<1> QED BY <1>1, <1>2, <1>3 DEF WrittenExactly

LEMMA HeaderExactly ==
  ASSUME TypeInv, Header, UNCHANGED <<objs, tree>>
  PROVE  loop'.at = "interface" /\ WrittenExactly'
<1> DEFINE items == AssociationItems(Served)
<1>1. DOMAIN loop = DOMAIN Idle /\ TreeTyped
  BY DEF TypeInv, LoopTyped
<1>2. /\ loop'.at = "interface" /\ loop'.index = 1 /\ loop'.items = items /\ loop'.header = HeaderNow
  BY <1>1 DEF Header, Idle, HeaderNow, Known
<1>3. /\ DescriptorSize(items) = HeaderSize + 8 * tree[Served].associations
      /\ OfType(items, "interface") = <<>> /\ OfType(items, "endpoint") = <<>>
  BY <1>1, AssociationsRead
<1>4. Joins(EpItems)[0] = <<>> /\ Upto(0) = HeaderSize + 8 * tree[Served].associations /\ IfaceItems(0) = <<>>
  BY <1>1, JoinsNow, IfaceItemsMore
<1>5. HeaderNow' = HeaderNow /\ EpItems' = EpItems /\ IfaceItems(0)' = IfaceItems(0) /\ Upto(0)' = Upto(0)
  BY SameViews
<1> HIDE DEF items
<1>6. /\ OfType(loop'.items, "interface") = IfaceItems(0)' /\ OfType(loop'.items, "endpoint") = Joins(EpItems')[0]
      /\ DescriptorSize(loop'.items) = Upto(0)' /\ loop'.index - 1 = 0
  BY <1>2, <1>3, <1>4, <1>5 DEF items
<1> QED BY <1>2, <1>5, <1>6 DEF WrittenExactly

LEMMA InterfaceExactly ==
  ASSUME TypeInv, WriteInterface, UNCHANGED <<objs, tree>>, Written, WrittenExactly
  PROVE  loop'.at = "endpoints" /\ WrittenExactly'
<1> DEFINE item == InterfaceItem(Current)
           i    == loop.index
<1>1. DOMAIN loop = DOMAIN Idle /\ TreeTyped
  BY DEF TypeInv, LoopTyped
<1>2. /\ loop.at = "interface" /\ i \in 1 .. Known /\ loop.items \in Seq(ItemType) /\ Known \in Nat
  BY <1>1, TreeViews DEF WriteInterface, Written, Known
<1>3. item \in ItemType /\ item.type = "interface" /\ item = InterfaceItem(tree[Served].interfaces[i])
  BY <1>1, <1>2, TreeViews DEF Current, InterfaceItem
<1>4. /\ loop'.at = "endpoints" /\ loop'.items = Append(loop.items, item)
      /\ loop'.index = i /\ loop'.header = loop.header
  BY <1>1 DEF WriteInterface, Idle
<1>5. /\ loop.header = HeaderNow /\ OfType(loop.items, "interface") = IfaceItems(i - 1)
      /\ OfType(loop.items, "endpoint") = Joins(EpItems)[i - 1] /\ DescriptorSize(loop.items) = Upto(i - 1)
  BY <1>2 DEF WrittenExactly
<1>6. i - 1 \in 0 .. Known
  BY <1>2
<1>7. IfaceItems(i) = IfaceItems(i - 1) \o <<item>> /\ Joins(EpItems)[i - 1] \in Seq(ItemType)
  BY <1>1, <1>2, <1>3, <1>6, IfaceItemsMore, JoinsNow
<1>8. SizeOf(item) = 9
  BY <1>3 DEF SizeOf
<1> HIDE DEF item
<1>9. OfType(Append(loop.items, item), "interface") = OfType(loop.items, "interface") \o <<item>>
      /\ DescriptorSize(Append(loop.items, item)) = DescriptorSize(loop.items) + SizeOf(item)
  BY <1>2, <1>3, ItemMore
<1>10. OfType(Append(loop.items, item), "endpoint") = OfType(loop.items, "endpoint") \o <<>>
  BY <1>2, <1>3, ItemMore
<1>11. Joins(EpItems)[i - 1] \o <<>> = Joins(EpItems)[i - 1]
  BY <1>7, ConcatEmptySeq
<1> HIDE DEF i
<1>12. /\ OfType(loop'.items, "interface") = IfaceItems(i) /\ OfType(loop'.items, "endpoint") = Joins(EpItems)[i - 1]
       /\ DescriptorSize(loop'.items) = Upto(i - 1) + 9
  BY <1>4, <1>5, <1>7, <1>8, <1>9, <1>10, <1>11
<1> QED BY <1>4, <1>5, <1>12, ExactlyThen

LEMMA EndpointsExactly ==
  ASSUME TypeInv, TakeEndpoints, UNCHANGED <<objs, tree>>, Written, WrittenExactly
  PROVE  loop'.at \in {"interface", "endpoint"} /\ WrittenExactly'
<1> DEFINE i   == loop.index
           o   == tree[Served].interfaces[i]
           eps == objs[o].endpoints
           n   == Len(eps)
<1>1. DOMAIN loop = DOMAIN Idle /\ TreeTyped
  BY DEF TypeInv, LoopTyped
<1>2. loop.at = "endpoints" /\ i \in 1 .. Known /\ Known \in Nat
  BY <1>1, TreeViews DEF TakeEndpoints, Written
<1>3. o \in 1 .. Len(objs) /\ eps \in Seq(EndpointType)
  BY <1>1, <1>2, TreeViews
<1>4. n \in Nat /\ (eps = <<>> <=> n = 0)
  <2> HIDE DEF eps
  <2> QED BY <1>3, LenProperties, EmptySeq
<1>5. /\ loop.header = HeaderNow /\ OfType(loop.items, "interface") = IfaceItems(i)
      /\ OfType(loop.items, "endpoint") = Joins(EpItems)[i - 1] /\ DescriptorSize(loop.items) = Upto(i - 1) + 9
  BY <1>2 DEF WrittenExactly
<1>6. /\ loop'.items = loop.items /\ loop'.header = loop.header /\ loop'.next = 1 /\ loop'.slice = n
      /\ loop'.at = (IF eps = <<>> THEN "interface" ELSE "endpoint")
      /\ loop'.index = (IF eps = <<>> THEN i + 1 ELSE i)
  BY <1>1 DEF TakeEndpoints, Current, Idle
<1>7. i \in 0 .. Known /\ i - 1 \in 0 .. Known /\ (i + 1) - 1 = i
  BY <1>2
<1>8. /\ Joins(EpItems)[i - 1] \in Seq(ItemType) /\ Joins(EpItems)[i] = Joins(EpItems)[i - 1] \o EndpointItems(o)
      /\ Upto(i) = Upto(i - 1) + 9 + 7 * n /\ Upto(i - 1) \in Nat
  BY <1>1, <1>2, <1>7, JoinsNow
<1>9. FirstEps(o, 0) = <<>> /\ FirstEps(o, n) = EndpointItems(o)
  BY <1>1, <1>3, FirstEpsMore
<1>10. Joins(EpItems)[i - 1] \o <<>> = Joins(EpItems)[i - 1]
  BY <1>8, ConcatEmptySeq
<1> HIDE DEF i, o, eps, n
<1>11. CASE eps = <<>>
  <2>1. n = 0 /\ Upto(i) = Upto(i - 1) + 9
    BY <1>4, <1>8, <1>11
  <2>2. Joins(EpItems)[i] = Joins(EpItems)[i - 1]
    BY <1>8, <1>9, <1>10, <2>1
  <2>3. loop'.at = "interface" /\ loop'.index = i + 1
    BY <1>6, <1>11
  <2>4. OfType(loop'.items, "interface") = IfaceItems((i + 1) - 1)
        /\ OfType(loop'.items, "endpoint") = Joins(EpItems)[(i + 1) - 1]
        /\ DescriptorSize(loop'.items) = Upto((i + 1) - 1)
    BY <1>5, <1>6, <1>7, <2>1, <2>2
  <2> QED BY <1>5, <1>6, <2>3, <2>4, ExactlyThen
<1>12. CASE eps # <<>>
  <2>1. 1 \in 1 .. n /\ 1 - 1 = 0 /\ Upto(i - 1) + 9 + 7 * (1 - 1) = Upto(i - 1) + 9
    BY <1>4, <1>8, <1>12
  <2>2. loop'.at = "endpoint" /\ loop'.index = i
    BY <1>6, <1>12
  <2>3. OfType(loop'.items, "interface") = IfaceItems(i)
        /\ OfType(loop'.items, "endpoint") = Joins(EpItems)[i - 1] \o FirstEps(o, 1 - 1)
        /\ DescriptorSize(loop'.items) = Upto(i - 1) + 9 + 7 * (1 - 1)
    BY <1>5, <1>6, <1>9, <1>10, <2>1
  <2> QED BY <1>5, <1>6, <2>1, <2>2, <2>3, ExactlyThen DEF o, eps, n
<1> QED BY <1>6, <1>11, <1>12

LEMMA EndpointExactly ==
  ASSUME TypeInv, WriteEndpoint, UNCHANGED <<objs, tree>>, Written, WrittenExactly
  PROVE  loop'.at \in {"interface", "endpoint"} /\ WrittenExactly'
<1> DEFINE i    == loop.index
           m    == loop.next
           o    == tree[Served].interfaces[i]
           eps  == objs[o].endpoints
           n    == Len(eps)
           item == EndpointItem(eps[m])
           J    == Joins(EpItems)[i - 1]
<1>1. DOMAIN loop = DOMAIN Idle /\ TreeTyped
  BY DEF TypeInv, LoopTyped
<1>2. loop.at = "endpoint" /\ i \in 1 .. Known /\ Known \in Nat /\ loop.items \in Seq(ItemType)
  BY <1>1, TreeViews DEF WriteEndpoint, Written
<1>3. o \in 1 .. Len(objs) /\ eps \in Seq(EndpointType)
  BY <1>1, <1>2, TreeViews
<1>4. n \in Nat
  <2> HIDE DEF eps
  <2> QED BY <1>3, LenProperties
<1>5. /\ loop.header = HeaderNow /\ OfType(loop.items, "interface") = IfaceItems(i)
      /\ OfType(loop.items, "endpoint") = J \o FirstEps(o, m - 1)
      /\ DescriptorSize(loop.items) = Upto(i - 1) + 9 + 7 * (m - 1)
      /\ loop.slice = n /\ m \in 1 .. n
  BY <1>2 DEF WrittenExactly, Current
<1>6. /\ loop'.items = Append(loop.items, item) /\ loop'.header = loop.header /\ loop'.next = m + 1
      /\ loop'.slice = n /\ loop'.at = (IF m = n THEN "interface" ELSE "endpoint")
      /\ loop'.index = (IF m = n THEN i + 1 ELSE i)
  <2>1. m \in 1 .. n
    BY <1>5
  <2>2. ~(m > n)
    <3> HIDE DEF n, m
    <3> QED BY <1>4, <2>1
  <2> QED BY <1>1, <1>5, <2>2 DEF WriteEndpoint, Current, Idle
<1>7. i \in 0 .. Known /\ i - 1 \in 0 .. Known /\ (i + 1) - 1 = i /\ (m + 1) - 1 = m /\ m - 1 \in 0 .. n /\ m \in 0 .. n
  <2>1. m \in 1 .. n
    BY <1>5
  <2> HIDE DEF i, m, n
  <2> QED BY <1>2, <1>4, <2>1
<1>8. /\ J \in Seq(ItemType) /\ Joins(EpItems)[i] = J \o EndpointItems(o)
      /\ Upto(i) = Upto(i - 1) + 9 + 7 * n /\ Upto(i - 1) \in Nat
  BY <1>1, <1>2, <1>7, JoinsNow
<1>9. /\ FirstEps(o, n) = EndpointItems(o) /\ FirstEps(o, m - 1) \in Seq(ItemType)
      /\ FirstEps(o, m) = FirstEps(o, m - 1) \o <<item>> /\ item \in ItemType
  BY <1>1, <1>3, <1>5, <1>7, FirstEpsMore
<1>10. item.type = "endpoint" /\ SizeOf(item) = 7 /\ IfaceItems(i) \in Seq(ItemType)
  BY <1>1, <1>7, IfaceItemsMore DEF EndpointItem, SizeOf
<1> HIDE DEF item, J
<1>11. <<item>> \in Seq(ItemType)
  <2>1. item \in ItemType
    BY <1>9
  <2> QED BY <2>1
<1>12. /\ OfType(Append(loop.items, item), "interface") = IfaceItems(i) \o <<>>
       /\ OfType(Append(loop.items, item), "endpoint") = (J \o FirstEps(o, m - 1)) \o <<item>>
       /\ DescriptorSize(Append(loop.items, item)) = Upto(i - 1) + 9 + 7 * (m - 1) + 7
  <2>1. item \in ItemType /\ loop.items \in Seq(ItemType) /\ item.type # "interface" /\ item.type = "endpoint"
    BY <1>2, <1>9, <1>10
  <2>2. /\ DescriptorSize(Append(loop.items, item)) = DescriptorSize(loop.items) + SizeOf(item)
        /\ OfType(Append(loop.items, item), "interface") = OfType(loop.items, "interface") \o <<>>
        /\ OfType(Append(loop.items, item), "endpoint") = OfType(loop.items, "endpoint") \o <<item>>
    BY <2>1, ItemMore
  <2> QED BY <1>5, <1>10, <2>2
<1>13. /\ OfType(loop'.items, "interface") = IfaceItems(i)
       /\ OfType(loop'.items, "endpoint") = J \o FirstEps(o, m)
  <2>1. IfaceItems(i) \o <<>> = IfaceItems(i)
    BY <1>10, ConcatEmptySeq
  <2>2. (J \o FirstEps(o, m - 1)) \o <<item>> = J \o (FirstEps(o, m - 1) \o <<item>>)
    <3> DEFINE f == FirstEps(o, m - 1)
               one == <<item>>
    <3>1. J \in Seq(ItemType) /\ f \in Seq(ItemType) /\ one \in Seq(ItemType)
      BY <1>8, <1>9, <1>11
    <3> HIDE DEF f, one
    <3> QED BY <3>1, ConcatAssociative DEF f, one
  <2> QED BY <1>6, <1>9, <1>12, <2>1, <2>2
<1>14. DescriptorSize(loop'.items) = Upto(i - 1) + 9 + 7 * m
  <2>1. m \in Int
    BY <1>7
  <2>2. \A u \in Nat : u + 9 + 7 * (m - 1) + 7 = u + 9 + 7 * m
    <3> HIDE DEF m
    <3> QED BY <2>1
  <2> QED BY <1>6, <1>8, <1>12, <2>2
<1> HIDE DEF i, o, eps, n, m
<1>15. CASE m = n
  <2>1. loop'.at = "interface" /\ loop'.index = i + 1
    BY <1>6, <1>15
  <2>2. OfType(loop'.items, "interface") = IfaceItems((i + 1) - 1)
        /\ OfType(loop'.items, "endpoint") = Joins(EpItems)[(i + 1) - 1]
        /\ DescriptorSize(loop'.items) = Upto((i + 1) - 1)
    BY <1>7, <1>8, <1>9, <1>13, <1>14, <1>15
  <2> QED BY <1>5, <1>6, <2>1, <2>2, ExactlyThen
<1>16. CASE m # n
  <2>1. loop'.at = "endpoint" /\ loop'.index = i /\ m + 1 \in 1 .. n
    BY <1>4, <1>5, <1>6, <1>16
  <2>2. OfType(loop'.items, "interface") = IfaceItems(i)
        /\ OfType(loop'.items, "endpoint") = Joins(EpItems)[i - 1] \o FirstEps(o, (m + 1) - 1)
        /\ DescriptorSize(loop'.items) = Upto(i - 1) + 9 + 7 * ((m + 1) - 1)
    BY <1>7, <1>13, <1>14 DEF J
  <2> QED BY <1>5, <1>6, <2>1, <2>2, ExactlyThen DEF o, eps, n
<1> QED BY <1>6, <1>15, <1>16

(* The descriptor that is complete.                                        *)
LEMMA WholeExactly ==
  ASSUME TypeInv, loop.at = "interface", loop.index = Known + 1, Written, WrittenExactly
  PROVE  Exactly(loop.items, loop.header)
<1>1. TreeTyped /\ Known \in Nat /\ loop.items \in Seq(ItemType)
  BY TreeViews DEF TypeInv, Written
<1>2. loop.index - 1 = Known
  BY <1>1
<1>3. /\ loop.header = HeaderNow /\ OfType(loop.items, "interface") = IfaceItems(Known)
      /\ OfType(loop.items, "endpoint") = Joins(EpItems)[Known] /\ DescriptorSize(loop.items) = Upto(Known)
  BY <1>2 DEF WrittenExactly
<1>4. Joined(EpItems) = Joins(EpItems)[Known] /\ Upto(Known) = calculateTotalLength(Served)
  BY <1>1, JoinsNow
<1> QED BY <1>1, <1>3, <1>4 DEF Exactly

LEMMA LeaveExactly ==
  ASSUME TypeInv, Leave, UNCHANGED <<objs, tree>>, Written, WrittenExactly
  PROVE  loop'.at = "replying" /\ Exactly(loop.items, loop.header)'
<1>1. DOMAIN loop = DOMAIN Idle /\ TreeTyped
  BY DEF TypeInv, LoopTyped
<1>2. loop.at = "interface" /\ loop.index = Known + 1
  <2>1. Known \in Nat
    BY <1>1, TreeViews
  <2>2. loop.at = "interface" /\ loop.index > Known /\ loop.index <= Known + 1 /\ loop.index \in Nat
    BY DEF Leave, Written, Known
  <2> QED BY <2>1, <2>2
<1>3. loop'.at = "replying" /\ loop'.items = loop.items /\ loop'.header = loop.header
  BY <1>1 DEF Leave, Moves, Idle
<1>4. Exactly(loop.items, loop.header)
  BY <1>2, WholeExactly
<1>5. Exactly(loop.items, loop.header)'
  BY <1>3, <1>4, ExactlyStill
<1> QED BY <1>3, <1>5

-----------------------------------------------------------------------------
(* One item more: an interface has the next number.                        *)
LEMMA NumberedMore ==
  ASSUME NEW items \in Seq(ItemType), NEW item \in ItemType, NEW n \in Nat, Numbered(items, n)
  PROVE  /\ Append(items, item) \in Seq(ItemType)
         /\ item.type # "interface" => Numbered(Append(items, item), n)
         /\ item.type = "interface" /\ item.number = objs[tree[Served].interfaces[n + 1]].number
              => Numbered(Append(items, item), n + 1)
<1> DEFINE is   == OfType(items, "interface")
           more == OfType(Append(items, item), "interface")
<1>1. is \in Seq(ItemType) /\ Len(is) = n /\ \A k \in 1 .. n : is[k].number = objs[tree[Served].interfaces[k]].number
  BY DEF Numbered
<1>2. more = is \o (IF item.type = "interface" THEN <<item>> ELSE <<>>)
  BY ItemMore
<1>3. Numbered(Append(items, item), n + 1) <=>
        /\ more \in Seq(ItemType) /\ Len(more) = n + 1
        /\ \A k \in 1 .. n + 1 : more[k].number = objs[tree[Served].interfaces[k]].number
  BY DEF Numbered
<1>4. Numbered(Append(items, item), n) <=>
        /\ more \in Seq(ItemType) /\ Len(more) = n
        /\ \A k \in 1 .. n : more[k].number = objs[tree[Served].interfaces[k]].number
  BY DEF Numbered
<1> HIDE DEF is, more
<1>5. ASSUME item.type # "interface" PROVE Numbered(Append(items, item), n)
  <2>1. more = is
    BY <1>1, <1>2, <1>5, ConcatEmptySeq
  <2> QED BY <1>1, <1>4, <2>1
<1>6. ASSUME item.type = "interface", item.number = objs[tree[Served].interfaces[n + 1]].number
      PROVE  Numbered(Append(items, item), n + 1)
  <2>1. more = Append(is, item)
    <3>1. more = is \o <<item>>
      BY <1>2, <1>6
    <3> QED BY <1>1, <3>1, AppendIsConcat
  <2>2. /\ more \in Seq(ItemType) /\ Len(more) = n + 1 /\ more[n + 1] = item
        /\ \A k \in 1 .. n : more[k] = is[k]
    BY <1>1, <2>1, AppendProperties
  <2>3. ASSUME NEW k \in 1 .. n + 1 PROVE more[k].number = objs[tree[Served].interfaces[k]].number
    <3>1. k \in 1 .. n \/ k = n + 1
      OBVIOUS
    <3> QED BY <1>1, <1>6, <2>2, <3>1
  <2> QED BY <1>3, <2>2, <2>3
<1> QED BY <1>5, <1>6, AppendProperties

(* While nobody writes the configuration the interfaces keep their places. *)
LEMMA NumberedStill ==
  ASSUME TreeTyped, tree'[Served] = tree[Served],
         \A o \in 1 .. Len(objs) : objs'[o].number = objs[o].number
  PROVE  /\ Known' = Known
         /\ \A items : \A n \in 0 .. Known : Numbered(items, n) => Numbered(items, n)'
<1>1. Known \in Nat /\ \A k \in 1 .. Known : tree[Served].interfaces[k] \in 1 .. Len(objs)
  BY TreeViews
<1>2. Known' = Known
  BY DEF Known
<1>3. ASSUME NEW items, NEW n \in 0 .. Known, Numbered(items, n) PROVE Numbered(items, n)'
  <2> DEFINE is == OfType(items, "interface")
  <2>1. \A k \in 1 .. n : objs'[tree'[Served].interfaces[k]].number = objs[tree[Served].interfaces[k]].number
    BY <1>1
  <2>2. is \in Seq(ItemType) /\ Len(is) = n /\ \A k \in 1 .. n : is[k].number = objs[tree[Served].interfaces[k]].number
    BY <1>3 DEF Numbered
  <2> HIDE DEF is
  <2>3. \A k \in 1 .. n : is[k].number = objs'[tree'[Served].interfaces[k]].number
    BY <2>1, <2>2
  <2> QED BY <2>2, <2>3 DEF Numbered, is
<1> QED BY <1>2, <1>3

(* And while nobody changes an endpoint either, all views of the tree stay.*)
LEMMA ViewsStand ==
  ASSUME TreeTyped, tree'[Served] = tree[Served],
         \A o \in 1 .. Len(objs) : objs'[o].number = objs[o].number /\ objs'[o].endpoints = objs[o].endpoints
  PROVE  /\ HeaderNow' = HeaderNow /\ EpItems' = EpItems
         /\ \A k : Upto(k)' = Upto(k)
         /\ \A k \in 0 .. Known : IfaceItems(k)' = IfaceItems(k)
         /\ \A o \in 1 .. Len(objs) : \A j : FirstEps(o, j)' = FirstEps(o, j)
<1> DEFINE ifs == tree[Served].interfaces
<1>1. Known \in Nat /\ DOMAIN ifs = 1 .. Known /\ \A k \in 1 .. Known : ifs[k] \in 1 .. Len(objs)
  BY TreeViews
<1>2. tree'[Served].interfaces = ifs /\ tree'[Served].associations = tree[Served].associations
  OBVIOUS
<1>3. \A o \in 1 .. Len(objs) : InterfaceItem(o)' = InterfaceItem(o) /\ EndpointItems(o)' = EndpointItems(o)
  BY DEF InterfaceItem, EndpointItems
<1>4. InterfaceSizes(Served)' = InterfaceSizes(Served)
  BY <1>1, <1>2 DEF InterfaceSizes
<1>5. \A k : Upto(k)' = Upto(k)
  BY <1>2, <1>4 DEF Upto
<1>6. Known' = Known /\ calculateTotalLength(Served)' = calculateTotalLength(Served)
  BY <1>2, <1>4 DEF Known, calculateTotalLength
<1>7. EpItems' = EpItems
  BY <1>1, <1>2, <1>3 DEF EpItems
<1>8. ASSUME NEW k \in 0 .. Known PROVE IfaceItems(k)' = IfaceItems(k)
  <2>1. \A j \in 1 .. k : ifs[j] \in 1 .. Len(objs)
    BY <1>1
  <2> QED BY <1>2, <1>3, <2>1 DEF IfaceItems
<1>9. \A o \in 1 .. Len(objs) : \A j : FirstEps(o, j)' = FirstEps(o, j)
  BY DEF FirstEps
<1>10. HeaderNow' = HeaderNow
  BY <1>6 DEF HeaderNow
<1> QED BY <1>5, <1>7, <1>8, <1>9, <1>10

LEMMA WrittenStands ==
  ASSUME TreeTyped, UNCHANGED loop, Marshalling, Written, WrittenExactly, tree'[Served] = tree[Served],
         \A o \in 1 .. Len(objs) : objs'[o].number = objs[o].number /\ objs'[o].endpoints = objs[o].endpoints
  PROVE  WrittenExactly'
<1>1. /\ HeaderNow' = HeaderNow /\ EpItems' = EpItems /\ \A k : Upto(k)' = Upto(k)
      /\ \A k \in 0 .. Known : IfaceItems(k)' = IfaceItems(k)
      /\ \A o \in 1 .. Len(objs) : \A j : FirstEps(o, j)' = FirstEps(o, j)
  BY ViewsStand
<1>2. Known \in Nat /\ \A k \in 1 .. Known : tree[Served].interfaces[k] \in 1 .. Len(objs)
  BY TreeViews
<1>3. CASE loop.at = "interface"
  <2>1. loop.index - 1 \in 0 .. Known
    BY <1>2, <1>3 DEF Written
  <2> QED BY <1>1, <1>3, <2>1 DEF WrittenExactly
<1>4. CASE loop.at = "endpoints"
  <2>1. loop.index \in 0 .. Known
    BY <1>2, <1>4 DEF Written
  <2> QED BY <1>1, <1>4, <2>1 DEF WrittenExactly
<1>5. CASE loop.at = "endpoint"
  <2>1. loop.index \in 0 .. Known /\ loop.index \in 1 .. Known
    BY <1>2, <1>5 DEF Written
  <2>2. Current' = Current /\ Current \in 1 .. Len(objs)
    BY <1>2, <2>1 DEF Current
  <2>3. objs'[Current].endpoints = objs[Current].endpoints
    BY <2>2
  <2>4. FirstEps(Current, loop.next - 1)' = FirstEps(Current, loop.next - 1)
    BY <2>2, <2>3 DEF FirstEps
  <2> QED BY <1>1, <1>5, <2>1, <2>2, <2>3, <2>4 DEF WrittenExactly
<1> QED BY <1>3, <1>4, <1>5 DEF Marshalling

MarshalInv ==
  /\ \A v \in Values : readers[v] = IF v = Served /\ loop.at \in Marshals \union {"panicked"} THEN 1 ELSE 0
  /\ Marshalling => Written
  /\ Marshalling /\ ~torn => WrittenExactly

LEMMA InitMarshal == Init => MarshalInv
  BY DEF Init, MarshalInv, Marshalling, Idle, Marshals

(* Interfaces keep their number and their class.                           *)
ClassesKept == \A o \in 1 .. Len(objs) : objs'[o].class = objs[o].class /\ objs'[o].number = objs[o].number

LEMMA ClassesStay ==
  ASSUME TypeInv, HoldInv, NEW p \in Apps, AppActions(p)
  PROVE  ClassesKept
<1>1. DOMAIN objs = 1 .. Len(objs) /\ objs \in Seq(ObjectType) /\ Len(objs) \in Nat
      /\ \A o \in 1 .. Len(objs) : DOMAIN objs[o] = {"number", "class", "endpoints"}
  BY ObjectsTyped DEF TypeInv, TreeTyped, ObjectType
<1>2. CASE objs' = objs
  BY <1>2 DEF ClassesKept
<1>3. CASE Write(p) /\ objs' # objs
  <2>1. \E iface : objs' = Append(objs, iface)
    <3> DEFINE c == Call(p)
    <3>1. c.op \in Writers \ {"removeInterface"}
      BY <1>3 DEF Write, Calling
    <3>2. \/ InterfaceAdded(c.value, c.number, c.class) \/ AssociationAdded(c.value) \/ UNCHANGED treeVars
      BY <1>3, <3>1 DEF Write, Writers
    <3> HIDE DEF c
    <3> QED BY <1>3, <3>2 DEF InterfaceAdded, AssociationAdded, treeVars
  <2>2. PICK iface : objs' = Append(objs, iface)
    BY <2>1
  <2>3. \A o \in 1 .. Len(objs) : objs'[o] = objs[o]
    BY <1>1, <2>2
  <2> QED BY <2>3 DEF ClassesKept
<1>4. CASE ChangeEndpoints(p) /\ objs' # objs
  <2>1. \E o, eps : objs' = [objs EXCEPT ![o].endpoints = eps]
    BY <1>4 DEF ChangeEndpoints, EndpointAdded, EndpointRemoved, treeVars
  <2>2. PICK o, eps : objs' = [objs EXCEPT ![o].endpoints = eps]
    BY <2>1
  <2> QED BY <1>1, <2>2 DEF ClassesKept
<1>5. Write(p) \/ ChangeEndpoints(p) \/ objs' = objs
  BY DEF AppActions, Resolve, Swap, CloseOld, Searches, InitBegins, InitReads, InitNew, Lock,
            RemoveInterface, Drop, CloseDevice, CloseConfiguration,
     CloseInterface, ConfigurationClosed, DeviceClosed, SetStack, Start, Prepare, Transfer, InterfaceRemoved, treeVars
<1> QED BY <1>2, <1>3, <1>4, <1>5

(* While it writes nobody changes the tree, but its endpoints.             *)
LEMMA MarshalApp ==
  ASSUME TypeInv, HoldInv, MarshalInv, NEW p \in Apps, AppActions(p), loop' = loop,
         torn' = (torn \/ (Marshalling /\ EndpointsChange))
  PROVE  MarshalInv'
<1>1. readers' = readers /\ Served \in Values /\ (Marshalling' <=> Marshalling)
  BY LockStep, PlansAssumption DEF Marshalling
<1>2. CASE Marshalling
  <2>1. readers[Served] = 1 /\ Written
    BY <1>1, <1>2 DEF MarshalInv, Marshals, Marshalling
  <2>2. tree'[Served] = tree[Served] /\ TreeTyped /\ Known \in Nat
    BY <1>1, <2>1, TreeStep, TreeViews DEF TypeInv
  <2>3. \A o \in 1 .. Len(objs) : objs'[o].number = objs[o].number
    BY ClassesStay DEF ClassesKept
  <2>4. Known' = Known /\ \A items : \A n \in 0 .. Known : Numbered(items, n) => Numbered(items, n)'
    BY <2>2, <2>3, NumberedStill
  <2>5. Written'
    <3>1. loop.at = "interface" => loop.index - 1 \in 0 .. Known
      BY <2>1, <2>2 DEF Written
    <3>2. loop.at # "interface" => loop.index \in 0 .. Known
      BY <2>1, <2>2 DEF Written
    <3>3. \A n \in 0 .. Known : Numbered(loop.items, n) => Numbered(loop.items, n)'
      BY <2>4
    <3>4. ASSUME loop.at = "interface" PROVE Numbered(loop.items, loop.index - 1)'
      <4>1. Numbered(loop.items, loop.index - 1)
        BY <2>1, <3>4 DEF Written
      <4> DEFINE n == loop.index - 1
      <4> HIDE DEF n
      <4>2. n \in 0 .. Known /\ Numbered(loop.items, n)
        BY <3>1, <3>4, <4>1 DEF n
      <4>3. n' = n
        BY DEF n
      <4> QED BY <3>3, <4>2, <4>3 DEF n
    <3>5. ASSUME loop.at # "interface" PROVE Numbered(loop.items, loop.index)'
      <4>1. Numbered(loop.items, loop.index)
        BY <2>1, <3>5 DEF Written
      <4> QED BY <3>2, <3>3, <3>5, <4>1
    <3> QED BY <2>1, <2>4, <3>4, <3>5 DEF Written
  <2>6. ASSUME ~torn' PROVE WrittenExactly'
    <3>1. ~torn /\ ~EndpointsChange
      BY <1>2, <2>6
    <3>2. \A o \in 1 .. Len(objs) : objs'[o].endpoints = objs[o].endpoints
      BY <2>2, <3>1, ObjectsTyped DEF EndpointsChange
    <3>3. WrittenExactly
      BY <1>2, <3>1 DEF MarshalInv
    <3> QED BY <1>2, <2>1, <2>2, <2>3, <3>2, <3>3, WrittenStands
  <2> QED BY <1>1, <2>5, <2>6 DEF MarshalInv
<1>3. CASE ~Marshalling
  BY <1>1, <1>3 DEF MarshalInv
<1> QED BY <1>2, <1>3

-----------------------------------------------------------------------------
(* The invariant, and the steps that keep it.                              *)
AssemblyInv == TypeInv /\ HoldInv /\ LifeInv /\ MarshalInv

LEMMA InitAll == Init => AssemblyInv
<1> SUFFICES ASSUME Init PROVE AssemblyInv
  OBVIOUS
<1>1. HoldInv
  <2>1. \A p \in Apps : app[p].at = "ready"
    BY DEF Init, Frame
  <2> QED BY <2>1 DEF HoldInv, Own, Calling
<1> QED BY <1>1, InitType, InitLife, InitMarshal DEF AssemblyInv

LEMMA AppNext ==
  ASSUME AssemblyInv, NEW p \in Apps, AppStep(p)
  PROVE  AssemblyInv'
<1>1. /\ TypeInv /\ HoldInv /\ LifeInv /\ MarshalInv
      /\ phase = "built" /\ AppActions(p) /\ UNCHANGED <<plan, phase, builder, loop, hostVars>>
      /\ torn' = (torn \/ (Marshalling /\ EndpointsChange))
      /\ tangled' = (tangled \/ \E q \in Apps \ {p} : InLifecycle(q) /\ InLifecycle(p)')
  BY AppCases DEF AssemblyInv
<1>2. Len(objs) \in Nat /\ Len(objs') \in Nat /\ Len(objs) <= Len(objs')
  BY <1>1, TreeStep
<1>3. LoopTyped'
  BY <1>1, <1>2 DEF TypeInv, LoopTyped
<1>4. BusTyped'
  <2>1. active' \in {active, 0} /\ isConfigured' = isConfigured /\ (onBus' = onBus \/ onBus' = TRUE)
    BY <1>1 DEF AppActions, Resolve, Swap, CloseOld, Searches, InitBegins, InitReads, InitNew, Lock, Write,
              RemoveInterface, Drop, CloseDevice,
       CloseConfiguration, CloseInterface, ConfigurationClosed, DeviceClosed, ChangeEndpoints, SetStack, Start,
       Prepare, Transfer, busVars
  <2>2. BusTyped /\ loop' = loop /\ request' = request /\ host' = host
    BY <1>1 DEF TypeInv, hostVars
  <2>3. onBus' \in BOOLEAN /\ isConfigured' \in BOOLEAN /\ active' \in Values \union {0}
    BY <2>1, <2>2 DEF BusTyped
  <2>4. ASSUME ~onBus' PROVE ~onBus
    BY <2>1, <2>4
  <2>5. ~onBus => loop = Idle /\ request = NoRequest /\ host.at = "idle"
    BY <2>2 DEF BusTyped
  <2>6. ~onBus' => loop' = Idle /\ request' = NoRequest /\ host'.at = "idle"
    BY <2>2, <2>4, <2>5
  <2> QED BY <2>3, <2>6 DEF BusTyped
<1>5. BuildTyped'
  BY <1>1 DEF TypeInv, BuildTyped
<1>6. HostTyped'
  BY <1>1 DEF TypeInv, HostTyped, hostVars
<1>7. TypeInv'
  BY <1>1, <1>3, <1>4, <1>5, <1>6, TreeStep, LockStep, DriverTypedNext, AppTypedNext DEF TypeInv
<1>8. HoldInv'
  BY <1>1, OwnSelf, OwnOthers DEF HoldInv
<1> QED BY <1>1, <1>7, <1>8, LifeNext, MarshalApp DEF AssemblyInv

(* The control loop: what a step of it leaves alone.                       *)
LoopActions ==
  \/ ReadSetup \/ Lookup \/ Enter \/ Header \/ WriteInterface \/ TakeEndpoints
  \/ WriteEndpoint \/ Leave \/ Reply \/ SetConfiguration \/ Find \/ Reach \/ Handle

LEMMA LoopFrame ==
  ASSUME LoopStep
  PROVE  /\ LoopActions
         /\ UNCHANGED <<values, objs, tree, announced, deviceLock, classDriver, plan, phase, builder, app, onBus,
                        host, tangled>>
         /\ torn' = (torn /\ Marshalling')
<1>1. /\ LoopActions /\ torn' = (torn /\ Marshalling')
      /\ UNCHANGED <<values, objs, tree, classDriver, plan, phase, builder, app, onBus, host, tangled>>
  BY DEF LoopStep, LoopActions, treeVars
<1>2. UNCHANGED <<announced, deviceLock>>
  BY <1>1 DEF LoopActions, ReadSetup, Lookup, Enter, Header, WriteInterface, TakeEndpoints, WriteEndpoint,
            Leave,
     Reply, SetConfiguration, Find, Reach, Handle, lockVars
<1> QED BY <1>1, <1>2

LEMMA LoopDriver ==
  ASSUME TypeInv, LoopStep
  PROVE  DOMAIN driver' = Drivers /\ \A d \in Drivers : KeepsDriver(d)
<1>1. DOMAIN driver = Drivers /\ \A d \in Drivers : DOMAIN driver[d] = DOMAIN Detached
  BY DEF TypeInv, DriverTyped
<1>2. CASE Handle
  <2> DEFINE t == loop.target
             st == AfterRequest(driver[t], request.name, request.setting)
  <2>1. t \in Drivers
    BY <1>2 DEF Handle, TypeInv, LoopTyped
  <2>2. driver' = [driver EXCEPT ![t] = st] \/ driver' = driver
    BY <1>2 DEF Handle
  <2>3. st = driver[t] \/ st = [driver[t] EXCEPT !.setting = request.setting]
    BY DEF AfterRequest
  <2> HIDE DEF st, t
  <2>4. /\ DOMAIN st = DOMAIN driver[t] /\ st.control = driver[t].control /\ st.data = driver[t].data
        /\ st.configured = driver[t].configured
    BY <1>1, <2>1, <2>3 DEF Detached
  <2> QED BY <1>1, <2>1, <2>2, <2>4 DEF KeepsDriver
<1>3. CASE ~Handle
  <2>1. driver' = driver
    BY <1>3, LoopFrame DEF LoopActions, ReadSetup, Lookup, Enter, Header, WriteInterface, TakeEndpoints,
       WriteEndpoint, Leave, Reply, SetConfiguration, Find, Reach
  <2> QED BY <1>1, <2>1 DEF KeepsDriver
<1> QED BY <1>2, <1>3

(* Where the loop goes, as far as the types of its locals matter.          *)
LEMMA LoopLocals ==
  ASSUME TypeInv, LoopStep
  PROVE  LoopTyped' /\ onBus /\ isConfigured' \in BOOLEAN /\ active' \in Values \union {0}
<1>1. /\ DOMAIN loop = DOMAIN Idle /\ Len(objs') = Len(objs) /\ isConfigured \in BOOLEAN
      /\ active \in Values \union {0}
  BY LoopFrame DEF TypeInv, LoopTyped, BusTyped
<1>2. onBus
  <2>1. ReadSetup => request # NoRequest
    BY DEF ReadSetup, NoRequest
  <2>2. loop.at # "reading" \/ ReadSetup
    BY LoopFrame DEF LoopActions, Lookup, Enter, Header, WriteInterface, TakeEndpoints, WriteEndpoint,
       Leave, Reply, SetConfiguration, Find, Reach, Handle
  <2> QED BY <2>1, <2>2 DEF TypeInv, BusTyped, Idle
<1>3. ASSUME loop' = Idle
      PROVE  LoopTyped'
  BY <1>3 DEF LoopTyped, Idle
<1>4. ASSUME Find /\ loop' # Idle
      PROVE  LoopTyped'
  <2> DEFINE o == IF active = 0 THEN 0 ELSE GetInterface(active, request.number)
  <2>1. o # 0 /\ loop' = [loop EXCEPT !.at = "reach", !.object = o]
    BY <1>4 DEF Find, Stalls, Answers
  <2>2. o \in 1 .. Len(objs)
    BY <1>1, <2>1, GetInterfaceTyped DEF TypeInv
  <2> HIDE DEF o
  <2>3. DOMAIN loop' = DOMAIN Idle /\ loop'.at = "reach" /\ loop'.object = o
    BY <1>1, <2>1 DEF Idle
  <2> QED BY <1>1, <2>2, <2>3 DEF LoopTyped
<1>5. ASSUME Reach /\ loop' # Idle
      PROVE  LoopTyped'
  <2> DEFINE t == classDriver[loop.object]
  <2>1. t # Nobody /\ loop' = [loop EXCEPT !.at = "handle", !.target = t] /\ loop.at = "reach"
    BY <1>5 DEF Reach, Stalls, Answers
  <2>2. t \in Drivers
    BY <2>1 DEF TypeInv, LoopTyped, DriverTyped
  <2> HIDE DEF t
  <2>3. DOMAIN loop' = DOMAIN Idle /\ loop'.at = "handle" /\ loop'.target = t
    BY <1>1, <2>1 DEF Idle
  <2> QED BY <2>2, <2>3 DEF LoopTyped
<1>6. ASSUME ReadSetup
      PROVE  LoopTyped'
  <2>1. ASSUME NEW to, to \notin {"reach", "handle"}, Moves(to) PROVE LoopTyped'
    BY <1>1, <2>1 DEF Moves, LoopTyped, Idle
  <2> DEFINE to == CASE request.kind = "GetDescriptor"    -> "lookup"
                     [] request.kind = "SetConfiguration" -> "configure"
                     [] request.kind = "Class"            -> "find"
  <2>2. Moves(to) /\ to \in {"lookup", "configure", "find"}
    BY <1>6 DEF ReadSetup, TypeInv, HostTyped, NoRequest
  <2> QED BY <2>1, <2>2
<1>7. ASSUME (Lookup \/ Enter \/ Header \/ WriteInterface \/ TakeEndpoints \/ WriteEndpoint \/ Leave) /\ loop' # Idle
      PROVE  LoopTyped'
  <2> DEFINE Onwards == {"entering", "header", "interface", "endpoints", "endpoint", "panicked", "replying"}
  <2>1. ASSUME NEW to \in Onwards, Moves(to)
        PROVE  DOMAIN loop' = DOMAIN loop /\ loop'.at \in Onwards
    BY <1>1, <2>1 DEF Moves, Idle
  <2>2. ASSUME Lookup \/ Enter \/ Leave PROVE DOMAIN loop' = DOMAIN loop /\ loop'.at \in Onwards
    <3>1. Moves("entering") \/ Moves("header") \/ Moves("replying")
      BY <1>7, <2>2 DEF Lookup, Enter, Leave, Stalls, Answers
    <3> QED BY <2>1, <3>1
  <2>3. ASSUME Header PROVE DOMAIN loop' = DOMAIN loop /\ loop'.at \in Onwards
    BY <1>1, <2>3 DEF Header, Idle
  <2>4. ASSUME WriteInterface PROVE DOMAIN loop' = DOMAIN loop /\ loop'.at \in Onwards
    BY <1>1, <2>4 DEF WriteInterface, Idle
  <2>5. ASSUME TakeEndpoints PROVE DOMAIN loop' = DOMAIN loop /\ loop'.at \in Onwards
    BY <1>1, <2>5 DEF TakeEndpoints, Idle
  <2>6. ASSUME WriteEndpoint PROVE DOMAIN loop' = DOMAIN loop /\ loop'.at \in Onwards
    BY <1>1, <2>6 DEF WriteEndpoint, Idle
  <2>7. DOMAIN loop' = DOMAIN loop /\ loop'.at \in Onwards
    BY <1>7, <2>2, <2>3, <2>4, <2>5, <2>6
  <2> QED BY <1>1, <2>7 DEF LoopTyped
<1>8. LoopTyped'
  <2>1. Reply \/ SetConfiguration \/ Handle => loop' = Idle
    BY DEF Reply, SetConfiguration, Handle, Stalls, Answers
  <2> QED BY <1>3, <1>4, <1>5, <1>6, <1>7, <2>1, LoopFrame DEF LoopActions
<1>9. isConfigured' \in BOOLEAN /\ active' \in Values \union {0}
  <2>1. CASE SetConfiguration
    <3>1. \/ GetConfiguration(request.value) /\ active' = request.value /\ isConfigured' = TRUE
          \/ UNCHANGED <<active, isConfigured>>
      BY <2>1 DEF SetConfiguration
    <3> QED BY <1>1, <3>1, ServedValue DEF TypeInv
  <2>2. CASE ~SetConfiguration
    <3>1. UNCHANGED <<active, isConfigured>>
      BY <2>2, LoopFrame DEF LoopActions, ReadSetup, Lookup, Enter, Header, WriteInterface, TakeEndpoints,
         WriteEndpoint, Leave, Reply, Find, Reach, Handle
    <3> QED BY <1>1, <3>1
  <2> QED BY <2>1, <2>2
<1> QED BY <1>2, <1>8, <1>9

(* Where the short steps of the loop lead.                                 *)
LEMMA Jumps ==
  ASSUME TypeInv, LoopStep
  PROVE  /\ Lookup => loop.at = "lookup" /\ loop'.at \in {"entering", "reading"}
         /\ Reply => loop.at = "replying" /\ loop'.at = "reading"
         /\ SetConfiguration => loop.at = "configure" /\ loop'.at = "reading"
         /\ Find => loop.at = "find" /\ loop'.at \in {"reach", "reading"}
         /\ Reach => loop.at = "reach" /\ loop'.at \in {"handle", "reading"}
         /\ Handle => loop.at = "handle" /\ loop'.at = "reading"
<1>1. DOMAIN loop = DOMAIN Idle
  BY DEF TypeInv, LoopTyped
<1>2. \A a : Answers(a) => loop'.at = "reading"
  BY DEF Answers, Idle
<1>3. Moves("entering") => loop'.at = "entering"
  BY <1>1 DEF Moves, Idle
<1>4. Lookup => loop.at = "lookup" /\ loop'.at \in {"entering", "reading"}
  BY <1>2, <1>3 DEF Lookup, Stalls
<1>5. Reply => loop.at = "replying" /\ loop'.at = "reading"
  BY <1>2 DEF Reply, Stalls
<1>6. SetConfiguration => loop.at = "configure" /\ loop'.at = "reading"
  BY <1>2 DEF SetConfiguration, Stalls
<1>7. ASSUME NEW o, loop' = [loop EXCEPT !.at = "reach", !.object = o] PROVE loop'.at = "reach"
  BY <1>1, <1>7 DEF Idle
<1>8. Find => loop.at = "find" /\ loop'.at \in {"reach", "reading"}
  BY <1>2, <1>7 DEF Find, Stalls
<1>9. ASSUME NEW d, loop' = [loop EXCEPT !.at = "handle", !.target = d] PROVE loop'.at = "handle"
  BY <1>1, <1>9 DEF Idle
<1>10. Reach => loop.at = "reach" /\ loop'.at \in {"handle", "reading"}
  BY <1>2, <1>9 DEF Reach, Stalls
<1>11. Handle => loop.at = "handle" /\ loop'.at = "reading"
  BY <1>2 DEF Handle, Stalls, Idle
<1> QED BY <1>4, <1>5, <1>6, <1>8, <1>10, <1>11

(* The number of readers follows the loop.                                 *)
LEMMA LoopReaders ==
  ASSUME TypeInv, MarshalInv, LoopStep
  PROVE  \A v \in Values :
           /\ readers'[v] = IF v = Served /\ loop'.at \in Marshals \union {"panicked"} THEN 1 ELSE 0
           /\ readers'[v] # 0 /\ readers[v] = 0 => announced[v] = Nobody
<1>1. /\ DOMAIN loop = DOMAIN Idle /\ DOMAIN readers = Values /\ Served \in Values
      /\ \A v \in Values : readers[v] = IF v = Served /\ loop.at \in Marshals \union {"panicked"} THEN 1 ELSE 0
  BY PlansAssumption DEF TypeInv, LoopTyped, LockTyped, MarshalInv
<1>2. Idle.at \notin Marshals \union {"panicked"}
  BY DEF Idle, Marshals
<1>3. CASE Enter
  <2>1. loop.at = "entering" /\ loop'.at = "header" /\ announced[Served] = Nobody
    BY <1>1, <1>3 DEF Enter, Moves, Idle, RLockable
  <2>2. readers' = [readers EXCEPT ![Served] = readers[Served] + 1]
    BY <1>3 DEF Enter
  <2> QED BY <1>1, <2>1, <2>2 DEF Marshals
<1>4. CASE Leave
  <2>1. loop.at = "interface" /\ loop'.at = "replying"
    BY <1>1, <1>4 DEF Leave, Moves, Idle
  <2>2. readers' = [readers EXCEPT ![Served] = readers[Served] - 1]
    BY <1>4 DEF Leave
  <2> QED BY <1>1, <2>1, <2>2 DEF Marshals
<1>5. CASE ~Enter /\ ~Leave
  <2>1. readers' = readers
    BY <1>5, LoopFrame DEF LoopActions, ReadSetup, Lookup, Header, WriteInterface, TakeEndpoints,
              WriteEndpoint,
       Reply, SetConfiguration, Find, Reach, Handle, lockVars
  <2>2. loop'.at \in Marshals \union {"panicked"} <=> loop.at \in Marshals \union {"panicked"}
    <3>1. CASE ReadSetup
      <4> DEFINE to == CASE request.kind = "GetDescriptor"    -> "lookup"
                         [] request.kind = "SetConfiguration" -> "configure"
                         [] request.kind = "Class"            -> "find"
      <4>1. Moves(to) /\ to \in {"lookup", "configure", "find"} /\ loop.at = "reading"
        BY <3>1 DEF ReadSetup, TypeInv, HostTyped, NoRequest
      <4>2. loop' = [loop EXCEPT !.at = to]
        BY <4>1 DEF Moves
      <4> HIDE DEF to
      <4>3. loop'.at = to
        BY <1>1, <4>2 DEF Idle
      <4> QED BY <4>1, <4>3 DEF Marshals
    <3>2. CASE Header
      BY <1>1, <3>2 DEF Header, Idle, Marshals
    <3>3. CASE WriteInterface
      BY <1>1, <3>3 DEF WriteInterface, Idle, Marshals
    <3>4. CASE TakeEndpoints
      BY <1>1, <3>4 DEF TakeEndpoints, Idle, Marshals
    <3>5. CASE WriteEndpoint
      BY <1>1, <3>5 DEF WriteEndpoint, Idle, Marshals
    <3>6. CASE Lookup \/ Reply \/ SetConfiguration \/ Find \/ Reach \/ Handle
      BY <3>6, Jumps DEF Marshals
    <3> QED BY <1>5, <3>1, <3>2, <3>3, <3>4, <3>5, <3>6, LoopFrame DEF LoopActions
  <2> QED BY <1>1, <2>1, <2>2
<1> QED BY <1>3, <1>4, <1>5

(* Where the loop is after a step, if it is where it writes or replies.    *)
LEMMA LoopExactly ==
  ASSUME TypeInv, MarshalInv, LoopStep, loop.at \in {"interface", "endpoints", "endpoint"} => WrittenExactly
  PROVE  /\ loop'.at \in {"interface", "endpoints", "endpoint"} => WrittenExactly'
         /\ loop'.at = "replying" => Exactly(loop.items, loop.header)'
<1>1. DOMAIN loop = DOMAIN Idle /\ UNCHANGED <<objs, tree>> /\ LoopActions
  BY LoopFrame DEF TypeInv, LoopTyped
<1>2. loop.at \in {"interface", "endpoints", "endpoint"} => Written /\ WrittenExactly
  BY DEF MarshalInv, Marshalling
<1>3. CASE Header
  BY <1>1, <1>3, HeaderExactly
<1>4. CASE WriteInterface
  <2>1. loop.at = "interface"
    BY <1>4 DEF WriteInterface
  <2> QED BY <1>1, <1>2, <1>4, <2>1, InterfaceExactly
<1>5. CASE TakeEndpoints
  <2>1. loop.at = "endpoints"
    BY <1>5 DEF TakeEndpoints
  <2> QED BY <1>1, <1>2, <1>5, <2>1, EndpointsExactly
<1>6. CASE WriteEndpoint
  <2>1. loop.at = "endpoint"
    BY <1>6 DEF WriteEndpoint
  <2> QED BY <1>1, <1>2, <1>6, <2>1, EndpointExactly
<1>7. CASE Leave
  <2>1. loop.at = "interface"
    BY <1>7 DEF Leave
  <2> QED BY <1>1, <1>2, <1>7, <2>1, LeaveExactly
<1>8. CASE ReadSetup
  <2>1. Moves("lookup") \/ Moves("configure") \/ Moves("find")
    BY <1>8 DEF ReadSetup, TypeInv, HostTyped, NoRequest
  <2>2. loop'.at \in {"lookup", "configure", "find"}
    BY <1>1, <2>1 DEF Moves, Idle
  <2> QED BY <2>2
<1>9. CASE Lookup \/ Enter \/ Reply \/ SetConfiguration \/ Find \/ Reach \/ Handle
  <2>1. Enter => loop'.at = "header"
    BY <1>1 DEF Enter, Moves, Idle
  <2>2. loop'.at \in {"entering", "header", "reading", "reach", "handle"}
    BY <1>9, <2>1, Jumps
  <2> QED BY <2>2
<1> QED BY <1>1, <1>3, <1>4, <1>5, <1>6, <1>7, <1>8, <1>9 DEF LoopActions

(* Each interface is written once, with its number.                        *)
LEMMA LoopWrites ==
  ASSUME TypeInv, MarshalInv, LoopStep
  PROVE  /\ (Marshalling => Written)'
         /\ (Marshalling /\ ~torn => WrittenExactly)'
<1>1. DOMAIN loop = DOMAIN Idle /\ UNCHANGED <<objs, tree>> /\ TreeTyped /\ Served \in Values
      /\ torn' = (torn /\ Marshalling')
  BY LoopFrame, PlansAssumption DEF TypeInv, LoopTyped
<1>2. /\ Known \in Nat /\ Known' = Known
      /\ \A k \in 1 .. Known : tree[Served].interfaces[k] \in 1 .. Len(objs)
      /\ \A items : \A n \in 0 .. Known : Numbered(items, n) => Numbered(items, n)'
  BY <1>1, TreeViews, NumberedStill
<1>3. \A o \in 1 .. Len(objs) : objs[o].number \in Nat /\ objs[o].endpoints \in Seq(EndpointType)
  BY <1>1, ObjectsTyped
<1>4. Marshalling => Written
  BY DEF MarshalInv
<1>5. ASSUME NEW i \in Nat \ {0}, NEW n \in 0 .. Known, NEW its \in Seq(ItemType), loop'.index = i,
             loop'.items = its, loop'.header.interfaces = Known, Numbered(its, n),
             \/ loop'.at = "interface" /\ i = n + 1
             \/ loop'.at # "interface" /\ i = n,
             loop'.at = "endpoint" => loop'.next \in Nat \ {0}
      PROVE  Written'
  <2>1. Numbered(its, n)'
    BY <1>2, <1>5
  <2>2. i \in Nat /\ n \in Nat /\ n <= Known
    BY <1>2, <1>5
  <2>3. CASE loop'.at = "interface"
    <3>1. loop'.index - 1 = n /\ loop'.index <= Known' + 1
      BY <1>2, <1>5, <2>2, <2>3
    <3>2. Numbered(loop.items, loop.index - 1)'
      BY <1>5, <2>1, <3>1 DEF Numbered
    <3> QED BY <1>2, <1>5, <2>3, <3>1, <3>2 DEF Written
  <2>4. CASE loop'.at # "interface"
    <3>1. loop'.index = n /\ loop'.index <= Known'
      BY <1>2, <1>5, <2>2, <2>4
    <3>2. Numbered(loop.items, loop.index)'
      BY <1>5, <2>1, <3>1 DEF Numbered
    <3> QED BY <1>2, <1>5, <2>4, <3>1, <3>2 DEF Written
  <2> QED BY <2>3, <2>4
<1>6. ASSUME Header PROVE Written'
  <2> DEFINE items == AssociationItems(Served)
  <2>1. /\ loop'.at = "interface" /\ loop'.index = 1 /\ loop'.items = items
        /\ loop'.header.interfaces = Known
    BY <1>1, <1>6 DEF Header, Idle, Known
  <2>2. items \in Seq(ItemType) /\ OfType(items, "interface") = <<>>
    BY <1>1, AssociationsTyped, AssociationsRead
  <2> HIDE DEF items
  <2>3. Numbered(items, 0)
    <3>1. <<>> \in Seq(ItemType) /\ Len(<<>>) = 0
      BY EmptySeq
    <3>2. \A k \in 1 .. 0 : FALSE
      OBVIOUS
    <3> QED BY <2>2, <3>1, <3>2 DEF Numbered
  <2>4. 0 \in 0 .. Known /\ 1 \in Nat \ {0} /\ 1 = 0 + 1
    BY <1>2
  <2> QED BY <1>5, <2>1, <2>2, <2>3, <2>4
<1>7. ASSUME WriteInterface PROVE Written'
  <2> DEFINE item == InterfaceItem(Current)
             i == loop.index
  <2>1. /\ loop.at = "interface" /\ Written
    BY <1>4, <1>7 DEF WriteInterface, Marshalling
  <2>2. i \in 1 .. Known /\ i - 1 \in 0 .. Known /\ i - 1 \in Nat /\ i = (i - 1) + 1
        /\ loop.items \in Seq(ItemType) /\ Numbered(loop.items, i - 1) /\ loop.header.interfaces = Known
    BY <1>2, <1>7, <2>1 DEF WriteInterface, Written, Known
  <2>3. Current \in 1 .. Len(objs) /\ Current = tree[Served].interfaces[(i - 1) + 1]
    BY <1>2, <2>2 DEF Current
  <2>4. item \in ItemType /\ item.type = "interface" /\ item.number = objs[Current].number
    BY <1>3, <2>3, LenProperties DEF InterfaceItem, ItemType
  <2>5. /\ loop'.at = "endpoints" /\ loop'.items = Append(loop.items, item)
        /\ loop'.index = i /\ loop'.header = loop.header
    BY <1>1, <1>7 DEF WriteInterface, Idle
  <2> HIDE DEF item, i
  <2>6. Numbered(Append(loop.items, item), (i - 1) + 1) /\ Append(loop.items, item) \in Seq(ItemType)
    BY <2>2, <2>3, <2>4, NumberedMore
  <2>7. i \in Nat \ {0} /\ i \in 0 .. Known /\ Numbered(loop'.items, i)
    BY <1>2, <2>2, <2>5, <2>6
  <2> QED BY <1>5, <2>2, <2>5, <2>6, <2>7
<1>8. ASSUME TakeEndpoints PROVE Written'
  <2> DEFINE i == loop.index
  <2>1. loop.at = "endpoints" /\ Written
    BY <1>4, <1>8 DEF TakeEndpoints, Marshalling
  <2>2. /\ i \in Nat \ {0} /\ i + 1 \in Nat \ {0} /\ i \in 0 .. Known /\ Numbered(loop.items, i)
        /\ loop.items \in Seq(ItemType) /\ loop.header.interfaces = Known
    BY <1>2, <2>1 DEF Written
  <2>3. /\ loop'.items = loop.items /\ loop'.header = loop.header /\ loop'.next = 1
        /\ \/ loop'.at = "interface" /\ loop'.index = i + 1
           \/ loop'.at = "endpoint" /\ loop'.index = i
    BY <1>1, <1>8 DEF TakeEndpoints, Idle
  <2> HIDE DEF i
  <2>4. 1 \in Nat \ {0}
    OBVIOUS
  <2> QED BY <1>5, <2>2, <2>3, <2>4
<1>9. ASSUME WriteEndpoint, Marshalling' PROVE Written'
  <2> DEFINE eps  == objs[Current].endpoints
             item == EndpointItem(eps[loop.next])
             i    == loop.index
  <2>1. /\ loop.at = "endpoint" /\ Written
    BY <1>4, <1>9 DEF WriteEndpoint, Marshalling
  <2>2. /\ i \in 1 .. Known /\ i \in Nat \ {0} /\ i + 1 \in Nat \ {0} /\ i \in 0 .. Known
        /\ Numbered(loop.items, i) /\ i \in Nat
        /\ loop.items \in Seq(ItemType) /\ loop.header.interfaces = Known
        /\ loop.next \in Nat \ {0} /\ loop.next + 1 \in Nat \ {0}
    BY <1>2, <2>1 DEF Written
  <2>3. ~(loop.next > Len(eps))
    <3>1. ASSUME loop.next > Len(eps) PROVE loop'.at = "panicked"
      BY <1>1, <1>9, <3>1 DEF WriteEndpoint, Idle
    <3> QED BY <1>9, <3>1 DEF Marshalling
  <2>4. Current \in 1 .. Len(objs)
    BY <1>2, <2>2 DEF Current
  <2>5. eps \in Seq(EndpointType) /\ Len(eps) \in Nat
    BY <1>3, <2>4, LenProperties
  <2>6. eps[loop.next] \in EndpointType
    <3> HIDE DEF eps
    <3> QED BY <2>2, <2>3, <2>5, ElementOfSeq
  <2>7. item \in ItemType /\ item.type # "interface"
    BY <2>6 DEF EndpointItem, ItemType, EndpointType
  <2>8. /\ loop'.items = Append(loop.items, item) /\ loop'.header = loop.header /\ loop'.next = loop.next + 1
        /\ \/ loop'.at = "interface" /\ loop'.index = i + 1
           \/ loop'.at = "endpoint" /\ loop'.index = i
    BY <1>1, <1>9, <2>3 DEF WriteEndpoint, Idle
  <2> HIDE DEF item, eps, i
  <2>9. Numbered(Append(loop.items, item), i) /\ Append(loop.items, item) \in Seq(ItemType)
    BY <2>2, <2>7, NumberedMore
  <2> QED BY <1>5, <2>2, <2>8, <2>9
<1>10. ASSUME Leave \/ ReadSetup \/ Lookup \/ Enter \/ Reply \/ SetConfiguration \/ Find \/ Reach \/ Handle
       PROVE  ~Marshalling'
  <2>1. loop'.at \notin {"interface", "endpoints", "endpoint"}
    <3>1. Enter => loop'.at = "header"
      BY <1>1 DEF Enter, Moves, Idle
    <3>2. Leave => loop'.at = "replying"
      BY <1>1 DEF Leave, Moves, Idle
    <3>3. ReadSetup => loop'.at \in {"lookup", "configure", "find"}
      <4>1. ReadSetup => Moves("lookup") \/ Moves("configure") \/ Moves("find")
        BY DEF ReadSetup, TypeInv, HostTyped, NoRequest
      <4> QED BY <1>1, <4>1 DEF Moves, Idle
    <3> QED BY <1>10, <3>1, <3>2, <3>3, Jumps
  <2> QED BY <2>1 DEF Marshalling
<1>11. (Marshalling => Written)'
  BY <1>6, <1>7, <1>8, <1>9, <1>10, LoopFrame DEF LoopActions
<1>12. ASSUME Marshalling', ~torn' PROVE WrittenExactly'
  <2>1. ~torn
    BY <1>1, <1>12
  <2>2. Marshalling => WrittenExactly
    BY <2>1 DEF MarshalInv
  <2> QED BY <1>12, <2>2, LoopExactly DEF Marshalling
<1> QED BY <1>11, <1>12

(* Drivers that keep what they hold stay fit, whatever else a step does.   *)
LEMMA LifeSame ==
  ASSUME TypeInv, LifeInv, UNCHANGED <<app, classDriver, tangled>>, \A d \in Drivers : KeepsDriver(d)
  PROVE  LifeInv'
<1>1. \A d \in Drivers : Holds(d)' = Holds(d) /\ Attached(d)' = Attached(d)
  BY DEF KeepsDriver, Holds, Attached
<1>2. \A p \in Apps : (InLifecycle(p)' <=> InLifecycle(p)) /\ (Plugged(p)' <=> Plugged(p))
  BY DEF InLifecycle, Plugged, Calling, Call
<1>3. Alone' <=> Alone
  BY <1>2 DEF Alone
<1>4. \A d \in Drivers : Closing(d)' <=> Closing(d)
  BY <1>2 DEF Closing
<1>5. Kept' <=> Kept
  BY <1>1, <1>4 DEF Kept
<1>6. \A d \in Drivers : driver'[d].configured = driver[d].configured
  BY DEF KeepsDriver
<1>7. (\A d \in Drivers : driver[d].configured => Holds(d) # {})'
  BY <1>1, <1>6 DEF LifeInv
<1>8. ~tangled => Alone /\ Kept /\ \A p \in Apps : Plugged(p)
  BY DEF LifeInv
<1> QED BY <1>2, <1>3, <1>5, <1>7, <1>8 DEF LifeInv

LEMMA LoopNext ==
  ASSUME AssemblyInv, LoopStep
  PROVE  AssemblyInv'
<1>1. /\ TypeInv /\ HoldInv /\ LifeInv /\ MarshalInv
      /\ UNCHANGED <<values, objs, tree, announced, deviceLock, classDriver, plan, phase, builder, app, onBus, host,
                     tangled>>
  BY LoopFrame DEF AssemblyInv
<1>2. MarshalInv'
  BY <1>1, LoopReaders, LoopWrites DEF MarshalInv
<1>3. LockTyped'
  <2>1. DOMAIN readers' = Values
    <3>1. DOMAIN readers = Values
      BY <1>1 DEF TypeInv, LockTyped
    <3> QED BY <3>1, LoopFrame DEF LoopActions, ReadSetup, Lookup, Enter, Header, WriteInterface,
              TakeEndpoints,
          WriteEndpoint, Leave, Reply, SetConfiguration, Find, Reach, Handle, lockVars
  <2>2. \E f : readers' = [v \in Values |-> f[v]]
    <3>1. readers = [v \in Values |-> readers[v]]
      BY <1>1 DEF TypeInv, LockTyped
    <3>2. \/ readers' = readers \/ readers' = [readers EXCEPT ![Served] = readers[Served] + 1]
          \/ readers' = [readers EXCEPT ![Served] = readers[Served] - 1]
      BY LoopFrame DEF LoopActions, ReadSetup, Lookup, Enter, Header, WriteInterface, TakeEndpoints,
         WriteEndpoint, Leave, Reply, SetConfiguration, Find, Reach, Handle, lockVars
    <3>3. readers' = [v \in Values |-> readers'[v]]
      BY <3>1, <3>2
    <3> QED BY <3>3
  <2>3. \A v \in Values : readers'[v] \in 0 .. 1
    BY <1>1, LoopReaders
  <2>4. readers' \in [Values -> 0 .. 1]
    BY <2>1, <2>2, <2>3
  <2> QED BY <1>1, <2>4 DEF TypeInv, LockTyped
<1>4. DriverTyped'
  <2>1. DOMAIN driver' = Drivers /\ \A d \in Drivers : KeepsDriver(d)
    BY <1>1, LoopDriver
  <2> QED BY <1>1, <2>1 DEF TypeInv, DriverTyped, KeepsDriver, Holds
<1>5. TreeTyped' /\ AppTyped' /\ BuildTyped'
  BY <1>1 DEF TypeInv, TreeTyped, AppTyped, BuildTyped
<1>6. BusTyped' /\ LoopTyped'
  <2>1. LoopTyped' /\ onBus /\ isConfigured' \in BOOLEAN /\ active' \in Values \union {0}
    BY <1>1, LoopLocals
  <2>2. onBus' = TRUE
    BY <1>1, <2>1 DEF TypeInv, BusTyped
  <2> QED BY <2>1, <2>2 DEF BusTyped
<1>7. HostTyped'
  <2>1. request' = request \/ request' = NoRequest \/ request' = Lapsed(request)
    BY LoopFrame DEF LoopActions, ReadSetup, Lookup, Enter, Header, WriteInterface, TakeEndpoints,
              WriteEndpoint,
       Leave, Reply, SetConfiguration, Find, Reach, Handle, Moves, Stalls, Answers
  <2> QED BY <1>1, <2>1 DEF TypeInv, HostTyped, Lapsed
<1>8. HoldInv'
  <2> SUFFICES ASSUME NEW q \in Apps PROVE Own(q)'
    BY DEF HoldInv
  <2>1. Own(q) /\ q # Nobody
    BY <1>1, ConfigurationAssumption DEF HoldInv
  <2>2. \A v \in Values : announced[v] = q /\ readers[v] = 0 => readers'[v] = 0
    BY <1>1, <2>1, LoopReaders
  <2> QED BY <1>1, <2>1, <2>2 DEF Own, Calling, Call
<1>9. LifeInv'
  BY <1>1, LoopDriver, LifeSame
<1> QED BY <1>2, <1>3, <1>4, <1>5, <1>6, <1>7, <1>8, <1>9 DEF AssemblyInv, TypeInv

LEMMA WrittenSame ==
  ASSUME UNCHANGED <<objs, tree, loop>>
  PROVE  WrittenExactly' <=> WrittenExactly
<1>1. HeaderNow' = HeaderNow /\ EpItems' = EpItems /\ (\A k : IfaceItems(k)' = IfaceItems(k))
      /\ \A k : Upto(k)' = Upto(k)
  BY SameViews
<1>2. Current' = Current /\ FirstEps(Current, loop.next - 1)' = FirstEps(Current, loop.next - 1)
  BY DEF Current, FirstEps
<1> QED BY <1>1, <1>2 DEF WrittenExactly

(* What is not the tree, its locks and its drivers, and the calls.         *)
LEMMA RestSame ==
  ASSUME AssemblyInv, UNCHANGED <<values, objs, tree, announced, readers, deviceLock, driver, classDriver, app, loop,
                                  torn, tangled>>
  PROVE  TreeTyped' /\ LockTyped' /\ DriverTyped' /\ AppTyped' /\ LoopTyped' /\ HoldInv' /\ LifeInv' /\ MarshalInv'
<1>1. TypeInv /\ HoldInv /\ LifeInv /\ MarshalInv
  BY DEF AssemblyInv
<1>2. TreeTyped' /\ LockTyped' /\ AppTyped' /\ LoopTyped'
  BY <1>1 DEF TypeInv, TreeTyped, LockTyped, AppTyped, LoopTyped
<1>3. DriverTyped'
  BY <1>1 DEF TypeInv, DriverTyped, Holds
<1>4. HoldInv'
  BY <1>1 DEF HoldInv, Own, Calling, Call
<1>5. LifeInv'
  BY <1>1, LifeSame DEF KeepsDriver
<1>6. MarshalInv'
  <2>1. (Written' <=> Written) /\ (Marshalling' <=> Marshalling)
    BY DEF Written, Numbered, Known, Marshalling
  <2>2. WrittenExactly' <=> WrittenExactly
    BY WrittenSame
  <2> QED BY <1>1, <2>1, <2>2 DEF MarshalInv
<1> QED BY <1>2, <1>3, <1>4, <1>5, <1>6

LEMMA HostNext ==
  ASSUME AssemblyInv, HostStep
  PROVE  AssemblyInv'
<1>1. /\ TypeInv /\ UNCHANGED <<values, objs, tree, announced, readers, deviceLock, driver, classDriver, app, loop,
                                torn, tangled>>
      /\ UNCHANGED <<plan, phase, builder, onBus, active, isConfigured>>
  BY DEF AssemblyInv, HostStep, treeVars, lockVars, driverVars, busVars
<1>2. BuildTyped'
  BY <1>1 DEF TypeInv, BuildTyped
<1>3. onBus
  BY <1>1 DEF HostStep, HostEnumerate, HostHeader, HostTree, HostConfigured, HostAsk, HostAnswered,
     HostTimesOut, TypeInv, BusTyped
<1>4. BusTyped'
  BY <1>1, <1>3 DEF TypeInv, BusTyped
<1>5. DOMAIN host = {"at", "tree", "requests"} /\ host.requests \in Seq(Requests)
  BY <1>1 DEF TypeInv, HostTyped
<1>6. request' = NoRequest \/ request'.kind \in {"GetDescriptor", "SetConfiguration", "Class", "lapsed"}
  <2>1. CASE HostAsk
    <3>1. Head(host.requests) \in Requests /\ request' = Head(host.requests)
      BY <1>5, <2>1, TailTyped DEF HostAsk, Asks
    <3> QED BY <3>1 DEF Requests
  <2>2. CASE ~HostAsk
    BY <1>1, <2>2 DEF HostStep, HostEnumerate, HostHeader, HostTree, HostConfigured, HostAnswered,
              HostTimesOut, GivesUp, Asks,
       GetDescriptor, TypeInv, HostTyped
  <2> QED BY <2>1, <2>2
<1>7. DOMAIN host' = {"at", "tree", "requests"} /\ host'.requests \in Seq(Requests)
  <2>1. ASSUME NEW to, HostGoes(to) PROVE DOMAIN host' = DOMAIN host /\ host'.requests = host.requests
    BY <1>5, <2>1 DEF HostGoes
  <2>2. CASE HostEnumerate \/ HostHeader \/ HostConfigured \/ HostAnswered \/ HostTimesOut
    BY <1>5, <2>1, <2>2 DEF HostEnumerate, HostHeader, HostConfigured, HostAnswered, HostTimesOut, GivesUp
  <2>3. CASE HostTree
    <3>1. CASE GivesUp
      BY <1>5, <2>1, <3>1 DEF GivesUp
    <3>2. CASE ~GivesUp
      <4> DEFINE t == parseConfigurationTree(answer.header, answer.items, answer.n)
      <4>1. host' = [host EXCEPT !.at = "configuring", !.tree = t]
        BY <2>3, <3>2 DEF HostTree
      <4> HIDE DEF t
      <4> QED BY <1>5, <4>1
    <3> QED BY <3>1, <3>2
  <2>4. CASE HostAsk
    <3>1. host' = [host EXCEPT !.at = "asking", !.requests = Tail(host.requests)] /\ host.requests # <<>>
      BY <2>4 DEF HostAsk
    <3>2. Tail(host.requests) \in Seq(Requests)
      BY <1>5, <3>1, TailTyped
    <3> QED BY <1>5, <3>1, <3>2
  <2> QED BY <2>2, <2>3, <2>4 DEF HostStep
<1> QED BY <1>1, <1>2, <1>4, <1>6, <1>7, RestSame DEF AssemblyInv, TypeInv, HostTyped

LEMMA BuilderNext ==
  ASSUME AssemblyInv, BuilderStep
  PROVE  AssemblyInv'
<1>1. /\ TypeInv /\ UNCHANGED <<values, objs, tree, announced, readers, deviceLock, driver, classDriver, app, loop,
                                torn, tangled>>
      /\ UNCHANGED <<plan, phase, onBus, active, isConfigured, request, answer, host>>
  BY DEF AssemblyInv, BuilderStep, treeVars, lockVars, driverVars, busVars, hostVars
<1>2. BuildTyped'
  <2> DEFINE made == BuilderCall(builder.made, Head(builder.calls))
  <2>1. phase = "building" /\ builder.calls # <<>> /\ builder' = [calls |-> Tail(builder.calls), made |-> made]
    BY DEF BuilderStep
  <2>2. builder.calls \in Seq(BuilderCalls) /\ BuilderOK(builder.made)
    BY <1>1, <2>1 DEF TypeInv, BuildTyped
  <2>3. Tail(builder.calls) \in Seq(BuilderCalls) /\ BuilderOK(made)
    BY <2>1, <2>2, TailTyped, BuilderCallTyped
  <2> HIDE DEF made
  <2>4. builder'.calls \in Seq(BuilderCalls) /\ BuilderOK(builder'.made)
    BY <2>1, <2>3
  <2> QED BY <1>1, <2>4 DEF TypeInv, BuildTyped
<1>3. BusTyped' /\ HostTyped'
  BY <1>1 DEF TypeInv, BusTyped, HostTyped
<1> QED BY <1>1, <1>2, <1>3, RestSame DEF AssemblyInv, TypeInv

(* Build hands out a tree that is well formed, with no driver in it.       *)
LEMMA BuildNext ==
  ASSUME AssemblyInv, Build
  PROVE  AssemblyInv'
<1> DEFINE b == builder.made
<1>1. /\ TypeInv /\ phase = "building" /\ builder' = NoBuilder
      /\ UNCHANGED <<announced, readers, deviceLock, driver, app, loop, torn, tangled>>
      /\ UNCHANGED <<plan, onBus, active, isConfigured, request, answer, host>>
  BY DEF AssemblyInv, Build, lockVars, busVars, hostVars
<1>2. BusTyped' /\ HostTyped'
  BY <1>1 DEF TypeInv, BusTyped, HostTyped
<1>3. /\ objs = <<>> /\ ~onBus /\ \A p \in Apps : app[p].at = "ready" /\ app[p].todo = <<>>
      /\ BuilderOK(b) /\ loop = Idle /\ Len(objs) = 0
  BY <1>1, EmptySeq DEF TypeInv, BuildTyped, BusTyped
<1>4. CASE ~Builds(b)
  <2>1. phase' = "failed" /\ UNCHANGED <<values, objs, tree, classDriver>>
    BY <1>4 DEF Build, treeVars
  <2>2. BuildTyped'
    BY <1>1, <1>3, <2>1 DEF TypeInv, BuildTyped
  <2> QED BY <1>1, <1>2, <2>1, <2>2, RestSame DEF AssemblyInv, TypeInv
<1>5. CASE Builds(b)
  <2>1. /\ phase' = "built" /\ values' = b.values /\ objs' = b.objs /\ tree' = b.tree
        /\ classDriver' = [o \in DOMAIN b.objs |-> Nobody]
    BY <1>5 DEF Build
  <2> HIDE DEF b
  <2>2. TreeTyped' /\ Len(objs') \in Nat /\ DOMAIN objs' = 1 .. Len(objs')
    BY <1>3, <2>1, LenProperties DEF BuilderOK, TreeTyped
  <2>3. LockTyped' /\ LoopTyped' /\ BuildTyped'
    <3>1. LockTyped'
      BY <1>1 DEF TypeInv, LockTyped
    <3>2. loop' = Idle
      BY <1>1, <1>3
    <3>3. LoopTyped'
      BY <3>2 DEF LoopTyped, Idle
    <3>4. BuildTyped'
      BY <1>1, <2>1 DEF TypeInv, BuildTyped
    <3> QED BY <3>1, <3>3, <3>4
  <2>4. \A d \in Drivers : Holds(d) = {} /\ Holds(d)' = {}
    <3>1. \A d \in Drivers : Holds(d) \subseteq 1 .. Len(objs) /\ Holds(d)' = Holds(d)
      BY <1>1 DEF TypeInv, DriverTyped, Holds
    <3>2. 1 .. Len(objs) = {}
      BY <1>3
    <3> QED BY <3>1, <3>2
  <2>5. classDriver' \in [1 .. Len(objs') -> Drivers \union {Nobody}]
    BY <2>1, <2>2
  <2>6. DriverTyped'
    BY <1>1, <2>4, <2>5 DEF TypeInv, DriverTyped
  <2>7. AppTyped'
    <3>1. ASSUME NEW f, FrameOK(f, Len(objs)), f.todo = <<>> PROVE FrameOK(f, Len(objs'))
      <4>1. f.todo \in Seq(1 .. Len(objs'))
        BY <3>1, EmptySeq
      <4> QED BY <3>1, <4>1 DEF FrameOK
    <3>2. DOMAIN app = Apps /\ \A p \in Apps : FrameOK(app[p], Len(objs))
      BY <1>1 DEF TypeInv, AppTyped
    <3>3. \A p \in Apps : FrameOK(app[p], Len(objs'))
      BY <1>3, <3>1, <3>2
    <3> QED BY <1>1, <3>2, <3>3 DEF AppTyped
  <2>8. HoldInv'
    BY <1>1, <1>3 DEF HoldInv, Own, Calling
  <2>9. LifeInv'
    <3>1. \A p \in Apps : ~InLifecycle(p)' /\ Plugged(p)'
      BY <1>1, <1>3 DEF InLifecycle, Plugged
    <3>2. \A d \in Drivers : ~driver[d].configured
      BY <1>1, <2>4 DEF AssemblyInv, LifeInv
    <3>3. Alone' /\ Kept'
      BY <2>4, <3>1 DEF Alone, Kept
    <3> QED BY <1>1, <3>1, <3>2, <3>3 DEF LifeInv
  <2>10. MarshalInv'
    <3>1. MarshalInv
      BY DEF AssemblyInv
    <3> QED BY <1>1, <1>3, <3>1 DEF MarshalInv, Marshalling, Idle
  <2> QED BY <1>2, <2>2, <2>3, <2>6, <2>7, <2>8, <2>9, <2>10 DEF AssemblyInv, TypeInv
<1> QED BY <1>4, <1>5

LEMMA StepAll == AssemblyInv /\ [Next]_vars => AssemblyInv'
<1> SUFFICES ASSUME AssemblyInv, [Next]_vars PROVE AssemblyInv'
  OBVIOUS
<1>1. CASE BuilderStep
  BY <1>1, BuilderNext
<1>2. CASE Build
  BY <1>2, BuildNext
<1>3. CASE LoopStep
  BY <1>3, LoopNext
<1>4. CASE HostStep
  BY <1>4, HostNext
<1>5. ASSUME NEW p \in Apps, AppStep(p) PROVE AssemblyInv'
  BY <1>5, AppNext
<1>6. CASE UNCHANGED vars
  <2>1. /\ TypeInv /\ UNCHANGED <<values, objs, tree, announced, readers, deviceLock, driver, classDriver, app, loop,
                                  torn, tangled>>
        /\ UNCHANGED <<plan, phase, builder, onBus, active, isConfigured, request, answer, host>>
    BY <1>6 DEF AssemblyInv, vars, treeVars, lockVars, driverVars, busVars, hostVars
  <2>2. BusTyped' /\ HostTyped' /\ BuildTyped'
    BY <2>1 DEF TypeInv, BusTyped, HostTyped, BuildTyped
  <2> QED BY <2>1, <2>2, RestSame DEF AssemblyInv, TypeInv
<1> QED BY <1>1, <1>2, <1>3, <1>4, <1>5, <1>6 DEF Next

LEMMA Always == Spec => []AssemblyInv
  BY InitAll, StepAll, PTL DEF Spec

-----------------------------------------------------------------------------
(* The tree, its locks and the drivers refer to what there is, whatever is *)
(* built and called: device.go, interface.go, stack.go.                    *)
THEOREM TypeCorrect == Spec => []TypeOK
<1>1. AssemblyInv => TypeOK
  BY DEF AssemblyInv, TypeInv, TreeTyped, LockTyped, DriverTyped, BusTyped, BuildTyped, TypeOK
<1> QED BY <1>1, Always, PTL

(* The descriptor the control loop answers with has the interfaces of the  *)
(* tree in their order, each with its number, and as many as its header    *)
(* announces, whatever the application does while it is written; unless it *)
(* adds or removes an endpoint meanwhile, the total length and every item  *)
(* are those of the tree too (MarshalTo, interface.go).                    *)
THEOREM DescriptorIsWhole == Spec => []ServedWhole
<1>1. ASSUME AssemblyInv PROVE ServedWhole
  <2> SUFFICES ASSUME Marshalled PROVE
        /\ NumbersOf(OfType(loop.items, "interface")) = NumbersOf(TreeOf(Served).interfaces)
        /\ loop.header.interfaces = Known
        /\ ~torn => /\ loop.header.total = DescriptorSize(loop.items)
                    /\ parseConfigurationTree(loop.header, loop.items, loop.header.total) = TreeOf(Served)
    BY DEF ServedWhole, Known
  <2>1. TypeInv /\ TreeTyped /\ Marshalling /\ Written
    BY <1>1 DEF AssemblyInv, TypeInv, MarshalInv, Marshalled, Marshalling
  <2>2. Known \in Nat /\ DOMAIN tree[Served].interfaces = 1 .. Known
    BY <2>1, TreeViews
  <2>3. loop.at = "interface" /\ loop.index = Known + 1 /\ loop.index - 1 = Known
    BY <2>1, <2>2 DEF Marshalled, Written, Known
  <2>4. Numbered(loop.items, Known) /\ loop.header.interfaces = Known
    BY <2>1, <2>3 DEF Written
  <2>5. NumbersOf(OfType(loop.items, "interface")) = NumbersOf(TreeOf(Served).interfaces)
    <3> DEFINE is == OfType(loop.items, "interface")
               ifs == tree[Served].interfaces
    <3>1. is \in Seq(ItemType) /\ Len(is) = Known /\ \A k \in 1 .. Known : is[k].number = objs[ifs[k]].number
      BY <2>4 DEF Numbered
    <3>2. TreeOf(Served).interfaces = [k \in 1 .. Known |-> InterfaceItem(ifs[k])]
      BY <2>2 DEF TreeOf
    <3>3. NumbersOf(TreeOf(Served).interfaces) = [k \in 1 .. Known |-> objs[ifs[k]].number]
      BY <3>2 DEF NumbersOf, InterfaceItem
    <3> HIDE DEF is
    <3>4. DOMAIN is = 1 .. Known
      BY <3>1, LenProperties
    <3>5. NumbersOf(is) = [k \in 1 .. Known |-> is[k].number]
      BY <3>4 DEF NumbersOf
    <3>6. NumbersOf(is) = [k \in 1 .. Known |-> objs[ifs[k]].number]
      BY <3>1, <3>5
    <3> QED BY <3>3, <3>6 DEF is
  <2>6. ASSUME ~torn
        PROVE  /\ loop.header.total = DescriptorSize(loop.items)
               /\ parseConfigurationTree(loop.header, loop.items, loop.header.total) = TreeOf(Served)
    <3>1. WrittenExactly
      BY <1>1, <2>1, <2>6 DEF AssemblyInv, MarshalInv
    <3>2. Exactly(loop.items, loop.header)
      BY <2>1, <2>3, <3>1, WholeExactly
    <3> QED BY <2>1, <3>2, ReadExactly
  <2> QED BY <2>4, <2>5, <2>6
<1> QED BY <1>1, Always, PTL

(* While lifecycle calls do not overlap, a driver between calls keeps only *)
(* interfaces it is attached to, and is configured only while it keeps one *)
(* (SetClassDriver, Interface.Close, Device.Close and the drivers' Init    *)
(* and Close).                                                             *)
THEOREM DriversAreAttachedOrClosed == Spec => []AttachedOrClosed
<1>1. AssemblyInv => AttachedOrClosed
  BY DEF AssemblyInv, LifeInv, Kept, Closing, AttachedOrClosed
<1> QED BY <1>1, Always, PTL

-----------------------------------------------------------------------------
(* Who waits for what: the host for one answer at a time, of the kind it   *)
(* asked for.                                                              *)
HostStages == {"idle", "header", "whole", "configuring", "ready", "asking", "failed"}
Descriptor == {"lookup", "entering", "replying", "panicked"} \union Marshals
ClassSteps == {"find", "reach", "handle"}
LoopAsked ==
  /\ loop.at \in {"reading", "configure"} \union Descriptor \union ClassSteps
  /\ request.kind \in {"none", "lapsed"} => loop.at = "reading"
  /\ loop.at \in Descriptor => request.kind = "GetDescriptor"
  /\ loop.at = "configure" => request.kind = "SetConfiguration"
  /\ loop.at \in ClassSteps => request.kind = "Class"
HostAsked ==
  /\ host.at \in HostStages
  /\ host.at = "idle" => answer = NoAnswer /\ host.tree = NoTree /\ ~isConfigured
  /\ host.at \in {"idle", "ready", "failed"} => request = NoRequest
  /\ request # NoRequest =>
       /\ answer = NoAnswer
       /\ host.at \in {"header", "whole"} => request.kind = "GetDescriptor"
       /\ host.at = "configuring" => request.kind = "SetConfiguration"
       /\ host.at = "asking" => request.kind \in {"Class", "lapsed"}
  /\ host.at \in {"header", "whole"} /\ answer # NoAnswer => answer.kind \in {"stall", "data"}
AskInv == LoopAsked /\ HostAsked

(* While the tree stands still: what is written, sent and read is the tree.*)
Total == calculateTotalLength(Served)
ReadInv ==
  /\ loop.at \in {"interface", "endpoints", "endpoint"} => WrittenExactly
  /\ loop.at = "replying" => Exactly(loop.items, loop.header)
  /\ answer # NoAnswer /\ answer.kind = "data" =>
       /\ Exactly(answer.items, answer.header)
       /\ host.at = "whole" => answer.n = DescriptorSize(answer.items)
  /\ host.at = "whole" /\ request # NoRequest =>
       request.length = IF Total > BufferSize THEN BufferSize ELSE Total
  /\ host.tree # NoTree => host.tree = TreeOf(Served)
  /\ host.at \in {"configuring", "ready", "asking"} => host.tree # NoTree
  /\ isConfigured => host.tree # NoTree
ServeInv == AskInv /\ (~changed => ReadInv)

(* Until the host has seen the device, none of it says anything.           *)
Asleep == /\ host.at = "idle" /\ loop = Idle /\ request = NoRequest /\ answer = NoAnswer
          /\ host.tree = NoTree /\ ~isConfigured
LEMMA AsleepReads ==
  /\ Asleep => ReadInv
  /\ Asleep' => ReadInv'
  BY DEF Asleep, ReadInv, Idle

LEMMA Sleeps ==
  ASSUME BusTyped, AskInv, ~onBus
  PROVE  Asleep
  BY DEF BusTyped, AskInv, HostAsked, Asleep

LEMMA InitServe == Init => ServeInv
<1> SUFFICES ASSUME Init PROVE ServeInv
  OBVIOUS
<1>1. Asleep
  BY DEF Init, Asleep
<1>2. AskInv
  BY <1>1 DEF Asleep, AskInv, LoopAsked, HostAsked, HostStages, NoRequest, Idle, Descriptor, ClassSteps,
            Marshals
<1> QED BY <1>1, <1>2, AsleepReads DEF ServeInv

LEMMA AskSame ==
  ASSUME AskInv, UNCHANGED <<loop, request, answer, host, isConfigured>>
  PROVE  AskInv'
  BY DEF AskInv, LoopAsked, HostAsked

LEMMA WrittenStill ==
  ASSUME UNCHANGED <<objs, tree, loop>>, WrittenExactly
  PROVE  WrittenExactly'
<1>1. HeaderNow' = HeaderNow /\ EpItems' = EpItems
  BY SameViews
<1>2. Current' = Current /\ \A k : IfaceItems(k)' = IfaceItems(k) /\ Upto(k)' = Upto(k)
  BY SameViews DEF Current
<1>3. \A o, j : FirstEps(o, j)' = FirstEps(o, j)
  BY DEF FirstEps
<1>4. /\ IfaceItems(loop.index)' = IfaceItems(loop.index) /\ IfaceItems(loop.index - 1)' = IfaceItems(loop.index - 1)
      /\ Upto(loop.index - 1)' = Upto(loop.index - 1)
      /\ FirstEps(Current, loop.next - 1)' = FirstEps(Current, loop.next - 1)
  BY DEF IfaceItems, InterfaceItem, Upto, InterfaceSizes, FirstEps, Current
<1> QED BY <1>1, <1>2, <1>4 DEF WrittenExactly

LEMMA ReadSame ==
  ASSUME ReadInv, UNCHANGED <<objs, tree, loop, request, answer, host, isConfigured>>
  PROVE  ReadInv'
<1>1. Total' = Total /\ TreeOf(Served)' = TreeOf(Served)
  BY SameViews DEF Total
<1>2. loop.at \in {"interface", "endpoints", "endpoint"} => WrittenExactly'
  BY WrittenStill DEF ReadInv
<1>3. \A items, header : Exactly(items, header)' <=> Exactly(items, header)
  BY ExactlyStill
<1>4. loop.at = "replying" => Exactly(loop.items, loop.header)'
  BY <1>3 DEF ReadInv
<1>5. answer # NoAnswer /\ answer.kind = "data" => Exactly(answer.items, answer.header)'
  BY <1>3 DEF ReadInv
<1> QED BY <1>1, <1>2, <1>4, <1>5 DEF ReadInv

(* Steps of the application and the builder change the tree only before    *)
(* the host has seen it, or are remembered in changed.                     *)
LEMMA AppServe ==
  ASSUME TypeInv, ServeInv, NEW p \in Apps, AppStep(p)
  PROVE  ServeInv'
<1>1. /\ AppActions(p) /\ UNCHANGED <<loop, request, answer, host>>
      /\ changed' = (changed \/ (onBus /\ <<objs, tree>>' # <<objs, tree>>))
  BY AppCases DEF AppStep, hostVars
<1>2. isConfigured' = isConfigured
  BY <1>1 DEF AppActions, Resolve, Swap, CloseOld, Searches, InitBegins, InitReads, InitNew, Lock, Write,
            RemoveInterface, Drop, CloseDevice,
     CloseConfiguration, CloseInterface, ConfigurationClosed, DeviceClosed, ChangeEndpoints, SetStack, Start,
     Prepare, Transfer, busVars
<1>3. AskInv'
  BY <1>1, <1>2, AskSame DEF ServeInv
<1>4. ASSUME ~changed' PROVE ReadInv'
  <2>1. ReadInv /\ (~onBus \/ UNCHANGED <<objs, tree>>)
    BY <1>1, <1>4 DEF ServeInv
  <2>2. CASE ~onBus
    <3>1. Asleep
      BY <2>2, Sleeps DEF TypeInv, ServeInv
    <3>2. Asleep'
      BY <1>1, <1>2, <3>1 DEF Asleep
    <3> QED BY <3>2, AsleepReads
  <2>3. CASE UNCHANGED <<objs, tree>>
    BY <1>1, <1>2, <2>1, <2>3, ReadSame
  <2> QED BY <2>1, <2>2, <2>3
<1> QED BY <1>3, <1>4 DEF ServeInv

LEMMA BuildServe ==
  ASSUME TypeInv, ServeInv, BuilderStep \/ Build
  PROVE  ServeInv'
<1>1. phase = "building" /\ UNCHANGED <<loop, request, answer, host, isConfigured>>
  BY DEF BuilderStep, Build, busVars, hostVars
<1>2. Asleep
  BY <1>1, Sleeps DEF TypeInv, BuildTyped, ServeInv
<1>3. Asleep'
  BY <1>1, <1>2 DEF Asleep
<1> QED BY <1>1, <1>3, AsleepReads, AskSame DEF ServeInv

-----------------------------------------------------------------------------
(* The control loop.                                                       *)
LEMMA LoopAnswers ==
  ASSUME TypeInv, AskInv, LoopStep
  PROVE  /\ LoopAsked' /\ HostAsked' /\ (isConfigured' => isConfigured \/ host.at = "configuring")
<1>1. /\ DOMAIN loop = DOMAIN Idle /\ UNCHANGED host /\ LoopActions /\ LoopAsked /\ HostAsked
  BY LoopFrame DEF TypeInv, LoopTyped, AskInv
<1>2. request # NoRequest /\ request.kind \notin {"none", "lapsed"}
  BY <1>1 DEF LoopAsked, LoopActions, ReadSetup, Lookup, Enter, Header, WriteInterface, TakeEndpoints,
            WriteEndpoint,
       Leave, Reply, SetConfiguration, Find, Reach, Handle, NoRequest
<1>3. host.at \notin {"idle", "ready", "failed"} /\ answer = NoAnswer /\ host.at \in HostStages
  BY <1>1, <1>2 DEF HostAsked
<1> DEFINE NewAnswer == request' = NoRequest /\ loop' = Idle /\ answer' # NoAnswer
                        /\ (request.kind = "GetDescriptor" => answer'.kind \in {"stall", "data"})
           Goes2(to) == UNCHANGED <<request, answer>> /\ loop'.at = to
           Waits == \/ \E to \in Descriptor : Goes2(to) /\ request.kind = "GetDescriptor"
                    \/ Goes2("configure") /\ request.kind = "SetConfiguration"
                    \/ \E to \in ClassSteps : Goes2(to) /\ request.kind = "Class"
           Lapses == request' = Lapsed(request) /\ loop' = Idle /\ answer' = answer /\ request.kind = "Class"
<1>4. ASSUME Stalls PROVE NewAnswer
  BY <1>4 DEF Stalls, Answers, NoAnswer
<1>5. ASSUME NEW to, Moves(to) PROVE Goes2(to)
  BY <1>1, <1>5 DEF Moves, Idle
<1>6. NewAnswer \/ Waits \/ Lapses
  <2>1. CASE ReadSetup
    <3>1. CASE request.kind = "GetDescriptor"
      <4>1. Moves("lookup") /\ "lookup" \in Descriptor
        BY <2>1, <3>1 DEF ReadSetup, Descriptor
      <4> QED BY <1>5, <3>1, <4>1
    <3>2. CASE request.kind = "SetConfiguration"
      <4>1. Moves("configure")
        BY <2>1, <3>2 DEF ReadSetup
      <4> QED BY <1>5, <3>2, <4>1
    <3>3. CASE request.kind = "Class"
      <4>1. Moves("find") /\ "find" \in ClassSteps
        BY <2>1, <3>3 DEF ReadSetup, ClassSteps
      <4> QED BY <1>5, <3>3, <4>1
    <3> QED BY <1>2, <3>1, <3>2, <3>3 DEF TypeInv, HostTyped
  <2>2. CASE Lookup \/ Enter \/ Leave
    <3>1. request.kind = "GetDescriptor"
      BY <1>1, <2>2 DEF LoopAsked, Lookup, Enter, Leave, Descriptor, Marshals
    <3>2. Stalls \/ Moves("entering") \/ Moves("header") \/ Moves("replying")
      BY <2>2 DEF Lookup, Enter, Leave
    <3>3. {"entering", "header", "replying"} \subseteq Descriptor
      BY DEF Descriptor, Marshals
    <3> QED BY <1>4, <1>5, <3>1, <3>2, <3>3
  <2>3. CASE Header \/ WriteInterface \/ TakeEndpoints \/ WriteEndpoint
    <3>1. request.kind = "GetDescriptor"
      BY <1>1, <2>3 DEF LoopAsked, Header, WriteInterface, TakeEndpoints, WriteEndpoint, Descriptor, Marshals
    <3>2. Header => Goes2("interface")
      BY <1>1 DEF Header, Idle
    <3>3. WriteInterface => Goes2("endpoints")
      BY <1>1 DEF WriteInterface, Idle
    <3>4. TakeEndpoints => Goes2("interface") \/ Goes2("endpoint")
      BY <1>1 DEF TakeEndpoints, Idle
    <3>5. WriteEndpoint => Goes2("interface") \/ Goes2("endpoint") \/ Goes2("panicked")
      BY <1>1 DEF WriteEndpoint, Idle
    <3>6. {"interface", "endpoint", "endpoints", "panicked"} \subseteq Descriptor
      BY DEF Descriptor, Marshals
    <3> QED BY <2>3, <3>1, <3>2, <3>3, <3>4, <3>5, <3>6
  <2>4. CASE Reply
    <3>1. ASSUME NEW a, a.kind = "data", Answers(a) PROVE NewAnswer
      BY <3>1 DEF Answers, NoAnswer
    <3>2. ASSUME ~Stalls PROVE NewAnswer
      <4> DEFINE a == [kind |-> "data", header |-> loop.header, items |-> loop.items,
                       n |-> IF DescriptorSize(loop.items) > request.length THEN request.length
                             ELSE DescriptorSize(loop.items)]
      <4>1. Answers(a) /\ a.kind = "data"
        BY <2>4, <3>2 DEF Reply
      <4> QED BY <3>1, <4>1
    <3> QED BY <1>4, <3>2
  <2>5. CASE SetConfiguration \/ Handle
    <3>1. request.kind # "GetDescriptor"
      BY <1>1, <2>5 DEF LoopAsked, SetConfiguration, Handle, ClassSteps
    <3>2. Stalls \/ Answers([kind |-> "ack"]) \/ Lapses
      BY <1>1, <2>5 DEF SetConfiguration, Handle, LoopAsked, ClassSteps
    <3> QED BY <1>4, <3>1, <3>2 DEF Answers, NoAnswer
  <2>6. CASE Find \/ Reach
    <3>1. request.kind = "Class"
      BY <1>1, <2>6 DEF LoopAsked, Find, Reach, ClassSteps
    <3>2. ASSUME NEW o, loop' = [loop EXCEPT !.at = "reach", !.object = o] PROVE loop'.at = "reach"
      BY <1>1, <3>2 DEF Idle
    <3>3. ASSUME NEW d, loop' = [loop EXCEPT !.at = "handle", !.target = d] PROVE loop'.at = "handle"
      BY <1>1, <3>3 DEF Idle
    <3>4. Find => Stalls \/ Goes2("reach")
      BY <3>2 DEF Find
    <3>5. Reach => Stalls \/ Goes2("handle")
      BY <3>3 DEF Reach
    <3>6. {"reach", "handle"} \subseteq ClassSteps
      BY DEF ClassSteps
    <3> QED BY <1>4, <2>6, <3>1, <3>4, <3>5, <3>6
  <2> QED BY <1>1, <2>1, <2>2, <2>3, <2>4, <2>5, <2>6 DEF LoopActions
<1>7. LoopAsked'
  <2>1. CASE NewAnswer
    BY <2>1 DEF LoopAsked, NoRequest, Idle, Descriptor, Marshals, ClassSteps
  <2>2. CASE Waits
    <3>1. request' = request /\ request.kind \notin {"none", "lapsed"}
      BY <1>2, <2>2
    <3> QED BY <2>2, <3>1 DEF LoopAsked, Descriptor, Marshals, ClassSteps
  <2>3. CASE Lapses
    BY <2>3 DEF LoopAsked, Lapsed, Idle, Descriptor, Marshals, ClassSteps
  <2> QED BY <1>6, <2>1, <2>2, <2>3
<1>8. HostAsked'
  <2>1. CASE NewAnswer
    <3>1. host.at \in {"header", "whole"} => answer'.kind \in {"stall", "data"}
      BY <1>1, <1>2, <2>1 DEF HostAsked
    <3> QED BY <1>1, <1>3, <2>1, <3>1 DEF HostAsked
  <2>2. CASE Waits
    <3>1. request' = request /\ answer' = answer
      BY <2>2
    <3> QED BY <1>1, <1>3, <3>1 DEF HostAsked
  <2>3. CASE Lapses
    <3>1. host.at = "asking"
      BY <1>1, <1>2, <1>3, <2>3 DEF HostAsked, HostStages
    <3>2. request'.kind = "lapsed"
      BY <2>3 DEF Lapsed
    <3> QED BY <1>1, <1>3, <2>3, <3>1, <3>2 DEF HostAsked
  <2> QED BY <1>6, <2>1, <2>2, <2>3
<1>9. isConfigured' => isConfigured \/ host.at = "configuring"
  <2>1. CASE SetConfiguration
    <3>1. request.kind = "SetConfiguration"
      BY <1>1, <2>1 DEF LoopAsked, SetConfiguration
    <3> QED BY <1>1, <1>2, <1>3, <3>1 DEF HostAsked, HostStages
  <2>2. CASE ~SetConfiguration
    BY <1>1, <2>2 DEF LoopActions, ReadSetup, Lookup, Enter, Header, WriteInterface, TakeEndpoints,
         WriteEndpoint, Leave, Reply, Find, Reach, Handle
  <2> QED BY <2>1, <2>2
<1> QED BY <1>7, <1>8, <1>9

-----------------------------------------------------------------------------
LEMMA LoopReads ==
  ASSUME TypeInv, MarshalInv, AskInv, ReadInv, LoopStep
  PROVE  ReadInv'
<1>1. /\ DOMAIN loop = DOMAIN Idle /\ UNCHANGED <<objs, tree, host>> /\ LoopActions /\ LoopAsked /\ HostAsked
  BY LoopFrame DEF TypeInv, LoopTyped, AskInv
<1>2. Total' = Total /\ TreeOf(Served)' = TreeOf(Served)
  BY <1>1, SameViews DEF Total
<1>3. /\ loop'.at \in {"interface", "endpoints", "endpoint"} => WrittenExactly'
      /\ loop'.at = "replying" => Exactly(loop.items, loop.header)'
  BY LoopExactly DEF ReadInv
<1>4. request # NoRequest
  BY <1>1 DEF LoopAsked, LoopActions, ReadSetup, Lookup, Enter, Header, WriteInterface, TakeEndpoints,
            WriteEndpoint,
       Leave, Reply, SetConfiguration, Find, Reach, Handle, NoRequest
<1>5. answer = NoAnswer /\ host.at # "idle"
  BY <1>1, <1>4 DEF HostAsked
<1>6. request' \in {request, NoRequest} \/ host.at = "asking"
  <2>1. request' \in {request, NoRequest} \/ Handle
    BY <1>1 DEF LoopActions, ReadSetup, Lookup, Enter, Header, WriteInterface, TakeEndpoints, WriteEndpoint,
         Leave, Reply, SetConfiguration, Find, Reach, Moves, Stalls, Answers
  <2>2. Handle => host.at = "asking"
    BY <1>1, <1>4 DEF Handle, LoopAsked, ClassSteps, HostAsked, HostStages
  <2> QED BY <2>1, <2>2
<1>7. isConfigured' => host.tree # NoTree
  BY LoopAnswers DEF ReadInv
<1>8. ASSUME answer' # NoAnswer, answer'.kind = "data"
      PROVE  /\ Exactly(answer.items, answer.header)'
             /\ host.at = "whole" => answer'.n = DescriptorSize(answer'.items)
  <2> DEFINE size == DescriptorSize(loop.items)
             n == IF size > request.length THEN request.length ELSE size
             a == [kind |-> "data", header |-> loop.header, items |-> loop.items, n |-> n]
  <2>1. Reply
    BY <1>1, <1>5, <1>8 DEF LoopActions, ReadSetup, Lookup, Enter, Header, WriteInterface, TakeEndpoints,
              WriteEndpoint,
       Leave, SetConfiguration, Find, Reach, Handle, Moves, Stalls, Answers
  <2>2. ~Stalls
    BY <1>8 DEF Stalls, Answers
  <2>3. loop.at = "replying" /\ ~(size > BufferSize) /\ answer' = a
    BY <2>1, <2>2 DEF Reply, Answers
  <2>4. Exactly(loop.items, loop.header)
    BY <2>3 DEF ReadInv
  <2>5. answer'.items = loop.items /\ answer'.header = loop.header /\ answer'.n = n
    BY <2>3
  <2>6. Exactly(answer.items, answer.header)'
    BY <1>1, <2>4, <2>5, ExactlyStill
  <2>7. size = Total /\ size \in Nat
    BY <2>4, ParsedWhole DEF Exactly, Total
  <2>8. ASSUME host.at = "whole" PROVE n = size
    <3>1. request.length = IF Total > BufferSize THEN BufferSize ELSE Total
      BY <1>4, <2>8 DEF ReadInv
    <3> HIDE DEF size
    <3>2. request.length = size
      BY <2>3, <2>7, <3>1
    <3> QED BY <2>7, <3>2
  <2> QED BY <2>5, <2>6, <2>8
<1>9. host.tree # NoTree => host.tree = TreeOf(Served)
  BY DEF ReadInv
<1>10. host.at = "whole" => request.length = IF Total > BufferSize THEN BufferSize ELSE Total
  BY <1>4 DEF ReadInv
<1>11. host.at \in {"configuring", "ready", "asking"} => host.tree # NoTree
  BY DEF ReadInv
<1> QED BY <1>1, <1>2, <1>3, <1>6, <1>7, <1>8, <1>9, <1>10, <1>11 DEF ReadInv

LEMMA LoopServe ==
  ASSUME TypeInv, MarshalInv, ServeInv, LoopStep
  PROVE  ServeInv'
<1>1. changed' = changed
  BY DEF LoopStep
<1> QED BY <1>1, LoopAnswers, LoopReads DEF ServeInv, AskInv

-----------------------------------------------------------------------------
(* The host.                                                               *)
LEMMA RequestKinds ==
  ASSUME NEW length, NEW v
  PROVE  /\ GetDescriptor(length) # NoRequest /\ GetDescriptor(length).kind = "GetDescriptor"
         /\ GetDescriptor(length).length = length
         /\ [kind |-> "SetConfiguration", value |-> v] # NoRequest
<1>1. NoRequest.kind = "none" /\ GetDescriptor(length).kind = "GetDescriptor" /\ GetDescriptor(length).length = length
  BY DEF NoRequest, GetDescriptor
<1>2. [kind |-> "SetConfiguration", value |-> v].kind = "SetConfiguration"
  OBVIOUS
<1> QED BY <1>1, <1>2

(* What each step of the host leaves behind.                               *)
HostStarts == /\ host.at = "idle" /\ request' = GetDescriptor(HeaderSize) /\ answer' = NoAnswer
              /\ host'.at = "header" /\ host'.tree = host.tree
HostSized  == /\ host.at = "header" /\ answer # NoAnswer /\ answer.kind # "stall"
              /\ request' = GetDescriptor(IF answer.header.total > BufferSize THEN BufferSize ELSE answer.header.total)
              /\ answer' = NoAnswer /\ host'.at = "whole" /\ host'.tree = host.tree
HostReads  == /\ host.at = "whole" /\ answer # NoAnswer /\ answer.kind # "stall"
              /\ request' = [kind |-> "SetConfiguration", value |-> answer.header.value]
              /\ answer' = NoAnswer /\ host'.at = "configuring"
              /\ host'.tree = parseConfigurationTree(answer.header, answer.items, answer.n)
HostFails  == /\ host.at \in {"header", "whole", "configuring"} /\ answer # NoAnswer /\ request' = request
              /\ answer' = NoAnswer /\ host'.at = "failed" /\ host'.tree = host.tree
HostReady  == /\ host.at \in {"configuring", "asking"} /\ answer # NoAnswer /\ request' = request
              /\ answer' = NoAnswer /\ host'.at = "ready" /\ host'.tree = host.tree
HostCalls  == /\ host.at = "ready" /\ request' \in Requests /\ answer' = NoAnswer
              /\ host'.at = "asking" /\ host'.tree = host.tree
HostLapses == /\ host.at = "asking" /\ request.kind = "lapsed" /\ request' = NoRequest
              /\ answer' = answer /\ host'.at = "ready" /\ host'.tree = host.tree

LEMMA HostMoves ==
  ASSUME TypeInv, HostStep
  PROVE  HostStarts \/ HostSized \/ HostReads \/ HostFails \/ HostReady \/ HostCalls \/ HostLapses
<1>1. DOMAIN host = {"at", "tree", "requests"} /\ host.requests \in Seq(Requests)
  BY DEF TypeInv, HostTyped
<1>2. ASSUME NEW to, HostGoes(to) PROVE host'.at = to /\ host'.tree = host.tree
  BY <1>1, <1>2 DEF HostGoes
<1>3. CASE HostEnumerate
  BY <1>2, <1>3 DEF HostEnumerate, Asks, HostStarts
<1>4. CASE HostHeader
  BY <1>2, <1>4 DEF HostHeader, Asks, GivesUp, HostSized, HostFails
<1>5. CASE HostTree
  <2>1. CASE answer.kind = "stall"
    BY <1>2, <1>5, <2>1 DEF HostTree, GivesUp, HostFails
  <2>2. CASE answer.kind # "stall"
    <3> DEFINE t == parseConfigurationTree(answer.header, answer.items, answer.n)
    <3>1. /\ host' = [host EXCEPT !.at = "configuring", !.tree = t] /\ host.at = "whole" /\ answer # NoAnswer
          /\ request' = [kind |-> "SetConfiguration", value |-> answer.header.value] /\ answer' = NoAnswer
      BY <1>5, <2>2 DEF HostTree, Asks
    <3> HIDE DEF t
    <3>2. host'.at = "configuring" /\ host'.tree = t
      BY <1>1, <3>1
    <3> QED BY <2>2, <3>1, <3>2 DEF HostReads, t
  <2> QED BY <2>1, <2>2
<1>6. CASE HostConfigured
  BY <1>2, <1>6 DEF HostConfigured, GivesUp, HostReady, HostFails
<1>7. CASE HostAsk
  <2>1. /\ host' = [host EXCEPT !.at = "asking", !.requests = Tail(host.requests)] /\ host.requests # <<>>
        /\ host.at = "ready" /\ request' = Head(host.requests) /\ answer' = NoAnswer
    BY <1>7 DEF HostAsk, Asks
  <2>2. request' \in Requests
    BY <1>1, <2>1, TailTyped
  <2>3. host'.at = "asking" /\ host'.tree = host.tree
    BY <1>1, <2>1
  <2> QED BY <2>1, <2>2, <2>3 DEF HostCalls
<1>8. CASE HostAnswered
  BY <1>2, <1>8 DEF HostAnswered, HostReady
<1>9. CASE HostTimesOut
  BY <1>2, <1>9 DEF HostTimesOut, HostLapses
<1> QED BY <1>3, <1>4, <1>5, <1>6, <1>7, <1>8, <1>9 DEF HostStep

LEMMA HostAsks ==
  ASSUME TypeInv, AskInv, HostStep
  PROVE  AskInv'
<1>1. /\ UNCHANGED <<loop, isConfigured>> /\ LoopAsked /\ HostAsked
  BY DEF HostStep, busVars, AskInv
<1>2. request = NoRequest \/ HostLapses
  <2>1. host.at \in {"idle", "ready"} \/ answer # NoAnswer \/ HostLapses
    BY HostMoves DEF HostStarts, HostSized, HostReads, HostFails, HostReady, HostCalls
  <2> QED BY <1>1, <2>1 DEF HostAsked
<1>3. loop.at = "reading"
  BY <1>1, <1>2 DEF LoopAsked, HostLapses, NoRequest
<1>4. LoopAsked'
  BY <1>1, <1>3 DEF LoopAsked, Descriptor, Marshals, ClassSteps
<1>5. HostAsked'
  <2>1. CASE HostStarts
    BY <2>1, RequestKinds DEF HostStarts, HostAsked, HostStages
  <2>2. CASE HostSized
    BY <2>2, RequestKinds DEF HostSized, HostAsked, HostStages
  <2>3. CASE HostReads
    BY <2>3 DEF HostReads, HostAsked, HostStages
  <2>4. CASE HostFails
    BY <1>1, <2>4 DEF HostFails, HostAsked, HostStages
  <2>5. CASE HostReady
    BY <1>1, <2>5 DEF HostReady, HostAsked, HostStages
  <2>6. CASE HostCalls
    BY <2>6 DEF HostCalls, HostAsked, HostStages, Requests
  <2>7. CASE HostLapses
    <3>1. answer = NoAnswer
      BY <1>1, <2>7 DEF HostLapses, HostAsked, NoRequest
    <3> QED BY <2>7, <3>1 DEF HostLapses, HostAsked, HostStages
  <2> QED BY <2>1, <2>2, <2>3, <2>4, <2>5, <2>6, <2>7, HostMoves
<1> QED BY <1>4, <1>5 DEF AskInv

LEMMA HostRead ==
  ASSUME TypeInv, AskInv, ReadInv, HostStep
  PROVE  ReadInv'
<1>1. /\ UNCHANGED <<objs, tree, loop, isConfigured>> /\ LoopAsked /\ HostAsked
  BY DEF HostStep, busVars, treeVars, AskInv
<1>2. Total' = Total /\ TreeOf(Served)' = TreeOf(Served)
  BY <1>1, SameViews DEF Total
<1>3. request = NoRequest \/ HostLapses
  <2>1. host.at \in {"idle", "ready"} \/ answer # NoAnswer \/ HostLapses
    BY HostMoves DEF HostStarts, HostSized, HostReads, HostFails, HostReady, HostCalls
  <2> QED BY <1>1, <2>1 DEF HostAsked
<1>4. loop'.at = "reading" /\ answer' = NoAnswer
  <2>1. CASE request = NoRequest
    <3>1. ~HostLapses
      BY <2>1 DEF HostLapses, NoRequest
    <3> QED BY <1>1, <2>1, <3>1, HostMoves DEF LoopAsked, NoRequest, HostStarts, HostSized, HostReads,
              HostFails,
          HostReady, HostCalls
  <2>2. CASE HostLapses
    BY <1>1, <2>2 DEF HostLapses, LoopAsked, HostAsked, NoRequest
  <2> QED BY <1>3, <2>1, <2>2
<1>5. /\ host.tree # NoTree => host.tree = TreeOf(Served)
      /\ host.at \in {"configuring", "ready", "asking"} => host.tree # NoTree
      /\ isConfigured => host.tree # NoTree
  BY DEF ReadInv
<1>6. ASSUME NEW t, host'.tree = t, t # NoTree => t = TreeOf(Served),
             host'.at = "whole" /\ request' # NoRequest =>
               request'.length = IF Total > BufferSize THEN BufferSize ELSE Total,
             host'.at \in {"configuring", "ready", "asking"} => t # NoTree,
             isConfigured => t # NoTree
      PROVE  ReadInv'
  BY <1>1, <1>2, <1>4, <1>6 DEF ReadInv
<1>7. CASE HostStarts
  BY <1>5, <1>6, <1>7 DEF HostStarts
<1>8. CASE HostSized
  <2>1. answer # NoAnswer /\ answer.kind = "data"
    BY <1>1, <1>8 DEF HostSized, HostAsked
  <2>2. answer.header.total = Total
    BY <2>1 DEF ReadInv, Exactly, HeaderNow, Total
  <2>3. request'.length = IF Total > BufferSize THEN BufferSize ELSE Total
    BY <1>8, <2>2, RequestKinds DEF HostSized
  <2> QED BY <1>5, <1>6, <1>8, <2>3 DEF HostSized
<1>9. CASE HostReads
  <2>1. answer # NoAnswer /\ answer.kind = "data" /\ host.at = "whole"
    BY <1>1, <1>9 DEF HostReads, HostAsked
  <2>2. Exactly(answer.items, answer.header) /\ answer.n = DescriptorSize(answer.items)
    BY <2>1 DEF ReadInv
  <2>3. parseConfigurationTree(answer.header, answer.items, answer.n) = TreeOf(Served)
    BY <2>2, ReadExactly DEF TypeInv
  <2>4. TreeOf(Served) # NoTree
    <3>1. TreeOf(Served).value = 1 /\ NoTree.value = 0
      BY DEF TreeOf, NoTree, Served
    <3> QED BY <3>1
  <2>5. host'.tree = TreeOf(Served) /\ host'.at = "configuring"
    BY <1>9, <2>3 DEF HostReads
  <2> QED BY <1>6, <2>4, <2>5
<1>10. CASE HostFails
  BY <1>5, <1>6, <1>10 DEF HostFails
<1>11. CASE HostReady
  BY <1>5, <1>6, <1>11 DEF HostReady
<1>12. CASE HostCalls
  BY <1>5, <1>6, <1>12 DEF HostCalls
<1>13. CASE HostLapses
  BY <1>5, <1>6, <1>13 DEF HostLapses
<1> QED BY <1>7, <1>8, <1>9, <1>10, <1>11, <1>12, <1>13, HostMoves

LEMMA HostServe ==
  ASSUME TypeInv, ServeInv, HostStep
  PROVE  ServeInv'
<1>1. changed' = changed
  BY DEF HostStep
<1> QED BY <1>1, HostAsks, HostRead DEF ServeInv

LEMMA ServeNext == AssemblyInv /\ ServeInv /\ [Next]_vars => ServeInv'
<1> SUFFICES ASSUME AssemblyInv, ServeInv, [Next]_vars PROVE ServeInv'
  OBVIOUS
<1>0. TypeInv /\ MarshalInv
  BY DEF AssemblyInv
<1>1. CASE BuilderStep \/ Build
  BY <1>0, <1>1, BuildServe
<1>2. CASE LoopStep
  BY <1>0, <1>2, LoopServe
<1>3. CASE HostStep
  BY <1>0, <1>3, HostServe
<1>4. ASSUME NEW p \in Apps, AppStep(p) PROVE ServeInv'
  BY <1>0, <1>4, AppServe
<1>5. CASE UNCHANGED vars
  <2>1. UNCHANGED <<objs, tree, loop, request, answer, host, isConfigured, changed>>
    BY <1>5 DEF vars, treeVars, busVars, hostVars
  <2> QED BY <2>1, AskSame, ReadSame DEF ServeInv
<1> QED BY <1>1, <1>2, <1>3, <1>4, <1>5 DEF Next

LEMMA Serves == Spec => []ServeInv
  BY InitServe, ServeNext, Always, PTL DEF Spec

(* A host that has read the tree of a device nobody changed since knows    *)
(* all of it, however the reading, the goroutines that change the tree     *)
(* before the device is on the bus, and the class requests interleave:     *)
(* MarshalTo and calculateTotalLength (interface.go) agree with            *)
(* parseConfigurationTree (host/device.go), cut and all.                   *)
THEOREM HostReadsTheTree == Spec => []TreeIsServed
<1>1. ServeInv => TreeIsServed
  BY DEF ServeInv, ReadInv, TreeIsServed
<1> QED BY <1>1, Serves, PTL

-----------------------------------------------------------------------------
(* The endpoints of the tree, and those the drivers move data on.          *)
Undisturbed    == ~changed /\ ~removed /\ AttachedToServed
ServedIfs      == ToSet(tree[Served].interfaces)
KnownEndpoints == UNION {ToSet(objs[o].endpoints) : o \in ServedIfs}
KnownAddress(a) == \E e \in KnownEndpoints : e.address = a
KnownOrNone(e)  == e = NoEndpoint \/ e \in KnownEndpoints
ToServed(calls) == \A k \in DOMAIN calls : calls[k].op = "attach" => calls[k].value = Served

DriversKnow == \A d \in Drivers :
  KnownOrNone(driver[d].in) /\ KnownOrNone(driver[d].out) /\ KnownOrNone(driver[d].notify)
FrameKnows(f) ==
  /\ ToServed(f.calls)
  /\ f.at = "io" => KnownAddress(f.endpoint)
  /\ f.at = "search" => ToSet(f.read) \subseteq KnownEndpoints
  /\ f.calls # <<>> /\ Head(f.calls).op = "attach" /\ f.at # "ready" => ToSet(f.todo) \subseteq ServedIfs
CallKnows(p) == FrameKnows(app[p])
KnowInv ==
  /\ DriversKnow
  /\ \A p \in Apps : CallKnows(p)
  /\ \A a \in used : KnownAddress(a)
  /\ used # {} => isConfigured

(* The first and the last of some positions.                               *)
LEMMA Extremes ==
  ASSUME NEW n \in Nat, NEW S \in SUBSET (1 .. n), S # {}
  PROVE  Min(S) \in S /\ Max(S) \in S
<1> DEFINE less == OpToRel(<, Nat)
<1>0. IsWellFoundedOn(less, Nat)
  BY NatLessThanWellFounded
<1>1. \A a, b \in Nat : a < b => <<a, b>> \in less
  BY DEF OpToRel
<1> HIDE DEF less
<1>2. ASSUME NEW T \in SUBSET Nat, T # {}
      PROVE  \E m \in T : \A x \in T : m <= x
  <2>1. PICK m \in T : \A x \in T : ~(<<x, m>> \in less)
    <3>1. T \subseteq Nat /\ T # {}
      BY <1>2
    <3> QED BY <1>0, <3>1, WFMin
  <2>2. ASSUME NEW x \in T PROVE m <= x
    <3>1. x \in Nat /\ m \in Nat /\ ~(x < m)
      BY <1>1, <2>1
    <3> QED BY <3>1
  <2> QED BY <2>1, <2>2
<1>3. \E m \in S : \A x \in S : m =< x
  <2>1. S \in SUBSET Nat
    OBVIOUS
  <2> QED BY <1>2, <2>1
<1>4. Min(S) \in S
  BY <1>3 DEF Min
<1>5. \E m \in S : \A x \in S : m >= x
  <2> DEFINE T == {n - x : x \in S}
  <2>1. T \in SUBSET Nat /\ T # {}
    <3>1. \A x \in S : x \in Nat /\ n - x \in Nat
      OBVIOUS
    <3>2. PICK x \in S : TRUE
      OBVIOUS
    <3>3. n - x \in T
      BY <3>2
    <3> QED BY <3>1, <3>3
  <2>2. PICK t \in T : \A x \in T : t <= x
    <3> HIDE DEF T
    <3> QED BY <1>2, <2>1
  <2>3. PICK m \in S : t = n - m
    OBVIOUS
  <2>4. ASSUME NEW x \in S PROVE m >= x
    <3>1. n - m <= n - x
      BY <2>2, <2>3
    <3>2. m \in Nat /\ x \in Nat
      OBVIOUS
    <3> QED BY <3>1, <3>2
  <2> QED BY <2>3, <2>4
<1>6. Max(S) \in S
  BY <1>5 DEF Max
<1> QED BY <1>4, <1>6

LEMMA EndpointTaken ==
  ASSUME NEW eps \in Seq(EndpointType), NEW kind, NEW in, NEW default
  PROVE  /\ FirstOr(eps, OfKind(eps, kind, in), default) \in ToSet(eps) \union {default}
         /\ LastOr(eps, OfKind(eps, kind, in), default) \in ToSet(eps) \union {default}
<1> DEFINE ks == OfKind(eps, kind, in)
           n  == Len(eps)
<1>1. n \in Nat /\ DOMAIN eps = 1 .. n /\ ks \in SUBSET DOMAIN eps
  BY LenProperties DEF OfKind
<1> HIDE DEF ks, n
<1>2. CASE ks = {}
  BY <1>2 DEF FirstOr, LastOr, ks
<1>3. CASE ks # {}
  <2>1. Min(ks) \in ks /\ Max(ks) \in ks
    BY <1>1, <1>3, Extremes
  <2>2. eps[Min(ks)] \in ToSet(eps) /\ eps[Max(ks)] \in ToSet(eps)
    BY <1>1, <2>1 DEF ToSet
  <2> QED BY <1>3, <2>2 DEF FirstOr, LastOr, ks
<1> QED BY <1>2, <1>3

(* A driver takes the endpoints it has read, or keeps its own.             *)
LEMMA InitDriverReaches ==
  ASSUME NEW d \in Drivers, DOMAIN driver[d] = DOMAIN Detached, NEW o, NEW eps \in Seq(EndpointType)
  PROVE  /\ InitDriver(d, o, eps).in \in ToSet(eps) \union {driver[d].in}
         /\ InitDriver(d, o, eps).out \in ToSet(eps) \union {driver[d].out}
         /\ InitDriver(d, o, eps).notify \in ToSet(eps) \union {driver[d].notify}
<1> DEFINE st  == driver[d]
           From(e, old) == e \in ToSet(eps) \union {old}
           Reaches(next) == /\ DOMAIN next = DOMAIN Detached
                            /\ From(next.in, st.in) /\ From(next.out, st.out) /\ From(next.notify, st.notify)
<1>1. ASSUME NEW kind, NEW in, NEW default
      PROVE  From(FirstOr(eps, OfKind(eps, kind, in), default), default)
             /\ From(LastOr(eps, OfKind(eps, kind, in), default), default)
  BY EndpointTaken
<1>2. ASSUME NEW next, Reaches(next), NEW done PROVE Reaches([next EXCEPT !.configured = done])
  <2>1. [next EXCEPT !.configured = done].in = next.in /\ [next EXCEPT !.configured = done].out = next.out
        /\ [next EXCEPT !.configured = done].notify = next.notify
        /\ DOMAIN [next EXCEPT !.configured = done] = DOMAIN next
    BY <1>2 DEF Detached
  <2> QED BY <1>2, <2>1
<1>3. CASE d \in Serials
  <2> DEFINE first == FirstOr(eps, OfKind(eps, "interrupt", TRUE), st.notify)
             in    == LastOr(eps, OfKind(eps, "bulk", TRUE), st.in)
             out   == LastOr(eps, OfKind(eps, "bulk", FALSE), st.out)
             next  == CASE objs[o].class = "cdc"      -> TakeControl(st, o, eps)
                        [] objs[o].class = "cdc data" -> TakeData(st, o, eps)
                        [] OTHER                      -> st
  <2>1. From(first, st.notify) /\ From(in, st.in) /\ From(out, st.out)
    BY <1>1
  <2>2. TakeControl(st, o, eps) = [st EXCEPT !.control = o, !.notify = first]
    BY DEF TakeControl
  <2>3. TakeData(st, o, eps) = [st EXCEPT !.data = o, !.in = in, !.out = out]
    BY DEF TakeData
  <2>4. InitDriver(d, o, eps) = [next EXCEPT !.configured = @ \/ Complete(next)]
    BY <1>3 DEF InitDriver, InitACM
  <2>5. next = TakeControl(st, o, eps) \/ next = TakeData(st, o, eps) \/ next = st
    OBVIOUS
  <2> HIDE DEF first, in, out, next, From
  <2>6. Reaches(next)
    <3>1. From(st.in, st.in) /\ From(st.out, st.out) /\ From(st.notify, st.notify)
      BY DEF From
    <3>2. CASE next = TakeControl(st, o, eps)
      BY <2>1, <2>2, <3>1, <3>2 DEF Detached
    <3>3. CASE next = TakeData(st, o, eps)
      BY <2>1, <2>3, <3>1, <3>3 DEF Detached
    <3> QED BY <2>5, <3>1, <3>2, <3>3
  <2> HIDE DEF Reaches
  <2>7. Reaches(InitDriver(d, o, eps))
    <3> DEFINE done == next.configured \/ Complete(next)
    <3>1. InitDriver(d, o, eps) = [next EXCEPT !.configured = done]
      BY <2>4
    <3> HIDE DEF done
    <3> QED BY <1>2, <2>6, <3>1
  <2> QED BY <2>7 DEF Reaches, From
<1>4. CASE d \notin Serials
  <2> DEFINE in   == LastOr(eps, OfKind(eps, "interrupt", TRUE), st.in)
             out  == LastOr(eps, OfKind(eps, "interrupt", FALSE), st.out)
             next == [st EXCEPT !.data = o, !.in = in, !.out = out]
             done == next.configured \/ next.in # NoEndpoint
  <2>1. From(in, st.in) /\ From(out, st.out) /\ From(st.notify, st.notify)
    BY <1>1
  <2>2. InitDriver(d, o, eps) = [next EXCEPT !.configured = done]
    BY <1>4 DEF InitDriver, InitHID
  <2> HIDE DEF in, out, done, From
  <2>3. Reaches(next)
    BY <2>1 DEF Detached
  <2> HIDE DEF Reaches
  <2>4. Reaches(InitDriver(d, o, eps))
    <3> HIDE DEF next
    <3>1. Reaches([next EXCEPT !.configured = done])
      BY <1>2, <2>3
    <3> QED BY <2>2, <3>1
  <2> QED BY <2>4 DEF Reaches, From
<1> QED BY <1>3, <1>4

(* What is known stays known.                                              *)
LEMMA KnownGrows ==
  ASSUME TreeTyped, NothingRemoved
  PROVE  /\ ServedIfs \subseteq ServedIfs' /\ KnownEndpoints \subseteq KnownEndpoints'
         /\ \A a : KnownAddress(a) => KnownAddress(a)'
         /\ \A e : KnownOrNone(e) => KnownOrNone(e)'
<1>1. ServedIfs \subseteq 1 .. Len(objs) /\ DOMAIN objs = 1 .. Len(objs)
  BY InterfacesTyped, ObjectsTyped, PlansAssumption DEF ServedIfs
<1>2. ServedIfs \subseteq ServedIfs'
  BY PlansAssumption DEF NothingRemoved, ServedIfs
<1>3. \A o \in ServedIfs : ToSet(objs[o].endpoints) \subseteq ToSet(objs'[o].endpoints)
  BY <1>1 DEF NothingRemoved, ToSet
<1>4. KnownEndpoints \subseteq KnownEndpoints'
  BY <1>2, <1>3 DEF KnownEndpoints
<1> QED BY <1>2, <1>4 DEF KnownAddress, KnownOrNone

LEMMA InitKnow == Init => (Undisturbed => KnowInv)
<1> SUFFICES ASSUME Init, Undisturbed PROVE KnowInv
  OBVIOUS
<1>1. /\ driver = [d \in Drivers |-> Detached] /\ used = {} /\ app = [p \in Apps |-> Frame(plan.calls[p])]
  BY DEF Init
<1>2. DriversKnow
  BY <1>1 DEF DriversKnow, Detached, KnownOrNone
<1>3. ASSUME NEW p \in Apps PROVE CallKnows(p)
  <2>1. app[p].calls = plan.calls[p] /\ app[p].at = "ready"
    BY <1>1 DEF Frame
  <2> QED BY <2>1 DEF CallKnows, FrameKnows, ToServed, Undisturbed, AttachedToServed
<1> QED BY <1>1, <1>2, <1>3 DEF KnowInv

(* The calls a goroutine has left after its first.                         *)
LEMMA TailToServed ==
  ASSUME NEW calls \in Seq(Calls), calls # <<>>, ToServed(calls)
  PROVE  ToServed(Tail(calls))
<1> DEFINE n == Len(calls)
           t == Tail(calls)
<1>1. /\ n \in Nat \ {0} /\ DOMAIN calls = 1 .. n /\ t \in Seq(Calls) /\ Len(t) = n - 1
      /\ \A i \in 1 .. n - 1 : t[i] = calls[i + 1]
  BY HeadTailProperties, LenProperties, EmptySeq
<1>2. DOMAIN t = 1 .. n - 1
  BY <1>1, LenProperties
<1> HIDE DEF t, n
<1>3. \A i \in 1 .. n - 1 : i + 1 \in 1 .. n
  BY <1>1
<1> QED BY <1>1, <1>2, <1>3 DEF ToServed, t

(* The drivers keep their endpoints in all steps but Init and Close.       *)
KeepsEndpoints(d) ==
  driver'[d].in = driver[d].in /\ driver'[d].out = driver[d].out /\ driver'[d].notify = driver[d].notify

LEMMA EndpointsKept ==
  ASSUME TypeInv, NEW p \in Apps, AppActions(p), ~CloseOld(p), ~InitNew(p)
  PROVE  \A d \in Drivers : KeepsEndpoints(d)
<1>1. DOMAIN driver = Drivers /\ \A d \in Drivers : DOMAIN driver[d] = DOMAIN Detached
  BY DEF TypeInv, DriverTyped
<1>2. CASE SetStack(p)
  <2>1. Call(p).driver \in Drivers
    BY <1>2, CallTyped, CallFields DEF SetStack, Calling, TypeInv
  <2>2. driver' = [driver EXCEPT ![Call(p).driver].stack = TRUE]
    BY <1>2 DEF SetStack
  <2> QED BY <1>1, <2>1, <2>2 DEF KeepsEndpoints, Detached
<1>3. CASE ~SetStack(p)
  <2>1. driver' = driver
    BY <1>3 DEF AppActions, Resolve, Swap, Searches, InitBegins, InitReads, Lock, Write, RemoveInterface,
              Drop, CloseDevice,
       CloseConfiguration, CloseInterface, ConfigurationClosed, DeviceClosed, ChangeEndpoints, Start, Prepare,
       Transfer, driverVars
  <2> QED BY <1>1, <2>1 DEF KeepsEndpoints
<1> QED BY <1>2, <1>3

LEMMA DriversKnowNext ==
  ASSUME TypeInv, HoldInv, KnowInv, NEW p \in Apps, AppActions(p), NothingRemoved
  PROVE  DriversKnow'
<1>1. /\ DOMAIN driver = Drivers /\ \A d \in Drivers : DOMAIN driver[d] = DOMAIN Detached
      /\ TreeTyped /\ DriversKnow /\ CallKnows(p)
  BY DEF TypeInv, DriverTyped, KnowInv
<1>2. \A e : KnownOrNone(e) => KnownOrNone(e)'
  BY <1>1, KnownGrows
<1> DEFINE Fits(st) == KnownOrNone(st.in) /\ KnownOrNone(st.out) /\ KnownOrNone(st.notify)
<1>4. ASSUME \A d \in Drivers : Fits(driver'[d]) PROVE DriversKnow'
  <2>1. ASSUME NEW d \in Drivers, NEW st, st = driver'[d], Fits(st)
        PROVE  (KnownOrNone(driver[d].in) /\ KnownOrNone(driver[d].out) /\ KnownOrNone(driver[d].notify))'
    <3>1. KnownOrNone(st.in)' /\ KnownOrNone(st.out)' /\ KnownOrNone(st.notify)'
      BY <1>2, <2>1
    <3> QED BY <2>1, <3>1 DEF KnownOrNone
  <2> QED BY <1>4, <2>1 DEF DriversKnow
<1>5. \A d \in Drivers : Fits(driver[d])
  BY <1>1 DEF DriversKnow
<1>6. CASE CloseOld(p)
  <2>1. driver' = [driver EXCEPT ![app[p].old] = CloseDriver(driver[app[p].old])]
    BY <1>6 DEF CloseOld
  <2>2. \A st : Fits(CloseDriver(st))
    BY DEF CloseDriver, Detached, KnownOrNone
  <2>3. \A d \in Drivers : driver'[d] = driver[d] \/ driver'[d] = CloseDriver(driver[app[p].old])
    BY <1>1, <2>1
  <2> HIDE DEF Fits
  <2>4. \A d \in Drivers : Fits(driver'[d])
    BY <1>5, <2>2, <2>3
  <2> QED BY <1>4, <2>4
<1>7. CASE InitNew(p)
  <2> DEFINE c == Call(p).driver
             o == Head(app[p].todo)
             eps == app[p].read
             st == InitDriver(c, o, eps)
  <2>1. c \in Drivers /\ driver' = [driver EXCEPT ![c] = st] /\ eps \in Seq(EndpointType)
    BY <1>7, InitNewOK DEF InitNew
  <2>2. ToSet(eps) \subseteq KnownEndpoints
    BY <1>1, <1>7 DEF InitNew, Calling, CallKnows, FrameKnows
  <2>5. /\ st.in \in ToSet(eps) \union {driver[c].in}
        /\ st.out \in ToSet(eps) \union {driver[c].out}
        /\ st.notify \in ToSet(eps) \union {driver[c].notify}
    <3> HIDE DEF c, o, eps
    <3> QED BY <1>1, <2>1, InitDriverReaches
  <2>6. Fits(driver[c])
    BY <1>5, <2>1
  <2> HIDE DEF st, c, o, eps
  <2>7. Fits(st)
    BY <2>2, <2>5, <2>6 DEF KnownOrNone
  <2> HIDE DEF Fits
  <2>8. \A d \in Drivers : driver'[d] = driver[d] \/ driver'[d] = st
    BY <1>1, <2>1
  <2>9. \A d \in Drivers : Fits(driver'[d])
    BY <1>5, <2>7, <2>8
  <2> QED BY <1>4, <2>9
<1>8. CASE ~CloseOld(p) /\ ~InitNew(p)
  <2>1. \A d \in Drivers : KeepsEndpoints(d)
    BY <1>8, EndpointsKept
  <2>2. \A d \in Drivers : Fits(driver'[d])
    BY <1>5, <2>1 DEF KeepsEndpoints
  <2> QED BY <1>4, <2>2
<1> QED BY <1>6, <1>7, <1>8

-----------------------------------------------------------------------------
(* What a goroutine is about to touch, from step to step.                  *)
LEMMA BackKnows ==
  ASSUME AppTyped, NEW p \in Apps, CallKnows(p), app[p].calls # <<>>, Back(p)
  PROVE  FrameKnows(app'[p])
<1> DEFINE f == app'[p]
<1>1. app[p].calls \in Seq(Calls) /\ ToServed(app[p].calls)
  BY DEF AppTyped, FrameOK, CallKnows, FrameKnows
<1>2. ToServed(Tail(app[p].calls))
  BY <1>1, TailToServed
<1>3. f.calls = Tail(app[p].calls) /\ f.at = "ready"
  BY DEF Back, Frame
<1> HIDE DEF f
<1>4. FrameKnows(f)
  BY <1>2, <1>3 DEF FrameKnows
<1> QED BY <1>4 DEF f

LEMMA OnwardKnows ==
  ASSUME NEW p \in Apps, CallKnows(p), app[p].calls # <<>>, Onward(p), app'[p].at # "io",
         app'[p].at = "search" => ToSet(app'[p].read) \subseteq KnownEndpoints,
         Call(p).op = "attach" => ToSet(app'[p].todo) \subseteq ServedIfs
  PROVE  FrameKnows(app'[p])
<1> DEFINE f == app'[p]
<1>1. ToServed(f.calls) /\ Head(f.calls) = Call(p)
  BY DEF Onward, CallKnows, FrameKnows, Call
<1>2. /\ f.at # "io"
      /\ f.at = "search" => ToSet(f.read) \subseteq KnownEndpoints
      /\ Call(p).op = "attach" => ToSet(f.todo) \subseteq ServedIfs
  OBVIOUS
<1> HIDE DEF f
<1>3. FrameKnows(f)
  BY <1>1, <1>2 DEF FrameKnows
<1> QED BY <1>3 DEF f

LEMMA OnlyMore ==
  ASSUME NEW S, NEW s \in Seq(S), NEW x
  PROVE  ToSet(Append(s, x)) \subseteq ToSet(s) \union {x}
<1> DEFINE n == Len(s)
           t == Append(s, x)
<1>1. n \in Nat /\ DOMAIN s = 1 .. n /\ DOMAIN t = 1 .. n + 1 /\ t[n + 1] = x /\ \A i \in 1 .. n : t[i] = s[i]
  <2>1. s \in Seq(S \union {x}) /\ x \in S \union {x}
    BY SeqMonotonic
  <2> QED BY <2>1, AppendProperties, LenProperties
<1> HIDE DEF t, n
<1>2. \A i \in 1 .. n + 1 : i \in 1 .. n \/ i = n + 1
  BY <1>1
<1> QED BY <1>1, <1>2 DEF ToSet, t

(* Init reads endpoints of an interface that is served.                    *)
LEMMA SearchKnows ==
  ASSUME TypeInv, NEW p \in Apps, CallKnows(p), Searches(p)
  PROVE  FrameKnows(app'[p])
<1> DEFINE todo == app[p].todo
           read == app[p].read
           o    == Head(todo)
           eps  == objs[o].endpoints
           n    == Len(read) + 1
<1>1. /\ app[p].calls # <<>> /\ Onward(p) /\ app'[p].todo = todo /\ app'[p].at \in {"search", "panicked"}
      /\ todo # <<>> /\ o \in 1 .. Len(objs) /\ app[p].at # "ready" /\ Call(p).op = "attach"
      /\ todo \in Seq(1 .. Len(objs))
  BY SearchOK DEF TypeInv, AppTyped, FrameOK
<1>2. ToSet(todo) \subseteq ServedIfs
  BY <1>1 DEF CallKnows, FrameKnows, Call
<1>3. o \in ServedIfs
  <2>1. 1 \in DOMAIN todo /\ o = todo[1]
    BY <1>1, HeadTailProperties, LenProperties, EmptySeq
  <2> QED BY <1>2, <2>1 DEF ToSet
<1>4. ToSet(eps) \subseteq KnownEndpoints
  BY <1>3 DEF KnownEndpoints
<1>5. Len(eps) \in Nat /\ DOMAIN eps = 1 .. Len(eps)
  BY <1>1, ObjectsTyped, LenProperties DEF TypeInv
<1>6. ASSUME app'[p].at # "panicked" PROVE ToSet(app'[p].read) \subseteq KnownEndpoints
  <2>1. CASE app'[p].read = <<>>
    <3>1. ToSet(<<>>) = {}
      BY DEF ToSet
    <3> QED BY <2>1, <3>1
  <2>2. CASE app'[p].read # <<>>
    <3>1. /\ app[p].at = "search" /\ read \in Seq(EndpointType) /\ n \in Nat \ {0} /\ n <= Len(eps)
          /\ app'[p].read = Append(read, eps[n])
      <4>1. SearchStep(p, o, eps, n)
        BY <1>6, SearchReads
      <4> HIDE DEF eps, n
      <4> QED BY <2>2, <4>1 DEF SearchStep
    <3>2. ToSet(read) \subseteq KnownEndpoints
      BY <3>1 DEF CallKnows, FrameKnows
    <3> HIDE DEF read, eps, n
    <3>3. eps[n] \in ToSet(eps)
      <4>1. n \in DOMAIN eps
        BY <1>5, <3>1
      <4> QED BY <4>1 DEF ToSet
    <3>4. ToSet(Append(read, eps[n])) \subseteq ToSet(read) \union {eps[n]}
      BY <3>1, OnlyMore
    <3> QED BY <1>4, <3>1, <3>2, <3>3, <3>4
  <2> QED BY <2>1, <2>2
<1> QED BY <1>1, <1>2, <1>6, OnwardKnows

(* The call is for an interface of the configuration the host selects.     *)
LEMMA NamedServed ==
  ASSUME TypeInv, NEW p \in Apps, CallKnows(p), app[p].calls # <<>>, Call(p).op = "attach",
         0 \notin ToSet(Named(Call(p)))
  PROVE  ToSet(Named(Call(p))) \subseteq ServedIfs
<1> DEFINE c == Call(p)
<1>1. TreeTyped /\ app[p].calls \in Seq(Calls) /\ ToServed(app[p].calls) /\ c.numbers \in Numbers
  BY CallTyped, CallFields DEF TypeInv, AppTyped, FrameOK, CallKnows, FrameKnows
<1>2. 1 \in DOMAIN app[p].calls /\ c = app[p].calls[1]
  BY <1>1, HeadTailProperties, LenProperties, EmptySeq DEF Call
<1>3. c.value = Served
  BY <1>1, <1>2 DEF ToServed
<1> HIDE DEF c
<1>4. GetConfiguration(Served)
  BY <1>1, <1>3, NamedTyped DEF c
<1>5. Named(c) = [k \in DOMAIN c.numbers |-> GetInterface(Served, c.numbers[k])]
  BY <1>3, <1>4 DEF Named
<1>6. ASSUME NEW k \in DOMAIN c.numbers PROVE GetInterface(Served, c.numbers[k]) \in ServedIfs
  <2>1. GetInterface(Served, c.numbers[k]) # 0
    BY <1>5 DEF ToSet, c
  <2>2. Served \in Values
    BY PlansAssumption
  <2> QED BY <1>1, <2>1, <2>2, GetInterfaceTyped DEF ServedIfs
<1> QED BY <1>5, <1>6 DEF ToSet, c

LEMMA TailSubset ==
  ASSUME NEW S, NEW s \in Seq(S), s # <<>>
  PROVE  ToSet(Tail(s)) \subseteq ToSet(s)
<1> DEFINE n == Len(s)
           t == Tail(s)
<1>1. n \in Nat \ {0} /\ DOMAIN s = 1 .. n /\ t \in Seq(S) /\ Len(t) = n - 1 /\ \A i \in 1 .. n - 1 : t[i] = s[i + 1]
  BY HeadTailProperties, LenProperties, EmptySeq
<1>2. DOMAIN t = 1 .. n - 1
  BY <1>1, LenProperties
<1> HIDE DEF t, n
<1>3. \A i \in 1 .. n - 1 : i + 1 \in 1 .. n
  BY <1>1
<1> QED BY <1>1, <1>2, <1>3 DEF ToSet, t

LEMMA AttachingKnows ==
  ASSUME TypeInv, NEW p \in Apps, CallKnows(p), Resolve(p) \/ Swap(p) \/ CloseOld(p) \/ InitNew(p)
  PROVE  FrameKnows(app'[p])
<1>1. AppTyped /\ app[p].calls # <<>> /\ DOMAIN app = Apps /\ DOMAIN app[p] = DOMAIN Frame(<<>>)
  BY DEF TypeInv, AppTyped, FrameOK, Resolve, Swap, CloseOld, InitNew, Calling
<1>2. app[p].at # "ready" /\ Call(p).op = "attach" => ToSet(app[p].todo) \subseteq ServedIfs
  BY <1>1 DEF CallKnows, FrameKnows, Call
<1>3. CASE Back(p)
  BY <1>1, <1>3, BackKnows
<1>4. CASE Resolve(p) /\ ~Back(p)
  <2>1. Onward(p) /\ app'[p].at = "swap"
    BY <1>4, ResolveOK
  <2>2. 0 \notin ToSet(Named(Call(p))) /\ app'[p].todo = Named(Call(p))
    <3>1. ~Returns(p)
      BY <1>1, <1>4, BackOK DEF Returns, Back
    <3> QED BY <1>1, <1>4, <3>1 DEF Resolve, Frame
  <2> QED BY <1>1, <2>1, <2>2, NamedServed, OnwardKnows
<1>5. CASE Swap(p) /\ ~Back(p)
  <2>1. Onward(p) /\ app'[p].todo = app[p].todo /\ app'[p].at \in {"init", "close"} /\ app[p].at = "swap"
    BY <1>5, SwapOK DEF Swap, Calling
  <2> QED BY <1>1, <1>2, <2>1, OnwardKnows
<1>6. CASE CloseOld(p) /\ ~Back(p)
  <2>1. /\ Onward(p) /\ app'[p].todo = app[p].todo
        /\ app'[p].at \in {"init", "dropping", "emptying"} /\ app[p].at = "close"
    BY <1>6, CloseOldOK DEF CloseOld, Calling
  <2> QED BY <1>1, <1>2, <2>1, OnwardKnows
<1>7. CASE InitNew(p) /\ ~Back(p)
  <2>1. Onward(p) /\ app'[p].at = "swap" /\ app[p].at = "search" /\ app[p].todo # <<>>
        /\ app[p].todo \in Seq(1 .. Len(objs)) /\ Call(p).op = "attach"
    BY <1>1, <1>7, InitNewOK DEF InitNew, Calling, AppTyped, FrameOK
  <2>2. app'[p].todo = Tail(app[p].todo)
    <3>1. ~Returns(p)
      BY <1>1, <1>7 DEF Returns, Back
    <3> QED BY <1>1, <1>7, <3>1 DEF InitNew, Frame
  <2>3. ToSet(Tail(app[p].todo)) \subseteq ToSet(app[p].todo)
    BY <2>1, TailSubset
  <2> QED BY <1>1, <1>2, <2>1, <2>2, <2>3, OnwardKnows
<1> QED BY <1>3, <1>4, <1>5, <1>6, <1>7

LEMMA PrepareKnows ==
  ASSUME TypeInv, DriversKnow, NEW p \in Apps, CallKnows(p), Prepare(p), ~Back(p)
  PROVE  FrameKnows(app'[p])
<1> DEFINE c == Call(p)
           e == EndpointFor(c.driver, c.op)
           f == app'[p]
<1>1. /\ app[p].calls # <<>> /\ DOMAIN app = Apps /\ DOMAIN app[p] = DOMAIN Frame(<<>>)
      /\ c.op \in Uses /\ c.driver \in Drivers /\ ToServed(app[p].calls)
  BY CallTyped, CallFields DEF Prepare, Calling, TypeInv, AppTyped, FrameOK, CallKnows, FrameKnows
<1>2. ~Returns(p)
  BY <1>1 DEF Returns, Back
<1>3. Usable(c.driver, c.op) /\ app' = [app EXCEPT ![p].at = "io", ![p].endpoint = e.address]
  BY <1>2 DEF Prepare
<1>4. f.at = "io" /\ f.endpoint = e.address /\ f.calls = app[p].calls
  BY <1>1, <1>3 DEF Frame
<1>5. e # NoEndpoint
  BY <1>3 DEF Usable
<1>6. e \in KnownEndpoints
  <2> DEFINE d == c.driver
  <2>1. KnownOrNone(driver[d].in) /\ KnownOrNone(driver[d].out) /\ KnownOrNone(driver[d].notify)
    BY <1>1 DEF DriversKnow
  <2>2. e = driver[d].in \/ e = driver[d].out \/ e = driver[d].notify
    BY <1>1 DEF EndpointFor, Uses
  <2> HIDE DEF e, d
  <2> QED BY <1>5, <2>1, <2>2 DEF KnownOrNone
<1> HIDE DEF e, f
<1>7. KnownAddress(f.endpoint)
  BY <1>4, <1>6 DEF KnownAddress
<1>8. Head(f.calls).op # "attach"
  BY <1>1, <1>4 DEF Call, Uses
<1>9. FrameKnows(f)
  BY <1>1, <1>4, <1>7, <1>8 DEF FrameKnows
<1> QED BY <1>9 DEF f

LEMMA ItsCallKnows ==
  ASSUME TypeInv, HoldInv, KnowInv, NEW p \in Apps, AppActions(p)
  PROVE  FrameKnows(app'[p])
<1>1. CallKnows(p) /\ DriversKnow /\ AppTyped
  BY DEF KnowInv, TypeInv
<1>2. CASE Resolve(p) \/ Swap(p) \/ CloseOld(p) \/ InitNew(p)
  BY <1>1, <1>2, AttachingKnows
<1>3. CASE RemoveInterface(p) \/ CloseInterface(p)
  <2>1. app[p].calls # <<>> /\ Call(p).op # "attach"
    BY <1>3 DEF RemoveInterface, CloseInterface, Calling
  <2>2. Back(p) \/ (Onward(p) /\ app'[p].at \notin {"io", "search"})
    BY <1>3, RemoveInterfaceOK, CloseInterfaceOK
  <2> QED BY <1>1, <2>1, <2>2, BackKnows, OnwardKnows
<1>4. CASE \/ Lock(p) \/ CloseDevice(p) \/ CloseConfiguration(p) \/ ConfigurationClosed(p)
           \/ Write(p) \/ Drop(p) \/ DeviceClosed(p)
           \/ ChangeEndpoints(p) \/ SetStack(p) \/ Start(p) \/ Prepare(p) \/ Transfer(p)
  <2>1. app[p].calls # <<>>
    BY <1>4, PlainOK
  <2>2. CASE Back(p)
    BY <1>1, <2>1, <2>2, BackKnows
  <2>3. CASE Prepare(p) /\ ~Back(p)
    BY <1>1, <2>3, PrepareKnows
  <2>4. CASE ~Prepare(p) /\ ~Back(p)
    <3>1. /\ Lock(p) \/ CloseDevice(p) \/ ConfigurationClosed(p) \/ CloseConfiguration(p)
          /\ Onward(p) /\ app'[p].at \notin {"io", "search"}
      BY <1>4, <2>4, PlainOK
    <3>2. Call(p).op # "attach"
      BY <3>1 DEF Lock, CloseDevice, ConfigurationClosed, CloseConfiguration, Calling, Writers
    <3> QED BY <1>1, <2>1, <3>1, <3>2, OnwardKnows
  <2> QED BY <2>2, <2>3, <2>4
<1>5. CASE Searches(p)
  BY <1>1, <1>5, SearchKnows
<1> QED BY <1>2, <1>3, <1>4, <1>5 DEF AppActions

LEMMA FramesGrow ==
  ASSUME TreeTyped, NothingRemoved
  PROVE  \A f : FrameKnows(f) => FrameKnows(f)'
<1>1. ServedIfs \subseteq ServedIfs' /\ KnownEndpoints \subseteq KnownEndpoints' /\ \A a : KnownAddress(a) => KnownAddress(a)'
  BY KnownGrows
<1>2. ASSUME NEW f, FrameKnows(f) PROVE FrameKnows(f)'
  <2>1. KnownAddress(f.endpoint) => KnownAddress(f.endpoint)'
    BY <1>1
  <2> QED BY <1>1, <1>2, <2>1 DEF FrameKnows, ToServed
<1> QED BY <1>2

LEMMA UsedOnly ==
  ASSUME NEW p \in Apps, AppActions(p)
  PROVE  /\ isConfigured' = isConfigured
         /\ used' = used \/ (app[p].at = "io" /\ isConfigured /\ used' = used \union {app[p].endpoint})
<1>1. CASE ~Transfer(p)
  BY <1>1 DEF AppActions, Resolve, Swap, CloseOld, Searches, InitBegins, InitReads, InitNew, Lock, Write,
            RemoveInterface, Drop, CloseDevice,
     CloseConfiguration, CloseInterface, ConfigurationClosed, DeviceClosed, ChangeEndpoints, SetStack, Start,
     Prepare, busVars
<1>2. CASE Transfer(p)
  BY <1>2 DEF Transfer, Calling, busVars
<1> QED BY <1>1, <1>2

LEMMA AppKnows ==
  ASSUME TypeInv, HoldInv, KnowInv, NEW p \in Apps, AppActions(p), NothingRemoved
  PROVE  KnowInv'
<1>1. TreeTyped /\ \A a : KnownAddress(a) => KnownAddress(a)'
  BY KnownGrows DEF TypeInv
<1>2. DriversKnow'
  BY DriversKnowNext
<1>3. ASSUME NEW q \in Apps PROVE CallKnows(q)'
  <2>1. FrameKnows(app'[q])
    <3>1. CASE q = p
      BY <3>1, ItsCallKnows
    <3>2. CASE q # p
      <4>1. app'[q] = app[q]
        BY <3>2, OnlyItsCall DEF TypeInv
      <4> QED BY <4>1 DEF KnowInv, CallKnows
    <3> QED BY <3>1, <3>2
  <2>2. ASSUME NEW f, f = app'[q] PROVE FrameKnows(f)'
    BY <1>1, <2>1, <2>2, FramesGrow
  <2>3. ASSUME NEW f, f = app'[q] PROVE FrameKnows(app[q])'
    BY <2>2, <2>3 DEF FrameKnows
  <2> QED BY <2>3 DEF CallKnows
<1>4. ASSUME NEW a \in used' PROVE KnownAddress(a)'
  <2>1. KnownAddress(a)
    BY <1>4, UsedOnly DEF KnowInv, CallKnows, FrameKnows
  <2> QED BY <1>1, <2>1
<1>5. (used # {} => isConfigured)'
  BY UsedOnly DEF KnowInv
<1> QED BY <1>2, <1>3, <1>4, <1>5 DEF KnowInv

(* The other steps leave the goroutines as they are.                       *)
LEMMA OthersKnow ==
  ASSUME TypeInv, KnowInv, NothingRemoved, \A d \in Drivers : KeepsEndpoints(d),
         UNCHANGED <<app, used>>, isConfigured => isConfigured'
  PROVE  KnowInv'
<1>1. /\ \A a : KnownAddress(a) => KnownAddress(a)'
      /\ \A e : KnownOrNone(e) => KnownOrNone(e)'
      /\ \A f : FrameKnows(f) => FrameKnows(f)'
  BY KnownGrows, FramesGrow DEF TypeInv
<1>2. DriversKnow'
  <2>1. ASSUME NEW d \in Drivers, NEW in, in = driver[d].in, NEW out, out = driver[d].out,
               NEW notify, notify = driver[d].notify
        PROVE  (KnownOrNone(driver[d].in) /\ KnownOrNone(driver[d].out) /\ KnownOrNone(driver[d].notify))'
    <3>1. KnownOrNone(in)' /\ KnownOrNone(out)' /\ KnownOrNone(notify)'
      BY <1>1, <2>1 DEF KnowInv, DriversKnow
    <3>2. driver'[d].in = in /\ driver'[d].out = out /\ driver'[d].notify = notify
      BY <2>1 DEF KeepsEndpoints
    <3> QED BY <3>1, <3>2 DEF KnownOrNone
  <2> QED BY <2>1 DEF DriversKnow
<1>3. ASSUME NEW q \in Apps PROVE CallKnows(q)'
  <2>1. ASSUME NEW f, f = app[q] PROVE FrameKnows(f)'
    BY <1>1, <2>1 DEF KnowInv, CallKnows
  <2>2. ASSUME NEW f, f = app[q] PROVE FrameKnows(app[q])'
    BY <2>1, <2>2 DEF FrameKnows
  <2> QED BY <2>2 DEF CallKnows
<1>4. ASSUME NEW a \in used' PROVE KnownAddress(a)'
  BY <1>1, <1>4 DEF KnowInv
<1>5. (used # {} => isConfigured)'
  BY DEF KnowInv
<1> QED BY <1>2, <1>3, <1>4, <1>5 DEF KnowInv

LEMMA LoopEndpoints ==
  ASSUME TypeInv, LoopStep
  PROVE  /\ \A d \in Drivers : KeepsEndpoints(d)
         /\ UNCHANGED <<objs, tree, app, used>> /\ (isConfigured => isConfigured')
<1>1. DOMAIN driver = Drivers /\ \A d \in Drivers : DOMAIN driver[d] = DOMAIN Detached
  BY DEF TypeInv, DriverTyped
<1>2. UNCHANGED <<objs, tree, app, used>>
  BY DEF LoopStep, treeVars
<1>3. isConfigured => isConfigured'
  BY LoopFrame DEF LoopActions, ReadSetup, Lookup, Enter, Header, WriteInterface, TakeEndpoints,
     WriteEndpoint, Leave, Reply, SetConfiguration, Find, Reach, Handle
<1>4. CASE Handle
  <2> DEFINE t == loop.target
             st == AfterRequest(driver[t], request.name, request.setting)
  <2>1. t \in Drivers
    BY <1>4 DEF Handle, TypeInv, LoopTyped
  <2>2. driver' = [driver EXCEPT ![t] = st] \/ driver' = driver
    BY <1>4 DEF Handle
  <2>3. st = driver[t] \/ st = [driver[t] EXCEPT !.setting = request.setting]
    BY DEF AfterRequest
  <2> HIDE DEF st, t
  <2>4. st.in = driver[t].in /\ st.out = driver[t].out /\ st.notify = driver[t].notify
    BY <1>1, <2>1, <2>3 DEF Detached
  <2> QED BY <1>1, <1>2, <1>3, <2>1, <2>2, <2>4 DEF KeepsEndpoints
<1>5. CASE ~Handle
  <2>1. driver' = driver
    BY <1>5, LoopFrame DEF LoopActions, ReadSetup, Lookup, Enter, Header, WriteInterface, TakeEndpoints,
       WriteEndpoint, Leave, Reply, SetConfiguration, Find, Reach
  <2> QED BY <1>2, <1>3, <2>1 DEF KeepsEndpoints
<1> QED BY <1>4, <1>5

LEMMA NothingIsRemoved ==
  ASSUME TypeInv, UNCHANGED <<objs, tree>> \/ Build
  PROVE  NothingRemoved
<1>1. CASE UNCHANGED <<objs, tree>>
  BY <1>1 DEF NothingRemoved
<1>2. CASE Build
  <2>1. objs = <<>> /\ Len(objs) = 0 /\ TreeTyped
    BY <1>2, EmptySeq DEF TypeInv, BuildTyped, Build
  <2>2. ASSUME NEW v \in Values PROVE ToSet(tree[v].interfaces) = {}
    <3>1. tree[v].interfaces \in Seq(1 .. 0) /\ ToSet(tree[v].interfaces) \subseteq 1 .. 0
      BY <2>1, InterfacesTyped
    <3> QED BY <3>1
  <2>3. DOMAIN objs = {}
    BY <2>1
  <2> QED BY <2>2, <2>3 DEF NothingRemoved
<1> QED BY <1>1, <1>2

LEMMA KnowNext == AssemblyInv /\ (Undisturbed => KnowInv) /\ [Next]_vars => (Undisturbed => KnowInv)'
<1> SUFFICES ASSUME AssemblyInv, Undisturbed => KnowInv, [Next]_vars, Undisturbed' PROVE KnowInv'
  OBVIOUS
<1>0. TypeInv /\ HoldInv
  BY DEF AssemblyInv
<1>1. CASE BuilderStep \/ Build
  <2>1. /\ UNCHANGED <<plan, app, driver, used, changed, removed, isConfigured>>
        /\ UNCHANGED <<objs, tree>> \/ Build
    BY <1>1 DEF BuilderStep, Build, treeVars, driverVars, busVars
  <2>2. KnowInv /\ NothingRemoved
    BY <1>0, <2>1, NothingIsRemoved DEF Undisturbed, AttachedToServed
  <2> QED BY <1>0, <2>1, <2>2, OthersKnow DEF KeepsEndpoints
<1>2. CASE LoopStep
  <2>1. UNCHANGED <<plan, changed, removed>>
    BY <1>2 DEF LoopStep
  <2>2. KnowInv /\ NothingRemoved
    BY <1>0, <1>2, <2>1, LoopEndpoints, NothingIsRemoved DEF Undisturbed, AttachedToServed
  <2> QED BY <1>0, <1>2, <2>2, LoopEndpoints, OthersKnow
<1>3. CASE HostStep \/ UNCHANGED vars
  <2>1. UNCHANGED <<plan, app, driver, used, changed, removed, isConfigured, objs, tree>>
    BY <1>3 DEF HostStep, vars, treeVars, driverVars, busVars
  <2>2. KnowInv /\ NothingRemoved
    BY <1>0, <2>1, NothingIsRemoved DEF Undisturbed, AttachedToServed
  <2> QED BY <1>0, <2>1, <2>2, OthersKnow DEF KeepsEndpoints
<1>4. ASSUME NEW p \in Apps, AppStep(p) PROVE KnowInv'
  <2>1. /\ AppActions(p) /\ UNCHANGED plan
        /\ changed' = (changed \/ (onBus /\ <<objs, tree>>' # <<objs, tree>>))
        /\ removed' = (removed \/ ~NothingRemoved)
    BY <1>4, AppCases DEF AppStep
  <2>2. ~changed /\ ~removed /\ NothingRemoved
    BY <2>1 DEF Undisturbed
  <2>3. AttachedToServed
    BY <2>1 DEF Undisturbed, AttachedToServed
  <2> QED BY <1>0, <2>1, <2>2, <2>3, AppKnows DEF Undisturbed
<1> QED BY <1>1, <1>2, <1>3, <1>4 DEF Next

LEMMA Knowing == Spec => [](Undisturbed => KnowInv)
<1>1. Init => (Undisturbed => KnowInv)
  BY InitKnow
<1>2. AssemblyInv /\ (Undisturbed => KnowInv) /\ [Next]_vars => (Undisturbed => KnowInv)'
  BY KnowNext
<1> QED BY <1>1, <1>2, Always, PTL DEF Spec

(* An endpoint of the tree is an endpoint the tree is served with.         *)
LEMMA KnownIsServed ==
  ASSUME TreeTyped, NEW a, KnownAddress(a)
  PROVE  \E k \in DOMAIN TreeOf(Served).endpoints : TreeOf(Served).endpoints[k].address = a
<1> DEFINE ifs == tree[Served].interfaces
<1>1. PICK o \in ServedIfs : \E e \in ToSet(objs[o].endpoints) : e.address = a
  BY DEF KnownAddress, KnownEndpoints
<1>2. PICK e \in ToSet(objs[o].endpoints) : e.address = a
  BY <1>1
<1>3. PICK k \in 1 .. Known : ifs[k] = o
  BY TreeViews DEF ServedIfs, ToSet
<1> DEFINE eps == objs[o].endpoints
           its == EpItems[k]
<1>4. eps \in Seq(EndpointType) /\ EpItems \in Seq(Seq(ItemType)) /\ Len(EpItems) = Known
      /\ its = EndpointItems(o)
  BY <1>3, TreeViews
<1>5. PICK j \in DOMAIN eps : eps[j] = e
  BY <1>2 DEF ToSet
<1>6. its = [i \in DOMAIN eps |-> EndpointItem(eps[i])]
  BY <1>4 DEF EndpointItems
<1>7. its \in Seq(ItemType) /\ k \in 1 .. Len(EpItems)
  BY <1>3, <1>4, ElementOfSeq
<1> HIDE DEF its, eps
<1>8. j \in 1 .. Len(its)
  BY <1>5, <1>6, <1>7, LenProperties
<1>9. its[j].address = a
  BY <1>2, <1>5, <1>6 DEF EndpointItem
<1>10. \E i \in DOMAIN Joined(EpItems) : Joined(EpItems)[i] = its[j]
  BY <1>4, <1>7, <1>8, JoinedContains DEF its
<1>11. TreeOf(Served).endpoints = Joined(EpItems)
  BY TreeViews DEF TreeOf, EpItems, Known
<1> QED BY <1>9, <1>10, <1>11

(* Data moves on endpoints the host knows of, when every driver is         *)
(* attached to the configuration the host selects and nothing is taken     *)
(* away: Init of a driver (cdc/acm.go, hid/hid.go) finds its endpoints in  *)
(* the interface it is given, Close forgets them, and Stack.Read and Write *)
(* ask whether the device is configured, which the host has seen to only   *)
(* after it read the tree.                                                 *)
THEOREM TransfersGoToKnownEndpoints == Spec => []TransfersAreKnown
<1>1. AssemblyInv /\ ServeInv /\ (Undisturbed => KnowInv) => TransfersAreKnown
  <2> SUFFICES ASSUME TypeInv, ServeInv, KnowInv, Undisturbed, NEW a \in used
               PROVE  \E k \in DOMAIN host.tree.endpoints : host.tree.endpoints[k].address = a
    BY DEF TransfersAreKnown, Undisturbed, AssemblyInv
  <2>1. KnownAddress(a) /\ isConfigured
    BY DEF KnowInv
  <2>2. host.tree = TreeOf(Served)
    BY <2>1 DEF ServeInv, ReadInv, Undisturbed
  <2> QED BY <2>1, <2>2, KnownIsServed DEF TypeInv
<1> QED BY <1>1, Always, Serves, Knowing, PTL

-----------------------------------------------------------------------------
(* A driver that is attached to interfaces that have what it needs: what   *)
(* it has not taken yet, the interfaces it still has to visit have.        *)
Has(o, kind, in) == OfKind(objs[o].endpoints, kind, in) # {}
HasData(o) == objs[o].class = "cdc data" /\ Has(o, "bulk", TRUE) /\ Has(o, "bulk", FALSE)
TookData(st) == st.data # 0 /\ st.in # NoEndpoint /\ st.out # NoEndpoint

Reaching(d, S) ==
  /\ d \in Hids => \A o \in S : Has(o, "interrupt", TRUE)
  /\ d \in Serials => /\ driver[d].control # 0 \/ \E o \in S : objs[o].class = "cdc"
                      /\ TookData(driver[d]) \/ \E o \in S : HasData(o)
ClearOf(d, S) == \A o \in S : classDriver[o] # d

(* While Init searches an interface, what it counts on is among the        *)
(* endpoints that were there when it began.                                *)
Within(o, n, kind, in) ==
  \E k \in 1 .. n : objs[o].endpoints[k].kind = kind /\ IsIn(objs[o].endpoints[k]) = in
DataWithin(o, n) == objs[o].class = "cdc data" /\ Within(o, n, "bulk", TRUE) /\ Within(o, n, "bulk", FALSE)
ReadSoFar(o, n, read) ==
  n <= Len(objs[o].endpoints) /\ Len(read) <= n /\ \A k \in 1 .. Len(read) : read[k] = objs[o].endpoints[k]
Searching(d, o, n, rest) ==
  /\ d \in Hids => Within(o, n, "interrupt", TRUE) /\ \A i \in rest : Has(i, "interrupt", TRUE)
  /\ d \in Serials =>
       /\ driver[d].control # 0 \/ objs[o].class = "cdc" \/ \E i \in rest : objs[i].class = "cdc"
       /\ TookData(driver[d]) \/ DataWithin(o, n) \/ \E i \in rest : HasData(i)

FrameReaches(f) ==
  LET d == Head(f.calls).driver
  IN /\ IsInjective(f.todo)
     /\ f.at # "search" => Reaching(d, ToSet(f.todo))
     /\ f.at = "search" => /\ ReadSoFar(Head(f.todo), f.slice, f.read)
                           /\ Searching(d, Head(f.todo), f.slice, ToSet(Tail(f.todo)))
     /\ f.at = "swap" => ClearOf(d, ToSet(f.todo))
     /\ f.at # "swap" => ClearOf(d, ToSet(Tail(f.todo)))
     /\ f.at = "close" => f.old # d
Attaching(f) ==
  f.clean /\ f.calls # <<>> /\ Head(f.calls).op = "attach" /\ f.at \in {"swap", "close", "init", "search"}
Attaches(p) == Attaching(app[p]) => FrameReaches(app[p])
AttachInv   == ~tangled /\ ~removed => \A p \in Apps : Attaches(p)

(* Having an endpoint of a kind outlasts what only adds endpoints.         *)
LEMMA HasIs ==
  \A eps, kind, in :
    OfKind(eps, kind, in) # {} <=> \E e \in ToSet(eps) : e.kind = kind /\ IsIn(e) = in
  BY DEF OfKind, ToSet

LEMMA ReachingStays ==
  ASSUME TreeTyped, ClassesKept, NothingRemoved, NEW d \in Drivers, KeepsDriver(d), KeepsEndpoints(d),
         NEW S \in SUBSET (1 .. Len(objs)), Reaching(d, S)
  PROVE  Reaching(d, S)'
<1>1. ASSUME NEW o \in S, NEW kind, NEW in, Has(o, kind, in) PROVE Has(o, kind, in)'
  <2>1. ToSet(objs[o].endpoints) \subseteq ToSet(objs'[o].endpoints)
    BY ObjectsTyped DEF NothingRemoved, ToSet
  <2>2. \E e \in ToSet(objs'[o].endpoints) : e.kind = kind /\ IsIn(e) = in
    BY <1>1, <2>1, HasIs DEF Has
  <2> QED BY <2>2, HasIs DEF Has
<1>2. \A o \in S : objs'[o].class = objs[o].class
  BY DEF ClassesKept
<1>3. \A o \in S : HasData(o) => HasData(o)'
  BY <1>1, <1>2 DEF HasData
<1>4. TookData(driver[d]) => TookData(driver'[d])
  BY DEF TookData, KeepsDriver, KeepsEndpoints
<1>5. driver'[d].control = driver[d].control
  BY DEF KeepsDriver
<1>6. d \in Hids => (\A o \in S : Has(o, "interrupt", TRUE))'
  BY <1>1 DEF Reaching
<1>7. d \in Serials => (driver[d].control # 0 \/ \E o \in S : objs[o].class = "cdc")'
  BY <1>2, <1>5 DEF Reaching
<1>8. d \in Serials => (TookData(driver[d]) \/ \E o \in S : HasData(o))'
  BY <1>3, <1>4 DEF Reaching, TookData
<1> QED BY <1>6, <1>7, <1>8 DEF Reaching

LEMMA SearchingStays ==
  ASSUME TreeTyped, ClassesKept, NothingRemoved, NEW d \in Drivers, KeepsDriver(d), KeepsEndpoints(d),
         NEW o \in 1 .. Len(objs), NEW S \in SUBSET (1 .. Len(objs)), NEW n \in Nat,
         NEW read \in Seq(EndpointType), ReadSoFar(o, n, read), Searching(d, o, n, S), TreeTyped', Len(objs) <= Len(objs')
  PROVE  ReadSoFar(o, n, read)' /\ Searching(d, o, n, S)'
<1> DEFINE eps  == objs[o].endpoints
           then == objs'[o].endpoints
<1>1. /\ Len(objs) \in Nat /\ Len(objs') \in Nat /\ DOMAIN objs = 1 .. Len(objs) /\ o \in 1 .. Len(objs')
      /\ DOMAIN eps = 1 .. Len(eps) /\ Len(eps) \in Nat /\ DOMAIN then = 1 .. Len(then) /\ Len(then) \in Nat
      /\ n <= Len(eps) /\ Len(read) \in Nat /\ Len(read) <= n /\ \A k \in 1 .. Len(read) : read[k] = eps[k]
  <2>1. Len(objs) \in Nat /\ Len(objs') \in Nat /\ DOMAIN objs = 1 .. Len(objs) /\ eps \in Seq(EndpointType)
    BY ObjectsTyped DEF TreeTyped
  <2>2. o \in 1 .. Len(objs')
    BY <2>1
  <2>3. objs' \in Seq(ObjectType)
    BY DEF TreeTyped
  <2>4. objs'[o] \in ObjectType
    BY <2>2, <2>3, ElementOfSeq
  <2>5. then \in Seq(EndpointType)
    BY <2>4 DEF ObjectType
  <2> HIDE DEF eps, then
  <2>6. Len(read) \in Nat
    BY LenProperties
  <2>7. /\ DOMAIN eps = 1 .. Len(eps) /\ Len(eps) \in Nat /\ DOMAIN then = 1 .. Len(then) /\ Len(then) \in Nat
    BY <2>1, <2>5, LenProperties
  <2>8. n <= Len(eps) /\ Len(read) <= n /\ \A k \in 1 .. Len(read) : read[k] = eps[k]
    BY DEF ReadSoFar, eps
  <2> QED BY <2>1, <2>2, <2>6, <2>7, <2>8
<1>2. \A k \in 1 .. Len(eps) : k \in 1 .. Len(then) /\ then[k] = eps[k]
  BY <1>1 DEF NothingRemoved
<1>3. objs'[o].class = objs[o].class /\ \A i \in S : objs'[i].class = objs[i].class
  BY DEF ClassesKept
<1> HIDE DEF eps, then
<1>4. Len(eps) <= Len(then)
  <2>1. Len(eps) = 0 \/ Len(eps) \in 1 .. Len(eps)
    BY <1>1
  <2> QED BY <1>1, <1>2, <2>1
<1>5. ReadSoFar(o, n, read)'
  <2>1. n <= Len(then)
    BY <1>1, <1>4
  <2>2. ASSUME NEW k \in 1 .. Len(read) PROVE read[k] = then[k]
    BY <1>1, <1>2
  <2> QED BY <1>1, <2>1, <2>2 DEF ReadSoFar, then
<1>6. ASSUME NEW kind, NEW in, Within(o, n, kind, in) PROVE Within(o, n, kind, in)'
  <2>1. PICK k \in 1 .. n : eps[k].kind = kind /\ IsIn(eps[k]) = in
    BY <1>6 DEF Within, eps
  <2>2. then[k] = eps[k]
    BY <1>1, <1>2
  <2>3. then[k].kind = kind /\ IsIn(then[k]) = in
    BY <2>1, <2>2
  <2> QED BY <2>3 DEF Within, then
<1>7. ASSUME NEW i \in S, NEW kind, NEW in, Has(i, kind, in) PROVE Has(i, kind, in)'
  <2>1. ToSet(objs[i].endpoints) \subseteq ToSet(objs'[i].endpoints)
    BY ObjectsTyped DEF NothingRemoved, ToSet
  <2>2. \E e \in ToSet(objs'[i].endpoints) : e.kind = kind /\ IsIn(e) = in
    BY <1>7, <2>1, HasIs DEF Has
  <2> QED BY <2>2, HasIs DEF Has
<1>8. DataWithin(o, n) => DataWithin(o, n)'
  BY <1>3, <1>6 DEF DataWithin
<1>9. \A i \in S : HasData(i) => HasData(i)'
  BY <1>3, <1>7 DEF HasData
<1>10. TookData(driver[d]) => TookData(driver'[d])
  BY DEF TookData, KeepsDriver, KeepsEndpoints
<1>11. driver'[d].control = driver[d].control
  BY DEF KeepsDriver
<1>12. d \in Hids => (Within(o, n, "interrupt", TRUE) /\ \A i \in S : Has(i, "interrupt", TRUE))'
  BY <1>6, <1>7 DEF Searching
<1>13. d \in Serials => (driver[d].control # 0 \/ objs[o].class = "cdc" \/ \E i \in S : objs[i].class = "cdc")'
  BY <1>3, <1>11 DEF Searching
<1>14. d \in Serials => (TookData(driver[d]) \/ DataWithin(o, n) \/ \E i \in S : HasData(i))'
  BY <1>8, <1>9, <1>10 DEF Searching, TookData
<1>15. Searching(d, o, n, S)'
  BY <1>12, <1>13, <1>14 DEF Searching
<1> QED BY <1>5, <1>15

(* What Init takes.                                                        *)
LEMMA LastTaken ==
  ASSUME NEW eps \in Seq(EndpointType), NEW kind \in {"bulk", "interrupt"}, NEW in, NEW default
  PROVE  /\ OfKind(eps, kind, in) # {} => LastOr(eps, OfKind(eps, kind, in), default) # NoEndpoint
         /\ default # NoEndpoint => LastOr(eps, OfKind(eps, kind, in), default) # NoEndpoint
<1> DEFINE ks == OfKind(eps, kind, in)
           n  == Len(eps)
<1>1. n \in Nat /\ DOMAIN eps = 1 .. n /\ ks \in SUBSET DOMAIN eps
  BY LenProperties DEF OfKind
<1>2. \A k \in ks : eps[k].kind = kind
  BY DEF OfKind
<1> HIDE DEF ks, n
<1>3. CASE ks = {}
  BY <1>3 DEF LastOr, ks
<1>4. CASE ks # {}
  <2>1. Max(ks) \in ks
    BY <1>1, <1>4, Extremes
  <2>2. eps[Max(ks)].kind # NoEndpoint.kind
    BY <1>2, <2>1 DEF NoEndpoint
  <2>3. eps[Max(ks)] # NoEndpoint
    BY <2>2
  <2> QED BY <1>4, <2>3 DEF LastOr, ks
<1> QED BY <1>3, <1>4

GivesData(o, eps) ==
  objs[o].class = "cdc data" /\ OfKind(eps, "bulk", TRUE) # {} /\ OfKind(eps, "bulk", FALSE) # {}

LEMMA InitGains ==
  ASSUME NEW d \in Drivers, DOMAIN driver[d] = DOMAIN Detached,
         NEW o \in Nat \ {0}, NEW eps \in Seq(EndpointType)
  PROVE  /\ d \in Hids => /\ d \notin Serials
                          /\ OfKind(eps, "interrupt", TRUE) # {} => InitDriver(d, o, eps).configured /\ ~InitFails(d, o, eps)
         /\ d \in Serials =>
              /\ ~InitFails(d, o, eps)
              /\ driver[d].control # 0 \/ objs[o].class = "cdc" => InitDriver(d, o, eps).control # 0
              /\ TookData(driver[d]) \/ GivesData(o, eps) => TookData(InitDriver(d, o, eps))
              /\ InitDriver(d, o, eps).control # 0 /\ TookData(InitDriver(d, o, eps)) => InitDriver(d, o, eps).configured
<1> DEFINE st  == driver[d]
<1>1. CASE d \in Serials
  <2> DEFINE first == FirstOr(eps, OfKind(eps, "interrupt", TRUE), st.notify)
             in    == LastOr(eps, OfKind(eps, "bulk", TRUE), st.in)
             out   == LastOr(eps, OfKind(eps, "bulk", FALSE), st.out)
             next  == CASE objs[o].class = "cdc"      -> TakeControl(st, o, eps)
                        [] objs[o].class = "cdc data" -> TakeData(st, o, eps)
                        [] OTHER                      -> st
             done  == next.configured \/ Complete(next)
  <2>1. TakeControl(st, o, eps) = [st EXCEPT !.control = o, !.notify = first]
    BY DEF TakeControl
  <2>2. TakeData(st, o, eps) = [st EXCEPT !.data = o, !.in = in, !.out = out]
    BY DEF TakeData
  <2>3. InitDriver(d, o, eps) = [next EXCEPT !.configured = done]
    BY <1>1 DEF InitDriver, InitACM
  <2>4. /\ OfKind(eps, "bulk", TRUE) # {} => in # NoEndpoint
        /\ OfKind(eps, "bulk", FALSE) # {} => out # NoEndpoint
        /\ st.in # NoEndpoint => in # NoEndpoint
        /\ st.out # NoEndpoint => out # NoEndpoint
    BY LastTaken
  <2>5. d \notin Hids /\ ~InitFails(d, o, eps)
    BY <1>1, DriversAssumption DEF InitFails
  <2>6. CASE objs[o].class = "cdc"
    <3>1. next = TakeControl(st, o, eps)
      BY <2>6
    <3> HIDE DEF next, first, in, out
    <3>2. DOMAIN next = DOMAIN Detached /\ next.control = o /\ next.data = st.data /\ next.in = st.in /\ next.out = st.out
      BY <2>1, <3>1 DEF Detached
    <3> QED BY <2>3, <2>5, <2>6, <3>2 DEF Detached, TookData, GivesData, Complete
  <2>7. CASE objs[o].class = "cdc data"
    <3>1. next = TakeData(st, o, eps)
      BY <2>7
    <3> HIDE DEF next, first, in, out
    <3>2. DOMAIN next = DOMAIN Detached /\ next.control = st.control /\ next.data = o /\ next.in = in /\ next.out = out
      BY <2>2, <3>1 DEF Detached
    <3> QED BY <2>3, <2>4, <2>5, <2>7, <3>2 DEF Detached, TookData, GivesData, Complete
  <2>8. CASE objs[o].class \notin {"cdc", "cdc data"}
    <3>1. next = st
      BY <2>8
    <3> HIDE DEF next
    <3> QED BY <2>3, <2>5, <2>8, <3>1 DEF Detached, TookData, GivesData, Complete
  <2> QED BY <2>6, <2>7, <2>8
<1>2. CASE d \in Hids
  <2> DEFINE in   == LastOr(eps, OfKind(eps, "interrupt", TRUE), st.in)
             out  == LastOr(eps, OfKind(eps, "interrupt", FALSE), st.out)
             next == [st EXCEPT !.data = o, !.in = in, !.out = out]
             done == next.configured \/ next.in # NoEndpoint
  <2>1. d \notin Serials
    BY <1>2, DriversAssumption
  <2>2. InitDriver(d, o, eps) = [next EXCEPT !.configured = done] /\ InitHID(st, o, eps) = [next EXCEPT !.configured = done]
    BY <2>1 DEF InitDriver, InitHID
  <2>3. OfKind(eps, "interrupt", TRUE) # {} => in # NoEndpoint
    BY LastTaken
  <2> HIDE DEF in, out
  <2>4. DOMAIN next = DOMAIN Detached /\ next.in = in
    BY DEF Detached
  <2> HIDE DEF next
  <2>5. /\ InitDriver(d, o, eps).configured = done /\ InitHID(st, o, eps).in = in
    BY <2>2, <2>4 DEF Detached
  <2> QED BY <2>1, <2>3, <2>4, <2>5 DEF InitFails
<1> QED BY <1>1, <1>2 DEF Drivers

(* The steps of the call that attaches.                                    *)
LEMMA TailApart ==
  ASSUME NEW S, NEW s \in Seq(S), s # <<>>, IsInjective(s)
  PROVE  /\ Head(s) \in ToSet(s) /\ Head(s) \notin ToSet(Tail(s)) /\ IsInjective(Tail(s))
         /\ ToSet(s) = {Head(s)} \union ToSet(Tail(s)) /\ ToSet(Tail(s)) \subseteq S
         /\ Len(s) = 1 => ToSet(Tail(s)) = {}
<1> DEFINE n == Len(s)
           t == Tail(s)
<1>1. /\ n \in Nat \ {0} /\ DOMAIN s = 1 .. n /\ t \in Seq(S) /\ Len(t) = n - 1
      /\ \A i \in 1 .. n - 1 : t[i] = s[i + 1]
  BY HeadTailProperties, LenProperties, EmptySeq
<1>2. Head(s) = s[1] /\ DOMAIN t = 1 .. n - 1 /\ \A i \in 1 .. n - 1 : t[i] \in S
  BY <1>1, HeadTailProperties, LenProperties, ElementOfSeq
<1>3. \A i, j \in 1 .. n : s[i] = s[j] => i = j
  BY <1>1 DEF IsInjective
<1> HIDE DEF t, n
<1>4. \A i \in 1 .. n - 1 : i + 1 \in 1 .. n /\ i + 1 # 1
  BY <1>1
<1>5. 1 \in 1 .. n /\ \A i \in 1 .. n : i = 1 \/ (i - 1 \in 1 .. n - 1 /\ (i - 1) + 1 = i)
  BY <1>1
<1>6. Head(s) \in ToSet(s) /\ Head(s) \notin ToSet(t)
  <2>1. \A i \in 1 .. n - 1 : t[i] # s[1]
    BY <1>1, <1>3, <1>4, <1>5
  <2> QED BY <1>1, <1>2, <1>5, <2>1 DEF ToSet
<1>7. IsInjective(t)
  <2> SUFFICES ASSUME NEW i \in 1 .. n - 1, NEW j \in 1 .. n - 1, t[i] = t[j] PROVE i = j
    BY <1>2 DEF IsInjective
  <2>1. i + 1 = j + 1
    BY <1>1, <1>3, <1>4
  <2> QED BY <1>1, <2>1
<1>8. ToSet(s) = {Head(s)} \union ToSet(t)
  <2>1. ASSUME NEW i \in 1 .. n PROVE s[i] = s[1] \/ \E j \in 1 .. n - 1 : s[i] = t[j]
    <3>1. CASE i = 1
      BY <3>1
    <3>2. CASE i # 1
      <4>1. i - 1 \in 1 .. n - 1 /\ s[i] = t[i - 1]
        BY <1>1, <1>5, <3>2
      <4> QED BY <4>1
    <3> QED BY <3>1, <3>2
  <2>2. \A j \in 1 .. n - 1 : t[j] \in ToSet(s)
    BY <1>1, <1>4 DEF ToSet
  <2>3. ToSet(s) = {s[i] : i \in 1 .. n} /\ ToSet(t) = {t[j] : j \in 1 .. n - 1}
    BY <1>1, <1>2 DEF ToSet
  <2>4. ASSUME NEW x \in ToSet(s) PROVE x = Head(s) \/ x \in ToSet(t)
    BY <1>2, <2>1, <2>3
  <2>5. ToSet(t) \subseteq ToSet(s)
    BY <2>2, <2>3
  <2> QED BY <1>6, <2>4, <2>5
<1>9. n = 1 => ToSet(t) = {}
  BY <1>2 DEF ToSet
<1> QED BY <1>2, <1>6, <1>7, <1>8, <1>9 DEF t, n, ToSet

(* The search begins with what the interfaces have, and ends with it.      *)
LEMMA SearchBegins ==
  ASSUME TreeTyped, NEW d \in Drivers, NEW todo \in Seq(1 .. Len(objs)), todo # <<>>, IsInjective(todo),
         Reaching(d, ToSet(todo)), NEW o, o = Head(todo), NEW rest, rest = ToSet(Tail(todo)),
         NEW n, n = IF Ranges(d, o) THEN Len(objs[o].endpoints) ELSE 0
  PROVE  ReadSoFar(o, n, <<>>) /\ Searching(d, o, n, rest)
<1> DEFINE eps == objs[o].endpoints
<1>1. o \in 1 .. Len(objs) /\ ToSet(todo) = {o} \union rest
  BY TailApart, HeadTailProperties
<1>2. eps \in Seq(EndpointType) /\ Len(eps) \in Nat /\ DOMAIN eps = 1 .. Len(eps)
  BY <1>1, ObjectsTyped, LenProperties
<1>3. ASSUME Ranges(d, o), NEW kind, NEW in, Has(o, kind, in) PROVE Within(o, n, kind, in)
  <2>1. PICK k \in DOMAIN eps : eps[k].kind = kind /\ IsIn(eps[k]) = in
    BY <1>3 DEF Has, OfKind
  <2>2. n = Len(eps) /\ k \in 1 .. n
    BY <1>2, <1>3
  <2> QED BY <2>1, <2>2 DEF Within
<1>4. ReadSoFar(o, n, <<>>)
  <2>1. Len(<<>>) = 0 /\ \A k \in 1 .. 0 : FALSE
    BY EmptySeq
  <2>2. n \in Nat /\ n <= Len(eps)
    BY <1>2
  <2> HIDE DEF eps
  <2> QED BY <2>1, <2>2 DEF ReadSoFar, eps
<1>5. d \in Hids => Ranges(d, o)
  BY DEF Ranges
<1>6. HasData(o) => DataWithin(o, n)
  BY <1>3 DEF HasData, DataWithin, Ranges
<1> HIDE DEF eps
<1>7. d \in Hids => Within(o, n, "interrupt", TRUE) /\ \A i \in rest : Has(i, "interrupt", TRUE)
  BY <1>1, <1>3, <1>5 DEF Reaching
<1>8. d \in Serials => driver[d].control # 0 \/ objs[o].class = "cdc" \/ \E i \in rest : objs[i].class = "cdc"
  BY <1>1 DEF Reaching
<1>9. d \in Serials => TookData(driver[d]) \/ DataWithin(o, n) \/ \E i \in rest : HasData(i)
  BY <1>1, <1>6 DEF Reaching
<1>10. Searching(d, o, n, rest)
  BY <1>7, <1>8, <1>9 DEF Searching
<1> QED BY <1>4, <1>10

LEMMA SearchEnds ==
  ASSUME NEW d \in Drivers, NEW o, NEW n \in Nat, NEW read \in Seq(EndpointType), ReadSoFar(o, n, read),
         Len(read) = n \/ Breaks(d, o, read)
  PROVE  /\ d \in Hids /\ Within(o, n, "interrupt", TRUE) => OfKind(read, "interrupt", TRUE) # {}
         /\ d \in Serials /\ DataWithin(o, n) => GivesData(o, read)
<1>1. DOMAIN read = 1 .. Len(read) /\ \A k \in 1 .. Len(read) : read[k] = objs[o].endpoints[k]
  BY LenProperties DEF ReadSoFar
<1>2. ASSUME Len(read) = n, NEW kind, NEW in, Within(o, n, kind, in) PROVE OfKind(read, kind, in) # {}
  <2>1. PICK k \in 1 .. n : objs[o].endpoints[k].kind = kind /\ IsIn(objs[o].endpoints[k]) = in
    BY <1>2 DEF Within
  <2>2. k \in DOMAIN read /\ read[k].kind = kind /\ IsIn(read[k]) = in
    BY <1>1, <1>2, <2>1
  <2> QED BY <2>2 DEF OfKind
<1>3. d \in Hids => Len(read) = n
  BY DriversAssumption DEF Breaks
<1>4. objs[o].class = "cdc data" => Len(read) = n
  BY DEF Breaks
<1> QED BY <1>2, <1>3, <1>4 DEF DataWithin, GivesData

(* An attaching call is one of Lifecycle.                                  *)
LEMMA AttachingIs ==
  ASSUME TypeInv, NEW p \in Apps, Attaching(app[p])
  PROVE  /\ Calling(p, {"attach"}, app[p].at) /\ InLifecycle(p) /\ Call(p) = Head(app[p].calls)
         /\ Call(p).driver \in Drivers /\ Call(p).driver # Nobody
         /\ app[p].todo # <<>> /\ app[p].todo \in Seq(1 .. Len(objs))
         /\ ToSet(app[p].todo) \in SUBSET (1 .. Len(objs))
<1>1. Calling(p, {"attach"}, app[p].at) /\ InLifecycle(p) /\ Call(p) = Head(app[p].calls) /\ app[p].calls # <<>>
      /\ Call(p).op = "attach"
  BY DEF Attaching, Calling, InLifecycle, Call, Lifecycle
<1>2. Call(p).driver \in Drivers
  BY <1>1, CallTyped, CallFields DEF TypeInv
<1>3. Call(p).driver # Nobody
  BY <1>2, DriversAssumption
<1>4. app[p].todo # <<>> /\ app[p].todo \in Seq(1 .. Len(objs))
  BY <1>1 DEF TypeInv, AppTyped, FrameOK, Attaching
<1>5. ToSet(app[p].todo) \in SUBSET (1 .. Len(objs))
  BY <1>4, LenProperties, ElementOfSeq DEF ToSet
<1> QED BY <1>1, <1>2, <1>3, <1>4, <1>5

LEMMA AttachingGoes ==
  ASSUME TypeInv, HoldInv, NEW p \in Apps, AppActions(p), Attaching(app'[p])
  PROVE  \/ Resolve(p) /\ ~Back(p)
         \/ Attaching(app[p]) /\ (Swap(p) \/ CloseOld(p) \/ Searches(p) \/ InitNew(p)) /\ ~Back(p)
<1>1. app'[p].clean /\ app'[p].at # "ready" /\ app'[p].at \in {"swap", "close", "init", "search"} /\ Head(app'[p].calls).op = "attach"
      /\ app'[p].calls # <<>>
  BY DEF Attaching
<1>2. ~Back(p)
  BY <1>1 DEF Back, Frame
<1>3. Resolve(p) \/ Swap(p) \/ CloseOld(p) \/ Searches(p) \/ InitNew(p)
  <2>1. CASE RemoveInterface(p)
    <3>1. Call(p).op = "removeInterface" /\ Onward(p)
      BY <1>2, <2>1, RemoveInterfaceOK DEF RemoveInterface, Calling
    <3> QED BY <1>1, <3>1 DEF Onward, Call
  <2>2. CASE CloseInterface(p)
    <3>1. Call(p).op = "close" /\ Onward(p)
      BY <2>2, CloseInterfaceOK DEF CloseInterface, Calling
    <3> QED BY <1>1, <3>1 DEF Onward, Call
  <2>3. CASE \/ Lock(p) \/ CloseDevice(p) \/ CloseConfiguration(p) \/ ConfigurationClosed(p)
             \/ Write(p) \/ Drop(p) \/ DeviceClosed(p)
             \/ ChangeEndpoints(p) \/ SetStack(p) \/ Start(p) \/ Prepare(p) \/ Transfer(p)
    BY <1>1, <1>2, <2>3, PlainOK
  <2> QED BY <2>1, <2>2, <2>3 DEF AppActions
<1>4. CASE Swap(p) \/ CloseOld(p) \/ InitNew(p)
  <2>1. app[p].calls # <<>> /\ app[p].at \in {"swap", "close", "init", "search"} /\ DOMAIN app = Apps
        /\ DOMAIN app[p] = DOMAIN Frame(<<>>)
    BY <1>4 DEF Swap, CloseOld, InitNew, Calling, TypeInv, AppTyped, FrameOK
  <2>2. Onward(p)
    BY <1>2, <1>4, SwapOK, CloseOldOK, InitNewOK
  <2>3. app'[p].clean => app[p].clean
    <3>1. ~Returns(p)
      BY <1>2, <2>1 DEF Returns, Back
    <3> QED BY <1>4, <2>1, <3>1 DEF Swap, CloseOld, InitNew, Goes, Frame
  <2>4. Attaching(app[p])
    BY <1>1, <2>1, <2>2, <2>3 DEF Attaching, Onward
  <2> QED BY <1>2, <1>4, <2>4
<1>5. CASE Searches(p)
  <2>1. app[p].calls # <<>> /\ Onward(p) /\ app'[p].clean = app[p].clean /\ app[p].at \in {"init", "search"}
    BY <1>5, SearchOK
  <2>2. Attaching(app[p])
    BY <1>1, <2>1 DEF Attaching, Onward
  <2> QED BY <1>2, <1>5, <2>2
<1> QED BY <1>2, <1>3, <1>4, <1>5

LEMMA Settles ==
  ASSUME NEW p \in Apps, NEW f, f = app'[p], FrameReaches(f)'
  PROVE  Attaches(p)'
BY DEF Attaches, FrameReaches, Reaching, ClearOf, Has, HasData, ReadSoFar, Searching, Within, DataWithin,
          TookData

LEMMA ResolveReaches ==
  ASSUME TypeInv, NEW p \in Apps, Resolve(p), ~Back(p), NEW f, f = app'[p], Attaching(f),
         NEW os, os = Named(Call(p)), NEW d, d = Call(p).driver
  PROVE  FrameReaches(f)'
<1> DEFINE took == d # Nobody /\ Attached(d) = {} /\ WellFormed(d, os)
<1>1. /\ app[p].calls # <<>> /\ DOMAIN app = Apps /\ DOMAIN app[p] = DOMAIN Frame(<<>>)
      /\ UNCHANGED <<objs, driver, classDriver>> /\ Call(p).numbers \in Numbers
  BY CallTyped, CallFields DEF TypeInv, AppTyped, FrameOK, Resolve, Calling, treeVars, driverVars
<1>2. ~Returns(p)
  BY <1>1 DEF Returns, Back
<1>3. /\ 0 \notin ToSet(os)
      /\ app' = [app EXCEPT ![p].at = "swap", ![p].todo = os, ![p].clean = took]
  BY <1>2 DEF Resolve
<1>4. os \in Seq(1 .. Len(objs))
  BY <1>1, <1>3, NamedTyped DEF TypeInv
<1>5. f.calls # <<>> /\ f.clean
  BY DEF Attaching
<1>6. Call(p) = Head(app[p].calls)
  BY DEF Call
<1> HIDE DEF took
<1>7. f.todo = os /\ f.at = "swap" /\ f.calls = app[p].calls /\ f.clean = took
  BY <1>1, <1>3 DEF Frame
<1>8. Head(f.calls).driver = d /\ took
  BY <1>5, <1>6, <1>7
<1>9. Attached(d) = {} /\ WellFormed(d, os)
  BY <1>8 DEF took
<1>10. ToSet(os) \subseteq 1 .. Len(objs)
  BY <1>4, LenProperties, ElementOfSeq DEF ToSet
<1>11. ClearOf(d, ToSet(os))'
  <2>1. DOMAIN classDriver = 1 .. Len(objs)
    BY DEF TypeInv, DriverTyped
  <2>2. \A o \in ToSet(os) : classDriver[o] # d
    BY <1>9, <1>10, <2>1 DEF Attached
  <2> QED BY <1>1, <2>2 DEF ClearOf
<1>12. IsInjective(os)
  BY <1>9 DEF WellFormed
<1>13. Reaching(d, ToSet(os))
  <2>1. d \in Serials => d \notin Hids
    BY DriversAssumption
  <2>2. d \in Hids => \A o \in ToSet(os) : Has(o, "interrupt", TRUE)
    BY <1>9 DEF WellFormed, Has
  <2>3. d \in Serials => (\E o \in ToSet(os) : objs[o].class = "cdc") /\ \E o \in ToSet(os) : HasData(o)
    BY <1>9, <2>1 DEF WellFormed, Has, HasData
  <2> QED BY <2>2, <2>3 DEF Reaching
<1>14. Reaching(d, ToSet(os))'
  BY <1>1, <1>13 DEF Reaching, Has, HasData, TookData
<1> QED BY <1>7, <1>8, <1>11, <1>12, <1>14 DEF FrameReaches

LEMMA StepReaches ==
  ASSUME NEW p \in Apps, Attaching(app[p]), FrameReaches(app[p]),
         NEW d, d = Call(p).driver, NEW todo, todo = app[p].todo,
         NEW read, read = app[p].read, NEW n, n = app[p].slice
  PROVE  /\ IsInjective(todo)
         /\ app[p].at # "search" => Reaching(d, ToSet(todo))
         /\ app[p].at = "search" => /\ ReadSoFar(Head(todo), n, read)
                                    /\ Searching(d, Head(todo), n, ToSet(Tail(todo)))
         /\ app[p].at = "swap" => ClearOf(d, ToSet(todo))
         /\ app[p].at # "swap" => ClearOf(d, ToSet(Tail(todo)))
         /\ app[p].at = "close" => app[p].old # d
  BY DEF FrameReaches, Call

LEMMA SwapReaches ==
  ASSUME TypeInv, NEW p \in Apps, Swap(p), ~Back(p), Attaching(app[p]), FrameReaches(app[p]),
         NEW f, f = app'[p], NEW d, d = Call(p).driver, NEW todo, todo = app[p].todo
  PROVE  FrameReaches(f)'
<1>1. /\ todo # <<>> /\ todo \in Seq(1 .. Len(objs)) /\ ToSet(todo) \subseteq 1 .. Len(objs) /\ d # Nobody
      /\ DOMAIN classDriver = 1 .. Len(objs)
  BY AttachingIs DEF TypeInv, DriverTyped
<1>2. /\ IsInjective(todo) /\ Reaching(d, ToSet(todo)) /\ ClearOf(d, ToSet(todo))
  BY StepReaches DEF Swap, Calling
<1>3. /\ UNCHANGED <<objs, driver>> /\ classDriver' = [classDriver EXCEPT ![Head(todo)] = d]
  BY DEF Swap, treeVars
<1>4. /\ f.calls = app[p].calls /\ f.todo = todo /\ f.old = classDriver[Head(todo)] /\ f.at \in {"init", "close"}
  BY SwapOK DEF Onward
<1>5. Head(f.calls).driver = d
  BY <1>4 DEF Call
<1>6. Head(todo) \in ToSet(todo) /\ Head(todo) \notin ToSet(Tail(todo)) /\ ToSet(Tail(todo)) \subseteq 1 .. Len(objs)
      /\ ToSet(Tail(todo)) \subseteq ToSet(todo)
  BY <1>1, <1>2, TailApart
<1>7. f.old # d
  BY <1>2, <1>4, <1>6 DEF ClearOf
<1>8. ClearOf(d, ToSet(Tail(todo)))'
  <2>1. ASSUME NEW o \in ToSet(Tail(todo)) PROVE classDriver'[o] # d
    <3>1. classDriver'[o] = classDriver[o]
      BY <1>1, <1>3, <1>6
    <3> QED BY <1>2, <1>6, <3>1 DEF ClearOf
  <2> QED BY <2>1 DEF ClearOf
<1>9. Reaching(d, ToSet(todo))'
  BY <1>2, <1>3 DEF Reaching, Has, HasData, TookData
<1> QED BY <1>2, <1>4, <1>5, <1>7, <1>8, <1>9 DEF FrameReaches

LEMMA CloseOldReaches ==
  ASSUME TypeInv, NEW p \in Apps, CloseOld(p), ~Back(p), Attaching(app[p]), FrameReaches(app[p]),
         NEW f, f = app'[p], NEW d, d = Call(p).driver, NEW todo, todo = app[p].todo
  PROVE  FrameReaches(f)'
<1>1. d \in Drivers /\ DOMAIN driver = Drivers /\ Call(p).op = "attach"
  BY AttachingIs DEF TypeInv, DriverTyped, Calling
<1>2. /\ IsInjective(todo) /\ Reaching(d, ToSet(todo)) /\ ClearOf(d, ToSet(Tail(todo))) /\ app[p].old # d
  BY StepReaches DEF CloseOld, Calling
<1>3. /\ UNCHANGED <<objs, classDriver>> /\ driver' = [driver EXCEPT ![app[p].old] = CloseDriver(@)]
  BY DEF CloseOld, treeVars
<1>4. f.calls = app[p].calls /\ f.todo = todo /\ f.at = "init"
  BY <1>1, CloseOldOK DEF Onward
<1>5. Head(f.calls).driver = d
  BY <1>4 DEF Call
<1>6. driver'[d] = driver[d]
  BY <1>1, <1>2, <1>3
<1>7. Reaching(d, ToSet(todo))'
  BY <1>2, <1>3, <1>6 DEF Reaching, Has, HasData, TookData
<1>8. ClearOf(d, ToSet(Tail(todo)))'
  BY <1>2, <1>3 DEF ClearOf
<1> QED BY <1>2, <1>4, <1>5, <1>7, <1>8 DEF FrameReaches

LEMMA SearchReaches ==
  ASSUME TypeInv, NEW p \in Apps, Searches(p), Attaching(app[p]), Attaching(app'[p]), FrameReaches(app[p]),
         NEW f, f = app'[p], NEW d, d = Call(p).driver, NEW todo, todo = app[p].todo
  PROVE  FrameReaches(f)'
<1> DEFINE o    == Head(todo)
           rest == ToSet(Tail(todo))
           eps  == objs[o].endpoints
           read == app[p].read
           n    == app[p].slice
           k    == Len(read) + 1
<1>1. /\ todo # <<>> /\ todo \in Seq(1 .. Len(objs)) /\ d \in Drivers /\ app[p].at \in {"init", "search"}
      /\ o \in 1 .. Len(objs) /\ f.at = "search" /\ f.todo = todo /\ f.calls = app[p].calls
  BY AttachingIs, SearchOK DEF Onward, Attaching
<1>2. /\ IsInjective(todo) /\ ClearOf(d, rest)
      /\ app[p].at # "search" => Reaching(d, ToSet(todo))
      /\ app[p].at = "search" => ReadSoFar(o, n, read) /\ Searching(d, o, n, rest)
  BY <1>1, StepReaches
<1>3. UNCHANGED <<objs, driver, classDriver>>
  BY DEF Searches, InitBegins, InitReads, treeVars, driverVars
<1>4. Head(f.calls).driver = d
  BY <1>1 DEF Call
<1>5. ReadSoFar(o, f.slice, f.read) /\ Searching(d, o, f.slice, rest)
  <2>1. CASE InitBegins(p)
    <3>1. app[p].at = "init" /\ f.read = <<>>
          /\ f.slice = IF Ranges(d, o) THEN Len(eps) ELSE 0
      <4>1. DOMAIN app = Apps /\ DOMAIN app[p] = DOMAIN Frame(<<>>)
        BY DEF TypeInv, AppTyped, FrameOK
      <4> QED BY <2>1, <4>1 DEF InitBegins, Calling, Frame
    <3>2. Reaching(d, ToSet(todo)) /\ TreeTyped
      BY <1>2, <3>1 DEF TypeInv
    <3> HIDE DEF o, rest
    <3>3. ReadSoFar(o, f.slice, <<>>) /\ Searching(d, o, f.slice, rest)
      BY <1>1, <1>2, <3>1, <3>2, SearchBegins DEF o, rest
    <3> QED BY <3>1, <3>3
  <2>2. CASE ~InitBegins(p)
    <3>1. /\ app[p].at = "search" /\ f.slice = n /\ read \in Seq(EndpointType) /\ n \in Nat /\ Len(read) # n
          /\ k \in Nat \ {0} /\ k <= Len(eps) /\ f.read = Append(read, eps[k])
      <4>1. app'[p].at # "panicked"
        BY <1>1
      <4>2. SearchStep(p, o, eps, k)
        BY <4>1, SearchReads
      <4> HIDE DEF eps, k, o
      <4> QED BY <1>1, <2>2, <4>2 DEF SearchStep
    <3>2. ReadSoFar(o, n, read) /\ Searching(d, o, n, rest)
      BY <1>2, <3>1
    <3>3. eps \in Seq(EndpointType)
      BY <1>1, ObjectsTyped DEF TypeInv
    <3>4. eps[k] \in EndpointType
      <4> HIDE DEF eps, k
      <4> QED BY <3>1, <3>3, ElementOfSeq
    <3> HIDE DEF eps, read, n
    <3>5. /\ Len(f.read) = k /\ Len(read) \in Nat /\ f.read[k] = eps[k]
          /\ \A j \in 1 .. Len(read) : f.read[j] = read[j]
      BY <3>1, <3>4, AppendProperties, LenProperties
    <3>6. n <= Len(eps) /\ Len(read) <= n /\ \A j \in 1 .. Len(read) : read[j] = eps[j]
      BY <3>2 DEF ReadSoFar, eps
    <3>7. k <= n /\ \A j \in 1 .. k : f.read[j] = eps[j]
      BY <3>1, <3>5, <3>6
    <3> HIDE DEF k
    <3>8. ReadSoFar(o, n, f.read)
      BY <3>5, <3>6, <3>7 DEF ReadSoFar, eps
    <3> QED BY <3>1, <3>2, <3>8
  <2> QED BY <2>1, <2>2
<1> HIDE DEF o, rest
<1>6. (ReadSoFar(Head(todo), f.slice, f.read) /\ Searching(d, Head(todo), f.slice, ToSet(Tail(todo))))'
  BY <1>3, <1>5 DEF o, rest, ReadSoFar, Searching, Has, HasData, Within, DataWithin, TookData
<1>7. ClearOf(d, ToSet(Tail(todo)))'
  BY <1>2, <1>3 DEF ClearOf, rest
<1> QED BY <1>1, <1>2, <1>4, <1>6, <1>7 DEF FrameReaches

(* What Init of the first interface in a frame's list leaves the driver.   *)
InitGave(p, d, todo, o, rest) ==
  /\ d \in Drivers /\ ToSet(todo) = {o} \union rest /\ (Len(todo) = 1 => rest = {})
  /\ IsInjective(todo) /\ IsInjective(Tail(todo)) /\ ClearOf(d, rest)
  /\ d \in Hids => d \notin Serials /\ driver'[d].configured /\ \A i \in rest : Has(i, "interrupt", TRUE)
  /\ d \in Serials =>
       /\ driver'[d].control # 0 \/ \E i \in rest : objs[i].class = "cdc"
       /\ TookData(driver'[d]) \/ \E i \in rest : HasData(i)
       /\ driver'[d].control # 0 /\ TookData(driver'[d]) => driver'[d].configured
  /\ ~InitFails(d, o, app[p].read)

LEMMA InitGives ==
  ASSUME TypeInv, NEW p \in Apps, InitNew(p), Attaching(app[p]), FrameReaches(app[p]),
         NEW d, d = Call(p).driver, NEW todo, todo = app[p].todo, NEW o, o = Head(todo), NEW rest, rest = ToSet(Tail(todo))
  PROVE  InitGave(p, d, todo, o, rest)
<1> DEFINE read == app[p].read
           n    == app[p].slice
<1>1. /\ todo # <<>> /\ todo \in Seq(1 .. Len(objs)) /\ d \in Drivers /\ DOMAIN driver = Drivers
      /\ DOMAIN driver[d] = DOMAIN Detached
  BY AttachingIs DEF TypeInv, DriverTyped
<1>2. read \in Seq(EndpointType) /\ n \in Nat /\ app[p].at = "search"
  BY InitNewOK DEF InitNew, Calling
<1>3. IsInjective(todo) /\ ClearOf(d, rest) /\ ReadSoFar(o, n, read) /\ Searching(d, o, n, rest)
  BY <1>2, StepReaches
<1>4. IsInjective(Tail(todo)) /\ ToSet(todo) = {o} \union rest /\ (Len(todo) = 1 => rest = {})
  BY <1>1, <1>3, TailApart
<1>5. o \in 1 .. Len(objs) /\ o \in Nat \ {0}
  <2>1. o \in 1 .. Len(objs) /\ Len(objs) \in Nat
    BY <1>1, HeadTailProperties, ObjectsTyped DEF TypeInv
  <2> QED BY <2>1
<1>6. driver'[d] = InitDriver(d, o, read)
  BY <1>1 DEF InitNew
<1>7. Len(read) = n \/ Breaks(d, o, read)
  BY DEF InitNew, Searched
<1> HIDE DEF read, n
<1>8. /\ d \in Hids /\ Within(o, n, "interrupt", TRUE) => OfKind(read, "interrupt", TRUE) # {}
      /\ d \in Serials /\ DataWithin(o, n) => GivesData(o, read)
  BY <1>1, <1>2, <1>3, <1>7, SearchEnds
<1>9. /\ d \in Hids => /\ d \notin Serials
                       /\ OfKind(read, "interrupt", TRUE) # {} =>
                            InitDriver(d, o, read).configured /\ ~InitFails(d, o, read)
      /\ d \in Serials =>
           /\ ~InitFails(d, o, read)
           /\ driver[d].control # 0 \/ objs[o].class = "cdc" => InitDriver(d, o, read).control # 0
           /\ TookData(driver[d]) \/ GivesData(o, read) => TookData(InitDriver(d, o, read))
           /\ InitDriver(d, o, read).control # 0 /\ TookData(InitDriver(d, o, read)) =>
                InitDriver(d, o, read).configured
  BY <1>1, <1>2, <1>5, InitGains
<1>10. CASE d \in Hids
  <2>1. Within(o, n, "interrupt", TRUE) /\ \A i \in rest : Has(i, "interrupt", TRUE)
    BY <1>3, <1>10 DEF Searching
  <2> QED BY <1>1, <1>3, <1>4, <1>6, <1>8, <1>9, <1>10, <2>1 DEF read, InitGave
<1>11. CASE d \in Serials
  <2>1. /\ driver[d].control # 0 \/ objs[o].class = "cdc" \/ \E i \in rest : objs[i].class = "cdc"
        /\ TookData(driver[d]) \/ DataWithin(o, n) \/ \E i \in rest : HasData(i)
    BY <1>3, <1>11 DEF Searching
  <2>2. d \notin Hids
    BY <1>11, DriversAssumption
  <2> QED BY <1>1, <1>3, <1>4, <1>6, <1>8, <1>9, <1>11, <2>1, <2>2 DEF read, InitGave
<1> QED BY <1>1, <1>10, <1>11 DEF Drivers

LEMMA InitNewReaches ==
  ASSUME TypeInv, NEW p \in Apps, InitNew(p), ~Back(p), Attaching(app[p]), FrameReaches(app[p]),
         NEW f, f = app'[p], NEW d, d = Call(p).driver, NEW todo, todo = app[p].todo, NEW rest, rest = ToSet(Tail(todo))
  PROVE  FrameReaches(f)'
<1>1. app[p].calls # <<>> /\ DOMAIN app = Apps /\ DOMAIN app[p] = DOMAIN Frame(<<>>)
  BY DEF TypeInv, AppTyped, FrameOK, Attaching
<1>2. UNCHANGED <<objs, classDriver>>
  BY DEF InitNew, treeVars
<1>3. ~Returns(p)
  BY <1>1 DEF Returns, Back
<1>4. app' = [app EXCEPT ![p].at = "swap", ![p].todo = Tail(@)]
  BY <1>3 DEF InitNew
<1>5. f.calls = app[p].calls /\ f.todo = Tail(todo) /\ f.at = "swap"
  BY <1>1, <1>4 DEF Frame
<1>6. Head(f.calls).driver = d
  BY <1>5 DEF Call
<1>7. /\ d \in Drivers /\ IsInjective(Tail(todo)) /\ ClearOf(d, rest)
      /\ d \in Hids => d \notin Serials /\ \A i \in rest : Has(i, "interrupt", TRUE)
      /\ d \in Serials =>
           /\ driver'[d].control # 0 \/ \E i \in rest : objs[i].class = "cdc"
           /\ TookData(driver'[d]) \/ \E i \in rest : HasData(i)
  <2>1. InitGave(p, d, todo, Head(todo), rest)
    BY InitGives
  <2> QED BY <2>1 DEF InitGave
<1>8. Reaching(d, rest)'
  BY <1>2, <1>7 DEF Reaching, Has, HasData, TookData
<1>9. ClearOf(d, rest)'
  BY <1>2, <1>7 DEF ClearOf
<1>10. Reaching(d, ToSet(Tail(todo)))' /\ ClearOf(d, ToSet(Tail(todo)))'
  BY <1>8, <1>9 DEF Reaching, ClearOf, Has, HasData, TookData
<1> QED BY <1>5, <1>6, <1>7, <1>10 DEF FrameReaches

(* Steps of the others leave an attaching call what it has.                *)
LEMMA OthersReach ==
  ASSUME TypeInv, NEW q \in Apps, app'[q] = app[q], Attaches(q), ClassesKept, NothingRemoved,
         \A d \in Drivers : KeepsDriver(d) /\ KeepsEndpoints(d),
         \A o \in 1 .. Len(objs) : classDriver'[o] = classDriver[o],
         TreeTyped', Len(objs) <= Len(objs')
  PROVE  Attaches(q)'
<1> SUFFICES ASSUME Attaching(app[q]) PROVE Attaches(q)'
  BY DEF Attaches, Attaching
<1>1. FrameReaches(app[q])
  BY DEF Attaches
<1>2. ASSUME NEW f, f = app'[q], NEW d, d = Call(q).driver, NEW todo, todo = app[q].todo,
             NEW S, S = ToSet(todo), NEW R, R = ToSet(Tail(todo)),
             NEW o, o = Head(todo), NEW read, read = app[q].read, NEW n, n = app[q].slice
      PROVE  FrameReaches(f)'
  <2>1. /\ todo # <<>> /\ todo \in Seq(1 .. Len(objs)) /\ S \in SUBSET (1 .. Len(objs)) /\ d \in Drivers
    BY <1>2, AttachingIs
  <2>2. /\ IsInjective(todo)
        /\ app[q].at # "search" => Reaching(d, S)
        /\ app[q].at = "search" => ReadSoFar(o, n, read) /\ Searching(d, o, n, R)
        /\ app[q].at = "swap" => ClearOf(d, S)
        /\ app[q].at # "swap" => ClearOf(d, R)
        /\ app[q].at = "close" => app[q].old # d
    BY <1>1, <1>2, StepReaches
  <2>3. R \subseteq 1 .. Len(objs)
    BY <1>2, <2>1, <2>2, TailApart
  <2>4. app[q].at # "search" => Reaching(d, S)'
    BY <2>1, <2>2, ReachingStays DEF TypeInv
  <2>7. app[q].at = "search" => ReadSoFar(o, n, read)' /\ Searching(d, o, n, R)'
    <3> SUFFICES ASSUME app[q].at = "search" PROVE ReadSoFar(o, n, read)' /\ Searching(d, o, n, R)'
      OBVIOUS
    <3>1. read \in Seq(EndpointType) /\ n \in Nat
      BY <1>2 DEF TypeInv, AppTyped, FrameOK
    <3>2. o \in 1 .. Len(objs)
      BY <1>2, <2>1, HeadTailProperties
    <3> QED BY <2>1, <2>2, <2>3, <3>1, <3>2, SearchingStays DEF TypeInv
  <2>5. /\ app[q].at = "swap" => ClearOf(d, S)'
        /\ app[q].at # "swap" => ClearOf(d, R)'
    BY <2>1, <2>2, <2>3 DEF ClearOf
  <2>6. Head(f.calls).driver = d /\ f.todo = todo /\ f.at = app[q].at /\ f.old = app[q].old
        /\ f.read = read /\ f.slice = n
    BY <1>2 DEF Call
  <2>8. f.at = "search" => (ReadSoFar(Head(todo), n, read) /\ Searching(d, Head(todo), n, ToSet(Tail(todo))))'
    BY <1>2, <2>6, <2>7 DEF ReadSoFar, Searching, Has, HasData, Within, DataWithin, TookData
  <2> QED BY <1>2, <2>2, <2>4, <2>5, <2>6, <2>8 DEF FrameReaches
<1> QED BY <1>2, Settles

LEMMA AppReaches ==
  ASSUME TypeInv, HoldInv, Alone, AttachInv, ~tangled, ~removed, NothingRemoved,
         NEW p \in Apps, AppActions(p), ~tangled',
         tangled' = (tangled \/ \E q \in Apps \ {p} : InLifecycle(q) /\ InLifecycle(p)'),
         NEW q \in Apps
  PROVE  Attaches(q)'
<1>1. Attaches(p) /\ Attaches(q)
  BY DEF AttachInv
<1>2. CASE q = p
  <2> SUFFICES ASSUME Attaching(app[p])' PROVE Attaches(p)'
    BY <1>2 DEF Attaches
  <2>1. ASSUME NEW f, f = app'[p], NEW d, d = Call(p).driver, NEW todo, todo = app[p].todo, NEW os, os = Named(Call(p)),
               NEW rest, rest = ToSet(Tail(todo))
        PROVE  FrameReaches(f)'
    <3>1. Attaching(f) /\ Attaching(app'[p])
      BY <2>1 DEF Attaching
    <3>2. CASE Resolve(p) /\ ~Back(p)
      BY <2>1, <3>1, <3>2, ResolveReaches
    <3>3. CASE Attaching(app[p]) /\ (Swap(p) \/ CloseOld(p) \/ Searches(p) \/ InitNew(p)) /\ ~Back(p)
      <4>1. FrameReaches(app[p])
        BY <1>1, <3>3 DEF Attaches
      <4> QED BY <2>1, <3>1, <3>3, <4>1, SwapReaches, CloseOldReaches, SearchReaches, InitNewReaches
    <3> QED BY <3>1, <3>2, <3>3, AttachingGoes
  <2> QED BY <2>1, Settles
<1>3. CASE q # p
  <2> SUFFICES ASSUME Attaching(app[q])' PROVE Attaches(q)'
    BY DEF Attaches
  <2>1. app'[q] = app[q]
    BY <1>3, OnlyItsCall DEF TypeInv
  <2>2. Attaching(app[q])
    BY <2>1 DEF Attaching
  <2>3. ~InLifecycle(p)
    BY <1>3, <2>2, AttachingIs DEF Alone
  <2>4. ~Swap(p) /\ ~RemoveInterface(p) /\ ~CloseInterface(p) /\ ~CloseOld(p) /\ ~InitNew(p)
    BY <2>3, Stages
  <2>5. \A d \in Drivers : KeepsDriver(d) /\ KeepsEndpoints(d)
    BY <2>4, DriversKept, EndpointsKept
  <2>6. \A o \in 1 .. Len(objs) : classDriver'[o] = classDriver[o]
    <3>1. 1 .. Len(objs) \subseteq 1 .. Len(objs')
      BY TreeStep
    <3> QED BY <2>4, <3>1, ClassDriverKept
  <2>7. TreeTyped' /\ Len(objs) <= Len(objs')
    BY TreeStep
  <2> QED BY <1>1, <2>1, <2>5, <2>6, <2>7, ClassesStay, OthersReach
<1> QED BY <1>2, <1>3

LEMMA InitAttach == Init => AttachInv
<1> SUFFICES ASSUME Init PROVE AttachInv
  OBVIOUS
<1>1. \A p \in Apps : app[p].at = "ready"
  BY DEF Init, Frame
<1> QED BY <1>1 DEF AttachInv, Attaches, Attaching

LEMMA AttachNext == AssemblyInv /\ AttachInv /\ [Next]_vars => AttachInv'
<1> SUFFICES ASSUME AssemblyInv, AttachInv, [Next]_vars, ~tangled', ~removed', NEW q \in Apps PROVE Attaches(q)'
  BY DEF AttachInv
<1>0. TypeInv /\ HoldInv /\ LifeInv
  BY DEF AssemblyInv
<1>1. ASSUME UNCHANGED <<values, objs, tree, app, classDriver, tangled, removed>>,
             \A d \in Drivers : KeepsDriver(d) /\ KeepsEndpoints(d)
      PROVE  Attaches(q)'
  <2>1. Attaches(q) /\ NothingRemoved
    BY <1>0, <1>1, NothingIsRemoved DEF AttachInv
  <2>2. ClassesKept
    BY <1>1 DEF ClassesKept
  <2>3. TreeTyped' /\ Len(objs) <= Len(objs')
    <3>1. TreeTyped /\ Len(objs) \in Nat
      BY <1>0, ObjectsTyped DEF TypeInv
    <3> QED BY <1>1, <3>1 DEF TreeTyped
  <2> QED BY <1>0, <1>1, <2>1, <2>2, <2>3, OthersReach
<1>2. CASE BuilderStep \/ HostStep \/ UNCHANGED vars
  <2>1. UNCHANGED <<values, objs, tree, app, classDriver, tangled, removed, driver>>
    BY <1>2 DEF BuilderStep, HostStep, vars, treeVars, driverVars
  <2> QED BY <1>1, <2>1 DEF KeepsDriver, KeepsEndpoints
<1>3. CASE Build
  <2>1. app[q].at = "ready" /\ app' = app
    BY <1>0, <1>3 DEF TypeInv, BuildTyped, Build
  <2> QED BY <2>1 DEF Attaches, Attaching
<1>4. CASE LoopStep
  <2>1. UNCHANGED <<values, objs, tree, app, classDriver, tangled, removed>>
    BY <1>4 DEF LoopStep, treeVars
  <2> QED BY <1>0, <1>1, <1>4, <2>1, LoopDriver, LoopEndpoints
<1>5. ASSUME NEW p \in Apps, AppStep(p) PROVE Attaches(q)'
  <2>1. /\ AppActions(p) /\ removed' = (removed \/ ~NothingRemoved)
        /\ tangled' = (tangled \/ \E r \in Apps \ {p} : InLifecycle(r) /\ InLifecycle(p)')
    BY <1>5, AppCases DEF AppStep
  <2>2. ~tangled /\ ~removed /\ NothingRemoved
    BY <2>1
  <2>3. Alone
    BY <1>0, <2>2 DEF LifeInv
  <2> QED BY <1>0, <2>1, <2>2, <2>3, AppReaches
<1> QED BY <1>2, <1>3, <1>4, <1>5 DEF Next

LEMMA Attach == Spec => []AttachInv
  BY InitAttach, AttachNext, Always, PTL DEF Spec

(* The step that ends such a call is Init of the last interface.           *)
LEMMA LastInit ==
  ASSUME TypeInv, HoldInv, AttachInv, ~tangled, ~removed, NEW p \in Apps, InitNew(p), app[p].clean, app'[p].at = "ready",
         NEW d, d = Call(p).driver, NEW todo, todo = app[p].todo, NEW o, o = Head(todo), NEW rest, rest = ToSet(Tail(todo))
  PROVE  driver'[d].configured
<1>1. Attaching(app[p]) /\ app[p].at = "search"
  BY DEF InitNew, Calling, Attaching, Call
<1>2. FrameReaches(app[p])
  BY <1>1 DEF AttachInv, Attaches
<1>3. /\ d \in Drivers /\ ToSet(todo) = {o} \union rest /\ (Len(todo) = 1 => rest = {})
      /\ d \in Hids => driver'[d].configured
      /\ d \in Serials =>
           /\ driver'[d].control # 0 \/ \E i \in rest : objs[i].class = "cdc"
           /\ TookData(driver'[d]) \/ \E i \in rest : HasData(i)
           /\ driver'[d].control # 0 /\ TookData(driver'[d]) => driver'[d].configured
      /\ ~InitFails(d, o, app[p].read)
  <2>1. InitGave(p, d, todo, o, rest)
    BY <1>1, <1>2, InitGives
  <2> QED BY <2>1 DEF InitGave
<1>4. Len(todo) = 1
  <2> SUFFICES ASSUME Len(todo) # 1 PROVE FALSE
    OBVIOUS
  <2>1. DOMAIN app = Apps /\ DOMAIN app[p] = DOMAIN Frame(<<>>)
    BY DEF TypeInv, AppTyped, FrameOK
  <2>2. app' = [app EXCEPT ![p].at = "swap", ![p].todo = Tail(@)]
    BY <1>3 DEF InitNew
  <2>3. app'[p].at = "swap"
    BY <2>1, <2>2 DEF Frame
  <2> QED BY <2>3
<1>5. rest = {}
  BY <1>3, <1>4
<1> QED BY <1>3, <1>5 DEF Drivers

(* Attaching a driver to interfaces that have what it needs leaves it      *)
(* configured (Interface.SetClassDriver, ClassDriver.Init of cdc/acm.go    *)
(* and hid/hid.go): Init of one interface keeps what Init of another took, *)
(* nobody else closes the driver, and no endpoint it counts on goes away.  *)
THEOREM AttachingConfigures == Spec => AttachConfigures
<1>1. AssemblyInv /\ AttachInv /\ [Next]_vars =>
        [\A p \in Apps :
           /\ Calling(p, {"attach"}, "search") /\ app[p].clean
           /\ app'[p].at = "ready" /\ ~tangled' /\ ~removed'
           => driver'[Call(p).driver].configured]_vars
  <2> SUFFICES ASSUME AssemblyInv, AttachInv, Next, NEW p \in Apps, Calling(p, {"attach"}, "search"), app[p].clean,
                      app'[p].at = "ready", ~tangled', ~removed'
               PROVE  driver'[Call(p).driver].configured
    OBVIOUS
  <2>0. TypeInv /\ HoldInv
    BY DEF AssemblyInv
  <2>1. app[p].at = "search" /\ app[p].calls # <<>> /\ Call(p).op = "attach"
    BY DEF Calling
  <2>2. PICK q \in Apps : AppStep(q)
    <3>1. app' # app
      BY <2>1
    <3> QED BY <3>1 DEF Next, BuilderStep, Build, LoopStep, HostStep
  <2>3. /\ AppActions(q) /\ removed' = (removed \/ ~NothingRemoved)
        /\ tangled' = (tangled \/ \E r \in Apps \ {q} : InLifecycle(r) /\ InLifecycle(q)')
    BY <2>2, AppCases DEF AppStep
  <2>4. q = p
    BY <2>0, <2>1, <2>3, OnlyItsCall DEF TypeInv
  <2>6. ~Searches(p)
    <3>1. Searches(p) => app'[p].at \in {"search", "panicked"}
      BY <2>0, SearchOK
    <3> QED BY <3>1
  <2>5. InitNew(p)
    BY <2>1, <2>3, <2>4, <2>6 DEF AppActions, Resolve, Swap, CloseOld, Lock, Write, RemoveInterface, Drop,
              CloseDevice,
       CloseConfiguration, CloseInterface, ConfigurationClosed, DeviceClosed, ChangeEndpoints, SetStack, Start,
       Prepare, Transfer, Calling
  <2> QED BY <2>0, <2>3, <2>5, LastInit
<1> QED BY <1>1, Always, Attach, PTL DEF Spec, AttachConfigures
=============================================================================
