----------------------------- MODULE ListLemmas -----------------------------
(***************************************************************************)
(* Facts about lists and about loops over them that the proofs about the   *)
(* routing tables and the flooding share.  A loop is a recursive function  *)
(* over the first n numbers: its values exist and stay in any set that its *)
(* first value is in and its body keeps.                                   *)
(***************************************************************************)
EXTENDS Integers, Sequences, FiniteSets, SequencesExt, FiniteSetTheorems, WellFoundedInduction,
        TLAPS

-----------------------------------------------------------------------------
(* Loops.                                                                  *)

\* A set of numbers that is not empty has a least one.
LEMMA Least ==
    ASSUME NEW T \in SUBSET Nat, T # {}
    PROVE  \E x \in T : \A y \in T : x <= y
  <1>1. IsWellFoundedOn(OpToRel(<, Nat), Nat)
    BY NatLessThanWellFounded
  <1>2. PICK x \in T : \A y \in T : <<y, x>> \notin OpToRel(<, Nat)
    BY <1>1, WFMin
  <1>3. \A y \in T : ~(y < x)
    BY <1>2, Zenon DEF OpToRel
  <1>4. QED BY <1>3

\* Induction up to n, for a set instead of a predicate.
LEMMA InductionUpTo ==
    ASSUME NEW n \in Nat, NEW T, 0 \in T, \A i \in 1 .. n : i - 1 \in T => i \in T
    PROVE  \A i \in 0 .. n : i \in T
  <1> SUFFICES ASSUME \E i \in 0 .. n : i \notin T PROVE FALSE
    OBVIOUS
  <1> DEFINE U == {i \in 0 .. n : i \notin T}
  <1>1. U \in SUBSET Nat /\ U # {}
    OBVIOUS
  <1>2. PICK x \in U : \A y \in U : x <= y
    BY <1>1, Least
  <1>3. x # 0 /\ x - 1 \in 0 .. n /\ x \in 1 .. n
    BY <1>2
  <1>4. x - 1 \in T
    BY <1>2, <1>3
  <1>5. QED BY <1>2, <1>3, <1>4

\* h has the values of a loop that starts with init and whose body is g.
IsLoop(h, n, init, g) == h[0] = init /\ \A k \in 1 .. n : h[k] = g[<<k, h[k - 1]>>]

\* A loop whose body maps T to T has values.
LEMMA LoopExists ==
    ASSUME NEW n \in Nat, NEW T, NEW init \in T, NEW g \in [(1 .. n) \X T -> T]
    PROVE  \E h \in [0 .. n -> T] : IsLoop(h, n, init, g)
  <1> DEFINE Ok(m, h) == h[0] = init /\ \A i \in 1 .. m : h[i] = g[<<i, h[i - 1]>>]
             S == {m \in 0 .. n : \E h \in [0 .. n -> T] : Ok(m, h)}
  <1>1. 0 \in S
    <2> DEFINE h == [i \in 0 .. n |-> init]
    <2>1. h \in [0 .. n -> T] /\ h[0] = init /\ \A i \in 1 .. 0 : h[i] = g[<<i, h[i - 1]>>]
      OBVIOUS
    <2> HIDE DEF h
    <2>2. 0 \in 0 .. n
      OBVIOUS
    <2>3. QED BY <2>1, <2>2
  <1>2. \A i \in 1 .. n : i - 1 \in S => i \in S
    <2> SUFFICES ASSUME NEW i \in 1 .. n, i - 1 \in S PROVE i \in S
      OBVIOUS
    <2>1. PICK h \in [0 .. n -> T] : Ok(i - 1, h)
      OBVIOUS
    <2> DEFINE h2 == [h EXCEPT ![i] = g[<<i, h[i - 1]>>]]
    <2>2. g[<<i, h[i - 1]>>] \in T
      OBVIOUS
    <2>3. h2 \in [0 .. n -> T]
      BY <2>2
    <2>4. ASSUME NEW j \in 1 .. i PROVE h2[j] = g[<<j, h2[j - 1]>>]
      <3>1. j - 1 \in 0 .. n /\ j \in 0 .. n /\ j - 1 # i
        OBVIOUS
      <3>2. h2[j - 1] = h[j - 1]
        BY <3>1
      <3>3. CASE j = i
        BY <3>1, <3>2, <3>3
      <3>4. CASE j # i
        BY <3>1, <3>2, <3>4, <2>1
      <3>5. QED BY <3>3, <3>4
    <2>5. Ok(i, h2)
      BY <2>1, <2>4
    <2> HIDE DEF h2
    <2>6. QED BY <2>3, <2>5
  <1> HIDE DEF S
  <1>3. n \in S
    BY <1>1, <1>2, InductionUpTo
  <1>4. QED BY <1>3 DEF S, IsLoop

\* The least and the greatest of a set of numbers are in it.
LEMMA MinIn ==
    ASSUME NEW T \in SUBSET Nat, T # {}
    PROVE  Min(T) \in T /\ \A y \in T : Min(T) <= y
  BY Least DEF Min

\* The greatest of a bounded set that is not empty.
LEMMA MaxIn ==
    ASSUME NEW n \in Nat, NEW T \in SUBSET (1 .. n), T # {}
    PROVE  Max(T) \in T
  <1> DEFINE U == {m \in 0 .. n : n - m \in T}
  <1>1. U # {}
    <2>1. PICK x \in T : TRUE
      OBVIOUS
    <2>2. n - x \in U
      BY <2>1
    <2>3. QED BY <2>2
  <1>2. PICK u \in U : \A y \in U : u <= y
    <2>1. U \in SUBSET Nat
      OBVIOUS
    <2>2. QED BY <1>1, <2>1, Least
  <1>3. ASSUME NEW y \in T PROVE n - u >= y
    <2>1. n - y \in U
      OBVIOUS
    <2>2. u <= n - y
      BY <1>2, <2>1
    <2>3. QED BY <2>2
  <1>4. n - u \in T
    OBVIOUS
  <1>5. QED BY <1>3, <1>4 DEF Max

-----------------------------------------------------------------------------
(* Lists.                                                                  *)

\* Lists over S stay lists over S.
LEMMA ListOfAppend ==
    ASSUME NEW S, NEW s \in Seq(S), NEW x \in S
    PROVE  Append(s, x) \in Seq(S)
  OBVIOUS

\* The elements of a list with one more at its end.
LEMMA AppendElements ==
    ASSUME NEW S, NEW s \in Seq(S), NEW x \in S
    PROVE  \A k \in DOMAIN Append(s, x) :
               \/ Append(s, x)[k] = x
               \/ k \in DOMAIN s /\ Append(s, x)[k] = s[k]
  <1> DEFINE more == Append(s, x)
  <1>1. /\ DOMAIN more = 1 .. Len(s) + 1 /\ DOMAIN s = 1 .. Len(s) /\ Len(s) \in Nat
        /\ more[Len(s) + 1] = x
        /\ \A i \in 1 .. Len(s) : more[i] = s[i]
    OBVIOUS
  <1> HIDE DEF more
  <1>2. ASSUME NEW k \in DOMAIN more PROVE more[k] = x \/ (k \in DOMAIN s /\ more[k] = s[k])
    <2>1. k = Len(s) + 1 \/ k \in 1 .. Len(s)
      BY <1>1
    <2>2. QED BY <1>1, <2>1
  <1>3. QED BY <1>2 DEF more

\* Two lists over S, one after the other.
LEMMA ListOfConcat ==
    ASSUME NEW S, NEW s \in Seq(S), NEW u \in Seq(S)
    PROVE  s \o u \in Seq(S)
  OBVIOUS

\* The elements of a list over S.
LEMMA ListOfToSet ==
    ASSUME NEW S, NEW s \in Seq(S)
    PROVE  ToSet(s) \subseteq S
  BY DEF ToSet

\* One tuple of a list replaced.
LEMMA ListOfUpdate ==
    ASSUME NEW S, NEW list \in Seq(S), NEW k, NEW x, k \in DOMAIN list => x \in S
    PROVE  [list EXCEPT ![k] = x] \in Seq(S)
  <1> DEFINE new == [list EXCEPT ![k] = x]
  <1>1. Len(list) \in Nat /\ DOMAIN list = 1 .. Len(list) /\ DOMAIN new = 1 .. Len(list)
    OBVIOUS
  <1>2. \A i \in 1 .. Len(list) : new[i] \in S
    OBVIOUS
  <1>3. new = [i \in 1 .. Len(list) |-> new[i]]
    OBVIOUS
  <1> HIDE DEF new
  <1>4. new \in [1 .. Len(list) -> S]
    BY <1>2, <1>3
  <1>5. new \in Seq(S)
    BY <1>1, <1>4
  <1>6. QED BY <1>5 DEF new

\* What the erasing of one tuple keeps.
LEMMA RemoveAtKeeps ==
    ASSUME NEW S, NEW s \in Seq(S), NEW k \in DOMAIN s
    PROVE  RemoveAt(s, k) \in Seq(S)
  <1>1. k \in 1 .. Len(s) /\ Len(s) \in Nat
    OBVIOUS
  <1>2. SubSeq(s, 1, k - 1) \in Seq(S)
    <2>1. \A i \in 1 .. k - 1 : s[i] \in S
      BY <1>1
    <2>2. QED BY <1>1, <2>1
  <1>3. SubSeq(s, k + 1, Len(s)) \in Seq(S)
    <2>1. \A i \in k + 1 .. Len(s) : s[i] \in S
      BY <1>1
    <2>2. QED BY <1>1, <2>1
  <1>4. QED BY <1>2, <1>3 DEF RemoveAt

\* A set as a list.
LEMMA SetToSeqKeeps ==
    ASSUME NEW S, NEW U \in SUBSET S, IsFiniteSet(U)
    PROVE  SetToSeq(U) \in Seq(S)
  <1>1. Cardinality(U) \in Nat /\ ExistsBijection(1 .. Cardinality(U), U)
    BY FS_CardinalityType, FS_NatBijection, FS_CountingElements
  <1>2. \E f \in [1 .. Cardinality(U) -> U] : IsInjective(f)
    BY <1>1 DEF IsInjective, ExistsBijection, Bijection, Injection, Surjection
  <1>3. SetToSeq(U) \in [1 .. Cardinality(U) -> U]
    BY <1>2 DEF SetToSeq
  <1>4. QED BY <1>1, <1>3

\* The image of a finite set is finite.
LEMMA FiniteImage ==
    ASSUME NEW S, IsFiniteSet(S), NEW f, DOMAIN f = S
    PROVE  IsFiniteSet({f[x] : x \in S})
  <1> DEFINE T == {f[x] : x \in S}
             h == [x \in S |-> f[x]]
  <1>1. h \in Surjection(S, T)
    BY DEF Surjection
  <1>2. QED BY <1>1, FS_Surjection

=============================================================================
