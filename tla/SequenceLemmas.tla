--------------------------- MODULE SequenceLemmas ---------------------------
(***************************************************************************)
(* Facts about the queues of datagrams that the proofs share: what taking  *)
(* a datagram out of its place and adding one at the end do to a sequence, *)
(* and to the number of times that it holds a given datagram.              *)
(***************************************************************************)
EXTENDS Integers, SequencesExt, SequenceTheorems, FiniteSetTheorems, TLAPS

\* The places where s holds m.
Places(s, m) == {i \in DOMAIN s : s[i] = m}

LEMMA RemoveAtProperties ==
  ASSUME NEW S, NEW s \in Seq(S), NEW i \in 1..Len(s)
  PROVE  /\ RemoveAt(s, i) \in Seq(S)
         /\ Len(RemoveAt(s, i)) = Len(s) - 1
         /\ \A j \in 1..(Len(s) - 1) :
              RemoveAt(s, i)[j] = IF j < i THEN s[j] ELSE s[j + 1]
<1> DEFINE front == SubSeq(s, 1, i - 1)
           back  == SubSeq(s, i + 1, Len(s))
<1>1. /\ front \in Seq(S)
      /\ Len(front) = i - 1
      /\ \A j \in 1..(i - 1) : front[j] = s[j]
  <2>1. \A k \in 1..(i - 1) : s[k] \in S
    BY ElementOfSeq
  <2>2. 1 \in Int /\ i - 1 \in Int
    OBVIOUS
  <2> QED
    BY <2>1, <2>2, SubSeqProperties
<1>2. /\ back \in Seq(S)
      /\ Len(back) = Len(s) - i
      /\ \A j \in 1..(Len(s) - i) : back[j] = s[i + j]
  <2>1. \A k \in (i + 1)..Len(s) : s[k] \in S
    BY ElementOfSeq
  <2>2. i + 1 \in Int /\ Len(s) \in Int
    OBVIOUS
  <2>3. /\ back \in Seq(S)
        /\ Len(back) = IF i + 1 <= Len(s) THEN Len(s) - (i + 1) + 1 ELSE 0
        /\ \A j \in 1..(Len(s) - (i + 1) + 1) : back[j] = s[(i + 1) + j - 1]
    BY <2>1, <2>2, SubSeqProperties
  <2> QED
    BY <2>3
<1>3. RemoveAt(s, i) = front \o back
  BY DEF RemoveAt
<1> HIDE DEF front, back
<1>4. /\ front \o back \in Seq(S)
      /\ Len(front \o back) = Len(front) + Len(back)
      /\ \A j \in 1..(Len(front) + Len(back)) :
           (front \o back)[j] = IF j <= Len(front) THEN front[j]
                                                  ELSE back[j - Len(front)]
  BY <1>1, <1>2, ConcatProperties
<1> QED
  BY <1>1, <1>2, <1>3, <1>4

-----------------------------------------------------------------------------
(* How often a sequence holds m.                                           *)

LEMMA PlacesFinite ==
  ASSUME NEW S, NEW s \in Seq(S), NEW m
  PROVE  IsFiniteSet(Places(s, m)) /\ Cardinality(Places(s, m)) \in Nat
<1>1. IsFiniteSet(1..Len(s))
  BY FS_Interval
<1>2. Places(s, m) \in SUBSET (1..Len(s))
  BY DEF Places
<1> QED
  BY <1>1, <1>2, FS_Subset, FS_CardinalityType

LEMMA PlacesEmpty ==
  ASSUME NEW m
  PROVE  Cardinality(Places(<<>>, m)) = 0
<1>1. Places(<<>>, m) = {}
  BY DEF Places
<1> QED
  BY <1>1, FS_EmptySet

LEMMA PlacesAppend ==
  ASSUME NEW S, NEW s \in Seq(S), NEW x \in S, NEW m
  PROVE  Cardinality(Places(Append(s, x), m)) =
           Cardinality(Places(s, m)) + IF x = m THEN 1 ELSE 0
<1> DEFINE n == Len(s) + 1
<1>1. n \notin Places(s, m)
  BY DEF Places
<1>2. \A i : i \in Places(Append(s, x), m) <=>
             (i \in Places(s, m) \/ (i = n /\ x = m))
  <2>1. DOMAIN Append(s, x) = 1..n /\ DOMAIN s = 1..Len(s) /\ Len(s) \in Nat
    OBVIOUS
  <2>2. Append(s, x)[n] = x /\ \A i \in 1..Len(s) : Append(s, x)[i] = s[i]
    OBVIOUS
  <2>3. \A i : i \in 1..n <=> (i \in 1..Len(s) \/ i = n)
    BY <2>1
  <2> QED
    BY <2>1, <2>2, <2>3 DEF Places
<1>3. CASE x = m
  <2>1. Places(Append(s, x), m) = Places(s, m) \cup {n}
    BY <1>2, <1>3
  <2> QED
    BY <1>1, <1>3, <2>1, PlacesFinite, FS_AddElement
<1>4. CASE x # m
  <2>1. Places(Append(s, x), m) = Places(s, m)
    BY <1>2, <1>4
  <2> QED
    BY <1>4, <2>1, PlacesFinite
<1> QED
  BY <1>3, <1>4

LEMMA PlacesRemoveAt ==
  ASSUME NEW S, NEW s \in Seq(S), NEW i \in 1..Len(s), NEW m
  PROVE  Cardinality(Places(RemoveAt(s, i), m)) =
           Cardinality(Places(s, m)) - IF s[i] = m THEN 1 ELSE 0
<1> DEFINE before == Places(s, m) \ {i}
           after  == Places(RemoveAt(s, i), m)
           shift  == [j \in before |-> IF j < i THEN j ELSE j - 1]
           t == RemoveAt(s, i)
<1>1. /\ t \in Seq(S) /\ Len(t) = Len(s) - 1 /\ Len(s) \in Nat
      /\ DOMAIN s = 1..Len(s) /\ DOMAIN t = 1..(Len(s) - 1)
      /\ \A j \in 1..(Len(s) - 1) : t[j] = IF j < i THEN s[j] ELSE s[j + 1]
  BY RemoveAtProperties
<1> HIDE DEF t
<1>2. \A j : j \in before <=> j \in 1..Len(s) /\ j # i /\ s[j] = m
  BY <1>1 DEF Places
<1>3. \A j : j \in after <=> j \in 1..(Len(s) - 1) /\ t[j] = m
  BY <1>1 DEF Places, t
<1> HIDE DEF before, after
<1>4. \A j \in before : (IF j < i THEN j ELSE j - 1) \in after
  <2> TAKE j \in before
  <2>1. j \in 1..Len(s) /\ j # i /\ s[j] = m
    BY <1>2
  <2>2. CASE j < i
    <3>1. j \in 1..(Len(s) - 1)
      BY <1>1, <2>1, <2>2
    <3> QED
      BY <1>1, <1>3, <2>1, <2>2, <3>1
  <2>3. CASE ~(j < i)
    <3>1. j - 1 \in 1..(Len(s) - 1) /\ ~(j - 1 < i) /\ (j - 1) + 1 = j
      BY <1>1, <2>1, <2>3
    <3>2. t[j - 1] = m
      BY <1>1, <2>1, <3>1
    <3> QED
      BY <1>3, <2>3, <3>1, <3>2
  <2> QED
    BY <2>2, <2>3
<1>5. shift \in Injection(before, after)
  <2>1. shift \in [before -> after]
    BY <1>4
  <2>2. \A j, k \in before : shift[j] = shift[k] => j = k
    BY <1>1, <1>2
  <2> QED
    BY <2>1, <2>2 DEF Injection, IsInjective
<1>6. \A k \in after : \E j \in before : shift[j] = k
  <2> SUFFICES ASSUME NEW k \in after
               PROVE  \E j \in before : shift[j] = k
    OBVIOUS
  <2>1. k \in 1..(Len(s) - 1) /\ t[k] = m
    BY <1>3
  <2>2. CASE k < i
    <3>1. k \in before
      BY <1>1, <1>2, <2>1, <2>2
    <3>2. shift[k] = k
      BY <3>1, <2>2
    <3> QED
      BY <3>1, <3>2
  <2>3. CASE ~(k < i)
    <3>1. k + 1 \in before
      BY SMTT(20), <1>1, <1>2, <2>1, <2>3
    <3>2. shift[k + 1] = k
      BY <3>1, <2>1, <2>3
    <3> QED
      BY <3>1, <3>2
  <2> QED
    BY <2>2, <2>3
<1>7. ExistsBijection(before, after)
  BY <1>5, <1>6 DEF ExistsBijection, Bijection, Surjection, Injection
<1>8. /\ IsFiniteSet(before)
      /\ Cardinality(before) = Cardinality(Places(s, m)) - IF s[i] = m THEN 1 ELSE 0
  <2>1. i \in Places(s, m) <=> s[i] = m
    BY <1>1 DEF Places
  <2> QED
    BY <2>1, PlacesFinite, FS_RemoveElement DEF before
<1> QED
  BY <1>7, <1>8, FS_Bijection DEF after
=============================================================================
