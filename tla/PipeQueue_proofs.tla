--------------------------- MODULE PipeQueue_proofs ---------------------------
(***************************************************************************)
(* Proofs about PipeQueue.tla, for every value of its constants: a pipe    *)
(* never holds more than it can, and each queue is a FIFO until it is      *)
(* given a message that is too large to be written at once, or closed.     *)
(***************************************************************************)
EXTENDS PipeQueue, SequenceLemmas

-----------------------------------------------------------------------------
(* The k-th number of a finite set.                                        *)

Rank(S, i) == Cardinality({j \in S : j <= i})

\* Ranks grow with the numbers, from 1 to the size of the set.
LEMMA RankGrows ==
  ASSUME NEW S \in SUBSET Nat, IsFiniteSet(S), NEW i \in S
  PROVE  /\ Rank(S, i) \in 1..Cardinality(S)
         /\ \A j \in S : i < j => Rank(S, i) < Rank(S, j)
<1> DEFINE upto(k) == {j \in S : j <= k}
<1>1. \A k \in S : IsFiniteSet(upto(k)) /\ Cardinality(upto(k)) \in Nat
                   /\ Cardinality(upto(k)) <= Cardinality(S)
  BY FS_Subset, FS_CardinalityType
<1>2. Cardinality(upto(i)) # 0
  <2>1. i \in upto(i)
    OBVIOUS
  <2> QED
    BY <1>1, <2>1, FS_EmptySet
<1>3. ASSUME NEW j \in S, i < j
      PROVE  Cardinality(upto(i)) < Cardinality(upto(j))
  <2>1. upto(i) \in SUBSET upto(j) /\ j \in upto(j) /\ j \notin upto(i)
    <3>1. i \in Nat /\ j \in Nat /\ \A x \in S : x \in Nat
      OBVIOUS
    <3>2. \A x \in S : x <= i => x <= j
      BY <1>3, <3>1
    <3>3. j <= j /\ ~(j <= i)
      BY <1>3, <3>1
    <3> QED
      BY <3>2, <3>3
  <2>2. Cardinality(upto(i)) <= Cardinality(upto(j))
        /\ Cardinality(upto(i)) # Cardinality(upto(j))
    BY <1>1, <2>1, FS_Subset
  <2> QED
    BY <1>1, <1>3, <2>2
<1>4. Cardinality(S) \in Nat
  BY FS_CardinalityType
<1> QED
  BY <1>1, <1>2, <1>3, <1>4 DEF Rank

\* Each number has a rank of its own, and each rank is that of a number: there
\* are as many of the ones as of the others.
LEMMA NthProperties ==
  ASSUME NEW S \in SUBSET Nat, IsFiniteSet(S)
  PROVE  /\ \A k \in 1..Cardinality(S) : Nth(S, k) \in S /\ Rank(S, Nth(S, k)) = k
         /\ \A i \in S : Nth(S, Rank(S, i)) = i
<1> DEFINE rank == [i \in S |-> Rank(S, i)]
           T == 1..Cardinality(S)
<1>1. Cardinality(S) \in Nat
  BY FS_CardinalityType
<1>2. IsFiniteSet(T) /\ Cardinality(T) = Cardinality(S)
  BY <1>1, FS_Interval
<1>3. \A i, j \in S : Rank(S, i) = Rank(S, j) => i = j
  <2> SUFFICES ASSUME NEW i \in S, NEW j \in S, Rank(S, i) = Rank(S, j), i # j
               PROVE  FALSE
    OBVIOUS
  <2>1. i < j \/ j < i
    OBVIOUS
  <2>2. Rank(S, i) \in Nat /\ Rank(S, j) \in Nat
    BY <1>1, RankGrows
  <2> QED
    BY <2>1, <2>2, RankGrows
<1>4. \A i \in S : Rank(S, i) \in T
  BY RankGrows
<1>5. rank \in Injection(S, T)
  BY <1>3, <1>4 DEF Injection, IsInjective
<1>6. rank \in Surjection(S, T)
  BY <1>2, <1>5, FS_Injection
<1>7. \A k \in T : \E i \in S : Rank(S, i) = k
  BY <1>6 DEF Surjection
<1> QED
  BY <1>3, <1>4, <1>7 DEF Nth, Rank

\* Moving all numbers down by d keeps their order.
LEMMA NthShift ==
  ASSUME NEW S \in SUBSET Nat, IsFiniteSet(S), NEW d \in Nat, NEW T \in SUBSET Nat,
         \A i \in S : i >= d /\ i - d \in T,
         \A j \in T : j + d \in S
  PROVE  /\ IsFiniteSet(T)
         /\ Cardinality(T) = Cardinality(S)
         /\ \A k \in 1..Cardinality(S) : Nth(T, k) = Nth(S, k) - d
<1>1. ASSUME NEW A \in SUBSET S, NEW B \in SUBSET T,
             \A i \in A : i - d \in B, \A j \in B : j + d \in A
      PROVE  IsFiniteSet(B) /\ Cardinality(B) = Cardinality(A)
  <2> DEFINE f == [i \in A |-> i - d]
  <2>1. f \in [A -> B] /\ \A i, j \in A : f[i] = f[j] => i = j
    BY <1>1
  <2>2. \A y \in B : \E i \in A : f[i] = y
    <3> TAKE y \in B
    <3>1. y + d \in A /\ (y + d) - d = y
      BY <1>1
    <3>2. f[y + d] = y
      BY <3>1
    <3> QED
      BY <3>1, <3>2
  <2>3. ExistsBijection(A, B)
    BY <2>1, <2>2
    DEF ExistsBijection, Bijection, Injection, IsInjective, Surjection
  <2>4. IsFiniteSet(A)
    BY FS_Subset
  <2> QED
    BY <2>3, <2>4, FS_Bijection
<1>2. IsFiniteSet(T) /\ Cardinality(T) = Cardinality(S)
  BY <1>1
<1>3. ASSUME NEW i \in S
      PROVE  Rank(T, i - d) = Rank(S, i)
  <2> DEFINE A == {x \in S : x <= i}
             B == {x \in T : x <= i - d}
  <2>1. \A x \in A : x - d \in B
    OBVIOUS
  <2>2. \A x \in B : x + d \in A
    OBVIOUS
  <2>3. A \in SUBSET S /\ B \in SUBSET T
    OBVIOUS
  <2>4. Cardinality(B) = Cardinality(A)
    <3> HIDE DEF A, B
    <3> QED
      BY <1>1, <2>1, <2>2, <2>3
  <2> QED
    BY <2>4 DEF Rank
<1>4. ASSUME NEW k \in 1..Cardinality(S)
      PROVE  Nth(T, k) = Nth(S, k) - d
  <2>1. Nth(S, k) \in S /\ Rank(S, Nth(S, k)) = k
    BY NthProperties
  <2>2. Nth(S, k) - d \in T /\ Rank(T, Nth(S, k) - d) = k
    BY <1>3, <2>1
  <2> QED
    BY <1>2, <2>2, NthProperties
<1> QED
  BY <1>2, <1>4

\* A number larger than all others comes last, ...
LEMMA NthLast ==
  ASSUME NEW S \in SUBSET Nat, IsFiniteSet(S), NEW n \in Nat, \A i \in S : i < n,
         NEW T, \A i : i \in T <=> i \in S \/ i = n
  PROVE  /\ Cardinality(T) = Cardinality(S) + 1
         /\ \A k \in 1..Cardinality(S) : Nth(T, k) = Nth(S, k)
         /\ Nth(T, Cardinality(S) + 1) = n
<1>1. T \in SUBSET Nat /\ IsFiniteSet(T) /\ Cardinality(T) = Cardinality(S) + 1
  <2>1. n \notin S /\ T = S \cup {n}
    OBVIOUS
  <2> QED
    BY <2>1, FS_AddElement
<1>2. ASSUME NEW i \in S
      PROVE  Rank(T, i) = Rank(S, i)
  <2>1. {j \in T : j <= i} = {j \in S : j <= i}
    OBVIOUS
  <2> QED
    BY <2>1 DEF Rank
<1>3. Rank(T, n) = Cardinality(S) + 1
  <2>1. \A j \in T : j \in Nat /\ (j < n \/ j = n)
    BY <1>1
  <2>2. \A j \in T : j <= n
    BY <2>1
  <2>3. {j \in T : j <= n} = T
    BY <2>2
  <2> QED
    BY <1>1, <2>3 DEF Rank
<1>4. ASSUME NEW k \in 1..Cardinality(S)
      PROVE  Nth(T, k) = Nth(S, k)
  <2>1. Nth(S, k) \in S /\ Rank(S, Nth(S, k)) = k
    BY NthProperties
  <2>2. Nth(S, k) \in T /\ Rank(T, Nth(S, k)) = k
    BY <1>2, <2>1
  <2>3. \A i \in T : Nth(T, Rank(T, i)) = i
    BY <1>1, NthProperties
  <2> QED
    BY <2>2, <2>3
<1>5. n \in T
  OBVIOUS
<1> QED
  BY <1>1, <1>3, <1>4, <1>5, NthProperties

\* ... and without the first, the others come one earlier.
LEMMA NthFirst ==
  ASSUME NEW S \in SUBSET Nat, IsFiniteSet(S), NEW n \in S, \A i \in S : n <= i,
         NEW T, T = S \ {n}
  PROVE  /\ T \in SUBSET Nat /\ IsFiniteSet(T)
         /\ Cardinality(S) = Cardinality(T) + 1
         /\ Nth(S, 1) = n
         /\ \A k \in 1..Cardinality(T) : Nth(S, k + 1) = Nth(T, k)
<1>1. /\ T \in SUBSET Nat /\ IsFiniteSet(T)
      /\ Cardinality(T) \in Nat /\ Cardinality(S) = Cardinality(T) + 1
  <2>1. IsFiniteSet(T) /\ Cardinality(T) = Cardinality(S) - 1
    BY FS_RemoveElement
  <2> QED
    BY <2>1, FS_CardinalityType
<1>2. Rank(S, n) = 1
  <2>1. \A j \in S : j <= n <=> j = n
    OBVIOUS
  <2>2. {j \in S : j <= n} = {n}
    BY <2>1
  <2> QED
    BY <2>2, FS_Singleton DEF Rank
<1>3. ASSUME NEW i \in T
      PROVE  Rank(S, i) = Rank(T, i) + 1
  <2> DEFINE A == {j \in S : j <= i}
  <2>1. {j \in T : j <= i} = A \ {n} /\ n \in A
    OBVIOUS
  <2>2. IsFiniteSet(A) /\ Cardinality(A) \in Nat
    BY FS_Subset, FS_CardinalityType
  <2>3. Cardinality(A \ {n}) = Cardinality(A) - 1
    BY <2>1, <2>2, FS_RemoveElement
  <2> QED
    BY <2>1, <2>2, <2>3 DEF Rank
<1>4. ASSUME NEW k \in 1..Cardinality(T)
      PROVE  Nth(S, k + 1) = Nth(T, k)
  <2>1. Nth(T, k) \in T /\ Rank(T, Nth(T, k)) = k
    BY <1>1, NthProperties
  <2>2. Nth(T, k) \in S /\ Rank(S, Nth(T, k)) = k + 1
    BY <1>3, <2>1
  <2> QED
    BY <2>2, NthProperties
<1> QED
  BY <1>1, <1>2, <1>4, NthProperties

-----------------------------------------------------------------------------
(* What comes into a pipe and what is taken out of it.                     *)

Drop(p, d) == SubSeq(p, d + 1, Len(p))

LEMMA SizeType ==
  ASSUME NEW m \in Message
  PROVE  Size[m] \in Nat \ {0}
BY PipeAssumption

LEMMA UnitFields ==
  \A u \in Unit : u.part \in {"length", "body"} /\ u.of \in Message
BY DEF Unit

LEMMA FrameProperties ==
  ASSUME NEW m \in Message
  PROVE  /\ Frame(m) \in Seq(Unit)
         /\ Len(Frame(m)) = Size[m] + 1
         /\ Frame(m)[1] = [part |-> "length", of |-> m]
         /\ \A i \in 2..(Size[m] + 1) : Frame(m)[i] = [part |-> "body", of |-> m]
<1> DEFINE n == Size[m] + 1
<1>1. n \in Nat /\ 1 \in 1..n
  BY SizeType
<1>2. \A i \in 1..n : [part |-> IF i = 1 THEN "length" ELSE "body", of |-> m] \in Unit
  BY DEF Unit
<1>3. Frame(m) \in [1..n -> Unit]
  BY <1>2 DEF Frame
<1>4. Frame(m) \in Seq(Unit) /\ Len(Frame(m)) = n
  BY <1>1, <1>3
<1> QED
  BY <1>1, <1>4 DEF Frame

LEMMA DropProperties ==
  ASSUME NEW p \in Seq(Unit), NEW d \in 0..Len(p)
  PROVE  /\ Drop(p, d) \in Seq(Unit)
         /\ Len(Drop(p, d)) = Len(p) - d
         /\ \A i \in 1..(Len(p) - d) : Drop(p, d)[i] = p[i + d]
<1>1. \A i \in (d + 1)..Len(p) : p[i] \in Unit
  BY ElementOfSeq
<1>2. d + 1 \in Int /\ Len(p) \in Int /\ Len(p) \in Nat
  OBVIOUS
<1>3. /\ Drop(p, d) \in Seq(Unit)
      /\ Len(Drop(p, d)) = IF d + 1 <= Len(p) THEN Len(p) - (d + 1) + 1 ELSE 0
      /\ \A i \in 1..(Len(p) - (d + 1) + 1) : Drop(p, d)[i] = p[(d + 1) + i - 1]
  BY <1>1, <1>2, SubSeqProperties DEF Drop
<1> QED
  BY <1>2, <1>3

\* A write of n units out of a frame.
LEMMA TakeProperties ==
  ASSUME NEW p \in Seq(Unit), NEW n \in 0..Len(p)
  PROVE  SubSeq(p, 1, n) \in Seq(Unit) /\ Len(SubSeq(p, 1, n)) = n
<1>1. \A i \in 1..n : p[i] \in Unit
  BY ElementOfSeq
<1>2. 1 \in Int /\ n \in Int
  OBVIOUS
<1> QED
  BY <1>1, <1>2, SubSeqProperties

\* The least of two numbers, as in Write and Taken.
LEMMA MinOfTwo ==
  ASSUME NEW a \in Nat, NEW b \in Nat
  PROVE  Min({a, b}) = IF a <= b THEN a ELSE b
BY DEF Min

LEMMA LengthsProperties ==
  ASSUME NEW p \in Seq(Unit)
  PROVE  /\ Lengths(p) \in SUBSET (1..Len(p))
         /\ Lengths(p) \in SUBSET Nat
         /\ IsFiniteSet(Lengths(p))
         /\ Cardinality(Lengths(p)) \in Nat
         /\ \A i : i \in Lengths(p) <=> i \in 1..Len(p) /\ p[i].part = "length"
<1>1. DOMAIN p = 1..Len(p) /\ Len(p) \in Nat
  OBVIOUS
<1>2. Lengths(p) \in SUBSET (1..Len(p))
  BY <1>1 DEF Lengths
<1>3. IsFiniteSet(1..Len(p))
  BY <1>1, FS_Interval
<1> QED
  BY <1>1, <1>2, <1>3, FS_Subset, FS_CardinalityType DEF Lengths

LEMMA MessagesProperties ==
  ASSUME NEW p \in Seq(Unit)
  PROVE  /\ Messages(p) \in Seq(Message)
         /\ Len(Messages(p)) = Cardinality(Lengths(p))
         /\ \A k \in 1..Cardinality(Lengths(p)) :
              Messages(p)[k] = p[Nth(Lengths(p), k)].of
<1> DEFINE n == Cardinality(Lengths(p))
<1>1. n \in Nat
  BY LengthsProperties
<1>2. \A k \in 1..n : p[Nth(Lengths(p), k)].of \in Message
  <2> TAKE k \in 1..n
  <2>1. Nth(Lengths(p), k) \in Lengths(p)
    BY LengthsProperties, NthProperties
  <2>2. Nth(Lengths(p), k) \in 1..Len(p)
    BY <2>1, LengthsProperties
  <2> QED
    BY <2>2, ElementOfSeq, UnitFields
<1>3. Messages(p) \in [1..n -> Message]
  BY <1>2 DEF Messages
<1>4. Messages(p) \in Seq(Message) /\ Len(Messages(p)) = n
  BY <1>1, <1>3
<1> QED
  BY <1>4 DEF Messages

\* Taking out bodies takes no message out.
LEMMA MessagesDropBodies ==
  ASSUME NEW p \in Seq(Unit), NEW d \in 0..Len(p),
         \A i \in 1..d : p[i].part = "body"
  PROVE  Messages(Drop(p, d)) = Messages(p)
<1> DEFINE q == Drop(p, d)
           S == Lengths(p)
           T == Lengths(q)
<1>1. q \in Seq(Unit) /\ Len(q) = Len(p) - d /\ \A i \in 1..(Len(p) - d) : q[i] = p[i + d]
  BY DropProperties
<1>2. /\ S \in SUBSET (1..Len(p)) /\ S \in SUBSET Nat /\ IsFiniteSet(S)
      /\ \A i : i \in S <=> i \in 1..Len(p) /\ p[i].part = "length"
  BY LengthsProperties
<1>3. \A i : i \in T <=> i \in 1..Len(q) /\ q[i].part = "length"
  BY <1>1, LengthsProperties
<1>4. Len(p) \in Nat
  OBVIOUS
<1> HIDE DEF q, S, T
<1>5. \A i \in S : i \in Nat /\ i > d
  <2> TAKE i \in S
  <2>1. i \in 1..Len(p) /\ p[i].part = "length"
    BY <1>2
  <2>2. i \notin 1..d
    BY <2>1
  <2> QED
    BY <2>1, <2>2
<1>6. \A i \in S : i - d \in T
  <2> TAKE i \in S
  <2>1. i \in 1..Len(p) /\ i > d /\ p[i].part = "length"
    BY <1>2, <1>5
  <2>2. i - d \in 1..Len(q) /\ i - d \in 1..(Len(p) - d) /\ (i - d) + d = i
    BY <1>1, <1>4, <2>1
  <2> QED
    BY <1>1, <1>3, <2>1, <2>2
<1>7. \A j \in T : j + d \in S /\ (j + d) - d = j
  <2> TAKE j \in T
  <2>1. j \in 1..Len(q) /\ q[j].part = "length"
    BY <1>3
  <2>2. j \in 1..(Len(p) - d) /\ j + d \in 1..Len(p) /\ (j + d) - d = j
    BY <1>1, <1>4, <2>1
  <2> QED
    BY <1>1, <1>2, <2>1, <2>2
<1>8. T \in SUBSET Nat
  BY <1>3
<1>9. \A i \in S : i >= d /\ i - d \in T
  BY <1>5, <1>6
<1>10. /\ Cardinality(T) = Cardinality(S)
       /\ \A k \in 1..Cardinality(S) : Nth(T, k) = Nth(S, k) - d
  <2>1. d \in Nat /\ S \in SUBSET Nat /\ IsFiniteSet(S)
    BY <1>2
  <2>2. \A j \in T : j + d \in S
    BY <1>7
  <2> QED
    BY <2>1, <2>2, <1>8, <1>9, NthShift
<1>11. ASSUME NEW k \in 1..Cardinality(S)
       PROVE  q[Nth(T, k)].of = p[Nth(S, k)].of
  <2>1. Nth(S, k) \in S
    BY <1>2, NthProperties
  <2>2. Nth(S, k) \in 1..Len(p) /\ Nth(S, k) > d
    BY <1>2, <1>5, <2>1
  <2>3. Nth(T, k) \in 1..(Len(p) - d) /\ Nth(T, k) + d = Nth(S, k)
    BY <1>4, <1>10, <2>2
  <2> QED
    BY <1>1, <2>3
<1> QED
  BY <1>10, <1>11 DEF Messages, S, T, q

\* Taking out a length takes its message out.
LEMMA MessagesTail ==
  ASSUME NEW p \in Seq(Unit), p # <<>>, p[1].part = "length"
  PROVE  Messages(p) = <<p[1].of>> \o Messages(Tail(p))
<1> DEFINE q == Tail(p)
           S == Lengths(p)
           R == S \ {1}
           T == Lengths(q)
           n == Cardinality(T)
<1>1. /\ q \in Seq(Unit) /\ Len(q) = Len(p) - 1 /\ Len(p) \in Nat /\ Len(p) >= 1
      /\ \A i \in 1..(Len(p) - 1) : q[i] = p[i + 1]
  <2>1. Len(p) \in Nat \ {0}
    BY EmptySeq
  <2> QED
    BY <2>1, HeadTailProperties
<1>2. /\ S \in SUBSET (1..Len(p)) /\ S \in SUBSET Nat /\ IsFiniteSet(S)
      /\ \A i : i \in S <=> i \in 1..Len(p) /\ p[i].part = "length"
  BY LengthsProperties
<1>3. \A i : i \in T <=> i \in 1..Len(q) /\ q[i].part = "length"
  BY <1>1, LengthsProperties
<1> HIDE DEF q, S, T
<1>4. 1 \in S /\ \A i \in S : i \in Nat /\ 1 <= i
  BY <1>1, <1>2
<1>5. /\ R \in SUBSET Nat /\ IsFiniteSet(R)
      /\ Cardinality(S) = Cardinality(R) + 1
      /\ Nth(S, 1) = 1
      /\ \A k \in 1..Cardinality(R) : Nth(S, k + 1) = Nth(R, k)
  BY <1>2, <1>4, NthFirst
<1>6. \A i \in R : i - 1 \in T
  <2> TAKE i \in R
  <2>1. i \in 1..Len(p) /\ i # 1 /\ p[i].part = "length"
    BY <1>2
  <2>2. i - 1 \in 1..(Len(p) - 1) /\ (i - 1) + 1 = i
    BY <1>1, <2>1
  <2> QED
    BY <1>1, <1>3, <2>1, <2>2
<1>7. \A j \in T : j + 1 \in R /\ (j + 1) - 1 = j
  <2> TAKE j \in T
  <2>1. j \in 1..(Len(p) - 1) /\ q[j].part = "length"
    BY <1>1, <1>3
  <2>2. j + 1 \in 1..Len(p) /\ j + 1 # 1 /\ (j + 1) - 1 = j
    BY <1>1, <2>1
  <2> QED
    BY <1>1, <1>2, <2>1, <2>2
<1>8. T \in SUBSET Nat
  BY <1>3
<1>9. \A i \in R : i >= 1 /\ i - 1 \in T
  BY <1>4, <1>6
<1>10. /\ n = Cardinality(R) /\ n \in Nat
       /\ \A k \in 1..n : Nth(T, k) = Nth(R, k) - 1
  <2> HIDE DEF R
  <2>1. /\ Cardinality(T) = Cardinality(R)
        /\ \A k \in 1..Cardinality(R) : Nth(T, k) = Nth(R, k) - 1
    <3>1. R \in SUBSET Nat /\ IsFiniteSet(R) /\ 1 \in Nat
      BY <1>5
    <3>2. \A j \in T : j + 1 \in R
      BY <1>7
    <3> QED
      BY <3>1, <3>2, <1>8, <1>9, NthShift
  <2> QED
    BY <1>5, <2>1, FS_CardinalityType
<1>11. ASSUME NEW k \in 1..n
       PROVE  q[Nth(T, k)].of = p[Nth(S, k + 1)].of
  <2>1. Nth(R, k) \in R
    BY <1>5, <1>10, NthProperties
  <2>2. Nth(R, k) \in 1..Len(p) /\ Nth(R, k) # 1
    BY <1>2, <2>1
  <2> DEFINE c == Nth(R, k)
  <2>3. Nth(T, k) = c - 1 /\ Nth(S, k + 1) = c
    BY <1>5, <1>10
  <2>4. c - 1 \in 1..(Len(p) - 1) /\ (c - 1) + 1 = c
    <3>1. c \in 1..Len(p) /\ c # 1
      BY <2>2
    <3> HIDE DEF c
    <3> QED
      BY <1>1, <3>1
  <2> HIDE DEF c
  <2> QED
    BY <1>1, <2>3, <2>4
<1>12. /\ Messages(p) \in Seq(Message) /\ Len(Messages(p)) = n + 1
       /\ \A k \in 1..(n + 1) : Messages(p)[k] = p[Nth(S, k)].of
  BY <1>5, <1>10, MessagesProperties DEF S
<1>13. /\ Messages(q) \in Seq(Message) /\ Len(Messages(q)) = n
       /\ \A k \in 1..n : Messages(q)[k] = q[Nth(T, k)].of
  BY <1>1, MessagesProperties DEF T
<1> DEFINE one == <<p[1].of>>
           rest == Messages(q)
           all == one \o rest
<1>14. one \in Seq(Message) /\ Len(one) = 1 /\ one[1] = p[1].of
  BY <1>1, ElementOfSeq, UnitFields
<1> HIDE DEF one, n, rest, R
<1>15. /\ all \in Seq(Message) /\ Len(all) = 1 + n
       /\ \A k \in 1..(1 + n) : all[k] = IF k <= 1 THEN one[k] ELSE rest[k - 1]
  <2>1. one \in Seq(Message) /\ rest \in Seq(Message)
    BY <1>13, <1>14 DEF rest
  <2>2. /\ all \in Seq(Message) /\ Len(all) = Len(one) + Len(rest)
        /\ \A k \in 1..(Len(one) + Len(rest)) :
             all[k] = IF k <= Len(one) THEN one[k] ELSE rest[k - Len(one)]
    BY <2>1, ConcatProperties
  <2>3. Len(one) = 1 /\ Len(rest) = n
    BY <1>13, <1>14 DEF rest
  <2> HIDE DEF all
  <2> QED
    BY <2>2, <2>3
<1> HIDE DEF all
<1>16. ASSUME NEW k \in 1..(n + 1)
       PROVE  Messages(p)[k] = all[k]
  <2>1. CASE k = 1
    BY SMTT(20), <1>5, <1>10, <1>12, <1>14, <1>15, <2>1
  <2>2. CASE k # 1
    <3>1. k - 1 \in 1..n /\ ~(k <= 1) /\ (k - 1) + 1 = k
      BY <1>10, <2>2
    <3>2. q[Nth(T, k - 1)].of = p[Nth(S, k)].of
      BY <1>11, <3>1 DEF n
    <3> QED
      BY <1>12, <1>13, <1>15, <3>1, <3>2 DEF rest
  <2> QED
    BY <2>1, <2>2
<1>17. Messages(p) = all
  <2> DEFINE msgs == Messages(p)
  <2>1. msgs \in Seq(Message) /\ all \in Seq(Message) /\ Len(msgs) = Len(all)
    BY <1>10, <1>12, <1>15
  <2>2. \A k \in 1..Len(msgs) : msgs[k] = all[k]
    BY <1>12, <1>16
  <2> HIDE DEF msgs
  <2>3. msgs = all
    BY <2>1, <2>2, SeqEqual
  <2> QED
    BY <2>3 DEF msgs
<1> QED
  BY <1>17 DEF all, one, rest, q

\* What one write adds, when it is a whole frame, is one message.
LEMMA MessagesFrame ==
  ASSUME NEW p \in Seq(Unit), NEW m \in Message
  PROVE  Messages(p \o Frame(m)) = Append(Messages(p), m)
<1> DEFINE f == Frame(m)
           q == p \o f
           S == Lengths(p)
           T == Lengths(q)
           n == Cardinality(S)
           l == Len(p) + 1
<1>1. /\ f \in Seq(Unit) /\ Len(f) = Size[m] + 1 /\ Size[m] \in Nat
      /\ f[1].part = "length" /\ f[1].of = m
      /\ \A i \in 2..(Size[m] + 1) : f[i].part = "body"
  <2>1. Size[m] \in Nat
    BY SizeType
  <2>2. [part |-> "length", of |-> m].part = "length"
        /\ [part |-> "length", of |-> m].of = m
        /\ [part |-> "body", of |-> m].part = "body"
    OBVIOUS
  <2>3. f[1] = [part |-> "length", of |-> m]
        /\ \A i \in 2..(Size[m] + 1) : f[i] = [part |-> "body", of |-> m]
    BY FrameProperties
  <2> QED
    BY <2>1, <2>2, <2>3, FrameProperties
<1>2. Len(p) \in Nat
  OBVIOUS
<1> HIDE DEF f
<1>3. /\ q \in Seq(Unit) /\ Len(q) = Len(p) + Len(f)
      /\ \A i \in 1..(Len(p) + Len(f)) : q[i] = IF i <= Len(p) THEN p[i] ELSE f[i - Len(p)]
  BY <1>1, ConcatProperties
<1>4. /\ S \in SUBSET Nat /\ IsFiniteSet(S) /\ n \in Nat
      /\ \A i : i \in S <=> i \in 1..Len(p) /\ p[i].part = "length"
  BY LengthsProperties
<1> HIDE DEF q
<1>5. \A i : i \in T <=> i \in 1..Len(q) /\ q[i].part = "length"
  BY <1>3, LengthsProperties
<1> HIDE DEF S, T, n
<1>6. \A i \in 1..Len(p) : q[i] = p[i] /\ i \in 1..Len(q)
  BY <1>1, <1>2, <1>3
<1>7. q[l] = f[1] /\ l \in 1..Len(q)
  <2>1. l \in 1..(Len(p) + Len(f)) /\ ~(l <= Len(p)) /\ l - Len(p) = 1
    BY <1>1, <1>2
  <2> QED
    BY <1>3, <2>1
<1>8. ASSUME NEW i \in 1..Len(q), i > l
      PROVE  q[i].part = "body"
  <2>1. i \in 1..(Len(p) + (Size[m] + 1)) /\ i > Len(p) + 1
    BY <1>1, <1>3, <1>8
  <2>2. \A a, s \in Nat : \A x \in 1..(a + (s + 1)) :
          x > a + 1 => ~(x <= a) /\ x - a \in 2..(s + 1)
    OBVIOUS
  <2>3. Len(p) \in Nat /\ Size[m] \in Nat
    BY <1>1, <1>2
  <2>4. ~(i <= Len(p)) /\ i - Len(p) \in 2..(Size[m] + 1)
    BY <2>1, <2>2, <2>3
  <2> QED
    BY <1>1, <1>3, <2>1, <2>4
<1>9. T = S \cup {l}
  <2>1. S \subseteq T
    BY <1>4, <1>5, <1>6
  <2>2. l \in T
    BY <1>1, <1>5, <1>7
  <2>3. \A i \in T : i \in S \/ i = l
    <3> TAKE i \in T
    <3>1. i \in 1..Len(q) /\ q[i].part = "length"
      BY <1>5
    <3>2. ~(i > l)
      BY <1>8, <3>1
    <3>3. i = l \/ i \in 1..Len(p)
      BY <1>2, <3>1, <3>2
    <3> QED
      BY <1>4, <1>6, <3>1, <3>3
  <2> QED
    BY <2>1, <2>2, <2>3
<1>10. /\ Cardinality(T) = n + 1
       /\ \A k \in 1..n : Nth(T, k) = Nth(S, k)
       /\ Nth(T, n + 1) = l
  <2>1. l \in Nat /\ \A i \in S : i < l
    BY <1>2, <1>4
  <2> HIDE DEF l
  <2>2. /\ Cardinality(T) = Cardinality(S) + 1
        /\ \A k \in 1..Cardinality(S) : Nth(T, k) = Nth(S, k)
        /\ Nth(T, Cardinality(S) + 1) = l
    <3>1. S \in SUBSET Nat /\ IsFiniteSet(S)
      BY <1>4
    <3>2. l \in Nat
      BY <2>1
    <3>3. \A i \in S : i < l
      BY <2>1
    <3>4. \A i : i \in T <=> i \in S \/ i = l
      BY <1>9
    <3> QED
      BY <3>1, <3>2, <3>3, <3>4, NthLast
  <2> QED
    BY <2>2 DEF n
<1>11. /\ Messages(q) \in Seq(Message) /\ Len(Messages(q)) = n + 1
       /\ \A k \in 1..(n + 1) : Messages(q)[k] = q[Nth(T, k)].of
  BY <1>3, <1>10, MessagesProperties DEF T
<1>12. /\ Messages(p) \in Seq(Message) /\ Len(Messages(p)) = n
       /\ \A k \in 1..n : Messages(p)[k] = p[Nth(S, k)].of
  BY MessagesProperties DEF S, n
<1>13. /\ Append(Messages(p), m) \in Seq(Message)
       /\ Len(Append(Messages(p), m)) = n + 1
       /\ \A k \in 1..n : Append(Messages(p), m)[k] = Messages(p)[k]
       /\ Append(Messages(p), m)[n + 1] = m
  BY <1>12, AppendProperties
<1>14. ASSUME NEW k \in 1..(n + 1)
       PROVE  Messages(q)[k] = Append(Messages(p), m)[k]
  <2>1. CASE k = n + 1
    BY <1>1, <1>7, <1>10, <1>11, <1>13, <2>1
  <2>2. CASE k # n + 1
    <3>1. k \in 1..n
      BY <1>4, <2>2
    <3>2. Nth(S, k) \in S
      BY <1>4, <3>1, NthProperties DEF n
    <3>3. Nth(S, k) \in 1..Len(p)
      BY <1>4, <3>2
    <3> QED
      BY <1>6, <1>10, <1>11, <1>12, <1>13, <3>1, <3>3
  <2> QED
    BY <2>1, <2>2
<1> QED
  BY <1>4, <1>11, <1>13, <1>14, SeqEqual DEF q, f

-----------------------------------------------------------------------------
(* The types.                                                              *)

LEMMA ThreadFacts ==
  /\ \A t \in Thread : In(t) \in Queue /\ Out(t) \in Queue /\ In(t) # Out(t)
  /\ \A s, t \in Thread : s # t => In(s) = Out(t) /\ Out(s) = In(t)
  /\ \A s, t \in Thread : In(s) = In(t) => s = t
  /\ \A q \in Queue : \E t \in Thread : In(t) = q
BY DEF Thread, Queue, In, Out

\* What a write takes out of its frame fits into the pipe.
LEMMA WriteFits ==
  ASSUME TypeOK, NEW t \in Thread, NEW n, n = Min({Room(Out(t)), Len(writing[t])})
  PROVE  /\ Room(Out(t)) \in Nat
         /\ n \in 0..Len(writing[t]) /\ n <= Room(Out(t))
<1>1. /\ Out(t) \in Queue /\ pipe[Out(t)] \in Seq(Unit)
      /\ Len(pipe[Out(t)]) <= Capacity /\ writing[t] \in Seq(Unit)
  BY ThreadFacts DEF TypeOK
<1>2. Len(pipe[Out(t)]) \in Nat /\ Len(writing[t]) \in Nat /\ Capacity \in Nat
  BY <1>1, PipeAssumption
<1>3. Room(Out(t)) \in Nat
  BY <1>1, <1>2 DEF Room
<1>4. \A a, b \in Nat : Min({a, b}) \in 0..b /\ Min({a, b}) <= a
  <2> TAKE a, b \in Nat
  <2>1. Min({a, b}) = IF a <= b THEN a ELSE b
    BY MinOfTwo
  <2> QED
    BY <2>1
<1> QED
  BY <1>2, <1>3, <1>4

LEMMA WriteType ==
  ASSUME TypeOK, NEW t \in Thread, Write(t)
  PROVE  TypeOK'
<1> DEFINE p == pipe[Out(t)]
           f == writing[t]
           n == Min({Room(Out(t)), Len(f)})
<1>1. /\ pipe' = [pipe EXCEPT ![Out(t)] = p \o SubSeq(f, 1, n)]
      /\ writing' = [writing EXCEPT ![t] = Drop(f, n)]
      /\ at' = [at EXCEPT ![t] = IF n = Len(f) THEN "idle" ELSE @]
      /\ UNCHANGED <<length, reads, link, puts, received, large, closed>>
  BY DEF Write, Drop, TypeOK
<1>2. Out(t) \in Queue /\ p \in Seq(Unit) /\ f \in Seq(Unit)
  BY ThreadFacts DEF TypeOK
<1>3. n \in 0..Len(f) /\ n <= Room(Out(t))
  BY WriteFits
<1>4. Capacity \in Nat /\ Room(Out(t)) = Capacity - Len(p)
  BY PipeAssumption DEF Room
<1> HIDE DEF n, p, f
<1> DEFINE w == SubSeq(f, 1, n)
<1>5. w \in Seq(Unit) /\ Len(w) = n
  BY <1>2, <1>3, TakeProperties
<1>6. Drop(f, n) \in Seq(Unit)
  BY <1>2, <1>3, DropProperties
<1> HIDE DEF w
<1>7. p \o w \in Seq(Unit) /\ Len(p \o w) = Len(p) + n
  BY <1>2, <1>5, ConcatProperties
<1>8. Len(p \o w) <= Capacity
  BY <1>2, <1>3, <1>4, <1>7
<1>9. pipe' = [pipe EXCEPT ![Out(t)] = p \o w]
  BY <1>1 DEF w
<1>10. pipe' \in [Queue -> Seq(Unit)] /\ \A q \in Queue : Len(pipe'[q]) <= Capacity
  BY <1>7, <1>8, <1>9 DEF TypeOK
<1>11. writing' \in [Thread -> Seq(Unit)]
  BY <1>1, <1>6 DEF TypeOK
<1>12. at' \in [Thread -> {"idle", "putting", "getting"}]
  BY <1>1 DEF TypeOK
<1> QED
  BY <1>1, <1>10, <1>11, <1>12 DEF TypeOK, link

LEMMA GetLengthType ==
  ASSUME TypeOK, NEW t \in Thread, GetLength(t)
  PROVE  TypeOK'
<1> DEFINE p == pipe[In(t)]
<1>1. In(t) \in Queue /\ p \in Seq(Unit) /\ Len(p) <= Capacity /\ p # <<>>
  BY ThreadFacts DEF GetLength, TypeOK
<1>2. /\ length' = [length EXCEPT ![t] = Head(p)]
      /\ pipe' = [pipe EXCEPT ![In(t)] = Tail(p)]
      /\ at' = [at EXCEPT ![t] = "getting"]
      /\ UNCHANGED <<writing, reads, link, puts, received, large, closed>>
  BY DEF GetLength, TypeOK
<1>3. Capacity \in Nat
  BY PipeAssumption
<1> HIDE DEF p
<1>4. Head(p) \in Unit /\ Tail(p) \in Seq(Unit) /\ Len(Tail(p)) = Len(p) - 1
      /\ Len(p) \in Nat
  BY <1>1, HeadTailProperties
<1>5. Len(Tail(p)) <= Capacity
  BY <1>1, <1>3, <1>4
<1>6. pipe' \in [Queue -> Seq(Unit)] /\ \A q \in Queue : Len(pipe'[q]) <= Capacity
  BY <1>2, <1>4, <1>5 DEF TypeOK
<1>7. length' \in [Thread -> Unit \cup {Nothing}]
  BY <1>2, <1>4 DEF TypeOK
<1>8. at' \in [Thread -> {"idle", "putting", "getting"}]
  BY <1>2 DEF TypeOK
<1> QED
  BY <1>2, <1>6, <1>7, <1>8 DEF TypeOK, link

\* A get takes what is there, and no more than the message's size.
LEMMA TakenProperties ==
  ASSUME TypeOK, NEW t \in Thread, at[t] = "getting"
  PROVE  /\ Taken(t) \in 0..Len(pipe[In(t)])
         /\ length[t].part = "length" => length[t].of \in Message
<1>1. pipe[In(t)] \in Seq(Unit) /\ length[t] \in Unit \cup {Nothing}
  BY ThreadFacts DEF TypeOK
<1>2. Len(pipe[In(t)]) \in Nat
  BY <1>1
<1>3. ASSUME length[t].part = "length"
      PROVE  length[t].of \in Message
  <2>1. length[t] \in Unit
    BY <1>1, <1>3 DEF Nothing
  <2> QED
    BY <2>1, UnitFields
<1>4. CASE length[t].part = "length"
  <2>1. Size[length[t].of] \in Nat
    BY <1>3, <1>4, SizeType
  <2> QED
    BY <1>2, <1>3, <1>4, <2>1, MinOfTwo DEF Taken
<1>5. CASE length[t].part # "length"
  BY <1>2, <1>5 DEF Taken
<1> QED
  BY <1>4, <1>5

LEMMA GetBodyType ==
  ASSUME TypeOK, NEW t \in Thread, GetBody(t)
  PROVE  TypeOK'
<1> DEFINE p == pipe[In(t)]
           n == Taken(t)
<1>1. In(t) \in Queue /\ p \in Seq(Unit) /\ Len(p) <= Capacity /\ at[t] = "getting"
  BY ThreadFacts DEF GetBody, TypeOK
<1>2. /\ pipe' = [pipe EXCEPT ![In(t)] = Drop(p, n)]
      /\ at' = [at EXCEPT ![t] = "idle"]
      /\ length' = [length EXCEPT ![t] = Nothing]
      /\ UNCHANGED <<writing, link, puts, large, closed>>
  BY DEF GetBody, Drop, TypeOK
<1>3. n \in 0..Len(p)
  BY <1>1, TakenProperties
<1>4. Capacity \in Nat
  BY PipeAssumption
<1>5. received' \in [Queue -> Seq(Message)] /\ reads' \subseteq Thread
  <2>1. CASE Intact(t)
    <3>1. length[t].of \in Message
      BY <1>1, <2>1, TakenProperties DEF Intact
    <3>2. received' = [received EXCEPT ![In(t)] = Append(@, length[t].of)] /\ reads' = reads
      BY <2>1 DEF GetBody
    <3> QED
      BY <1>1, <3>1, <3>2 DEF TypeOK
  <2>2. CASE ~Intact(t)
    BY <2>2 DEF GetBody, TypeOK
  <2> QED
    BY <2>1, <2>2
<1> HIDE DEF p, n
<1>6. Drop(p, n) \in Seq(Unit) /\ Len(Drop(p, n)) = Len(p) - n /\ Len(p) \in Nat
  BY <1>1, <1>3, DropProperties
<1>7. Len(Drop(p, n)) <= Capacity
  BY <1>1, <1>3, <1>4, <1>6
<1>8. pipe' \in [Queue -> Seq(Unit)] /\ \A q \in Queue : Len(pipe'[q]) <= Capacity
  BY <1>2, <1>6, <1>7 DEF TypeOK
<1>9. /\ length' \in [Thread -> Unit \cup {Nothing}]
      /\ at' \in [Thread -> {"idle", "putting", "getting"}]
  BY <1>2 DEF TypeOK
<1> QED
  BY <1>2, <1>5, <1>8, <1>9 DEF TypeOK, link

LEMMA StartPutType ==
  ASSUME TypeOK, NEW t \in Thread, StartPut(t)
  PROVE  TypeOK'
<1>1. PICK m \in Message :
        /\ writing' = [writing EXCEPT ![t] = Frame(m)]
        /\ large' = IF Len(Frame(m)) > Atomic THEN large \cup {Out(t)} ELSE large
  BY DEF StartPut
<1>2. Out(t) \in Queue /\ puts[Out(t)] \in 0..MaxPuts /\ puts[Out(t)] < MaxPuts
      /\ MaxPuts \in Nat
  BY ThreadFacts, PipeAssumption DEF StartPut, TypeOK
<1>3. writing' \in [Thread -> Seq(Unit)] /\ large' \subseteq Queue
  BY <1>1, <1>2, FrameProperties DEF TypeOK
<1>4. puts[Out(t)] + 1 \in 0..MaxPuts
  BY <1>2
<1>5. puts' \in [Queue -> 0..MaxPuts]
  BY <1>4 DEF StartPut, TypeOK
<1>6. at' \in [Thread -> {"idle", "putting", "getting"}]
  BY DEF StartPut, TypeOK
<1> QED
  BY <1>3, <1>5, <1>6 DEF StartPut, TypeOK, link

\* The types: in particular, no pipe ever holds more than it can.
THEOREM TypeCorrect == Spec => []TypeOK
<1>1. Init => TypeOK
  <2> SUFFICES ASSUME Init PROVE TypeOK
    OBVIOUS
  <2>1. {Capacity, MaxPuts, MaxSessions} \subseteq Nat
    BY PipeAssumption
  <2>2. \A q \in Queue : Len(pipe[q]) <= Capacity
    BY <2>1 DEF Init
  <2>3. pipe \in [Queue -> Seq(Unit)] /\ received \in [Queue -> Seq(Message)]
    BY DEF Init
  <2>4. writing \in [Thread -> Seq(Unit)] /\ length \in [Thread -> Unit \cup {Nothing}]
    BY DEF Init
  <2>5. puts \in [Queue -> 0..MaxPuts]
    BY <2>1 DEF Init
  <2>6. at \in [Thread -> {"idle", "putting", "getting"}] /\ closed \in BOOLEAN
    BY DEF Init
  <2>7. reads \subseteq Thread /\ session \in BOOLEAN /\ sessions \in 0..MaxSessions
    <3>1. \A n \in Nat : 0 \in 0..n
      OBVIOUS
    <3> QED
      BY <2>1, <3>1 DEF Init, Thread
  <2> QED
    BY <2>2, <2>3, <2>4, <2>5, <2>6, <2>7 DEF Init, TypeOK
<1>2. TypeOK /\ [Next]_vars => TypeOK'
  <2> SUFFICES ASSUME TypeOK, [Next]_vars PROVE TypeOK'
    OBVIOUS
  <2>1. ASSUME NEW t \in Thread, UseClosed(t) PROVE TypeOK'
    BY <2>1 DEF UseClosed, TypeOK, link
  <2>2. CASE AgentDies
    BY <2>2 DEF AgentDies, TypeOK, link
  <2>3. CASE StopAll
    BY <2>3 DEF StopAll, TypeOK, link
  <2>4. CASE UNCHANGED vars
    BY <2>4 DEF vars, TypeOK, link
  <2>5. CASE Connects
    <3>1. \A n \in Nat : \A k \in 0..n : k < n => k + 1 \in 0..n
      OBVIOUS
    <3>2. MaxSessions \in Nat /\ sessions \in 0..MaxSessions /\ sessions < MaxSessions
      BY <2>5, PipeAssumption DEF Connects, TypeOK
    <3>3. sessions' \in 0..MaxSessions
      BY <2>5, <3>1, <3>2 DEF Connects
    <3>4. session' \in BOOLEAN /\ reads' \subseteq Thread
      BY <2>5 DEF Connects, TypeOK, Thread
    <3> QED
      BY <2>5, <3>3, <3>4 DEF Connects, TypeOK
  <2>6. CASE Disconnects
    BY <2>6 DEF Disconnects, TypeOK
  <2> QED
    BY <2>1, <2>2, <2>3, <2>4, <2>5, <2>6, StartPutType, WriteType, GetLengthType, GetBodyType
    DEF Next
<1> QED
  BY <1>1, <1>2, PTL DEF Spec

-----------------------------------------------------------------------------
(* The inductive invariant: as long as a queue is whole, its pipe holds    *)
(* whole frames, and its writer has a whole one in hand.                   *)

Whole(q) == ~closed /\ q \notin large

\* At place i of p, a frame begins, or nothing is there.
StartsAt(p, i) == i \in 1..Len(p) => p[i].part = "length"

\* After place i of p comes the body of m, and after that the next frame.
BodyAfter(p, i, m) ==
  /\ i + Size[m] <= Len(p)
  /\ \A j \in 1..Size[m] : p[i + j] = [part |-> "body", of |-> m]
  /\ StartsAt(p, i + Size[m] + 1)

Framed(p) == \A i \in Lengths(p) : BodyAfter(p, i, p[i].of)

\* A reader between two gets is about to read a length; one that has read it
\* finds the body.
ReaderOK(t) ==
  Whole(In(t)) =>
    IF at[t] = "getting"
      THEN /\ length[t] \in Unit /\ length[t].part = "length"
           /\ BodyAfter(pipe[In(t)], 0, length[t].of)
      ELSE StartsAt(pipe[In(t)], 1)

WriterOK(t) ==
  Whole(Out(t)) /\ at[t] = "putting" =>
    \E m \in Message : writing[t] = Frame(m) /\ Len(Frame(m)) <= Atomic

FramesOK ==
  /\ \A q \in Queue : Whole(q) => Framed(pipe[q])
  /\ \A t \in Thread : ReaderOK(t) /\ WriterOK(t)

\* What has been written stays where it is when a frame follows.
LEMMA BodyAfterFrame ==
  ASSUME NEW p \in Seq(Unit), NEW m \in Message, NEW f, f = p \o Frame(m)
  PROVE  /\ f \in Seq(Unit)
         /\ \A i \in 1..(Len(p) + 1) : StartsAt(p, i) => StartsAt(f, i)
         /\ \A i \in 0..Len(p) : \A x \in Message :
              BodyAfter(p, i, x) => BodyAfter(f, i, x)
         /\ Framed(p) => Framed(f)
<1> DEFINE l == Len(p)
           s == Size[m]
           w == Frame(m)
<1>1. l \in Nat /\ s \in Nat
  BY SizeType
<1>2. /\ w \in Seq(Unit) /\ Len(w) = s + 1 /\ w[1] = [part |-> "length", of |-> m]
      /\ \A i \in 2..(s + 1) : w[i] = [part |-> "body", of |-> m]
  BY FrameProperties
<1>3. /\ f \in Seq(Unit) /\ Len(f) = l + (s + 1)
      /\ \A i \in 1..(l + (s + 1)) : f[i] = IF i <= l THEN p[i] ELSE w[i - l]
  <2> HIDE DEF w
  <2>1. /\ p \o w \in Seq(Unit) /\ Len(p \o w) = Len(p) + Len(w)
        /\ \A i \in 1..(Len(p) + Len(w)) :
             (p \o w)[i] = IF i <= Len(p) THEN p[i] ELSE w[i - Len(p)]
    BY <1>2, ConcatProperties
  <2>2. f = p \o w
    BY DEF w
  <2> QED
    BY <1>2, <2>1, <2>2
<1> HIDE DEF l, s, w
<1>4. \A i \in 1..l : i \in 1..Len(f) /\ f[i] = p[i]
  BY <1>1, <1>3
<1>5. l + 1 \in 1..Len(f) /\ f[l + 1] = [part |-> "length", of |-> m]
  <2>1. l + 1 \in 1..(l + (s + 1)) /\ ~(l + 1 <= l) /\ (l + 1) - l = 1
    BY <1>1
  <2> QED
    BY <1>2, <1>3, <2>1
<1>6. \A j \in 1..s : f[(l + 1) + j] = [part |-> "body", of |-> m]
  <2> TAKE j \in 1..s
  <2>1. /\ (l + 1) + j \in 1..(l + (s + 1)) /\ ~((l + 1) + j <= l)
        /\ ((l + 1) + j) - l \in 2..(s + 1)
    BY <1>1
  <2> QED
    BY <1>2, <1>3, <2>1
<1>7. [part |-> "length", of |-> m].part = "length" /\ [part |-> "length", of |-> m].of = m
      /\ [part |-> "body", of |-> m].part # "length"
  OBVIOUS
<1>8. Len(p) = l
  BY DEF l
<1>9. ASSUME NEW i \in 1..(l + 1), StartsAt(p, i)
      PROVE  StartsAt(f, i)
  <2>1. CASE i = l + 1
    BY <1>5, <1>7, <2>1 DEF StartsAt
  <2>2. CASE i # l + 1
    <3>1. i \in 1..l
      BY <1>1, <2>2
    <3> QED
      BY <1>4, <1>8, <1>9, <3>1 DEF StartsAt
  <2> QED
    BY <2>1, <2>2
<1>10. ASSUME NEW i \in 0..l, NEW x \in Message, BodyAfter(p, i, x)
       PROVE  BodyAfter(f, i, x)
  <2> DEFINE k == Size[x]
  <2>1. k \in Nat
    BY SizeType
  <2>2. /\ i + k <= l
        /\ \A j \in 1..k : p[i + j] = [part |-> "body", of |-> x]
        /\ StartsAt(p, i + k + 1)
    BY <1>8, <1>10 DEF BodyAfter
  <2> HIDE DEF k
  <2>3. i + k <= Len(f) /\ i + k + 1 \in 1..(l + 1)
    BY <1>1, <1>3, <2>1, <2>2
  <2>4. \A j \in 1..k : f[i + j] = [part |-> "body", of |-> x]
    <3> TAKE j \in 1..k
    <3>1. i + j \in 1..l
      BY <1>1, <2>1, <2>2
    <3> QED
      BY <1>4, <2>2, <3>1
  <2>5. StartsAt(f, i + k + 1)
    BY <1>9, <2>2, <2>3
  <2> QED
    BY <2>3, <2>4, <2>5 DEF BodyAfter, k
<1>11. BodyAfter(f, l + 1, m)
  <2>1. (l + 1) + s <= Len(f)
    BY <1>1, <1>3
  <2>2. ~((l + 1) + s + 1 \in 1..Len(f))
    BY <1>1, <1>3
  <2>3. StartsAt(f, (l + 1) + s + 1)
    BY <2>2 DEF StartsAt
  <2> QED
    BY <1>6, <2>1, <2>3 DEF BodyAfter, s
<1>12. ASSUME Framed(p), NEW i \in Lengths(f)
       PROVE  BodyAfter(f, i, f[i].of)
  <2>1. i \in 1..(l + (s + 1)) /\ f[i].part = "length"
    BY <1>3, <1>12, LengthsProperties
  <2>2. CASE i \in 1..l
    <3>1. i \in Lengths(p) /\ f[i] = p[i] /\ p[i] \in Unit
      BY <1>4, <1>8, <2>1, <2>2, LengthsProperties, ElementOfSeq
    <3>2. BodyAfter(p, i, p[i].of) /\ p[i].of \in Message /\ i \in 0..l
      BY <1>12, <2>2, <3>1, UnitFields DEF Framed
    <3> QED
      BY <1>10, <3>1, <3>2
  <2>3. CASE i = l + 1
    BY <1>5, <1>7, <1>11, <2>3
  <2>4. CASE i > l + 1
    <3> DEFINE j == i - (l + 1)
    <3>1. j \in 1..s /\ (l + 1) + j = i
      BY <1>1, <2>1, <2>4
    <3> HIDE DEF j
    <3>2. f[i].part # "length"
      BY <1>6, <1>7, <3>1
    <3> QED
      BY <2>1, <3>2
  <2>5. i \in 1..l \/ i = l + 1 \/ i > l + 1
    BY <1>1, <2>1
  <2> QED
    BY <2>2, <2>3, <2>4, <2>5
<1> QED
  BY <1>3, <1>8, <1>9, <1>10, <1>12 DEF Framed

\* What follows the d units that are taken out comes d places earlier.
LEMMA BodyAfterDrop ==
  ASSUME NEW p \in Seq(Unit), NEW d \in 0..Len(p), NEW q, q = Drop(p, d)
  PROVE  /\ q \in Seq(Unit)
         /\ \A i \in Nat \ {0} : StartsAt(p, i + d) => StartsAt(q, i)
         /\ \A i \in Nat : \A x \in Message :
              BodyAfter(p, i + d, x) => BodyAfter(q, i, x)
         /\ Framed(p) => Framed(q)
<1>1. /\ q \in Seq(Unit) /\ Len(q) = Len(p) - d
      /\ \A i \in 1..(Len(p) - d) : q[i] = p[i + d]
  BY DropProperties
<1>2. Len(p) \in Nat
  OBVIOUS
<1>3. \A i \in 1..Len(q) : i + d \in 1..Len(p) /\ q[i] = p[i + d]
  BY <1>1, <1>2
<1>4. ASSUME NEW i \in Nat \ {0}, StartsAt(p, i + d)
      PROVE  StartsAt(q, i)
  BY <1>3, <1>4 DEF StartsAt
<1>5. ASSUME NEW i \in Nat, NEW x \in Message, BodyAfter(p, i + d, x)
      PROVE  BodyAfter(q, i, x)
  <2> DEFINE k == Size[x]
  <2>1. k \in Nat
    BY SizeType
  <2>2. /\ (i + d) + k <= Len(p)
        /\ \A j \in 1..k : p[(i + d) + j] = [part |-> "body", of |-> x]
        /\ StartsAt(p, (i + d) + k + 1)
    BY <1>5 DEF BodyAfter
  <2> HIDE DEF k
  <2>3. i + k <= Len(q)
    BY <1>1, <1>2, <2>1, <2>2
  <2>4. \A j \in 1..k : q[i + j] = [part |-> "body", of |-> x]
    <3> TAKE j \in 1..k
    <3>1. i + j \in 1..Len(q) /\ (i + j) + d = (i + d) + j
      BY <1>1, <1>2, <2>1, <2>3
    <3> QED
      BY <1>3, <2>2, <3>1
  <2>5. StartsAt(q, i + k + 1)
    <3>1. i + k + 1 \in Nat \ {0} /\ (i + k + 1) + d = (i + d) + k + 1
      BY <2>1
    <3> QED
      BY <1>4, <2>2, <3>1
  <2> QED
    BY <2>3, <2>4, <2>5 DEF BodyAfter, k
<1>6. ASSUME Framed(p), NEW i \in Lengths(q)
      PROVE  BodyAfter(q, i, q[i].of)
  <2>1. i \in 1..Len(q) /\ q[i].part = "length"
    BY <1>1, <1>6, LengthsProperties
  <2>2. i + d \in 1..Len(p) /\ q[i] = p[i + d] /\ p[i + d] \in Unit /\ i \in Nat
    BY <1>3, <2>1, ElementOfSeq
  <2>3. i + d \in Lengths(p)
    BY <2>1, <2>2, LengthsProperties
  <2>4. BodyAfter(p, i + d, p[i + d].of) /\ p[i + d].of \in Message
    BY <1>6, <2>2, <2>3, UnitFields DEF Framed
  <2> QED
    BY <1>5, <2>2, <2>4
<1> QED
  BY <1>1, <1>4, <1>5, <1>6 DEF Framed

-----------------------------------------------------------------------------
(* What the steps do to a whole queue.                                     *)

\* A write adds a whole frame.
LEMMA WholeWrite ==
  ASSUME TypeOK, FramesOK, NEW t \in Thread, Write(t), Whole(Out(t))
  PROVE  \E m \in Message :
           /\ pipe' = [pipe EXCEPT ![Out(t)] = @ \o Frame(m)]
           /\ at' = [at EXCEPT ![t] = "idle"]
<1> DEFINE f == writing[t]
           n == Min({Room(Out(t)), Len(f)})
<1>1. PICK m \in Message : f = Frame(m) /\ Len(Frame(m)) <= Atomic
  BY DEF FramesOK, WriterOK, Write
<1>2. /\ Frame(m) \in Seq(Unit) /\ Len(Frame(m)) = Size[m] + 1 /\ Size[m] \in Nat
      /\ Frame(m)[1] = [part |-> "length", of |-> m]
  BY FrameProperties, SizeType
<1>3. Head(Frame(m)).part = "length"
  <2>1. Head(Frame(m)) = Frame(m)[1]
    BY <1>2
  <2> QED
    BY <1>2, <2>1
<1>4. Needed(f) = Len(f)
  BY <1>1, <1>3 DEF Needed, AtOnce
<1>5. Room(Out(t)) >= Len(f)
  BY <1>4 DEF Write
<1>6. n = Len(f)
  <2>1. Room(Out(t)) \in Nat /\ Len(f) \in Nat
    <3>1. Len(f) \in Nat
      BY <1>1, <1>2
    <3>2. Room(Out(t)) \in Nat
      BY WriteFits
    <3> QED
      BY <3>1, <3>2
  <2>2. n = IF Room(Out(t)) <= Len(f) THEN Room(Out(t)) ELSE Len(f)
    BY <2>1, MinOfTwo
  <2> QED
    BY <1>5, <2>1, <2>2
<1>7. SubSeq(f, 1, n) = Frame(m)
  BY <1>1, <1>2, <1>6, SubSeqFull
<1>8. /\ pipe' = [pipe EXCEPT ![Out(t)] = @ \o SubSeq(f, 1, n)]
      /\ at' = [at EXCEPT ![t] = IF n = Len(f) THEN "idle" ELSE @]
  BY DEF Write
<1> QED
  BY <1>6, <1>7, <1>8

\* What is taken for a length is one.
LEMMA WholeGetLength ==
  ASSUME TypeOK, FramesOK, NEW t \in Thread, GetLength(t), Whole(In(t))
  PROVE  LET p == pipe[In(t)] IN
         /\ p \in Seq(Unit) /\ p # <<>> /\ p[1] \in Unit /\ p[1].part = "length"
         /\ 1 \in 0..Len(p) /\ 1 \in Lengths(p)
         /\ Tail(p) = Drop(p, 1)
         /\ pipe' = [pipe EXCEPT ![In(t)] = Tail(p)]
         /\ length'[t] = p[1]
<1> DEFINE p == pipe[In(t)]
<1>1. In(t) \in Queue /\ p \in Seq(Unit) /\ p # <<>>
  BY ThreadFacts DEF TypeOK, GetLength
<1>2. /\ pipe' = [pipe EXCEPT ![In(t)] = Tail(p)]
      /\ length'[t] = Head(p)
  BY DEF GetLength, TypeOK
<1>3. StartsAt(p, 1)
  BY DEF FramesOK, ReaderOK, GetLength
<1> HIDE DEF p
<1>4. Len(p) \in Nat \ {0}
  BY <1>1, EmptySeq
<1>5. 1 \in 1..Len(p) /\ 1 \in 0..Len(p)
  BY <1>4
<1>6. p[1] \in Unit /\ p[1].part = "length" /\ 1 \in Lengths(p)
  BY <1>1, <1>3, <1>5, ElementOfSeq, LengthsProperties DEF StartsAt
<1>7. Head(p) = p[1]
  BY <1>1
<1>8. Tail(p) = Drop(p, 1)
  BY <1>1, TailIsSubSeq DEF Drop
<1> QED
  BY <1>1, <1>2, <1>5, <1>6, <1>7, <1>8 DEF p

\* The body comes out whole.
LEMMA WholeGetBody ==
  ASSUME TypeOK, FramesOK, NEW t \in Thread, GetBody(t), Whole(In(t))
  PROVE  LET p == pipe[In(t)]
             m == length[t].of
         IN
         /\ m \in Message /\ p \in Seq(Unit) /\ Size[m] \in 0..Len(p)
         /\ \A i \in 1..Size[m] : p[i].part = "body"
         /\ StartsAt(p, Size[m] + 1)
         /\ pipe' = [pipe EXCEPT ![In(t)] = Drop(p, Size[m])]
         /\ received' = [received EXCEPT ![In(t)] = Append(@, m)]
<1> DEFINE p == pipe[In(t)]
           m == length[t].of
           s == Size[m]
           body == Tail(Frame(m))
           taken == SubSeq(p, 1, s)
<1>1. In(t) \in Queue /\ p \in Seq(Unit) /\ at[t] = "getting" /\ Len(p) \in Nat
  BY ThreadFacts DEF TypeOK, GetBody
<1>2. length[t] \in Unit /\ length[t].part = "length" /\ BodyAfter(p, 0, m)
  BY <1>1 DEF FramesOK, ReaderOK
<1>3. m \in Message /\ s \in Nat
  BY <1>2, UnitFields, SizeType
<1>4. /\ 0 + s <= Len(p)
      /\ \A j \in 1..s : p[0 + j] = [part |-> "body", of |-> m]
      /\ StartsAt(p, 0 + s + 1)
  BY <1>2 DEF BodyAfter
<1>5. Taken(t) = s
  <2>1. Taken(t) = Min({s, Len(p)})
    BY <1>2 DEF Taken
  <2> HIDE DEF s
  <2>2. Min({s, Len(p)}) = IF s <= Len(p) THEN s ELSE Len(p)
    BY <1>1, <1>3, MinOfTwo
  <2> QED
    BY <1>1, <1>3, <1>4, <2>1, <2>2
<1>6. pipe' = [pipe EXCEPT ![In(t)] = Drop(p, s)]
  BY <1>5 DEF GetBody, Drop
<1>7. Intact(t) <=> taken = body
  BY <1>2, <1>5 DEF Intact
<1>8. Intact(t) => received' = [received EXCEPT ![In(t)] = Append(@, m)]
  BY DEF GetBody
<1>9. /\ Frame(m) \in Seq(Unit) /\ Len(Frame(m)) = s + 1
      /\ \A i \in 2..(s + 1) : Frame(m)[i] = [part |-> "body", of |-> m]
  BY <1>3, FrameProperties
<1> HIDE DEF p, s, m, body, taken
<1>10. /\ s \in 0..Len(p) /\ StartsAt(p, s + 1)
       /\ \A j \in 1..s : p[j] = [part |-> "body", of |-> m]
  <2>1. 0 + s = s /\ 0 + s + 1 = s + 1 /\ \A j \in 1..s : 0 + j = j
    BY <1>3
  <2> QED
    BY <1>1, <1>3, <1>4, <2>1
<1>11. /\ taken \in Seq(Unit) /\ Len(taken) = s
       /\ \A j \in 1..s : taken[j] = p[j]
  <2>1. \A j \in 1..s : p[j] \in Unit
    BY <1>1, <1>10, ElementOfSeq
  <2>2. /\ SubSeq(p, 1, s) \in Seq(Unit)
        /\ Len(SubSeq(p, 1, s)) = IF 1 <= s THEN s - 1 + 1 ELSE 0
        /\ \A j \in 1..(s - 1 + 1) : SubSeq(p, 1, s)[j] = p[1 + j - 1]
    <3>1. 1 \in Int /\ s \in Int
      BY <1>3
    <3> QED
      BY <2>1, <3>1, SubSeqProperties
  <2>3. s - 1 + 1 = s /\ \A j \in 1..s : 1 + j - 1 = j
    BY <1>3
  <2> QED
    BY <1>3, <2>2, <2>3 DEF taken
<1>12. /\ body \in Seq(Unit) /\ Len(body) = s
       /\ \A j \in 1..s : body[j] = [part |-> "body", of |-> m]
  <2> DEFINE w == Frame(m)
  <2>1. w # <<>>
    BY <1>3, <1>9
  <2> HIDE DEF w
  <2>2. /\ Tail(w) \in Seq(Unit) /\ Len(Tail(w)) = Len(w) - 1
        /\ \A j \in 1..Len(Tail(w)) : Tail(w)[j] = w[j + 1]
    BY <1>9, <2>1, HeadTailProperties DEF w
  <2>3. Len(w) = s + 1 /\ \A j \in 1..s : j + 1 \in 2..(s + 1)
    BY <1>3, <1>9 DEF w
  <2>4. Len(Tail(w)) = s
    BY <1>3, <2>2, <2>3
  <2>5. \A j \in 1..s : Tail(w)[j] = [part |-> "body", of |-> m]
    BY <1>9, <2>2, <2>3, <2>4 DEF w
  <2> QED
    BY <2>2, <2>4, <2>5 DEF body, w
<1>13. taken = body
  BY <1>10, <1>11, <1>12, SeqEqual
<1>14. \A j \in 1..s : p[j].part = "body"
  BY <1>10
<1> QED
  BY <1>1, <1>3, <1>6, <1>7, <1>8, <1>10, <1>13, <1>14 DEF p, m, s

-----------------------------------------------------------------------------
(* The invariant is kept.                                                  *)

\* No queue becomes whole again.
LEMMA NeverWholeAgain ==
  ASSUME TypeOK, Next, NEW q \in Queue, Whole(q)'
  PROVE  Whole(q)
<1>1. ASSUME NEW t \in Thread, StartPut(t) PROVE Whole(q)
  <2>1. closed' = closed /\ (large' = large \/ large' = large \cup {Out(t)})
    BY <1>1 DEF StartPut
  <2> QED
    BY <2>1 DEF Whole
<1>2. ASSUME NEW t \in Thread,
             Write(t) \/ GetLength(t) \/ GetBody(t) \/ UseClosed(t)
      PROVE  Whole(q)
  BY <1>2 DEF Write, GetLength, GetBody, UseClosed, Whole
<1>3. CASE AgentDies \/ Connects \/ Disconnects
  BY <1>3 DEF AgentDies, Connects, Disconnects, Whole
<1>4. CASE StopAll
  BY <1>4 DEF StopAll, Whole
<1> QED
  BY <1>1, <1>2, <1>3, <1>4 DEF Next

\* A pipe that does not change stays well framed for its reader, ...
LEMMA ReaderSame ==
  ASSUME NEW t \in Thread, ReaderOK(t), Whole(In(t))' => Whole(In(t)),
         pipe'[In(t)] = pipe[In(t)], length'[t] = length[t],
         at'[t] = "getting" <=> at[t] = "getting"
  PROVE  ReaderOK(t)'
BY DEF ReaderOK, BodyAfter, StartsAt

\* ... and a writer that does not begin anything keeps what it had.
LEMMA WriterSame ==
  ASSUME NEW t \in Thread, WriterOK(t), Whole(Out(t))' => Whole(Out(t)),
         writing'[t] = writing[t], at'[t] = "putting" => at[t] = "putting"
  PROVE  WriterOK(t)'
BY DEF WriterOK

LEMMA FramedSame ==
  ASSUME FramesOK, NEW q \in Queue, Whole(q)' => Whole(q), pipe'[q] = pipe[q]
  PROVE  Whole(q)' => Framed(pipe'[q])
BY DEF FramesOK

LEMMA StartPutFrames ==
  ASSUME TypeOK, FramesOK, Next, NEW t \in Thread, StartPut(t)
  PROVE  FramesOK'
<1>1. PICK m \in Message :
        /\ writing' = [writing EXCEPT ![t] = Frame(m)]
        /\ large' = IF Len(Frame(m)) > Atomic THEN large \cup {Out(t)} ELSE large
  BY DEF StartPut
<1>2. /\ at[t] = "idle" /\ at' = [at EXCEPT ![t] = "putting"]
      /\ UNCHANGED <<pipe, length>>
  BY DEF StartPut
<1>3. \A q \in Queue : Whole(q)' => Whole(q)
  BY NeverWholeAgain
<1>4. ASSUME NEW u \in Thread PROVE ReaderOK(u)'
  <2>1. at'[u] = "getting" <=> at[u] = "getting"
    BY <1>2 DEF TypeOK
  <2> QED
    BY <1>2, <1>3, <2>1, ReaderSame, ThreadFacts DEF FramesOK
<1>5. ASSUME NEW u \in Thread PROVE WriterOK(u)'
  <2>1. CASE u = t
    <3> SUFFICES ASSUME Whole(Out(t))'
                 PROVE  writing'[t] = Frame(m) /\ Len(Frame(m)) <= Atomic
      BY <2>1 DEF WriterOK
    <3>1. writing'[t] = Frame(m)
      BY <1>1 DEF TypeOK
    <3>2. ~(Len(Frame(m)) > Atomic)
      BY <1>1 DEF Whole
    <3>3. Len(Frame(m)) \in Nat /\ Atomic \in Nat
      BY FrameProperties, PipeAssumption
    <3> QED
      BY <3>1, <3>2, <3>3
  <2>2. CASE u # t
    <3>1. writing'[u] = writing[u] /\ at'[u] = at[u]
      BY <1>1, <1>2, <2>2 DEF TypeOK
    <3> QED
      BY <1>3, <3>1, WriterSame, ThreadFacts DEF FramesOK
  <2> QED
    BY <2>1, <2>2
<1>6. ASSUME NEW q \in Queue PROVE Whole(q)' => Framed(pipe'[q])
  BY <1>2, <1>3, FramedSame
<1> QED
  BY <1>4, <1>5, <1>6 DEF FramesOK

LEMMA WriteFrames ==
  ASSUME TypeOK, FramesOK, Next, NEW t \in Thread, Write(t)
  PROVE  FramesOK'
<1> DEFINE o == Out(t)
           p == pipe[o]
<1>1. o \in Queue /\ p \in Seq(Unit) /\ at[t] = "putting"
  BY ThreadFacts DEF Write, TypeOK
<1>2. \A q \in Queue : Whole(q)' => Whole(q)
  BY NeverWholeAgain
<1>3. /\ length' = length
      /\ \A q \in Queue : q # o => pipe'[q] = pipe[q]
      /\ \A u \in Thread : u # t => at'[u] = at[u] /\ writing'[u] = writing[u]
      /\ at'[t] \in {"idle", "putting"}
  BY <1>1 DEF Write, TypeOK
<1>4. CASE ~Whole(o)
  <2>1. ~Whole(o)'
    BY <1>1, <1>2, <1>4
  <2>2. ASSUME NEW u \in Thread PROVE ReaderOK(u)'
    <3>1. CASE In(u) = o
      BY <2>1, <3>1 DEF ReaderOK
    <3>2. CASE In(u) # o
      <4>1. pipe'[In(u)] = pipe[In(u)] /\ (at'[u] = "getting" <=> at[u] = "getting")
        BY <1>1, <1>3, <3>2, ThreadFacts
      <4> QED
        BY <1>2, <1>3, <4>1, ReaderSame, ThreadFacts DEF FramesOK
    <3> QED
      BY <3>1, <3>2
  <2>3. ASSUME NEW u \in Thread PROVE WriterOK(u)'
    <3>1. CASE u = t
      BY <2>1, <3>1 DEF WriterOK
    <3>2. CASE u # t
      BY <1>2, <1>3, <3>2, WriterSame, ThreadFacts DEF FramesOK
    <3> QED
      BY <3>1, <3>2
  <2>4. ASSUME NEW q \in Queue PROVE Whole(q)' => Framed(pipe'[q])
    BY <1>2, <1>3, <2>1, FramedSame
  <2> QED
    BY <2>2, <2>3, <2>4 DEF FramesOK
<1>5. CASE Whole(o)
  <2>1. PICK m \in Message :
          /\ pipe' = [pipe EXCEPT ![o] = p \o Frame(m)]
          /\ at' = [at EXCEPT ![t] = "idle"]
    BY <1>5, WholeWrite
  <2> DEFINE f == p \o Frame(m)
  <2>2. pipe'[o] = f /\ at'[t] = "idle"
    BY <1>1, <2>1 DEF TypeOK
  <2>3. f = p \o Frame(m)
    OBVIOUS
  <2> HIDE DEF f
  <2>4. /\ \A i \in 1..(Len(p) + 1) : StartsAt(p, i) => StartsAt(f, i)
        /\ \A i \in 0..Len(p) : \A x \in Message :
             BodyAfter(p, i, x) => BodyAfter(f, i, x)
        /\ Framed(p) => Framed(f)
    <3>1. p \in Seq(Unit)
      BY <1>1
    <3> HIDE DEF p
    <3> QED
      BY <2>3, <3>1, BodyAfterFrame
  <2>5. 1 \in 1..(Len(p) + 1) /\ 0 \in 0..Len(p)
    BY <1>1
  <2>6. ASSUME NEW u \in Thread PROVE ReaderOK(u)'
    <3>1. CASE In(u) = o
      <4>1. u # t
        BY <3>1, ThreadFacts
      <4>2. at'[u] = at[u] /\ length'[u] = length[u] /\ pipe'[In(u)] = f
        BY <1>3, <2>2, <3>1, <4>1
      <4>3. CASE at[u] = "getting"
        <5>1. length[u] \in Unit /\ length[u].part = "length" /\ BodyAfter(p, 0, length[u].of)
          BY <1>5, <3>1, <4>3 DEF FramesOK, ReaderOK
        <5>2. BodyAfter(f, 0, length[u].of)
          BY <2>4, <2>5, <5>1, UnitFields
        <5> QED
          BY <4>2, <4>3, <5>1, <5>2 DEF ReaderOK, BodyAfter, StartsAt
      <4>4. CASE at[u] # "getting"
        <5>1. StartsAt(p, 1)
          BY <1>5, <3>1, <4>4 DEF FramesOK, ReaderOK
        <5>2. StartsAt(f, 1)
          BY <2>4, <2>5, <5>1
        <5> QED
          BY <4>2, <4>4, <5>2 DEF ReaderOK, StartsAt
      <4> QED
        BY <4>3, <4>4
    <3>2. CASE In(u) # o
      <4>1. pipe'[In(u)] = pipe[In(u)] /\ (at'[u] = "getting" <=> at[u] = "getting")
        BY <1>1, <1>3, <3>2, ThreadFacts
      <4> QED
        BY <1>2, <1>3, <4>1, ReaderSame, ThreadFacts DEF FramesOK
    <3> QED
      BY <3>1, <3>2
  <2>7. ASSUME NEW u \in Thread PROVE WriterOK(u)'
    <3>1. CASE u = t
      BY <2>2, <3>1 DEF WriterOK
    <3>2. CASE u # t
      BY <1>2, <1>3, <3>2, WriterSame, ThreadFacts DEF FramesOK
    <3> QED
      BY <3>1, <3>2
  <2>8. ASSUME NEW q \in Queue PROVE Whole(q)' => Framed(pipe'[q])
    <3>1. CASE q = o
      <4>1. Framed(p)
        BY <1>1, <1>5 DEF FramesOK
      <4> QED
        BY <2>2, <2>4, <3>1, <4>1
    <3>2. CASE q # o
      BY <1>2, <1>3, <3>2, FramedSame
    <3> QED
      BY <3>1, <3>2
  <2> QED
    BY <2>6, <2>7, <2>8 DEF FramesOK
<1> QED
  BY <1>4, <1>5

\* What both reads of a get leave to show: that the rest of a whole pipe is well
\* framed, for a reader that is where the read has left it.
LEMMA GetFrames ==
  ASSUME TypeOK, FramesOK, Next, NEW t \in Thread, GetLength(t) \/ GetBody(t),
         Whole(In(t)) => Framed(pipe'[In(t)]) /\ ReaderOK(t)'
  PROVE  FramesOK'
<1> DEFINE o == In(t)
<1>1. /\ o \in Queue
      /\ \A q \in Queue : q # o => pipe'[q] = pipe[q]
      /\ \A u \in Thread : u # t => at'[u] = at[u] /\ length'[u] = length[u]
      /\ writing' = writing /\ at'[t] # "putting"
  BY ThreadFacts DEF GetLength, GetBody, TypeOK
<1>2. \A q \in Queue : Whole(q)' => Whole(q)
  BY NeverWholeAgain
<1>3. ASSUME NEW u \in Thread PROVE ReaderOK(u)'
  <2>1. CASE u # t
    <3>1. In(u) # o /\ In(u) \in Queue
      BY <2>1, ThreadFacts
    <3>2. pipe'[In(u)] = pipe[In(u)] /\ at'[u] = at[u] /\ length'[u] = length[u]
      BY <1>1, <2>1, <3>1
    <3> QED
      BY <1>2, <3>1, <3>2, ReaderSame DEF FramesOK
  <2>2. CASE u = t /\ Whole(o)
    BY <2>2
  <2>3. CASE u = t /\ ~Whole(o)
    BY <1>1, <1>2, <2>3 DEF ReaderOK
  <2> QED
    BY <2>1, <2>2, <2>3
<1>4. ASSUME NEW u \in Thread PROVE WriterOK(u)'
  <2>1. writing'[u] = writing[u] /\ (at'[u] = "putting" => at[u] = "putting")
    BY <1>1
  <2> QED
    BY <1>2, <2>1, WriterSame, ThreadFacts DEF FramesOK
<1>5. ASSUME NEW q \in Queue PROVE Whole(q)' => Framed(pipe'[q])
  <2>1. CASE q = o
    BY <1>1, <1>2, <2>1
  <2>2. CASE q # o
    BY <1>1, <1>2, <2>2, FramedSame
  <2> QED
    BY <2>1, <2>2
<1> QED
  BY <1>3, <1>4, <1>5 DEF FramesOK

LEMMA GetLengthFrames ==
  ASSUME TypeOK, FramesOK, Next, NEW t \in Thread, GetLength(t)
  PROVE  FramesOK'
<1> SUFFICES ASSUME Whole(In(t))
             PROVE  Framed(pipe'[In(t)]) /\ ReaderOK(t)'
  BY GetFrames
<1> DEFINE p == pipe[In(t)]
           q == Drop(p, 1)
<1>1. /\ p \in Seq(Unit) /\ p[1] \in Unit /\ p[1].part = "length"
      /\ 1 \in 0..Len(p) /\ 1 \in Lengths(p)
      /\ pipe' = [pipe EXCEPT ![In(t)] = q]
      /\ length'[t] = p[1]
  BY WholeGetLength
<1>2. pipe'[In(t)] = q /\ at'[t] = "getting"
  BY <1>1, ThreadFacts DEF GetLength, TypeOK
<1>3. Framed(p)
  BY ThreadFacts DEF FramesOK
<1>4. BodyAfter(p, 0 + 1, p[1].of)
  <2>1. 0 + 1 = 1
    OBVIOUS
  <2> QED
    BY <1>1, <1>3, <2>1 DEF Framed
<1>5. q = Drop(p, 1)
  OBVIOUS
<1> HIDE DEF p, q
<1>6. /\ \A i \in Nat : \A x \in Message :
           BodyAfter(p, i + 1, x) => BodyAfter(q, i, x)
      /\ Framed(p) => Framed(q)
  BY <1>1, <1>5, BodyAfterDrop
<1>7. BodyAfter(q, 0, p[1].of)
  BY <1>1, <1>4, <1>6, UnitFields
<1> QED
  BY <1>1, <1>2, <1>3, <1>6, <1>7 DEF ReaderOK, BodyAfter, StartsAt

LEMMA GetBodyFrames ==
  ASSUME TypeOK, FramesOK, Next, NEW t \in Thread, GetBody(t)
  PROVE  FramesOK'
<1> SUFFICES ASSUME Whole(In(t))
             PROVE  Framed(pipe'[In(t)]) /\ ReaderOK(t)'
  BY GetFrames
<1> DEFINE p == pipe[In(t)]
           d == Size[length[t].of]
           q == Drop(p, d)
<1>1. /\ p \in Seq(Unit) /\ d \in 0..Len(p)
      /\ StartsAt(p, d + 1)
      /\ pipe' = [pipe EXCEPT ![In(t)] = q]
  BY WholeGetBody
<1>2. pipe'[In(t)] = q /\ at'[t] = "idle"
  BY <1>1, ThreadFacts DEF GetBody, TypeOK
<1>3. Framed(p)
  BY ThreadFacts DEF FramesOK
<1>4. q = Drop(p, d)
  OBVIOUS
<1> HIDE DEF p, d, q
<1>5. /\ \A i \in Nat \ {0} : StartsAt(p, i + d) => StartsAt(q, i)
      /\ Framed(p) => Framed(q)
  BY <1>1, <1>4, BodyAfterDrop
<1>6. 1 \in Nat \ {0} /\ 1 + d = d + 1
  BY <1>1
<1>7. StartsAt(q, 1)
  BY <1>1, <1>5, <1>6
<1> QED
  BY <1>2, <1>3, <1>5, <1>7 DEF ReaderOK, StartsAt

\* The invariant holds: a queue that is neither closed nor given a message that is
\* too large holds whole frames, and a reader never stops inside one.
THEOREM InductiveInvariant == Spec => [](TypeOK /\ FramesOK)
<1>1. Init => FramesOK
  <2> SUFFICES ASSUME Init PROVE FramesOK
    OBVIOUS
  <2>1. \A q \in Queue : pipe[q] = <<>>
    BY DEF Init
  <2>2. \A t \in Thread : at[t] = "idle"
    BY DEF Init
  <2>3. \A q \in Queue : Framed(pipe[q])
    BY <2>1 DEF Framed, Lengths
  <2>4. \A t \in Thread : ReaderOK(t)
    BY <2>1, <2>2, ThreadFacts DEF ReaderOK, StartsAt
  <2>5. \A t \in Thread : WriterOK(t)
    BY <2>2 DEF WriterOK
  <2> QED
    BY <2>3, <2>4, <2>5 DEF FramesOK
<1>2. TypeOK /\ FramesOK /\ [Next]_vars => FramesOK'
  <2> SUFFICES ASSUME TypeOK, FramesOK, [Next]_vars PROVE FramesOK'
    OBVIOUS
  <2>1. CASE closed'
    BY <2>1 DEF FramesOK, ReaderOK, WriterOK, Whole
  <2>2. CASE Next /\ ~closed'
    <3>1. ASSUME NEW t \in Thread, UseClosed(t) PROVE FALSE
      BY <2>2, <3>1 DEF UseClosed
    <3>2. CASE AgentDies \/ Connects \/ Disconnects
      BY <3>2
      DEF AgentDies, Connects, Disconnects, FramesOK, ReaderOK, WriterOK, Whole, BodyAfter, StartsAt
    <3>3. CASE StopAll
      BY <2>2, <3>3 DEF StopAll
    <3> QED
      BY <2>2, <3>1, <3>2, <3>3, StartPutFrames, WriteFrames, GetLengthFrames,
         GetBodyFrames
      DEF Next
  <2>3. CASE UNCHANGED vars
    BY <2>3 DEF vars, FramesOK, ReaderOK, WriterOK, Whole, BodyAfter, StartsAt
  <2> QED
    BY <2>1, <2>2, <2>3
<1> QED
  BY <1>1, <1>2, TypeCorrect, PTL DEF Spec

-----------------------------------------------------------------------------
(* Each queue is a FIFO.                                                   *)

\* The reader of a queue has a message of it in hand, or nobody has.
LEMMA WaitingOf ==
  ASSUME NEW t \in Thread
  PROVE  /\ Waiting(In(t)) = IF at[t] = "getting"
                               THEN <<length[t].of>> \o Messages(pipe[In(t)])
                               ELSE Messages(pipe[In(t)])
         /\ Waiting(In(t))' = IF at'[t] = "getting"
                                THEN <<length'[t].of>> \o Messages(pipe'[In(t)])
                                ELSE Messages(pipe'[In(t)])
<1>1. (CHOOSE s \in {t} : TRUE) = t
  OBVIOUS
<1>2. InHand(In(t)) = IF at[t] = "getting" THEN {t} ELSE {}
  BY ThreadFacts DEF InHand
<1>3. InHand(In(t))' = IF at'[t] = "getting" THEN {t} ELSE {}
  BY ThreadFacts DEF InHand
<1> QED
  BY <1>1, <1>2, <1>3 DEF Waiting

\* What a step may do to a queue: nothing, put, get, or break it.
FifoStep(q) ==
  \/ ~Whole(q)'
  \/ /\ Whole(q) /\ Whole(q)'
     /\ \/ UNCHANGED <<Waiting(q), received[q]>>
        \/ /\ \E m \in Message : Waiting(q)' = Append(Waiting(q), m)
           /\ UNCHANGED received[q]
        \/ /\ Waiting(q) # <<>>
           /\ received'[q] = Append(received[q], Head(Waiting(q)))
           /\ Waiting(q)' = Tail(Waiting(q))

\* A queue whose pipe and reader go on as they were has not changed.
LEMMA FifoSame ==
  ASSUME TypeOK, Next, NEW t \in Thread,
         pipe'[In(t)] = pipe[In(t)], length'[t] = length[t],
         at'[t] = "getting" <=> at[t] = "getting",
         received'[In(t)] = received[In(t)]
  PROVE  FifoStep(In(t))
<1>1. Waiting(In(t))' = Waiting(In(t))
  BY WaitingOf
<1> QED
  BY <1>1, NeverWholeAgain, ThreadFacts DEF FifoStep

LEMMA OneAndMore ==
  ASSUME NEW m \in Message, NEW s \in Seq(Message)
  PROVE  /\ <<m>> \o s # <<>>
         /\ Head(<<m>> \o s) = m /\ Tail(<<m>> \o s) = s
         /\ \A x \in Message : <<m>> \o Append(s, x) = Append(<<m>> \o s, x)
OBVIOUS

\* The message of a length that was read is out of the pipe, not of the queue.
LEMMA GetLengthFifo ==
  ASSUME TypeOK, FramesOK, Next, NEW t \in Thread, GetLength(t), Whole(In(t))
  PROVE  UNCHANGED <<Waiting(In(t)), received[In(t)]>>
<1> DEFINE p == pipe[In(t)]
<1>1. /\ p \in Seq(Unit) /\ p # <<>> /\ p[1].part = "length"
      /\ pipe' = [pipe EXCEPT ![In(t)] = Tail(p)]
      /\ length'[t] = p[1]
  BY WholeGetLength
<1>2. /\ pipe'[In(t)] = Tail(p) /\ at[t] # "getting" /\ at'[t] = "getting"
      /\ received' = received
  BY <1>1, ThreadFacts DEF GetLength, TypeOK
<1>3. Waiting(In(t)) = Messages(p)
  BY <1>2, WaitingOf
<1>4. Waiting(In(t))' = <<p[1].of>> \o Messages(Tail(p))
  <2>1. Waiting(In(t))' = <<length'[t].of>> \o Messages(pipe'[In(t)])
    BY <1>2, WaitingOf
  <2> QED
    BY <1>1, <1>2, <2>1
<1>5. Messages(p) = <<p[1].of>> \o Messages(Tail(p))
  <2> HIDE DEF p
  <2> QED
    BY <1>1, MessagesTail
<1> QED
  BY <1>2, <1>3, <1>4, <1>5

\* The body that follows completes the get.
LEMMA GetBodyFifo ==
  ASSUME TypeOK, FramesOK, Next, NEW t \in Thread, GetBody(t), Whole(In(t))
  PROVE  /\ Waiting(In(t)) # <<>>
         /\ received'[In(t)] = Append(received[In(t)], Head(Waiting(In(t))))
         /\ Waiting(In(t))' = Tail(Waiting(In(t)))
<1> DEFINE p == pipe[In(t)]
           m == length[t].of
           d == Size[m]
<1>1. /\ m \in Message /\ p \in Seq(Unit) /\ d \in 0..Len(p)
      /\ \A i \in 1..d : p[i].part = "body"
      /\ pipe' = [pipe EXCEPT ![In(t)] = Drop(p, d)]
      /\ received' = [received EXCEPT ![In(t)] = Append(@, m)]
  BY WholeGetBody
<1>2. /\ pipe'[In(t)] = Drop(p, d)
      /\ received'[In(t)] = Append(received[In(t)], m)
      /\ at[t] = "getting" /\ at'[t] # "getting"
  BY <1>1, ThreadFacts DEF GetBody, TypeOK
<1>3. Waiting(In(t)) = <<m>> \o Messages(p)
  BY <1>2, WaitingOf
<1>4. Waiting(In(t))' = Messages(Drop(p, d))
  <2>1. Waiting(In(t))' = Messages(pipe'[In(t)])
    BY <1>2, WaitingOf
  <2> QED
    BY <1>2, <2>1
<1> HIDE DEF p, m, d
<1>5. Messages(Drop(p, d)) = Messages(p)
  BY <1>1, MessagesDropBodies
<1>6. Messages(p) \in Seq(Message)
  BY <1>1, MessagesProperties
<1> QED
  BY <1>1, <1>2, <1>3, <1>4, <1>5, <1>6, OneAndMore

\* A put's write adds its message, behind the one that is being taken out.
LEMMA WriteFifo ==
  ASSUME TypeOK, FramesOK, Next, NEW t \in Thread, NEW u \in Thread, Write(u),
         In(t) = Out(u), Whole(In(t))
  PROVE  /\ \E m \in Message : Waiting(In(t))' = Append(Waiting(In(t)), m)
         /\ UNCHANGED received[In(t)]
<1> DEFINE p == pipe[In(t)]
<1>1. PICK m \in Message : pipe' = [pipe EXCEPT ![In(t)] = p \o Frame(m)]
  BY WholeWrite
<1>2. t # u /\ In(t) \in Queue
  BY ThreadFacts
<1>3. /\ pipe'[In(t)] = p \o Frame(m) /\ p \in Seq(Unit)
      /\ at'[t] = at[t] /\ length' = length /\ received' = received
  BY <1>1, <1>2 DEF Write, TypeOK
<1>4. Messages(p \o Frame(m)) = Append(Messages(p), m) /\ Messages(p) \in Seq(Message)
  <2> HIDE DEF p
  <2> QED
    BY <1>3, MessagesFrame, MessagesProperties
<1>5. CASE at[t] = "getting"
  <2>1. Waiting(In(t)) = <<length[t].of>> \o Messages(p)
    BY <1>5, WaitingOf
  <2>2. Waiting(In(t))' = <<length'[t].of>> \o Messages(pipe'[In(t)])
    BY <1>3, <1>5, WaitingOf
  <2>3. Waiting(In(t))' = <<length[t].of>> \o Append(Messages(p), m)
    BY <1>3, <1>4, <2>2
  <2>4. length[t].of \in Message
    BY <1>5, UnitFields DEF FramesOK, ReaderOK
  <2> HIDE DEF p
  <2>5. Waiting(In(t))' = Append(Waiting(In(t)), m)
    BY <1>4, <2>1, <2>3, <2>4, OneAndMore
  <2> QED
    BY <1>3, <2>5
<1>6. CASE at[t] # "getting"
  <2>1. Waiting(In(t)) = Messages(p)
    BY <1>6, WaitingOf
  <2>2. Waiting(In(t))' = Messages(pipe'[In(t)])
    BY <1>3, <1>6, WaitingOf
  <2> QED
    BY <1>3, <1>4, <2>1, <2>2
<1> QED
  BY <1>5, <1>6

LEMMA EachStepIsFifo ==
  ASSUME TypeOK, FramesOK, Next, NEW q \in Queue
  PROVE  FifoStep(q)
<1>1. PICK t \in Thread : In(t) = q
  BY ThreadFacts
<1> SUFFICES ASSUME Whole(q)'
             PROVE  FifoStep(In(t))
  BY <1>1 DEF FifoStep
<1>2. Whole(q)
  BY NeverWholeAgain
<1>3. ASSUME NEW u \in Thread, StartPut(u) PROVE FifoStep(In(t))
  <2>1. at'[t] = "getting" <=> at[t] = "getting"
    BY <1>3 DEF StartPut, TypeOK
  <2> QED
    BY <1>3, <2>1, FifoSame DEF StartPut
<1>4. ASSUME NEW u \in Thread, Write(u) PROVE FifoStep(In(t))
  <2>1. CASE In(t) = Out(u)
    BY <1>1, <1>2, <1>4, <2>1, WriteFifo DEF FifoStep
  <2>2. CASE In(t) # Out(u)
    <3>1. pipe'[In(t)] = pipe[In(t)] /\ length' = length /\ received' = received
      BY <1>1, <1>4, <2>2 DEF Write, TypeOK
    <3>2. at'[t] = "getting" <=> at[t] = "getting"
      BY <1>4 DEF Write, TypeOK
    <3> QED
      BY <3>1, <3>2, FifoSame
  <2> QED
    BY <2>1, <2>2
<1>5. ASSUME NEW u \in Thread, GetLength(u) \/ GetBody(u) PROVE FifoStep(In(t))
  <2>1. CASE u = t /\ GetLength(t)
    BY <1>1, <1>2, <2>1, GetLengthFifo DEF FifoStep
  <2>2. CASE u = t /\ GetBody(t)
    BY <1>1, <1>2, <2>2, GetBodyFifo DEF FifoStep
  <2>3. CASE u # t
    <3>1. In(u) # In(t) /\ In(u) \in Queue
      BY <2>3, ThreadFacts
    <3>2. /\ pipe'[In(t)] = pipe[In(t)] /\ length'[t] = length[t]
          /\ at'[t] = at[t] /\ received'[In(t)] = received[In(t)]
      BY <1>1, <1>5, <2>3, <3>1 DEF GetLength, GetBody, TypeOK
    <3> QED
      BY <3>2, FifoSame
  <2> QED
    BY <1>5, <2>1, <2>2, <2>3
<1>6. ASSUME NEW u \in Thread, UseClosed(u) PROVE FALSE
  BY <1>6 DEF UseClosed, Whole
<1>7. CASE AgentDies \/ Connects \/ Disconnects
  BY <1>7, FifoSame DEF AgentDies, Connects, Disconnects
<1>8. ~StopAll
  BY DEF StopAll, Whole
<1> QED
  BY <1>3, <1>4, <1>5, <1>6, <1>7, <1>8 DEF Next

\* Each queue implements Fifo.tla: what is put comes out whole, once and in
\* order, although a get reads in two parts while the other thread writes, until
\* the queue is closed or given more than PIPE_BUF (PipeQueue.py:17-38).
THEOREM ImplementsFifo == Spec => QueuesAreFifos
<1>1. Init => ReadQueue!Init /\ WriteQueue!Init
  <2> SUFFICES ASSUME Init PROVE ReadQueue!Init /\ WriteQueue!Init
    OBVIOUS
  <2>1. ASSUME NEW q \in Queue
        PROVE  Waiting(q) = <<>> /\ received[q] = <<>> /\ q \notin large /\ closed = FALSE
    <3>1. PICK t \in Thread : In(t) = q
      BY ThreadFacts
    <3>2. Waiting(q) = Messages(<<>>)
      BY <3>1, WaitingOf DEF Init
    <3>3. <<>> \in Seq(Unit) /\ Lengths(<<>>) = {}
      BY DEF Lengths
    <3>4. Messages(<<>>) = <<>>
      <4>1. Messages(<<>>) \in Seq(Message) /\ Len(Messages(<<>>)) = 0
        BY <3>3, MessagesProperties, FS_EmptySet
      <4> QED
        BY <4>1, EmptySeq
    <3> QED
      BY <3>2, <3>4 DEF Init
  <2> QED
    BY <2>1 DEF ReadQueue!Init, WriteQueue!Init, Queue
<1>2. TypeOK /\ FramesOK /\ [Next]_vars =>
        [ReadQueue!Next]_ReadQueue!vars /\ [WriteQueue!Next]_WriteQueue!vars
  <2> SUFFICES ASSUME TypeOK, FramesOK, [Next]_vars
               PROVE  /\ [ReadQueue!Next]_ReadQueue!vars
                      /\ [WriteQueue!Next]_WriteQueue!vars
    OBVIOUS
  <2>1. CASE UNCHANGED vars
    <3>1. \A q \in Queue : UNCHANGED <<Waiting(q), received[q]>>
      BY <2>1 DEF vars, Waiting, InHand
    <3>2. closed' = closed /\ large' = large
      BY <2>1 DEF vars
    <3> QED
      BY <3>1, <3>2 DEF ReadQueue!vars, WriteQueue!vars, Queue
  <2>2. CASE Next
    <3>1. "read_q" \in Queue /\ "write_q" \in Queue
      BY DEF Queue
    <3>2. ReadQueue!Next \/ UNCHANGED ReadQueue!vars
      <4>1. FifoStep("read_q")
        BY <2>2, <3>1, EachStepIsFifo
      <4> QED
        BY <4>1
        DEF FifoStep, Whole, ReadQueue!Next, ReadQueue!Put, ReadQueue!Get,
            ReadQueue!Break, ReadQueue!vars
    <3>3. WriteQueue!Next \/ UNCHANGED WriteQueue!vars
      <4>1. FifoStep("write_q")
        BY <2>2, <3>1, EachStepIsFifo
      <4> QED
        BY <4>1
        DEF FifoStep, Whole, WriteQueue!Next, WriteQueue!Put, WriteQueue!Get,
            WriteQueue!Break, WriteQueue!vars
    <3> QED
      BY <3>2, <3>3
  <2> QED
    BY <2>1, <2>2
<1> QED
  BY <1>1, <1>2, InductiveInvariant, PTL
  DEF Spec, QueuesAreFifos, ReadQueue!Spec, WriteQueue!Spec
=============================================================================
