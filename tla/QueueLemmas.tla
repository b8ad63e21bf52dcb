----------------------------- MODULE QueueLemmas -----------------------------
(***************************************************************************)
(* What enqueuing and dequeuing do to the elements of a FIFO, and the      *)
(* division of a tag into its parts: facts the proofs about several        *)
(* components need.                                                        *)
(***************************************************************************)
EXTENDS BsvFifo, Integers, SequenceTheorems, FiniteSetTheorems, TLAPS

(* Enqueuing keeps the elements and their places, and adds one at the end. *)
LEMMA Enqueued ==
  ASSUME NEW S, NEW q \in Seq(S), NEW x \in S
  PROVE  /\ Append(q, x) \in Seq(S)
         /\ Len(q) \in Nat /\ Len(Append(q, x)) = Len(q) + 1
         /\ Append(q, x)[Len(q) + 1] = x
         /\ \A i \in 1 .. Len(q) : Append(q, x)[i] = q[i] /\ i \in 1 .. Len(Append(q, x))
         /\ \A i \in 1 .. Len(Append(q, x)) : i \in 1 .. Len(q) \/ i = Len(q) + 1
  BY AppendProperties, LenProperties

(* Dequeuing removes the first element and moves the others one place up.  *)
LEMMA Dequeued ==
  ASSUME NEW S, NEW q \in Seq(S), NotEmpty(q)
  PROVE  /\ Head(q) \in S /\ Head(q) = q[1] /\ 1 \in 1 .. Len(q)
         /\ Tail(q) \in Seq(S)
         /\ Len(q) \in Nat /\ Len(Tail(q)) = Len(q) - 1
         /\ \A i \in 1 .. Len(Tail(q)) : Tail(q)[i] = q[i + 1] /\ i + 1 \in 2 .. Len(q)
                                          /\ i + 1 \in 1 .. Len(q)
         /\ \A j \in 1 .. Len(q) : j = 1 \/ (j - 1 \in 1 .. Len(Tail(q)) /\ Tail(q)[j - 1] = q[j])
<1>1. Len(q) \in Nat /\ Len(q) > 0 /\ q # <<>>
  BY DEF NotEmpty
<1>2. /\ Head(q) \in S /\ Tail(q) \in Seq(S) /\ Len(Tail(q)) = Len(q) - 1
      /\ \A i \in 1 .. Len(Tail(q)) : Tail(q)[i] = q[i + 1]
  BY <1>1, HeadTailProperties
<1>3. Head(q) = q[1]
  BY <1>1
<1> QED
  BY <1>1, <1>2, <1>3

(* A queue is empty exactly when its length is 0.                          *)
LEMMA EmptyIff ==
  ASSUME NEW S, NEW q \in Seq(S)
  PROVE  /\ q = <<>> <=> Len(q) = 0
         /\ NotEmpty(q) <=> q # <<>>
  BY EmptySeq DEF NotEmpty

(* A number below n and a multiple of n are told apart again.              *)
LEMMA QuotientAndRest ==
  ASSUME NEW n \in Nat \ {0}, NEW t \in 0 .. n - 1, NEW u \in Nat
  PROVE  (t + u * n) % n = t /\ (t + u * n) \div n = u
<1> DEFINE b == t + u * n
<1>1. b \in Nat /\ b = (b \div n) * n + (b % n) /\ b \div n \in Nat /\ b % n \in 0 .. n - 1
  OBVIOUS
<1> DEFINE v == b \div n
           s == b % n
<1>2. v = u
  <2>1. v * n + s = u * n + t
    BY <1>1
  <2> HIDE DEF v, s, b
  <2>2. v \in Nat /\ s \in 0 .. n - 1
    BY <1>1 DEF v, s
  <2>3. CASE v < u
    <3>1. (u - v) * n >= n
      BY <2>2, <2>3
    <3> QED
      BY <2>1, <2>2, <3>1
  <2>4. CASE v > u
    <3>1. (v - u) * n >= n
      BY <2>2, <2>4
    <3> QED
      BY <2>1, <2>2, <3>1
  <2> QED
    BY <2>2, <2>3, <2>4
<1> QED
  BY <1>1, <1>2

-----------------------------------------------------------------------------
(* A FIFO as its first element and the others.                             *)

(* An element in front of others: it is the head, the others are the tail, *)
(* and a new one goes behind them.                                         *)
LEMMA InFront ==
  ASSUME NEW S, NEW s \in Seq(S), NEW p \in S
  PROVE  /\ <<>> \o s = s
         /\ <<p>> \o s # <<>> /\ Head(<<p>> \o s) = p /\ Tail(<<p>> \o s) = s
         /\ \A x \in S : Append(<<p>> \o s, x) = <<p>> \o Append(s, x)
<1> DEFINE z == <<p>> \o s
<1>1. /\ z \in Seq(S) /\ Len(z) = Len(s) + 1 /\ z[1] = p /\ Len(s) \in Nat
      /\ \A i \in 1 .. Len(s) : z[i + 1] = s[i]
  BY ConcatProperties
<1>2. <<>> \o s = s
  BY ConcatEmptySeq
<1> HIDE DEF z
<1>3. NotEmpty(z)
  BY <1>1 DEF NotEmpty
<1>4. /\ z # <<>> /\ Head(z) = z[1] /\ Tail(z) \in Seq(S) /\ Len(Tail(z)) = Len(s)
      /\ \A i \in 1 .. Len(s) : Tail(z)[i] = z[i + 1]
  BY <1>1, <1>3, Dequeued, EmptyIff
<1>5. Tail(z) = s
  BY <1>1, <1>4, SeqEqual
<1>6. \A x \in S : Append(z, x) = <<p>> \o Append(s, x)
  BY AppendIsConcat, ConcatAssociative, <1>1 DEF z
<1> QED
  BY <1>1, <1>2, <1>4, <1>5, <1>6 DEF z

(* A queue that is not empty is its first element in front of the others.  *)
LEMMA FirstAndOthers ==
  ASSUME NEW S, NEW z \in Seq(S), NotEmpty(z)
  PROVE  z = <<Head(z)>> \o Tail(z)
<1>1. PICK p \in S, s \in Seq(S) : p = Head(z) /\ s = Tail(z)
  BY Dequeued
<1> DEFINE y == <<p>> \o s
<1>2. /\ y \in Seq(S) /\ Len(y) = Len(s) + 1 /\ y[1] = p /\ Len(s) \in Nat
      /\ \A i \in 1 .. Len(s) + 1 : i # 1 => y[i] = s[i - 1]
  BY ConcatProperties
<1>3. /\ z[1] = p /\ Len(s) = Len(z) - 1 /\ Len(z) \in Nat
      /\ \A i \in 1 .. Len(z) : i # 1 => z[i] = s[i - 1]
  BY <1>1, Dequeued
<1> HIDE DEF y
<1>4. z = y
  BY <1>2, <1>3, SeqEqual
<1> QED
  BY <1>1, <1>4 DEF y

-----------------------------------------------------------------------------
(* Counting the elements of a FIFO that belong to a set.                   *)

CountIn(q, A) == Cardinality({i \in 1 .. Len(q) : q[i] \in A})

(* The count is a number.                                                  *)
LEMMA CountIsNat ==
  ASSUME NEW S, NEW q \in Seq(S), NEW A
  PROVE  /\ CountIn(q, A) \in Nat
         /\ IsFiniteSet({i \in 1 .. Len(q) : q[i] \in A})
<1>1. Len(q) \in Nat
  OBVIOUS
<1>2. IsFiniteSet(1 .. Len(q))
  BY <1>1, FS_Interval
<1>3. {i \in 1 .. Len(q) : q[i] \in A} \in SUBSET (1 .. Len(q))
  OBVIOUS
<1>4. IsFiniteSet({i \in 1 .. Len(q) : q[i] \in A})
  BY <1>2, <1>3, FS_Subset
<1> QED
  BY <1>4, FS_CardinalityType DEF CountIn

(* The empty FIFO counts nothing.                                          *)
LEMMA CountEmpty ==
  ASSUME NEW A
  PROVE  CountIn(<<>>, A) = 0
<1>1. {i \in 1 .. Len(<<>>) : <<>>[i] \in A} = {}
  OBVIOUS
<1> QED
  BY <1>1, FS_EmptySet DEF CountIn

(* What is enqueued counts once if it belongs to the set.                  *)
LEMMA CountEnqueued ==
  ASSUME NEW S, NEW q \in Seq(S), NEW x \in S, NEW A
  PROVE  CountIn(Append(q, x), A) = CountIn(q, A) + (IF x \in A THEN 1 ELSE 0)
<1> DEFINE P == {i \in 1 .. Len(q) : q[i] \in A}
           R == {i \in 1 .. Len(Append(q, x)) : Append(q, x)[i] \in A}
<1>1. /\ Len(q) \in Nat /\ Len(Append(q, x)) = Len(q) + 1 /\ Append(q, x)[Len(q) + 1] = x
      /\ \A i \in 1 .. Len(q) : Append(q, x)[i] = q[i]
  BY Enqueued
<1>2. IsFiniteSet(P) /\ Cardinality(P) \in Nat
  BY CountIsNat DEF CountIn
<1>3. Len(q) + 1 \notin P
  BY <1>1
<1>4. Cardinality(R) = Cardinality(P) + (IF x \in A THEN 1 ELSE 0)
  <2>1. CASE x \in A
    <3>1. R = P \union {Len(q) + 1}
      BY <1>1, <2>1
    <3> QED
      BY <1>2, <1>3, <2>1, <3>1, FS_AddElement
  <2>2. CASE x \notin A
    <3>1. R = P
      BY <1>1, <2>2
    <3> HIDE DEF P, R
    <3> QED
      BY <1>2, <2>2, <3>1
  <2> QED
    BY <2>1, <2>2
<1> QED
  BY <1>4 DEF CountIn

(* What is dequeued no longer counts.                                      *)
LEMMA CountDequeued ==
  ASSUME NEW S, NEW q \in Seq(S), NotEmpty(q), NEW A
  PROVE  CountIn(q, A) = CountIn(Tail(q), A) + (IF Head(q) \in A THEN 1 ELSE 0)
<1> DEFINE P == {i \in 1 .. Len(q) : q[i] \in A}
           R == {i \in 1 .. Len(Tail(q)) : Tail(q)[i] \in A}
           f == [i \in R |-> i + 1]
<1>1. /\ Len(q) \in Nat /\ Len(Tail(q)) = Len(q) - 1 /\ Head(q) = q[1] /\ Len(q) > 0
      /\ Tail(q) \in Seq(S) /\ \A i \in 1 .. Len(q) - 1 : Tail(q)[i] = q[i + 1]
  BY Dequeued DEF NotEmpty
<1>2. /\ IsFiniteSet(P) /\ Cardinality(P) \in Nat
      /\ IsFiniteSet(R) /\ Cardinality(R) \in Nat
  BY <1>1, CountIsNat DEF CountIn
<1>3. f \in Bijection(R, P \ {1})
  <2>1. \A i \in R : f[i] \in P \ {1}
    BY <1>1
  <2>2. \A i, j \in R : f[i] = f[j] => i = j
    BY <1>1
  <2>3. \A j \in P \ {1} : j - 1 \in R /\ f[j - 1] = j
    BY <1>1
  <2> QED
    BY <2>1, <2>2, <2>3 DEF Bijection, Injection, Surjection, IsInjective
<1>4. Cardinality(P \ {1}) = Cardinality(R)
  BY <1>2, <1>3, FS_Bijection, ZenonT(30) DEF ExistsBijection
<1>5. 1 \in P <=> Head(q) \in A
  BY <1>1
<1>6. Cardinality(P \ {1}) = IF 1 \in P THEN Cardinality(P) - 1 ELSE Cardinality(P)
  BY <1>2, FS_RemoveElement
<1> HIDE DEF P, R
<1>7. Cardinality(P) = Cardinality(R) + (IF Head(q) \in A THEN 1 ELSE 0)
  BY <1>2, <1>4, <1>5, <1>6
<1> QED
  BY <1>7 DEF P, R, CountIn
=============================================================================
