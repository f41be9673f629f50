---------------------------- MODULE QueueLemmas ----------------------------
(***************************************************************************)
(* What push, front and pop do to the queues between the threads           *)
(* (structures/AtomicQueue.hpp and the standard queues), index by index.   *)
(***************************************************************************)
EXTENDS Integers, Sequences, SequenceTheorems, WellFoundedInduction, TLAPS

\* What push does to a queue.
LEMMA PushProperties ==
    ASSUME NEW S, NEW q \in Seq(S), NEW e \in S
    PROVE  /\ Append(q, e) \in Seq(S)
           /\ Len(q) \in Nat
           /\ Len(Append(q, e)) = Len(q) + 1
           /\ \A i \in 1..Len(q) : q[i] \in S /\ Append(q, e)[i] = q[i]
           /\ Append(q, e)[Len(q) + 1] = e
BY AppendProperties, LenProperties, ElementOfSeq

\* What front and pop do to a queue that is not empty.
LEMMA PopProperties ==
    ASSUME NEW S, NEW q \in Seq(S), q # <<>>
    PROVE  /\ Head(q) = q[1]
           /\ Tail(q) \in Seq(S)
           /\ Len(q) \in Nat \ {0}
           /\ Len(Tail(q)) = Len(q) - 1
           /\ \A i \in 1..Len(Tail(q)) : Tail(q)[i] = q[i + 1]
           /\ \A i \in 1..Len(q) : q[i] \in S
<1>1. Len(q) \in Nat /\ Len(q) # 0
  BY EmptySeq, LenProperties
<1>2. \A i \in 1..Len(q) : q[i] \in S
  BY ElementOfSeq
<1> QED
  BY <1>1, <1>2, HeadTailProperties

\* Pushing one element is appending a queue of one.
LEMMA PushIsConcat ==
    ASSUME NEW S, NEW q \in Seq(S), NEW e \in S
    PROVE  q \o <<e>> = Append(q, e)
OBVIOUS

-----------------------------------------------------------------------------

\* A set of natural numbers that is not empty has a smallest one.
LEMMA SmallestIndex ==
    ASSUME NEW T \in SUBSET Nat, T # {}
    PROVE  \E x \in T : \A y \in T : x <= y
<1> DEFINE R == OpToRel(<, Nat)
<1>1. IsWellFoundedOn(R, Nat)
  BY NatLessThanWellFounded
<1>2. \A x, y \in Nat : y < x => <<y, x>> \in R
  BY DEF OpToRel
<1> HIDE DEF R
<1>3. PICK x \in T : \A y \in T : ~(<<y, x>> \in R)
  BY <1>1, WFMin
<1>4. \A y \in T : ~(y < x)
  BY <1>2, <1>3
<1> QED
  BY <1>4

\* A set of indices that is not empty has a largest one.
LEMMA LargestIndex ==
    ASSUME NEW n \in Nat, NEW T \in SUBSET (0..n), T # {}
    PROVE  \E x \in T : \A y \in T : y <= x
<1> DEFINE U == {n - x : x \in T}
<1>0. \A x \in T : x \in Nat /\ n - x \in Nat
  OBVIOUS
<1>1. U \in SUBSET Nat /\ U # {}
  BY <1>0
<1>2. PICK u \in U : \A v \in U : u <= v
  BY <1>1, SmallestIndex
<1>3. PICK x \in T : u = n - x
  BY <1>2
<1>4. ASSUME NEW y \in T PROVE y <= x
  <2>1. u <= n - y
    BY <1>2
  <2> QED
    BY <1>0, <1>3, <2>1
<1> QED
  BY <1>4

\* A part of a queue, and two queues one after the other.
LEMMA PartProperties ==
    ASSUME NEW S, NEW q \in Seq(S), NEW m \in 1..(Len(q) + 1), NEW n \in 0..Len(q), m <= n + 1
    PROVE  /\ SubSeq(q, m, n) \in Seq(S)
           /\ Len(SubSeq(q, m, n)) = n - m + 1
           /\ \A k \in 1..(n - m + 1) : SubSeq(q, m, n)[k] = q[m + k - 1]
<1>1. Len(q) \in Nat /\ \A i \in 1..Len(q) : q[i] \in S
  BY LenProperties, ElementOfSeq
<1>2. m \in Int /\ n \in Int /\ \A i \in m..n : q[i] \in S
  BY <1>1
<1>3. /\ SubSeq(q, m, n) \in Seq(S)
      /\ Len(SubSeq(q, m, n)) = IF m <= n THEN n - m + 1 ELSE 0
      /\ \A k \in 1..(n - m + 1) : SubSeq(q, m, n)[k] = q[m + k - 1]
  BY <1>2, SubSeqProperties
<1>4. n - m + 1 = IF m <= n THEN n - m + 1 ELSE 0
  BY <1>1
<1> QED
  BY <1>3, <1>4
=============================================================================
