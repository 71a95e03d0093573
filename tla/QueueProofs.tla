----------------------------- MODULE QueueProofs -----------------------------
(***************************************************************************)
(* Facts about the queues of module Queues that the proofs about the       *)
(* scheduler, the semaphores, the pipes and the terminal use.              *)
(***************************************************************************)
EXTENDS Queues, FiniteSetTheorems, SequenceTheorems, WellFoundedInduction, TLAPS

\* A set of numbers that is not empty has a smallest one: sem_open takes the first free
\* handle, pipe_open the first free descriptor.
LEMMA SmallestOf ==
    ASSUME NEW S \in SUBSET Nat, S # {}
    PROVE  \E x \in S : \A y \in S : x =< y
<1>1. PICK x \in S : \A y \in S : <<y, x>> \notin OpToRel(<, Nat)
  BY NatLessThanWellFounded, WFMin
<1>2. x \in Nat /\ \A y \in S : y \in Nat /\ ~(y < x)
  BY <1>1 DEF OpToRel
<1>3. QED
  BY <1>2

\* The positions a filter keeps, numbered from 1 without gaps: the node list that
\* q_remove and apply_aging rebuild has no holes.
LEMMA RankIsBijection ==
    ASSUME NEW n \in Nat, NEW pos \in SUBSET (1 .. n)
    PROVE  LET Rank(i) == Cardinality({j \in pos : j =< i})
           IN  /\ Cardinality(pos) \in Nat
               /\ \A i \in pos : Rank(i) \in 1 .. Cardinality(pos)
               /\ \A i1, i2 \in pos : Rank(i1) = Rank(i2) => i1 = i2
               /\ \A k \in 1 .. Cardinality(pos) : \E i \in pos : Rank(i) = k
<1> DEFINE Below(i) == {j \in pos : j =< i}
           Rank(i) == Cardinality(Below(i))
           m == Cardinality(pos)
<1>1. IsFiniteSet(1 .. n)
  BY FS_Interval
<1>2. IsFiniteSet(pos) /\ m \in Nat
  BY <1>1, FS_Subset, FS_CardinalityType
<1>3. ASSUME NEW i \in pos PROVE IsFiniteSet(Below(i)) /\ Rank(i) \in Nat /\ Rank(i) =< m
  <2>1. Below(i) \in SUBSET pos
    OBVIOUS
  <2>2. QED
    BY <2>1, <1>2, FS_Subset, FS_CardinalityType
<1>4. ASSUME NEW i \in pos PROVE Rank(i) >= 1
  <2>1. Below(i) # {}
    OBVIOUS
  <2>2. Rank(i) # 0
    BY <2>1, <1>3, FS_EmptySet
  <2>3. QED
    BY <2>2, <1>3
<1>5. ASSUME NEW i1 \in pos, NEW i2 \in pos, Rank(i1) = Rank(i2) PROVE i1 = i2
  <2>1. ASSUME NEW a \in pos, NEW b \in pos, a < b PROVE Rank(a) # Rank(b)
    <3>0. pos \subseteq Int
      OBVIOUS
    <3>1. Below(a) \in SUBSET Below(b)
      <4>1. ASSUME NEW j \in pos, j =< a PROVE j =< b
        BY <2>1, <3>0, <4>1
      <4>2. QED
        BY <4>1
    <3>2. b \in Below(b) /\ b \notin Below(a)
      BY <2>1, <3>0
    <3>3. IsFiniteSet(Below(b))
      BY <1>3
    <3>4. Cardinality(Below(b)) = Cardinality(Below(a)) => Below(b) = Below(a)
      BY <3>1, <3>3, FS_Subset
    <3>5. QED
      BY <3>2, <3>4
  <2>2. i1 < i2 \/ i2 < i1 \/ i1 = i2
    OBVIOUS
  <2>3. QED
    BY <2>1, <2>2, <1>5
<1>6. ASSUME NEW k \in 1 .. m PROVE \E i \in pos : Rank(i) = k
  <2>1. SUFFICES ASSUME \A i \in pos : Rank(i) # k PROVE FALSE
    OBVIOUS
  <2> DEFINE f == [i \in pos |-> Rank(i)]
             T == (1 .. m) \ {k}
  <2>2. f \in [pos -> T]
    BY <1>2, <1>3, <1>4, <2>1
  <2>3. IsFiniteSet(1 .. m) /\ Cardinality(1 .. m) = m
    BY <1>2, FS_Interval
  <2>4. IsFiniteSet(T) /\ Cardinality(T) = m - 1
    BY <2>3, FS_RemoveElement
  <2>5. Cardinality(T) < Cardinality(pos)
    BY <2>4, <1>2
  <2>6. \E x, y \in pos : x # y /\ f[x] = f[y]
    <3> HIDE DEF f, T
    <3>1. QED
      BY <2>2, <2>4, <2>5, <1>2, FS_PigeonHole
  <2>7. QED
    BY <2>6, <1>5
<1>7. QED
  BY <1>2, <1>3, <1>4, <1>5, <1>6

\* No process stands twice in the queue.
Distinct(q) == \A a, b \in DOMAIN q : q[a] = q[b] => a = b

\* A queue filtered by membership, as q_remove and apply_aging do, holds
\* exactly the processes asked for, each as often as before if that was once.
LEMMA FilterProperties ==
    ASSUME NEW S, NEW q \in Seq(S), NEW T
    PROVE  /\ Filter(q, T) \in Seq(S)
           /\ Members(Filter(q, T)) = Members(q) \cap T
           /\ Distinct(q) => Distinct(Filter(q, T))
<1> DEFINE pos == {i \in DOMAIN q : q[i] \in T}
           Rank(i) == Cardinality({j \in pos : j =< i})
           Pick(k) == CHOOSE i \in pos : Rank(i) = k
           m == Cardinality(pos)
           r == Filter(q, T)
<1>1. Len(q) \in Nat /\ pos \in SUBSET (1 .. Len(q)) /\ DOMAIN q = 1 .. Len(q)
  OBVIOUS
<1>2. /\ m \in Nat
      /\ \A i \in pos : Rank(i) \in 1 .. m
      /\ \A i1, i2 \in pos : Rank(i1) = Rank(i2) => i1 = i2
      /\ \A k \in 1 .. m : \E i \in pos : Rank(i) = k
  <2> HIDE DEF pos
  <2>1. QED
    BY <1>1, RankIsBijection
<1>3. r = [k \in 1 .. m |-> q[Pick(k)]]
  BY DEF Filter
<1> HIDE DEF Rank
<1>4. \A k \in 1 .. m : Pick(k) \in pos /\ Rank(Pick(k)) = k
  BY <1>2
<1>5. \A i \in pos : Pick(Rank(i)) = i
  BY <1>2, <1>4
<1> HIDE DEF Pick, r
<1>6. \A k \in 1 .. m : q[Pick(k)] \in S /\ q[Pick(k)] \in T
  BY <1>4, <1>1
<1>7. r \in Seq(S)
  BY <1>3, <1>6, <1>2
<1>8. DOMAIN r = 1 .. m
  BY <1>3
<1>9. Members(r) = Members(q) \cap T
  <2>1. ASSUME NEW x \in Members(r) PROVE x \in Members(q) /\ x \in T
    <3>1. PICK k \in 1 .. m : x = q[Pick(k)]
      BY <2>1, <1>3, <1>8 DEF Members
    <3>2. QED
      BY <3>1, <1>4, <1>6 DEF Members
  <2>2. ASSUME NEW x \in Members(q), x \in T PROVE x \in Members(r)
    <3>1. PICK i \in pos : x = q[i]
      BY <2>2 DEF Members
    <3>2. Rank(i) \in 1 .. m /\ r[Rank(i)] = x
      BY <3>1, <1>2, <1>3, <1>5
    <3>3. QED
      BY <3>2, <1>8 DEF Members
  <2>3. QED
    BY <2>1, <2>2
<1>10. Distinct(q) => Distinct(r)
  <2> SUFFICES ASSUME Distinct(q), NEW a \in 1 .. m, NEW b \in 1 .. m, r[a] = r[b] PROVE a = b
    BY <1>8 DEF Distinct
  <2>1. q[Pick(a)] = q[Pick(b)]
    BY <1>3
  <2>2. Pick(a) = Pick(b)
    BY <2>1, <1>4 DEF Distinct
  <2>3. QED
    BY <2>2, <1>4
<1>11. QED
  BY <1>7, <1>9, <1>10 DEF r

\* wait_queue_push adds the process at the end.
LEMMA AppendMembers ==
    ASSUME NEW S, NEW q \in Seq(S), NEW p \in S
    PROVE  Members(Append(q, p)) = Members(q) \cup {p}
<1>1. /\ DOMAIN Append(q, p) = 1 .. Len(q) + 1 /\ DOMAIN q = 1 .. Len(q) /\ Len(q) \in Nat
      /\ \A i \in 1 .. Len(q) : Append(q, p)[i] = q[i]
      /\ Append(q, p)[Len(q) + 1] = p
  BY AppendProperties
<1>2. \A i \in 1 .. Len(q) : i \in 1 .. Len(q) + 1
  BY <1>1
<1>3. \A i \in 1 .. Len(q) + 1 : i \in 1 .. Len(q) \/ i = Len(q) + 1
  BY <1>1
<1>4. QED
  BY <1>1, <1>2, <1>3 DEF Members

\* A process that is not in the queue may join it.
LEMMA AppendDistinct ==
    ASSUME NEW S, NEW q \in Seq(S), NEW p \in S, Distinct(q), p \notin Members(q)
    PROVE  Distinct(Append(q, p))
<1>1. /\ DOMAIN Append(q, p) = 1 .. Len(q) + 1 /\ DOMAIN q = 1 .. Len(q) /\ Len(q) \in Nat
      /\ \A i \in 1 .. Len(q) : Append(q, p)[i] = q[i]
      /\ Append(q, p)[Len(q) + 1] = p
  BY AppendProperties
<1>2. \A i \in 1 .. Len(q) + 1 : i \in 1 .. Len(q) \/ i = Len(q) + 1
  BY <1>1
<1>3. QED
  BY <1>1, <1>2 DEF Distinct, Members

\* Taking the head leaves the others, in their order.
LEMMA TailMembers ==
    ASSUME NEW S, NEW q \in Seq(S), q # <<>>
    PROVE  /\ Head(q) \in S /\ Head(q) \in Members(q) /\ Tail(q) \in Seq(S)
           /\ Members(q) = Members(Tail(q)) \cup {Head(q)}
           /\ Distinct(q) => Distinct(Tail(q)) /\ Head(q) \notin Members(Tail(q))
<1>1. /\ Head(q) \in S /\ Tail(q) \in Seq(S) /\ Len(q) \in Nat \ {0} /\ Len(Tail(q)) = Len(q) - 1
      /\ DOMAIN q = 1 .. Len(q) /\ DOMAIN Tail(q) = 1 .. Len(q) - 1 /\ Head(q) = q[1]
      /\ \A i \in 1 .. Len(q) - 1 : Tail(q)[i] = q[i + 1]
  BY HeadTailProperties, EmptySeq
<1>2. \A i \in 1 .. Len(q) : i = 1 \/ (i - 1 \in 1 .. Len(q) - 1 /\ Tail(q)[i - 1] = q[i])
  BY <1>1
<1>3. \A i \in 1 .. Len(q) - 1 : i + 1 \in 1 .. Len(q) /\ i + 1 # 1
  BY <1>1
<1>4. 1 \in 1 .. Len(q)
  BY <1>1
<1>5. Members(q) = Members(Tail(q)) \cup {Head(q)}
  <2>1. ASSUME NEW x \in Members(q) PROVE x \in Members(Tail(q)) \cup {Head(q)}
    <3>1. PICK i \in 1 .. Len(q) : x = q[i]
      BY <1>1 DEF Members
    <3>2. CASE i = 1
      BY <1>1, <3>1, <3>2
    <3>3. CASE i # 1
      BY <1>1, <1>2, <3>1, <3>3 DEF Members
    <3>4. QED
      BY <3>2, <3>3
  <2>2. ASSUME NEW x \in Members(Tail(q)) PROVE x \in Members(q)
    BY <1>1, <1>3 DEF Members
  <2>3. QED
    BY <1>1, <1>4, <2>1, <2>2 DEF Members
<1>6. ASSUME Distinct(q) PROVE Distinct(Tail(q)) /\ Head(q) \notin Members(Tail(q))
  <2>1. \A i, j \in 1 .. Len(q) : q[i] = q[j] => i = j
    BY <1>1, <1>6 DEF Distinct
  <2>2. ASSUME NEW i \in 1 .. Len(q) - 1, NEW j \in 1 .. Len(q) - 1, Tail(q)[i] = Tail(q)[j]
        PROVE  i = j
    <3>1. i + 1 = j + 1
      BY <1>1, <1>3, <2>1, <2>2
    <3>2. QED
      BY <3>1
  <2>3. \A i \in 1 .. Len(q) - 1 : Tail(q)[i] # q[1]
    BY <1>1, <1>3, <1>4, <2>1
  <2>4. QED
    BY <1>1, <2>2, <2>3 DEF Members, Distinct
<1>7. QED
  BY <1>1, <1>4, <1>5, <1>6 DEF Members
=============================================================================
