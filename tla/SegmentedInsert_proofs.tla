------------------------ MODULE SegmentedInsert_proofs ------------------------
(***************************************************************************)
(* Safety of the segmented insert for every command, every object, every   *)
(* number of credits and retries, and every SegmentNo.                     *)
(***************************************************************************)
EXTENDS SegmentedInsert, FiniteSetTheorems, WellFoundedInduction, TLAPS

(***************************************************************************)
(* pending as a set: a bag with one copy of each segment in flight.        *)
(***************************************************************************)
LEMMA BagOfSet ==
    ASSUME NEW S
    PROVE  BagToSet(SetToBag(S)) = S /\ \A s \in S : SetToBag(S)[s] = 1
  BY DEF SetToBag, BagToSet

LEMMA EmptyIsSetToBag == EmptyBag = SetToBag({}) /\ BagToSet(EmptyBag) = {}
  BY BagOfSet DEF EmptyBag

LEMMA TakeFromBag ==
    ASSUME NEW S, NEW s
    PROVE  SetToBag(S) (-) SetToBag({s}) = SetToBag(S \ {s})
  BY DEF SetToBag, (-)

LEMMA PutInBag ==
    ASSUME NEW S, NEW s, s \notin S
    PROVE  SetToBag(S) (+) SetToBag({s}) = SetToBag(S \cup {s})
  BY DEF SetToBag, (+)

LEMMA SubsetOfRange ==
    ASSUME NEW a \in Int, NEW b \in Int, NEW S \in SUBSET (a..b)
    PROVE  /\ IsFiniteSet(S) /\ Cardinality(S) \in Nat
           /\ Cardinality(S) <= IF a > b THEN 0 ELSE b - a + 1
           /\ Cardinality(S) = (IF a > b THEN 0 ELSE b - a + 1) => S = a..b
  <1>1. IsFiniteSet(a..b) /\ Cardinality(a..b) = IF a > b THEN 0 ELSE b - a + 1
    BY FS_Interval
  <1>2. IsFiniteSet(S) /\ Cardinality(S) <= Cardinality(a..b)
        /\ (Cardinality(S) = Cardinality(a..b) => S = a..b)
    BY <1>1, FS_Subset, Zenon
  <1>3. Cardinality(S) \in Nat
    BY <1>2, FS_CardinalityType
  <1> QED BY <1>1, <1>2, <1>3

(***************************************************************************)
(* SegmentNo, below and at its end.                                        *)
(***************************************************************************)
LEMMA Wraps ==
    /\ \A n \in Segment : n % (MaxSegment + 1) = n
    /\ (MaxSegment + 1) % (MaxSegment + 1) = 0
    /\ \A n \in Int : n % (MaxSegment + 1) \in Segment
    /\ \A n \in Nat : n % (MaxSegment + 1) <= n
  <1> DEFINE M == MaxSegment + 1
  <1>1. M \in Nat \ {0} /\ Segment = 0..(M - 1)
    BY SegmentAssumption DEF Segment
  <1> HIDE DEF M
  <1>2. \A n \in 0..(M - 1) : n % M = n
    BY <1>1
  <1>3. M % M = 0
    BY <1>1
  <1>4. \A n \in Int : n % M \in 0..(M - 1)
    BY <1>1
  <1>5. \A n \in Nat : n % M <= n
    <2> TAKE n \in Nat
    <2>1. CASE n < M
      BY <1>1, <1>2, <2>1
    <2>2. CASE n >= M
      BY <1>1, <1>4, <2>2
    <2> QED BY <1>1, <2>1, <2>2
  <1> QED BY <1>1, <1>2, <1>3, <1>4, <1>5 DEF M

LEMMA InitialCreditType ==
    ASSUME NEW c \in Commands, c.end # NoBlock => c.start <= c.end
    PROVE  /\ c.start \in Segment /\ c.end \in Segment \cup {NoBlock}
           /\ InitialCredit(c) \in 0..MaxCredit
           /\ c.end # NoBlock => c.start + InitialCredit(c) <= c.end + 1
           /\ c.start = 0 /\ c.end = MaxSegment => InitialCredit(c) = 0
  <1>1. /\ c.start \in Segment /\ c.end \in Segment \cup {NoBlock}
        /\ MaxCredit \in Nat \ {0} /\ MaxSegment \in Nat
    BY SegmentAssumption
  <1>2. CASE c.end = NoBlock
    BY <1>1, <1>2 DEF InitialCredit, NoBlock
  <1>3. CASE c.end # NoBlock
    <2> DEFINE n == Between(c.start, c.end)
    <2>1. c.end - c.start + 1 \in Nat /\ c.end - c.start + 1 <= MaxSegment + 1
      BY <1>1, <1>3 DEF Segment
    <2>2. n \in Segment /\ n <= c.end - c.start + 1
      BY <2>1, Wraps DEF Between, Plus
    <2>3. c.start = 0 /\ c.end = MaxSegment => n = 0
      BY <1>1, Wraps DEF Between, Plus
    <2>4. InitialCredit(c) = IF n < MaxCredit THEN n ELSE MaxCredit
      BY <1>3 DEF InitialCredit
    <2> HIDE DEF n
    <2> QED BY <1>1, <2>2, <2>3, <2>4 DEF Segment
  <1> QED BY <1>2, <1>3

-----------------------------------------------------------------------------
(***************************************************************************)
(* The books of the process p for the command c when fly are the segments  *)
(* in flight, inv those that failed validation, ref those not inserted and *)
(* sto those stored: everything below u was asked for, and nothing from u  *)
(* on.  What was asked for and is not in fly, inv or ref was inserted.     *)
(***************************************************************************)
Counts == UNION {[D -> 0..RetryTime] : D \in SUBSET Segment}

ProcessInfo ==
    [code : {300, 200, 405}, start : Segment, end : Segment \cup {NoBlock},
     insertNum : Nat, credit : Nat, nextSegment : Segment, queue : Seq(Segment),
     retryCounts : Counts, expired : BOOLEAN]

Inserted(p, fly, inv, ref, u) == (p.start..(u - 1)) \ (fly \cup inv \cup ref)

Asks(p, c, u) ==
    /\ c \in Commands /\ p.start = c.start
    /\ c.end # NoBlock => c.start <= c.end
    /\ p.end \in {c.end} \cup FinalBlocks
    /\ c.end # NoBlock => p.end # NoBlock /\ p.end <= c.end /\ u - 1 <= c.end

(***************************************************************************)
(* The queue holds the next segment, until that has been sent or is beyond *)
(* the end.                                                                *)
(***************************************************************************)
Queued(p, u) ==
    /\ u \in Segment /\ p.start <= u
    /\ \/ p.queue = <<p.nextSegment>> /\ u = p.nextSegment
       \/ /\ p.queue = << >>
          /\ u = p.nextSegment + 1 \/ (u = p.nextSegment /\ HasEnd(p) /\ u > p.end)

Apart(p, fly, inv, ref, u) ==
    /\ fly \subseteq p.start..(u - 1) /\ inv \subseteq p.start..(u - 1)
    /\ ref \subseteq p.start..(u - 1)
    /\ fly \cap inv = {} /\ fly \cap ref = {} /\ inv \cap ref = {}
    /\ inv \subseteq Produced /\ ref \subseteq Produced

Books(p, c, fly, inv, ref, sto, u) ==
    /\ p \in ProcessInfo /\ Asks(p, c, u) /\ Queued(p, u) /\ Apart(p, fly, inv, ref, u)
    /\ Inserted(p, fly, inv, ref, u) \subseteq sto \cap Produced
    /\ p.insertNum = Cardinality(Inserted(p, fly, inv, ref, u))
    /\ p.credit + Cardinality(fly) + Cardinality(inv) = InitialCredit(c)
    /\ fly \subseteq DOMAIN p.retryCounts /\ DOMAIN p.retryCounts \subseteq p.start..(u - 1)

Balanced(p, c, fly, inv, ref, sto) ==
    \E u \in Segment : Books(p, c, fly, inv, ref, sto, u)

LEMMA SegmentsAreIntegers ==
    /\ Segment \subseteq Nat /\ MaxSegment \in Segment /\ NoBlock \in Int /\ NoBlock \notin Segment
    /\ MaxSegment \in Nat /\ MaxCredit \in Nat \ {0} /\ RetryTime \in Nat
    /\ Produced \subseteq Segment /\ FinalBlocks \subseteq Segment \cup {NoBlock}
  BY SegmentAssumption DEF Segment, NoBlock

LEMMA EndsAreIntegers ==
    \A e \in Segment \cup {NoBlock} : e \in Int /\ e <= e
  BY SegmentAssumption DEF Segment, NoBlock

(***************************************************************************)
(* The books count finite sets.                                            *)
(***************************************************************************)
LEMMA BooksAreFinite ==
    ASSUME NEW p, NEW c, NEW fly, NEW inv, NEW ref, NEW sto, NEW u \in Segment,
           p \in ProcessInfo, Apart(p, fly, inv, ref, u)
    PROVE  /\ p.start \in Nat /\ u \in Nat
           /\ \A S \in {fly, inv, ref, Inserted(p, fly, inv, ref, u)} :
                 IsFiniteSet(S) /\ Cardinality(S) \in Nat
  <1>1. p.start \in Nat /\ u \in Nat
    BY SegmentsAreIntegers DEF ProcessInfo
  <1>2. /\ fly \subseteq p.start..(u - 1) /\ inv \subseteq p.start..(u - 1)
        /\ ref \subseteq p.start..(u - 1)
        /\ Inserted(p, fly, inv, ref, u) \subseteq p.start..(u - 1)
    BY DEF Apart, Inserted
  <1>3. \A S \in SUBSET (p.start..(u - 1)) : IsFiniteSet(S) /\ Cardinality(S) \in Nat
    <2>1. p.start \in Int /\ u - 1 \in Int
      BY <1>1
    <2>2. TAKE S \in SUBSET (p.start..(u - 1))
    <2> QED BY <2>1, <2>2, SubsetOfRange, Zenon
  <1> QED BY <1>1, <1>2, <1>3

(***************************************************************************)
(* Setting a retry counter leaves them counters.                           *)
(***************************************************************************)
LEMMA CountsSet ==
    ASSUME NEW counts \in Counts, NEW s \in Segment, NEW n \in 0..RetryTime
    PROVE  /\ SetCount(counts, s, n) \in Counts
           /\ DOMAIN SetCount(counts, s, n) = DOMAIN counts \cup {s}
  <1>1. PICK D \in SUBSET Segment : counts \in [D -> 0..RetryTime]
    BY DEF Counts
  <1>2. SetCount(counts, s, n) \in [D \cup {s} -> 0..RetryTime]
    BY <1>1 DEF SetCount
  <1>3. D \cup {s} \in SUBSET Segment
    BY <1>1
  <1> QED BY <1>1, <1>2, <1>3 DEF Counts

LEMMA CountsRemoved ==
    ASSUME NEW counts \in Counts, NEW s
    PROVE  [t \in DOMAIN counts \ {s} |-> counts[t]] \in Counts
  <1>1. PICK D \in SUBSET Segment : counts \in [D -> 0..RetryTime]
    BY DEF Counts
  <1>2. [t \in DOMAIN counts \ {s} |-> counts[t]] \in [D \ {s} -> 0..RetryTime]
    BY <1>1
  <1>3. D \ {s} \in SUBSET Segment
    BY <1>1
  <1> QED BY <1>2, <1>3 DEF Counts

-----------------------------------------------------------------------------
(***************************************************************************)
(* Fields that the books do not depend on.                                 *)
(***************************************************************************)
LEMMA ExpirySet ==
    ASSUME NEW p \in ProcessInfo
    PROVE  [p EXCEPT !.expired = TRUE] \in ProcessInfo
  BY DEF ProcessInfo

LEMMA CodeKeepsBooks ==
    ASSUME NEW p, NEW c, NEW fly, NEW inv, NEW ref, NEW sto, NEW u,
           Books(p, c, fly, inv, ref, sto, u), NEW q,
           \/ q = [p EXCEPT !.expired = TRUE]
           \/ \E code \in {300, 200, 405} : q = [p EXCEPT !.code = code]
    PROVE  Books(q, c, fly, inv, ref, sto, u)
  <1>1. p \in ProcessInfo
    BY DEF Books
  <1>2. /\ q \in ProcessInfo
        /\ q.start = p.start /\ q.end = p.end /\ q.insertNum = p.insertNum
        /\ q.credit = p.credit /\ q.nextSegment = p.nextSegment
        /\ q.queue = p.queue /\ q.retryCounts = p.retryCounts
    <2>1. CASE q = [p EXCEPT !.expired = TRUE]
      <3>1. q \in ProcessInfo
        BY <1>1, <2>1, ExpirySet
      <3> QED BY <1>1, <2>1, <3>1 DEF ProcessInfo
    <2>2. ASSUME NEW code \in {300, 200, 405}, q = [p EXCEPT !.code = code]
          PROVE  /\ q \in ProcessInfo
                 /\ q.start = p.start /\ q.end = p.end /\ q.insertNum = p.insertNum
                 /\ q.credit = p.credit /\ q.nextSegment = p.nextSegment
                 /\ q.queue = p.queue /\ q.retryCounts = p.retryCounts
      BY <1>1, <2>2 DEF ProcessInfo
    <2> QED BY <2>1, <2>2
  <1> QED BY <1>2 DEF Books, Asks, Queued, Apart, Inserted, HasEnd

LEMMA CounterKeepsBooks ==
    ASSUME NEW p, NEW c, NEW fly, NEW inv, NEW ref, NEW sto, NEW u \in Segment,
           Books(p, c, fly, inv, ref, sto, u),
           NEW s \in fly, NEW n \in 0..RetryTime
    PROVE  Books([p EXCEPT !.retryCounts = SetCount(@, s, n)], c, fly, inv, ref, sto, u)
  <1> DEFINE q == [p EXCEPT !.retryCounts = SetCount(@, s, n)]
  <1>1. p \in ProcessInfo /\ p.start \in Nat /\ p.retryCounts \in Counts
    BY SegmentsAreIntegers DEF Books, ProcessInfo
  <1>2. s \in p.start..(u - 1) /\ s \in Segment
    BY <1>1, SegmentsAreIntegers DEF Books, Apart, Segment
  <1>3. SetCount(p.retryCounts, s, n) \in Counts
        /\ DOMAIN SetCount(p.retryCounts, s, n) = DOMAIN p.retryCounts \cup {s}
    BY <1>1, <1>2, CountsSet
  <1>4. q \in ProcessInfo /\ q.retryCounts = SetCount(p.retryCounts, s, n)
    BY <1>1, <1>3 DEF ProcessInfo
  <1>5. q.start = p.start /\ q.end = p.end /\ q.queue = p.queue
        /\ q.nextSegment = p.nextSegment /\ q.credit = p.credit /\ q.insertNum = p.insertNum
    BY <1>1 DEF ProcessInfo
  <1> HIDE DEF q
  <1>6. Asks(q, c, u) /\ Queued(q, u) /\ Apart(q, fly, inv, ref, u)
        /\ Inserted(q, fly, inv, ref, u) = Inserted(p, fly, inv, ref, u)
    BY <1>5 DEF Books, Asks, Queued, Apart, Inserted, HasEnd
  <1>7. DOMAIN q.retryCounts \subseteq q.start..(u - 1) /\ fly \subseteq DOMAIN q.retryCounts
    BY <1>2, <1>3, <1>4, <1>5 DEF Books
  <1> QED BY <1>4, <1>5, <1>6, <1>7 DEF Books, q

(***************************************************************************)
(* A packet that failed validation takes its credit with it.               *)
(***************************************************************************)
LEMMA InvalidKeepsBooks ==
    ASSUME NEW p, NEW c, NEW fly, NEW inv, NEW ref, NEW sto, NEW u \in Segment,
           Books(p, c, fly, inv, ref, sto, u), NEW s \in fly, s \in Produced
    PROVE  Books(p, c, fly \ {s}, inv \cup {s}, ref, sto, u)
  <1>1. /\ IsFiniteSet(fly) /\ Cardinality(fly) \in Nat
        /\ IsFiniteSet(inv) /\ Cardinality(inv) \in Nat /\ p.credit \in Nat
    BY BooksAreFinite DEF Books, ProcessInfo
  <1>2. s \notin inv /\ Apart(p, fly \ {s}, inv \cup {s}, ref, u)
        /\ Inserted(p, fly \ {s}, inv \cup {s}, ref, u) = Inserted(p, fly, inv, ref, u)
    BY DEF Books, Apart, Inserted
  <1>3. Cardinality(fly \ {s}) = Cardinality(fly) - 1
        /\ Cardinality(inv \cup {s}) = Cardinality(inv) + 1
    BY <1>1, <1>2, FS_AddElement, FS_RemoveElement
  <1>4. p.credit + Cardinality(fly \ {s}) + Cardinality(inv \cup {s})
           = p.credit + Cardinality(fly) + Cardinality(inv)
    BY <1>1, <1>3
  <1> QED BY <1>2, <1>4 DEF Books

(***************************************************************************)
(* onSegmentDataValidated gives the credit back and counts the segment, if *)
(* the storage took it.                                                    *)
(***************************************************************************)
LEMMA ReceivedKeepsBooks ==
    ASSUME NEW p, NEW c, NEW fly, NEW inv, NEW ref, NEW sto, NEW u \in Segment,
           Books(p, c, fly, inv, ref, sto, u), NEW s \in fly, s \in Produced,
           NEW final \in FinalBlocks, NEW inserted \in BOOLEAN
    PROVE  /\ Books(Received(p, final, inserted), c, fly \ {s}, inv,
                    ref \cup (IF inserted THEN {} ELSE {s}),
                    sto \cup (IF inserted THEN {s} ELSE {}), u)
           /\ Received(p, final, inserted).code = p.code
           /\ Received(p, final, inserted).credit # 0
  <1> DEFINE q == Received(p, final, inserted)
             newRef == ref \cup (IF inserted THEN {} ELSE {s})
             newSto == sto \cup (IF inserted THEN {s} ELSE {})
             old == Inserted(p, fly, inv, ref, u)
  <1>1. p \in ProcessInfo /\ p.credit \in Nat /\ p.insertNum \in Nat
        /\ p.end \in Segment \cup {NoBlock} /\ final \in Segment \cup {NoBlock}
    BY SegmentsAreIntegers DEF Books, ProcessInfo
  <1>0. p.end \in Int /\ final \in Int
    BY <1>1, EndsAreIntegers
  <1>2. /\ Refreshed(p, final) \in ProcessInfo
        /\ Refreshed(p, final) = [p EXCEPT !.end = Refreshed(p, final).end]
        /\ Refreshed(p, final).code = p.code
        /\ Refreshed(p, final).end \in {p.end, final}
        /\ HasEnd(p) => HasEnd(Refreshed(p, final)) /\ Refreshed(p, final).end <= p.end
    <2>1. CASE final # NoBlock /\ (HasEnd(p) => final < p.end)
      <3>1. Refreshed(p, final) = [p EXCEPT !.end = final]
        BY <2>1 DEF Refreshed
      <3>2. Refreshed(p, final).end = final /\ Refreshed(p, final).code = p.code
        BY <1>1, <3>1 DEF ProcessInfo
      <3>3. HasEnd(p) => final <= p.end
        BY <2>1, <1>0
      <3> QED BY <1>1, <2>1, <3>1, <3>2, <3>3 DEF ProcessInfo, HasEnd
    <2>2. CASE ~(final # NoBlock /\ (HasEnd(p) => final < p.end))
      <3>1. Refreshed(p, final) = p
        BY <2>2 DEF Refreshed
      <3>2. p.end <= p.end
        BY <1>0
      <3>3. p = [p EXCEPT !.end = p.end]
        BY <1>1 DEF ProcessInfo
      <3> QED BY <1>1, <3>1, <3>2, <3>3
    <2> QED BY <2>1, <2>2
  <1>3. q = [Refreshed(p, final) EXCEPT !.credit = @ + 1,
                                        !.insertNum = @ + (IF inserted THEN 1 ELSE 0)]
    BY DEF Received
  <1>4. (IF inserted THEN 1 ELSE 0) \in Nat
    OBVIOUS
  <1>5. /\ q \in ProcessInfo
        /\ q.start = p.start /\ q.queue = p.queue /\ q.nextSegment = p.nextSegment
        /\ q.retryCounts = p.retryCounts /\ q.credit = p.credit + 1
        /\ q.insertNum = p.insertNum + (IF inserted THEN 1 ELSE 0)
        /\ q.end = Refreshed(p, final).end /\ q.code = p.code
    <2> DEFINE r == Refreshed(p, final)
               n == IF inserted THEN 1 ELSE 0
    <2>1. /\ r \in ProcessInfo /\ n \in Nat
          /\ r.start = p.start /\ r.queue = p.queue /\ r.nextSegment = p.nextSegment
          /\ r.retryCounts = p.retryCounts /\ r.credit = p.credit
          /\ r.insertNum = p.insertNum /\ r.code = p.code
      BY <1>1, <1>2, <1>4 DEF ProcessInfo
    <2>2. q = [[r EXCEPT !.credit = r.credit + 1] EXCEPT !.insertNum = r.insertNum + n]
      BY <1>3, <2>1 DEF ProcessInfo
    <2> HIDE DEF r, n, q
    <2>3. r.credit + 1 \in Nat /\ r.insertNum + n \in Nat
      BY <2>1 DEF ProcessInfo
    <2> DEFINE r1 == [r EXCEPT !.credit = r.credit + 1]
    <2>4. /\ r1 \in ProcessInfo /\ r1.credit = r.credit + 1 /\ r1.insertNum = r.insertNum
          /\ r1.start = r.start /\ r1.queue = r.queue /\ r1.nextSegment = r.nextSegment
          /\ r1.retryCounts = r.retryCounts /\ r1.end = r.end /\ r1.code = r.code
      BY <2>1, <2>3 DEF ProcessInfo
    <2>5. q = [r1 EXCEPT !.insertNum = r.insertNum + n]
      BY <2>2
    <2> HIDE DEF r1
    <2>6. /\ q \in ProcessInfo /\ q.credit = r1.credit /\ q.insertNum = r.insertNum + n
          /\ q.start = r1.start /\ q.queue = r1.queue /\ q.nextSegment = r1.nextSegment
          /\ q.retryCounts = r1.retryCounts /\ q.end = r1.end /\ q.code = r1.code
      BY <2>3, <2>4, <2>5 DEF ProcessInfo
    <2> QED BY <2>1, <2>4, <2>6 DEF r, n
  <1> HIDE DEF q
  <1>6. Asks(q, c, u) /\ Queued(q, u)
    <2>1. c.end \in Segment \cup {NoBlock} /\ q.end \in Segment \cup {NoBlock}
      BY <1>1, <1>5, SegmentAssumption DEF Books, Asks, ProcessInfo
    <2>2. Asks(q, c, u)
      BY <1>1, <1>2, <1>5, <2>1, SegmentsAreIntegers DEF Books, Asks, HasEnd
    <2>3. Queued(q, u)
      BY <1>1, <1>2, <1>5, <2>1, SegmentsAreIntegers DEF Books, Queued, HasEnd
    <2> QED BY <2>2, <2>3
  <1>7. /\ s \notin inv /\ s \notin ref /\ s \notin old /\ s \in p.start..(u - 1)
        /\ Apart(q, fly \ {s}, inv, newRef, u)
    BY <1>5 DEF Books, Apart, Inserted
  <1>8. Inserted(q, fly \ {s}, inv, newRef, u) = old \cup (IF inserted THEN {s} ELSE {})
    BY <1>5, <1>7 DEF Inserted
  <1>9. Inserted(q, fly \ {s}, inv, newRef, u) \subseteq newSto \cap Produced
    BY <1>8 DEF Books
  <1>10. /\ IsFiniteSet(fly) /\ Cardinality(fly) \in Nat
         /\ IsFiniteSet(inv) /\ Cardinality(inv) \in Nat
         /\ IsFiniteSet(old) /\ Cardinality(old) \in Nat
    BY BooksAreFinite DEF Books
  <1>11. q.insertNum = Cardinality(Inserted(q, fly \ {s}, inv, newRef, u))
    <2>1. p.insertNum = Cardinality(old)
      BY DEF Books
    <2>2. CASE inserted
      BY <1>5, <1>7, <1>8, <1>10, <2>1, <2>2, FS_AddElement
    <2>3. CASE ~inserted
      <3>1. Inserted(q, fly \ {s}, inv, newRef, u) = old
        BY <1>8, <2>3
      <3> QED BY <1>1, <1>5, <2>1, <2>3, <3>1
    <2> QED BY <2>2, <2>3
  <1>12. q.credit + Cardinality(fly \ {s}) + Cardinality(inv) = InitialCredit(c)
    <2>1. Cardinality(fly \ {s}) = Cardinality(fly) - 1
      BY <1>10, FS_RemoveElement
    <2>2. p.credit + Cardinality(fly) + Cardinality(inv) = InitialCredit(c)
      BY DEF Books
    <2> QED BY <1>1, <1>5, <1>10, <2>1, <2>2
  <1>13. fly \ {s} \subseteq DOMAIN q.retryCounts /\ DOMAIN q.retryCounts \subseteq q.start..(u - 1)
    BY <1>5 DEF Books
  <1>14. q.code = p.code /\ q.credit # 0
    BY <1>1, <1>5
  <1> QED BY <1>5, <1>6, <1>7, <1>9, <1>11, <1>12, <1>13, <1>14 DEF Books, q

-----------------------------------------------------------------------------
(***************************************************************************)
(* A queued segment is the next one; one that is beyond the end is dropped.*)
(***************************************************************************)
LEMMA QueueHolds ==
    ASSUME NEW p, NEW c, NEW fly, NEW inv, NEW ref, NEW sto, NEW u \in Segment,
           Books(p, c, fly, inv, ref, sto, u), p.queue # << >>
    PROVE  /\ p.queue = <<u>> /\ p.nextSegment = u
           /\ Head(p.queue) = u /\ Tail(p.queue) = << >>
  <1>1. p.queue = <<u>> /\ p.nextSegment = u
    BY DEF Books, Queued
  <1>2. Head(<<u>>) = u /\ Tail(<<u>>) = << >>
    OBVIOUS
  <1> QED BY <1>1, <1>2

(***************************************************************************)
(* q is p but for one field, of those the books depend on.                 *)
(***************************************************************************)
SameBut(q, p, field) ==
    /\ q.code = p.code /\ q.start = p.start /\ q.end = p.end /\ q.insertNum = p.insertNum
    /\ field # "credit" => q.credit = p.credit
    /\ field # "queue" => q.queue = p.queue /\ q.nextSegment = p.nextSegment
    /\ field # "retryCounts" => q.retryCounts = p.retryCounts

LEMMA QueueSet ==
    ASSUME NEW p \in ProcessInfo, NEW q \in Seq(Segment)
    PROVE  /\ [p EXCEPT !.queue = q] \in ProcessInfo
           /\ [p EXCEPT !.queue = q].queue = q
           /\ [p EXCEPT !.queue = q].nextSegment = p.nextSegment
           /\ SameBut([p EXCEPT !.queue = q], p, "queue")
  <1> DEFINE Queue == Seq(Segment)
  <1> HIDE DEF Queue
  <1>1. q \in Queue /\ ProcessInfo =
            [code : {300, 200, 405}, start : Segment, end : Segment \cup {NoBlock},
             insertNum : Nat, credit : Nat, nextSegment : Segment, queue : Queue,
             retryCounts : Counts, expired : BOOLEAN]
    BY DEF Queue, ProcessInfo
  <1> QED BY <1>1 DEF SameBut

LEMMA PoppedKeepsBooks ==
    ASSUME NEW p, NEW c, NEW fly, NEW inv, NEW ref, NEW sto, NEW u \in Segment,
           Books(p, c, fly, inv, ref, sto, u), p.queue # << >>, Exceeds(p)
    PROVE  Books(Popped(p), c, fly, inv, ref, sto, u) /\ Popped(p).code = p.code
  <1> DEFINE q == Popped(p)
  <1>1. p \in ProcessInfo /\ p.queue = <<u>> /\ p.nextSegment = u /\ Tail(p.queue) = << >>
        /\ HasEnd(p) /\ u > p.end
    BY QueueHolds DEF Books, Exceeds
  <1>2. q \in ProcessInfo /\ q = [p EXCEPT !.queue = << >>]
    <2>1. q = [p EXCEPT !.queue = << >>]
      BY <1>1 DEF Popped
    <2>2. << >> \in Seq(Segment)
      OBVIOUS
    <2> QED BY <1>1, <2>1, <2>2, QueueSet, Zenon
  <1>3. /\ q.start = p.start /\ q.end = p.end /\ q.queue = << >>
        /\ q.nextSegment = p.nextSegment /\ q.credit = p.credit
        /\ q.insertNum = p.insertNum /\ q.retryCounts = p.retryCounts /\ q.code = p.code
    BY <1>1, <1>2 DEF ProcessInfo
  <1> HIDE DEF q
  <1> QED BY <1>1, <1>2, <1>3 DEF Books, Asks, Queued, Apart, Inserted, HasEnd, q

(***************************************************************************)
(* Sending takes a credit and asks for u; the next segment is queued, if   *)
(* it is not beyond the end.                                               *)
(***************************************************************************)
Sent(p, s) == Advance(CountSending([Popped(p) EXCEPT !.credit = @ - 1], s, Head(p.queue)))

LEMMA CountSendingIs ==
    ASSUME NEW p \in ProcessInfo, NEW s, NEW u \in Segment, u \notin DOMAIN p.retryCounts
    PROVE  /\ CountSending(p, s, u) \in ProcessInfo
           /\ SameBut(CountSending(p, s, u), p, "retryCounts")
           /\ DOMAIN CountSending(p, s, u).retryCounts = (DOMAIN p.retryCounts \ {s}) \cup {u}
  <1> DEFINE rest == [t \in DOMAIN p.retryCounts \ {s} |-> p.retryCounts[t]]
  <1>1. rest \in Counts
    BY CountsRemoved DEF ProcessInfo
  <1>2. DOMAIN rest = DOMAIN p.retryCounts \ {s} /\ u \notin DOMAIN rest
    OBVIOUS
  <1>3. CountSending(p, s, u) = [p EXCEPT !.retryCounts = SetCount(rest, u, 0)]
    BY <1>2 DEF CountSending
  <1> HIDE DEF rest
  <1>4. 0 \in 0..RetryTime
    BY SegmentsAreIntegers
  <1>5. SetCount(rest, u, 0) \in Counts /\ DOMAIN SetCount(rest, u, 0) = DOMAIN rest \cup {u}
    BY <1>1, <1>4, CountsSet
  <1> DEFINE counts == SetCount(rest, u, 0)
  <1> HIDE DEF counts
  <1>6. /\ [p EXCEPT !.retryCounts = counts] \in ProcessInfo
        /\ SameBut([p EXCEPT !.retryCounts = counts], p, "retryCounts")
        /\ [p EXCEPT !.retryCounts = counts].retryCounts = counts
    BY <1>5 DEF ProcessInfo, SameBut, counts
  <1> QED BY <1>2, <1>3, <1>5, <1>6 DEF counts

LEMMA AdvanceIs ==
    ASSUME NEW p \in ProcessInfo, p.nextSegment < MaxSegment, p.queue = << >>
    PROVE  /\ Advance(p) \in ProcessInfo
           /\ SameBut(Advance(p), p, "queue")
           /\ \/ /\ ~HasEnd(p) \/ p.nextSegment + 1 <= p.end
                 /\ Advance(p).nextSegment = p.nextSegment + 1
                 /\ Advance(p).queue = <<p.nextSegment + 1>>
              \/ /\ Advance(p).nextSegment = p.nextSegment
                 /\ Advance(p).queue = << >>
  <1> DEFINE next == p.nextSegment + 1
  <1>1. next \in Segment /\ Plus(p.nextSegment, 1) = next
    <2>1. p.nextSegment \in 0..MaxSegment
      BY DEF ProcessInfo, Segment
    <2>2. next \in Segment
      BY <2>1, SegmentsAreIntegers DEF Segment
    <2> QED BY <2>2, Wraps DEF Plus
  <1>2. CASE ~HasEnd(p) \/ next <= p.end
    <2>1. Append(p.queue, next) = <<next>> /\ <<next>> \in Seq(Segment)
      BY <1>1
    <2>2. Advance(p) = [[p EXCEPT !.nextSegment = next] EXCEPT !.queue = <<next>>]
      BY <1>1, <1>2, <2>1 DEF Advance, ProcessInfo
    <2> DEFINE r == [p EXCEPT !.nextSegment = next]
    <2>3. /\ r \in ProcessInfo /\ r.nextSegment = next
          /\ SameBut(r, p, "queue")
      BY <1>1 DEF ProcessInfo, SameBut
    <2>4. Advance(p) = [r EXCEPT !.queue = <<next>>]
      BY <2>2
    <2> HIDE DEF r
    <2> DEFINE one == <<next>>
    <2>5. one \in Seq(Segment) /\ Advance(p) = [r EXCEPT !.queue = one]
      BY <2>1, <2>4
    <2> HIDE DEF one, next
    <2>6. /\ Advance(p) \in ProcessInfo /\ Advance(p).queue = one
          /\ Advance(p).nextSegment = r.nextSegment /\ SameBut(Advance(p), r, "queue")
      BY <2>3, <2>5, QueueSet
    <2>7. SameBut(Advance(p), p, "queue")
      BY <2>3, <2>6 DEF SameBut
    <2> QED BY <1>2, <2>3, <2>6, <2>7 DEF one, next
  <1>3. CASE ~(~HasEnd(p) \/ next <= p.end)
    BY <1>1, <1>3 DEF Advance, SameBut
  <1> QED BY <1>2, <1>3

LEMMA SendsKeepsBooks ==
    ASSUME NEW p, NEW c, NEW fly, NEW inv, NEW ref, NEW sto, NEW u \in Segment,
           Books(p, c, fly, inv, ref, sto, u), NEW s, s \notin fly,
           ~Idles(p), ~Exceeds(p), u < MaxSegment
    PROVE  /\ Head(p.queue) = u /\ u \notin fly
           /\ Books(Sent(p, s), c, fly \cup {u}, inv, ref, sto, u + 1)
           /\ Sent(p, s).code = p.code
  <1> DEFINE q == [Popped(p) EXCEPT !.credit = @ - 1]
             r == CountSending(q, s, u)
  <1>1. /\ p \in ProcessInfo /\ p.queue # << >> /\ p.credit \in Nat \ {0} /\ p.queue = <<u>>
        /\ p.nextSegment = u /\ Head(p.queue) = u /\ Tail(p.queue) = << >>
    <2>1. p \in ProcessInfo /\ p.queue # << >> /\ p.credit # 0
      BY DEF Books, Idles
    <2>2. p.credit \in Nat
      BY <2>1 DEF ProcessInfo
    <2> QED BY <2>1, <2>2, QueueHolds
  <1>2. /\ Popped(p) \in ProcessInfo /\ Popped(p).queue = << >>
        /\ Popped(p).nextSegment = u /\ SameBut(Popped(p), p, "queue")
    <2> DEFINE none == << >>
    <2>1. none \in Seq(Segment) /\ Popped(p) = [p EXCEPT !.queue = none]
      BY <1>1 DEF Popped
    <2> HIDE DEF none
    <2>2. /\ Popped(p) \in ProcessInfo /\ Popped(p).queue = none
          /\ Popped(p).nextSegment = p.nextSegment /\ SameBut(Popped(p), p, "queue")
      BY <1>1, <2>1, QueueSet
    <2> QED BY <1>1, <2>2 DEF none
  <1>3. /\ q \in ProcessInfo /\ q.queue = << >> /\ q.credit = p.credit - 1
        /\ q.start = p.start /\ q.end = p.end /\ q.insertNum = p.insertNum
        /\ q.nextSegment = u /\ q.retryCounts = p.retryCounts /\ q.code = p.code
    <2> DEFINE o == Popped(p)
    <2>1. /\ o \in ProcessInfo /\ o.queue = << >> /\ o.credit = p.credit
          /\ o.start = p.start /\ o.end = p.end /\ o.insertNum = p.insertNum
          /\ o.nextSegment = u /\ o.retryCounts = p.retryCounts /\ o.code = p.code
      BY <1>1, <1>2 DEF SameBut
    <2> HIDE DEF o
    <2>2. q = [o EXCEPT !.credit = p.credit - 1] /\ p.credit - 1 \in Nat
      BY <1>1, <2>1 DEF o, ProcessInfo
    <2> HIDE DEF q
    <2> QED BY <2>1, <2>2 DEF ProcessInfo
  <1> HIDE DEF q
  <1>4. u \notin fly /\ u \notin inv /\ u \notin ref /\ u \notin DOMAIN p.retryCounts
        /\ p.start \in Nat /\ u \in Nat /\ p.start <= u
    <2>1. p.start \in Nat /\ u \in Nat
      BY <1>1, SegmentsAreIntegers DEF ProcessInfo
    <2>2. u \notin p.start..(u - 1)
      BY <2>1
    <2> QED BY <2>1, <2>2 DEF Books, Apart, Queued
  <1> HIDE DEF r
  <1>5. /\ r \in ProcessInfo /\ SameBut(r, q, "retryCounts")
        /\ DOMAIN r.retryCounts = (DOMAIN p.retryCounts \ {s}) \cup {u}
    BY <1>3, <1>4, CountSendingIs DEF r
  <1>6. /\ r \in ProcessInfo /\ r.queue = << >> /\ r.credit = p.credit - 1
        /\ r.start = p.start /\ r.end = p.end /\ r.insertNum = p.insertNum
        /\ r.nextSegment = u /\ r.code = p.code
    BY <1>3, <1>5 DEF SameBut
  <1> DEFINE t == Advance(r)
  <1>7. /\ t \in ProcessInfo /\ t.credit = p.credit - 1
        /\ t.start = p.start /\ t.end = p.end /\ t.insertNum = p.insertNum
        /\ t.retryCounts = r.retryCounts /\ t.code = p.code
        /\ \/ (~HasEnd(p) \/ u + 1 <= p.end) /\ t.nextSegment = u + 1 /\ t.queue = <<u + 1>>
           \/ t.nextSegment = u /\ t.queue = << >>
    BY <1>6, AdvanceIs DEF HasEnd, SameBut
  <1> HIDE DEF t
  <1>8. t = Sent(p, s)
    BY <1>1 DEF Sent, t, r, q
  <1>9. u + 1 \in Segment
    BY <1>4, SegmentsAreIntegers DEF Segment
  <1>10. Asks(t, c, u + 1)
    <2>1. /\ c.end \in Int /\ p.end \in Int /\ (HasEnd(p) => u <= p.end)
      <3>1. Segment \cup {NoBlock} \subseteq Int
        BY SegmentsAreIntegers
      <3>2. c.end \in Segment \cup {NoBlock} /\ p.end \in Segment \cup {NoBlock}
        BY <1>1, SegmentAssumption DEF Books, Asks, ProcessInfo
      <3> QED BY <1>1, <1>4, <3>1, <3>2 DEF Exceeds
    <2>2. Asks(p, c, u)
      BY DEF Books
    <2> QED BY <1>4, <1>7, <2>1, <2>2 DEF Asks, HasEnd
  <1>11. Queued(t, u + 1)
    BY <1>4, <1>7, <1>9 DEF Queued
  <1>12. Apart(t, fly \cup {u}, inv, ref, u + 1)
    BY <1>4, <1>7 DEF Books, Apart
  <1>13. Inserted(t, fly \cup {u}, inv, ref, u + 1) = Inserted(p, fly, inv, ref, u)
    BY <1>4, <1>7 DEF Books, Apart, Inserted
  <1>14. t.credit + Cardinality(fly \cup {u}) + Cardinality(inv) = InitialCredit(c)
    <2>1. IsFiniteSet(fly) /\ Cardinality(fly) \in Nat /\ Cardinality(inv) \in Nat
      BY <1>1, BooksAreFinite DEF Books
    <2>2. Cardinality(fly \cup {u}) = Cardinality(fly) + 1
      BY <1>4, <2>1, FS_AddElement
    <2> QED BY <1>1, <1>7, <2>1, <2>2 DEF Books
  <1>15. fly \cup {u} \subseteq DOMAIN t.retryCounts /\ DOMAIN t.retryCounts \subseteq t.start..u
    BY <1>4, <1>5, <1>7 DEF Books
  <1>16. (u + 1) - 1 = u
    BY <1>4
  <1> QED BY <1>1, <1>4, <1>7, <1>8, <1>10, <1>11, <1>12, <1>13, <1>14, <1>15, <1>16 DEF Books

(***************************************************************************)
(* While a packet of the object is in hand and a credit is free, numbers   *)
(* are left: from the first one that no object has, all segments asked for *)
(* are in flight, and these are fewer than m_credit.                       *)
(***************************************************************************)
LEMMA RoomToSend ==
    ASSUME NEW p, NEW c, NEW fly, NEW inv, NEW ref, NEW sto, NEW u \in Segment,
           Books(p, c, fly, inv, ref, sto, u), p.credit # 0,
           NEW s \in Produced, p.start <= s, s \notin fly
    PROVE  u < MaxSegment
  <1> DEFINE first == MaxSegment - MaxCredit
             late == first..(u - 1)
  <1>1. /\ MaxSegment \in Nat /\ MaxCredit \in Nat /\ u \in Nat
        /\ p.start \in Nat /\ s \in Nat /\ p.credit \in Nat
    BY SegmentsAreIntegers DEF Books, ProcessInfo
  <1>2. \A d \in Produced : d \in Nat /\ d < first
    BY <1>1, SegmentsAreIntegers, ObjectAssumption
  <1>3. late \subseteq fly
    <2> SUFFICES ASSUME NEW d \in late PROVE d \in fly
      OBVIOUS
    <2>1. d \in p.start..(u - 1) /\ d \notin Produced
      BY <1>1, <1>2
    <2> QED BY <2>1 DEF Books, Apart, Inserted
  <1>4. IsFiniteSet(fly) /\ Cardinality(fly) \in Nat /\ Cardinality(inv) \in Nat
    BY BooksAreFinite DEF Books
  <1>5. Cardinality(fly) <= MaxCredit - 1
    <2>1. InitialCredit(c) <= MaxCredit
      BY InitialCreditType, <1>1 DEF Books, Asks
    <2>2. InitialCredit(c) \in Int
      BY InitialCreditType DEF Books, Asks
    <2> QED BY <1>1, <1>4, <2>1, <2>2 DEF Books
  <1>6. Cardinality(late) <= Cardinality(fly)
    BY <1>3, <1>4, FS_Subset
  <1>7. Cardinality(late) = IF first > u - 1 THEN 0 ELSE (u - 1) - first + 1
    BY <1>1, FS_Interval
  <1> HIDE DEF late
  <1> QED BY <1>1, <1>4, <1>5, <1>6, <1>7

-----------------------------------------------------------------------------
(***************************************************************************)
(* LastSegment is the least of the ends, when there is one.                *)
(***************************************************************************)
LEMMA LastIsLeast ==
    ASSUME NEW e \in ({command.end} \cup FinalBlocks) \ {NoBlock},
           command.end \in Segment \cup {NoBlock}
    PROVE  LastSegment \in Nat /\ LastSegment <= e
  <1> DEFINE ends == ({command.end} \cup FinalBlocks) \ {NoBlock}
  <1>1. ends \subseteq Nat /\ ends # {}
    BY SegmentsAreIntegers
  <1>2. \E s \in ends : \A other \in ends : s <= other
    <2>1. PICK s \in ends : \A other \in ends : ~(<<other, s>> \in OpToRel(<, Nat))
      BY <1>1, NatLessThanWellFounded, WFMin
    <2>2. \A other \in ends : ~(other < s)
      BY <1>1, <2>1 DEF OpToRel
    <2> QED BY <1>1, <2>2
  <1>3. LastSegment = CHOOSE s \in ends : \A other \in ends : s <= other
    BY DEF LastSegment
  <1> HIDE DEF ends
  <1>4. LastSegment \in ends /\ \A other \in ends : LastSegment <= other
    BY <1>2, <1>3
  <1>5. e \in ends
    BY DEF ends
  <1> QED BY <1>1, <1>4, <1>5

(***************************************************************************)
(* As many segments as the range has were inserted, and none of them is    *)
(* beyond the end: so all of the range was.                                *)
(***************************************************************************)
LEMMA CompleteIsStored ==
    ASSUME NEW p, NEW fly, NEW inv, NEW ref, NEW sto, NEW u \in Segment,
           Books(p, command, fly, inv, ref, sto, u), p.credit # 0, Complete(p)
    PROVE  command.start..LastSegment \subseteq sto
  <1> DEFINE done == Inserted(p, fly, inv, ref, u)
             n == p.end - p.start + 1
  <1>1. /\ HasEnd(p) /\ p.end \in Segment /\ p.end \in Nat /\ p.start \in Nat /\ p.start = command.start
        /\ u \in Nat /\ MaxSegment \in Nat /\ p.end <= MaxSegment /\ p.credit \in Nat \ {0}
    <2>1. HasEnd(p) /\ p \in ProcessInfo /\ p.start = command.start
      BY DEF Complete, Books, Asks
    <2>2. p.end \in Segment /\ p.start \in Segment /\ p.credit \in Nat
      BY <2>1 DEF ProcessInfo, HasEnd
    <2> QED BY <2>1, <2>2, SegmentsAreIntegers DEF Segment
  <1>2. command \in Commands /\ (command.end # NoBlock => command.start <= command.end)
        /\ p.end \in ({command.end} \cup FinalBlocks) \ {NoBlock}
    BY <1>1 DEF Books, Asks, HasEnd
  <1>3. command.end \in Segment \cup {NoBlock}
    BY <1>2, InitialCreditType
  <1>4. LastSegment \in Nat /\ LastSegment <= p.end
    BY <1>2, <1>3, LastIsLeast
  <1>5. CASE p.end < p.start
    BY <1>1, <1>4, <1>5
  <1>6. CASE p.start <= p.end
    <2>1. done \subseteq sto /\ p.insertNum = Cardinality(done) /\ done \subseteq p.start..(u - 1)
          /\ done \subseteq Produced
      BY DEF Books, Inserted
    <2>2. done \subseteq p.start..p.end
      <3>1. CASE p.end = command.end
        <4>1. u - 1 <= p.end
          BY <1>1, <3>1 DEF Books, Asks, HasEnd
        <4> QED BY <1>1, <2>1, <4>1
      <3>2. CASE p.end # command.end
        <4>1. p.end \in FinalBlocks \ {NoBlock}
          BY <1>2, <3>2
        <4>2. \A s \in Produced : s <= p.end
          BY <4>1, ObjectAssumption
        <4> QED BY <1>1, <2>1, <4>2
      <3> QED BY <3>1, <3>2
    <2>3. n \in Segment
      <3>1. CASE p.end < MaxSegment
        BY <1>1, <1>6, <3>1 DEF Segment
      <3>2. CASE p.start > 0
        BY <1>1, <1>6, <3>2 DEF Segment
      <3>3. CASE p.end = MaxSegment /\ p.start = 0
        <4>1. p.end \notin FinalBlocks
          BY <1>1, <3>3, SegmentsAreIntegers, ObjectAssumption DEF HasEnd
        <4>2. command.end = MaxSegment /\ command.start = 0
          BY <1>1, <1>2, <3>3, <4>1
        <4>3. InitialCredit(command) = 0
          BY <1>2, <4>2, InitialCreditType
        <4>4. Cardinality(fly) \in Nat /\ Cardinality(inv) \in Nat
          BY BooksAreFinite DEF Books
        <4> QED BY <1>1, <4>3, <4>4 DEF Books
      <3> QED BY <1>1, <3>1, <3>2, <3>3
    <2>4. Between(p.start, p.end) = n
      BY <2>3, Wraps DEF Between, Plus
    <2>5. Cardinality(done) >= n
      BY <2>1, <2>4 DEF Complete
    <2>6. /\ Cardinality(done) \in Nat /\ Cardinality(done) <= n
          /\ Cardinality(done) = n => done = p.start..p.end
      <3>1. done \in SUBSET (p.start..p.end) /\ p.start \in Int /\ p.end \in Int
        BY <1>1, <2>2
      <3> HIDE DEF done
      <3>2. /\ Cardinality(done) \in Nat
            /\ Cardinality(done) <= IF p.start > p.end THEN 0 ELSE p.end - p.start + 1
            /\ Cardinality(done) = (IF p.start > p.end THEN 0 ELSE p.end - p.start + 1)
                  => done = p.start..p.end
        BY <3>1, SubsetOfRange
      <3> QED BY <1>1, <1>6, <3>2
    <2> HIDE DEF done
    <2>7. done = p.start..p.end
      BY <1>1, <2>5, <2>6
    <2> QED BY <1>1, <1>4, <2>1, <2>7
  <1> QED BY <1>1, <1>5, <1>6

(***************************************************************************)
(* segInit opens the books.                                                *)
(***************************************************************************)
LEMMA InitOpensBooks ==
    ASSUME NEW c \in Commands, c.end # NoBlock => c.start <= c.end, SegInit(c), NEW sto
    PROVE  /\ pending' = SetToBag(FirstSegments(c))
           /\ Balanced(process', c, FirstSegments(c), {}, {}, sto)
  <1> DEFINE first == FirstSegments(c)
             beyond == Plus(c.start, InitialCredit(c))
             u == Plus(c.start, Cardinality(first))
             p == process'
  <1>1. /\ c.start \in Segment /\ c.end \in Segment \cup {NoBlock}
        /\ InitialCredit(c) \in Nat /\ c.start \in Nat /\ MaxSegment \in Nat
        /\ c.end # NoBlock => c.start + InitialCredit(c) <= c.end + 1
    <2>1. /\ c.start \in Segment /\ c.end \in Segment \cup {NoBlock}
          /\ InitialCredit(c) \in 0..MaxCredit
          /\ c.end # NoBlock => c.start + InitialCredit(c) <= c.end + 1
      BY InitialCreditType
    <2>2. c.start \in Nat /\ MaxSegment \in Nat /\ MaxCredit \in Nat
      BY <2>1, SegmentsAreIntegers
    <2> QED BY <2>1, <2>2
  <1>2. beyond \in Segment /\ beyond \in Nat /\ beyond <= c.start + InitialCredit(c)
    <2>1. c.start + InitialCredit(c) \in Nat
      BY <1>1
    <2>2. beyond \in Segment /\ beyond <= c.start + InitialCredit(c)
      BY <2>1, Wraps DEF Plus
    <2> QED BY <2>2, SegmentsAreIntegers
  <1>3. first = c.start..(beyond - 1)
    BY <1>1, <1>2 DEF FirstSegments, Segment
  <1>4. IsFiniteSet(first) /\ Cardinality(first) = IF c.start > beyond - 1 THEN 0 ELSE beyond - c.start
    <2>1. c.start \in Int /\ beyond - 1 \in Int
      BY <1>1, <1>2
    <2> HIDE DEF beyond, first
    <2>2. IsFiniteSet(c.start..(beyond - 1)) /\ Cardinality(c.start..(beyond - 1))
             = IF c.start > beyond - 1 THEN 0 ELSE (beyond - 1) - c.start + 1
      BY <2>1, FS_Interval
    <2> QED BY <1>1, <1>2, <1>3, <2>2
  <1>5. u = (IF c.start > beyond THEN c.start ELSE beyond) /\ Cardinality(first) \in Nat
        /\ Cardinality(first) <= InitialCredit(c)
    <2>1. Cardinality(first) \in Nat /\ Cardinality(first) <= InitialCredit(c)
          /\ c.start + Cardinality(first) = IF c.start > beyond THEN c.start ELSE beyond
      BY <1>1, <1>2, <1>4
    <2>2. c.start + Cardinality(first) \in Segment
      BY <1>1, <1>2, <2>1
    <2>3. u = c.start + Cardinality(first)
      BY <2>2, Wraps DEF Plus
    <2> QED BY <2>1, <2>3
  <1>6. u \in Segment /\ u \in Nat /\ c.start <= u /\ first = c.start..(u - 1)
        /\ (c.end # NoBlock => u - 1 <= c.end)
    <2>1. u \in Segment /\ u \in Nat /\ c.start <= u /\ first = c.start..(u - 1)
      BY <1>1, <1>2, <1>3, <1>5
    <2>2. c.end # NoBlock => c.end \in Nat /\ c.start <= c.end
      BY <1>1, SegmentsAreIntegers
    <2> QED BY <1>1, <1>2, <1>5, <2>1, <2>2
  <1>7. p = [code |-> 300, start |-> c.start, end |-> c.end, insertNum |-> 0,
             credit |-> InitialCredit(c) - Cardinality(first),
             nextSegment |-> u, queue |-> <<u>>,
             retryCounts |-> [s \in first |-> 0], expired |-> FALSE]
        /\ pending' = SetToBag(first)
    BY DEF SegInit
  <1>8. [s \in first |-> 0] \in Counts /\ DOMAIN [s \in first |-> 0] = first
    <2>1. [s \in first |-> 0] \in [first -> 0..RetryTime]
      BY SegmentsAreIntegers
    <2>2. first \in SUBSET Segment
      BY DEF FirstSegments
    <2> QED BY <2>1, <2>2 DEF Counts
  <1> DEFINE counts == [s \in first |-> 0]
             queue == <<u>>
  <1>9. queue \in Seq(Segment) /\ queue = <<u>> /\ counts \in Counts /\ DOMAIN counts = first
    BY <1>6, <1>8
  <1> HIDE DEF first, u, counts, queue
  <1>10. p = [code |-> 300, start |-> c.start, end |-> c.end, insertNum |-> 0,
              credit |-> InitialCredit(c) - Cardinality(first),
              nextSegment |-> u, queue |-> queue,
              retryCounts |-> counts, expired |-> FALSE]
    BY <1>7 DEF queue, counts
  <1>11. InitialCredit(c) - Cardinality(first) \in Nat
    BY <1>1, <1>5
  <1> HIDE DEF p
  <1>12. /\ p \in ProcessInfo /\ p.start = c.start /\ p.end = c.end /\ p.insertNum = 0
         /\ p.credit = InitialCredit(c) - Cardinality(first) /\ p.nextSegment = u
         /\ p.queue = queue /\ p.retryCounts = counts
    BY <1>1, <1>6, <1>9, <1>10, <1>11 DEF ProcessInfo
  <1>13. Inserted(p, first, {}, {}, u) = {}
    BY <1>6, <1>12 DEF Inserted
  <1>14. Asks(p, c, u) /\ Queued(p, u) /\ Apart(p, first, {}, {}, u)
    <2>1. c.end <= c.end
      BY <1>1, EndsAreIntegers
    <2> QED BY <1>6, <1>9, <1>12, <2>1 DEF Asks, Queued, Apart
  <1>15. p.credit + Cardinality(first) + Cardinality({}) = InitialCredit(c)
    BY <1>1, <1>5, <1>12, FS_EmptySet
  <1>16. p.insertNum = Cardinality(Inserted(p, first, {}, {}, u))
    BY <1>12, <1>13, FS_EmptySet
  <1>17. Books(p, c, first, {}, {}, sto, u)
    BY <1>6, <1>9, <1>12, <1>13, <1>14, <1>15, <1>16 DEF Books
  <1> QED BY <1>6, <1>7, <1>17 DEF Balanced, p, first

-----------------------------------------------------------------------------
(***************************************************************************)
(* The inductive invariant: the books of the process there is are          *)
(* balanced, and 200 is its code and the answer to a check only when all   *)
(* segments are stored.                                                    *)
(***************************************************************************)
AllStored == command.start..LastSegment \subseteq stored

SegmentedTypes ==
    /\ process \in {None, Gone} \cup ProcessInfo
    /\ BagToSet(pending) \subseteq Segment /\ stored \subseteq Segment
    /\ invalid \subseteq Produced /\ refused \subseteq Produced /\ deleting \in BOOLEAN

NoneYet == process = None => pending = EmptyBag /\ invalid = {} /\ refused = {}

BooksBalance ==
    Present =>
        /\ pending = SetToBag(BagToSet(pending))
        /\ Balanced(process, command, BagToSet(pending), invalid, refused, stored)

InsertedMeansStored ==
    /\ Present /\ process.code = 200 => AllStored
    /\ CheckedIsStored

SegmentedInv == SegmentedTypes /\ NoneYet /\ BooksBalance /\ InsertedMeansStored

LEMMA PresentIs ==
    \A p \in ProcessInfo : p # None /\ p # Gone
  BY DEF ProcessInfo, None, Gone

LEMMA TakenFromPending ==
    ASSUME NEW s
    PROVE  BagToSet(Forgotten(s)) \subseteq BagToSet(pending)
  BY DEF Forgotten, BagToSet, (-)

(***************************************************************************)
(* What onSegmentDataControl does to balanced books, fly being in flight   *)
(* besides the segment that arrived.                                       *)
(***************************************************************************)
LEMMA ControlKeepsBooks ==
    ASSUME NEW p, NEW fly, NEW ref, NEW sto, NEW u \in Segment,
           Books(p, command, fly, invalid, ref, sto, u), p.credit # 0,
           NEW s \in Produced, p.start <= s, s \notin fly,
           pending = SetToBag(fly \cup {s}), Control(p, s)
    PROVE  /\ pending' = SetToBag(BagToSet(pending'))
           /\ Balanced(process', command, BagToSet(pending'), invalid, ref, sto)
           /\ process'.code = 200 => p.code = 200 \/ command.start..LastSegment \subseteq sto
           /\ deleting' \in {deleting, TRUE}
  <1>1. Forgotten(s) = SetToBag(fly) /\ p \in ProcessInfo
    <2>1. (fly \cup {s}) \ {s} = fly
      OBVIOUS
    <2>2. SetToBag(fly \cup {s}) (-) SetToBag({s}) = SetToBag((fly \cup {s}) \ {s})
      BY TakeFromBag
    <2> QED BY <2>1, <2>2 DEF Forgotten, Books
  <1>2. \A S : BagToSet(SetToBag(S)) = S
    BY BagOfSet
  <1>3. ASSUME NEW code \in {200, 405}, Closes(p, code), pending' = Forgotten(s)
        PROVE  /\ pending' = SetToBag(fly) /\ Balanced(process', command, fly, invalid, ref, sto)
               /\ process'.code = code /\ deleting' = TRUE
    <2>1. Books(process', command, fly, invalid, ref, sto, u)
      <3>1. code \in {300, 200, 405} /\ process' = [p EXCEPT !.code = code]
        BY <1>3 DEF Closes
      <3> QED BY <3>1, CodeKeepsBooks
    <2>2. process'.code = code
      BY <1>1, <1>3 DEF Closes, ProcessInfo
    <2> QED BY <1>1, <1>3, <2>1, <2>2 DEF Closes, Balanced
  <1>4. CASE TimedOut(p) /\ Closes(p, 405) /\ pending' = Forgotten(s)
    BY <1>2, <1>3, <1>4
  <1>5. CASE Complete(p) /\ Closes(p, 200) /\ pending' = Forgotten(s)
    <2>1. command.start..LastSegment \subseteq sto
      BY <1>5, CompleteIsStored
    <2> QED BY <1>2, <1>3, <1>5, <2>1
  <1>6. CASE process' = p /\ pending' = Forgotten(s) /\ UNCHANGED deleting
    BY <1>1, <1>2, <1>6 DEF Balanced
  <1>7. CASE /\ ~Idles(p) /\ Exceeds(p) /\ process' = Popped(p) /\ pending' = Forgotten(s)
             /\ UNCHANGED deleting
    <2>1. Books(process', command, fly, invalid, ref, sto, u) /\ process'.code = p.code
      BY <1>7, PoppedKeepsBooks DEF Idles
    <2> QED BY <1>1, <1>2, <1>7, <2>1 DEF Balanced
  <1>8. CASE ~Idles(p) /\ ~Exceeds(p) /\ Sends(p, s) /\ UNCHANGED deleting
    <2>1. u < MaxSegment
      BY RoomToSend
    <2>2. /\ Head(p.queue) = u /\ u \notin fly
          /\ Books(Sent(p, s), command, fly \cup {u}, invalid, ref, sto, u + 1)
          /\ Sent(p, s).code = p.code
      BY <1>8, <2>1, SendsKeepsBooks
    <2>3. process' = Sent(p, s) /\ pending' = SetToBag(fly) (+) SetToBag({u})
      BY <1>1, <1>8, <2>2 DEF Sends, Sent
    <2>4. pending' = SetToBag(fly \cup {u})
      BY <2>2, <2>3, PutInBag
    <2>5. u + 1 \in Segment
      BY <2>1, SegmentsAreIntegers DEF Segment
    <2> QED BY <1>2, <1>8, <2>2, <2>3, <2>4, <2>5 DEF Balanced
  <1> QED BY <1>4, <1>5, <1>6, <1>7, <1>8 DEF Control

(***************************************************************************)
(* One lemma for each action.                                              *)
(***************************************************************************)
LEMMA StepOfPresent ==
    ASSUME SegmentedTypes, command' = command, invalid' \subseteq Produced,
           refused' \subseteq Produced, stored \subseteq stored', stored' \subseteq Segment,
           deleting' \in BOOLEAN, pending' = SetToBag(BagToSet(pending')),
           Balanced(process', command, BagToSet(pending'), invalid', refused', stored'),
           CheckedIsStored, process'.code = 200 => command.start..LastSegment \subseteq stored',
           reply' # reply => reply'.verb = "check" /\ reply'.code = process'.code
    PROVE  SegmentedInv'
  <1>1. PICK u \in Segment :
           Books(process', command, BagToSet(pending'), invalid', refused', stored', u)
    BY DEF Balanced
  <1>2. process' \in ProcessInfo /\ process' # None /\ process' # Gone
    BY <1>1, PresentIs DEF Books
  <1>3. BagToSet(pending') \subseteq Segment
    <2>1. /\ BagToSet(pending') \subseteq process'.start..(u - 1)
          /\ process'.start \in Segment
      BY <1>1 DEF Books, Apart, ProcessInfo
    <2> QED BY <2>1, SegmentsAreIntegers DEF Segment
  <1>4. SegmentedTypes' /\ NoneYet' /\ BooksBalance'
    BY <1>2, <1>3 DEF SegmentedTypes, NoneYet, BooksBalance, Present
  <1>5. LastSegment' = LastSegment
    BY DEF LastSegment
  <1>6. InsertedMeansStored'
    <2>1. process'.code = 200 => AllStored'
      BY <1>5 DEF AllStored
    <2>2. CheckedIsStored'
      <3>1. CASE reply' = reply
        BY <1>5, <3>1 DEF CheckedIsStored
      <3>2. CASE reply' # reply
        BY <1>5, <3>2 DEF CheckedIsStored
      <3> QED BY <3>1, <3>2
    <2> QED BY <2>1, <2>2 DEF InsertedMeansStored
  <1> QED BY <1>4, <1>6 DEF SegmentedInv

LEMMA StepOfAbsent ==
    ASSUME SegmentedTypes, ~Present', command' = command, NoneYet',
           process' \in {None, Gone}, invalid' \subseteq Produced, refused' \subseteq Produced,
           stored' = stored, deleting' \in BOOLEAN, BagToSet(pending') \subseteq Segment,
           CheckedIsStored, reply' # reply => reply'.code # 200
    PROVE  SegmentedInv'
  <1>1. SegmentedTypes' /\ BooksBalance'
    BY DEF SegmentedTypes, BooksBalance
  <1>2. LastSegment' = LastSegment
    BY DEF LastSegment
  <1>3. CheckedIsStored'
    <2>1. CASE reply' = reply
      BY <1>2, <2>1 DEF CheckedIsStored
    <2>2. CASE reply' # reply
      BY <2>2 DEF CheckedIsStored
    <2> QED BY <2>1, <2>2
  <1> QED BY <1>1, <1>3 DEF SegmentedInv, InsertedMeansStored

(***************************************************************************)
(* What the invariant says of a process in the table.                      *)
(***************************************************************************)
LEMMA PresentHasBooks ==
    ASSUME SegmentedInv, Present
    PROVE  /\ process \in ProcessInfo
           /\ pending = SetToBag(BagToSet(pending))
           /\ \E u \in Segment :
                 Books(process, command, BagToSet(pending), invalid, refused, stored, u)
  BY DEF SegmentedInv, SegmentedTypes, BooksBalance, Balanced, Present

LEMMA InsertStep ==
    ASSUME SegmentedInv, NEW c \in Commands, InsertSegments(c)
    PROVE  SegmentedInv'
  <1>1. process = None /\ invalid' = {} /\ refused' = {} /\ stored' = stored
        /\ command' = c /\ deleting' = deleting /\ reply' = [verb |-> "insert", code |-> 100]
        /\ SegInit(c) /\ (c.end # NoBlock => c.start <= c.end)
    BY DEF InsertSegments, Reply, SegmentedInv, NoneYet
  <1>2. /\ pending' = SetToBag(FirstSegments(c))
        /\ Balanced(process', c, FirstSegments(c), {}, {}, stored)
    BY <1>1, InitOpensBooks
  <1>3. BagToSet(pending') = FirstSegments(c) /\ FirstSegments(c) \subseteq Segment
    BY <1>2, BagOfSet DEF FirstSegments
  <1>4. process' \in ProcessInfo /\ process' # None /\ process' # Gone /\ process'.code = 300
    BY <1>1, <1>2, PresentIs DEF Balanced, Books, SegInit
  <1>5. SegmentedTypes' /\ NoneYet' /\ BooksBalance'
    BY <1>1, <1>2, <1>3, <1>4 DEF SegmentedInv, SegmentedTypes, NoneYet, BooksBalance, Present
  <1>6. InsertedMeansStored'
    BY <1>1, <1>4 DEF InsertedMeansStored, CheckedIsStored
  <1> QED BY <1>5, <1>6 DEF SegmentedInv

LEMMA DataStep ==
    ASSUME SegmentedInv, NEW s \in Produced, BagIn(s, pending),
           NEW final \in FinalBlocks, NEW inserted \in BOOLEAN,
           OnSegmentData(s, final, inserted)
    PROVE  SegmentedInv'
  <1> DEFINE fly == BagToSet(pending)
             p == Received(process, final, inserted)
             ref == refused \cup (IF inserted THEN {} ELSE {s})
             sto == stored \cup (IF inserted THEN {s} ELSE {})
  <1>1. /\ Present /\ s \in fly /\ refused' = ref /\ stored' = sto /\ Control(p, s)
        /\ reply' = reply /\ command' = command /\ invalid' = invalid
    BY DEF OnSegmentData, Inserts, BagIn
  <1>2. PICK u \in Segment : Books(process, command, fly, invalid, refused, stored, u)
    BY <1>1, PresentHasBooks
  <1>3. /\ Books(p, command, fly \ {s}, invalid, ref, sto, u)
        /\ p.code = process.code /\ p.credit # 0
    BY <1>1, <1>2, ReceivedKeepsBooks
  <1>4. pending = SetToBag((fly \ {s}) \cup {s})
    <2>1. (fly \ {s}) \cup {s} = fly
      BY <1>1
    <2> QED BY <1>1, <2>1, PresentHasBooks
  <1>5. p.start <= s
    <2>1. p.start = process.start
      BY <1>2, <1>3 DEF Books, Asks
    <2>2. s \in process.start..(u - 1)
      BY <1>1, <1>2 DEF Books, Apart
    <2> QED BY <2>1, <2>2
  <1> HIDE DEF p, ref, sto
  <1>6. s \notin fly \ {s}
    OBVIOUS
  <1>7. /\ pending' = SetToBag(BagToSet(pending'))
        /\ Balanced(process', command, BagToSet(pending'), invalid, ref, sto)
        /\ process'.code = 200 => p.code = 200 \/ command.start..LastSegment \subseteq sto
        /\ deleting' \in {deleting, TRUE}
    BY <1>1, <1>3, <1>4, <1>5, <1>6, ControlKeepsBooks
  <1>8. s \in Segment /\ SegmentedTypes /\ CheckedIsStored
        /\ (process.code = 200 => AllStored)
    BY <1>1, SegmentsAreIntegers DEF SegmentedInv, InsertedMeansStored
  <1>9. stored \subseteq sto /\ sto \subseteq Segment /\ ref \subseteq Produced
        /\ invalid \subseteq Produced /\ deleting \in BOOLEAN
    BY <1>8 DEF SegmentedTypes, sto, ref
  <1>10. process'.code = 200 => command.start..LastSegment \subseteq sto
    BY <1>3, <1>7, <1>8, <1>9 DEF AllStored
  <1> QED BY <1>1, <1>7, <1>8, <1>9, <1>10, StepOfPresent

LEMMA InvalidStep ==
    ASSUME SegmentedInv, NEW s \in Produced, BagIn(s, pending), OnDataValidationFailed(s)
    PROVE  SegmentedInv'
  <1> DEFINE fly == BagToSet(pending)
  <1>1. /\ process' = process /\ deleting' = deleting /\ stored' = stored /\ reply' = reply
        /\ command' = command /\ refused' = refused /\ invalid' = invalid \cup {s}
        /\ pending' = Forgotten(s) /\ s \in fly /\ invalid' \subseteq Produced
    BY DEF OnDataValidationFailed, BagIn, SegmentedInv, SegmentedTypes
  <1>2. SegmentedTypes /\ CheckedIsStored /\ (Present /\ process.code = 200 => AllStored)
        /\ process \in {None, Gone} \cup ProcessInfo
    BY DEF SegmentedInv, InsertedMeansStored, SegmentedTypes
  <1>3. CASE Present
    <2>1. PICK u \in Segment : Books(process, command, fly, invalid, refused, stored, u)
      BY <1>3, PresentHasBooks
    <2>2. Books(process, command, fly \ {s}, invalid', refused, stored, u)
      BY <1>1, <2>1, InvalidKeepsBooks
    <2>3. pending' = SetToBag(fly \ {s}) /\ BagToSet(pending') = fly \ {s}
      BY <1>1, <1>3, PresentHasBooks, TakeFromBag, BagOfSet DEF Forgotten
    <2>4. Balanced(process', command, BagToSet(pending'), invalid', refused', stored')
      BY <1>1, <2>2, <2>3 DEF Balanced
    <2>5. /\ refused' \subseteq Produced /\ stored \subseteq stored' /\ stored' \subseteq Segment
          /\ deleting' \in BOOLEAN /\ pending' = SetToBag(BagToSet(pending'))
      BY <1>1, <1>2, <2>3 DEF SegmentedTypes
    <2>6. process'.code = 200 => command.start..LastSegment \subseteq stored'
      BY <1>1, <1>2, <1>3 DEF AllStored
    <2> QED BY <1>1, <1>2, <2>4, <2>5, <2>6, StepOfPresent
  <1>4. CASE ~Present
    <2>1. process = Gone
      <3>1. process # None
        BY <1>1, EmptyIsSetToBag DEF SegmentedInv, NoneYet
      <3> QED BY <1>4, <3>1 DEF Present
    <2>2. /\ ~Present' /\ NoneYet' /\ process' \in {None, Gone}
      BY <1>1, <2>1 DEF Present, NoneYet, None, Gone
    <2>3. BagToSet(pending') \subseteq Segment
      BY <1>1, <1>2, TakenFromPending DEF SegmentedTypes
    <2>4. refused' \subseteq Produced /\ deleting' \in BOOLEAN
      BY <1>1, <1>2 DEF SegmentedTypes
    <2> QED BY <1>1, <1>2, <2>2, <2>3, <2>4, StepOfAbsent
  <1> QED BY <1>3, <1>4

LEMMA RetryStep ==
    ASSUME SegmentedInv, NEW s \in Segment, BagIn(s, pending), SegmentRetry(s)
    PROVE  SegmentedInv'
  <1> DEFINE fly == BagToSet(pending)
             n == RetryCount(process.retryCounts, s) + 1
  <1>1. /\ Present /\ UNCHANGED <<pending, deleting, stored, reply, command, invalid, refused>>
        /\ process' = [process EXCEPT !.retryCounts = SetCount(@, s, RetryCount(@, s) + 1)]
        /\ RetryCount(process.retryCounts, s) < RetryTime /\ s \in fly
    BY DEF SegmentRetry, BagIn
  <1>2. PICK u \in Segment : Books(process, command, fly, invalid, refused, stored, u)
    BY <1>1, PresentHasBooks
  <1>3. process \in ProcessInfo /\ s \in DOMAIN process.retryCounts
    BY <1>1, <1>2, PresentHasBooks DEF Books
  <1>4. n \in 0..RetryTime
    <2>1. PICK D \in SUBSET Segment : process.retryCounts \in [D -> 0..RetryTime]
      BY <1>3 DEF ProcessInfo, Counts
    <2>2. RetryCount(process.retryCounts, s) \in 0..RetryTime
      BY <1>3, <2>1 DEF RetryCount
    <2> QED BY <1>1, <2>2, SegmentsAreIntegers
  <1>5. process' = [process EXCEPT !.retryCounts = SetCount(@, s, n)]
    BY <1>1, <1>3 DEF ProcessInfo
  <1>6. Books([process EXCEPT !.retryCounts = SetCount(@, s, n)], command, fly, invalid,
              refused, stored, u)
    BY <1>1, <1>2, <1>4, CounterKeepsBooks, Zenon
  <1>7. process'.code = process.code
    BY <1>1, <1>3 DEF ProcessInfo
  <1>8. SegmentedTypes /\ CheckedIsStored /\ (process.code = 200 => AllStored)
    BY <1>1 DEF SegmentedInv, InsertedMeansStored
  <1> HIDE DEF n
  <1>9. Balanced(process', command, BagToSet(pending'), invalid', refused', stored')
    BY <1>1, <1>5, <1>6 DEF Balanced
  <1>10. /\ invalid' \subseteq Produced /\ refused' \subseteq Produced /\ stored \subseteq stored'
         /\ stored' \subseteq Segment /\ deleting' \in BOOLEAN
         /\ pending' = SetToBag(BagToSet(pending'))
    BY <1>1, <1>8, PresentHasBooks DEF SegmentedTypes
  <1>11. process'.code = 200 => command.start..LastSegment \subseteq stored'
    BY <1>1, <1>7, <1>8 DEF AllStored
  <1> QED BY <1>1, <1>8, <1>9, <1>10, <1>11, StepOfPresent

(***************************************************************************)
(* The process is gone, or leaves; at most an Interest is forgotten.       *)
(***************************************************************************)
LEMMA GoneStep ==
    ASSUME SegmentedInv, process' = Gone \/ (process' = process /\ process = Gone),
           pending' = pending \/ \E s \in Segment : pending' = Forgotten(s),
           deleting' \in {deleting, FALSE},
           UNCHANGED <<stored, command, invalid, refused>>,
           reply' = reply \/ reply'.code # 200
    PROVE  SegmentedInv'
  <1>1. process' = Gone /\ ~Present' /\ NoneYet'
    BY DEF Present, NoneYet, None, Gone
  <1>2. SegmentedTypes /\ CheckedIsStored
    BY DEF SegmentedInv, InsertedMeansStored
  <1>3. BagToSet(pending') \subseteq Segment
    BY <1>2, TakenFromPending DEF SegmentedTypes
  <1>4. /\ invalid' \subseteq Produced /\ refused' \subseteq Produced /\ deleting' \in BOOLEAN
        /\ process' \in {None, Gone} /\ stored' = stored /\ command' = command
    BY <1>1, <1>2 DEF SegmentedTypes
  <1> QED BY <1>1, <1>2, <1>3, <1>4, StepOfAbsent

(***************************************************************************)
(* A command that is refused, or a check of what is not there, only        *)
(* replies.                                                                *)
(***************************************************************************)
LEMMA ReplyStep ==
    ASSUME SegmentedInv, UNCHANGED <<process, pending, deleting, stored, command, invalid, refused>>,
           reply' = reply \/ reply'.code # 200
    PROVE  SegmentedInv'
  <1>1. SegmentedTypes' /\ NoneYet' /\ BooksBalance'
    BY DEF SegmentedInv, SegmentedTypes, NoneYet, BooksBalance, Present
  <1>2. LastSegment' = LastSegment /\ (AllStored <=> AllStored')
    BY DEF LastSegment, AllStored
  <1>3. CheckedIsStored'
    <2>1. CASE reply' = reply
      BY <1>2, <2>1 DEF CheckedIsStored, SegmentedInv, InsertedMeansStored
    <2>2. CASE reply'.code # 200
      BY <2>2 DEF CheckedIsStored
    <2> QED BY <2>1, <2>2
  <1> QED BY <1>1, <1>2, <1>3 DEF SegmentedInv, InsertedMeansStored, Present

(***************************************************************************)
(* The clock and the check change the code or the expiry only.             *)
(***************************************************************************)
LEMMA CodeStep ==
    ASSUME SegmentedInv, Present,
           \/ process' = process
           \/ process' = [process EXCEPT !.expired = TRUE]
           \/ process' = [process EXCEPT !.code = 405],
           UNCHANGED <<pending, deleting, stored, command, invalid, refused>>,
           reply' = reply \/ reply' = [verb |-> "check", code |-> process'.code]
    PROVE  SegmentedInv'
  <1>1. PICK u \in Segment :
           Books(process, command, BagToSet(pending), invalid, refused, stored, u)
    BY PresentHasBooks
  <1>2. process \in ProcessInfo
    BY PresentHasBooks
  <1>3. /\ Books(process', command, BagToSet(pending), invalid, refused, stored, u)
        /\ process'.code \in {process.code, 405}
    <2>1. CASE process' = process
      BY <1>1, <2>1
    <2>2. CASE process' = [process EXCEPT !.expired = TRUE]
      <3>1. Books(process', command, BagToSet(pending), invalid, refused, stored, u)
        BY <1>1, <2>2, CodeKeepsBooks
      <3> QED BY <1>2, <2>2, <3>1 DEF ProcessInfo
    <2>3. CASE process' = [process EXCEPT !.code = 405]
      <3>1. \E code \in {300, 200, 405} : process' = [process EXCEPT !.code = code]
        BY <2>3
      <3>2. Books(process', command, BagToSet(pending), invalid, refused, stored, u)
        BY <1>1, <3>1, CodeKeepsBooks
      <3> QED BY <1>2, <2>3, <3>2 DEF ProcessInfo
    <2> QED BY <2>1, <2>2, <2>3
  <1>4. SegmentedTypes /\ CheckedIsStored /\ (process.code = 200 => AllStored)
    BY DEF SegmentedInv, InsertedMeansStored
  <1>5. Balanced(process', command, BagToSet(pending'), invalid', refused', stored')
    BY <1>3 DEF Balanced
  <1>6. /\ invalid' \subseteq Produced /\ refused' \subseteq Produced /\ stored \subseteq stored'
        /\ stored' \subseteq Segment /\ deleting' \in BOOLEAN
        /\ pending' = SetToBag(BagToSet(pending')) /\ command' = command
    BY <1>4, PresentHasBooks DEF SegmentedTypes
  <1>7. process'.code = 200 => command.start..LastSegment \subseteq stored'
    BY <1>3, <1>4 DEF AllStored
  <1> QED BY <1>4, <1>5, <1>6, <1>7, StepOfPresent

-----------------------------------------------------------------------------
(***************************************************************************)
(* No answer has come before the first command, and every step of the      *)
(* program keeps the books.                                                *)
(***************************************************************************)
LEMMA SegmentedInitInv == SegmentedInit => SegmentedInv
  <1> SUFFICES ASSUME SegmentedInit PROVE SegmentedInv
    OBVIOUS
  <1>1. /\ process = None /\ ~Present /\ BagToSet(pending) = {} /\ pending = EmptyBag
        /\ invalid = {} /\ refused = {} /\ deleting \in BOOLEAN
    BY EmptyIsSetToBag DEF SegmentedInit, Present
  <1>2. stored \subseteq Segment
    <2>1. stored = {} \/ \E s \in Produced : stored = {s}
      BY DEF SegmentedInit
    <2> QED BY <2>1, SegmentsAreIntegers
  <1>3. CheckedIsStored
    BY DEF SegmentedInit, CheckedIsStored
  <1> QED BY <1>1, <1>2, <1>3 DEF SegmentedInv, SegmentedTypes, NoneYet, BooksBalance,
             InsertedMeansStored

LEMMA ArrivalStep ==
    ASSUME SegmentedInv, NEW s \in Produced, BagIn(s, pending), SegmentArrives(s)
    PROVE  SegmentedInv'
  <1>1. s \in Segment /\ process # None
    BY SegmentsAreIntegers, EmptyIsSetToBag DEF SegmentedInv, NoneYet, BagIn
  <1>2. CASE \E final \in FinalBlocks, inserted \in BOOLEAN : OnSegmentData(s, final, inserted)
    BY <1>2, DataStep
  <1>3. CASE DropSegmentData(s)
    BY <1>1, <1>3, GoneStep DEF DropSegmentData, Present
  <1>4. CASE OnDataValidationFailed(s)
    BY <1>4, InvalidStep
  <1> QED BY <1>2, <1>3, <1>4 DEF SegmentArrives

LEMMA FetchStep ==
    ASSUME SegmentedInv, NEW s \in Segment, FetchEnds(s)
    PROVE  SegmentedInv'
  <1>1. BagIn(s, pending) /\ process # None
    BY EmptyIsSetToBag DEF FetchEnds, SegmentedInv, NoneYet, BagIn
  <1>2. CASE SegmentRetry(s)
    BY <1>1, <1>2, RetryStep
  <1>3. CASE SegmentFails(s)
    BY <1>3, GoneStep DEF SegmentFails
  <1>4. CASE DropSegmentTimeout(s)
    BY <1>1, <1>4, GoneStep DEF DropSegmentTimeout, Present
  <1>5. CASE s \in Produced /\ SegmentArrives(s)
    BY <1>1, <1>5, ArrivalStep
  <1> QED BY <1>2, <1>3, <1>4, <1>5 DEF FetchEnds, SegmentTimeout

LEMMA SegmentedStep == SegmentedInv /\ [SegmentedNext]_vars => SegmentedInv'
  <1> SUFFICES ASSUME SegmentedInv, [SegmentedNext]_vars PROVE SegmentedInv'
    OBVIOUS
  <1>1. ASSUME NEW c \in Commands, InsertSegments(c) PROVE SegmentedInv'
    BY <1>1, InsertStep
  <1>2. ASSUME NEW c \in Commands, InsertRefused(c) PROVE SegmentedInv'
    BY <1>2, ReplyStep DEF InsertRefused, Reply
  <1>3. ASSUME NEW s \in Segment, FetchEnds(s) PROVE SegmentedInv'
    BY <1>3, FetchStep
  <1>4. CASE DeleteProcess
    BY <1>4, GoneStep DEF DeleteProcess
  <1>5. CASE NoEndTimePasses
    BY <1>5, CodeStep DEF NoEndTimePasses
  <1>6. CASE Check
    BY <1>6, CodeStep DEF Check, ExtendNoEndTime, Reply
  <1>7. CASE CheckUnknown
    BY <1>7, ReplyStep DEF CheckUnknown, Reply
  <1>8. CASE MalformedCheck
    BY <1>8, ReplyStep DEF MalformedCheck, Reply
  <1>9. CASE UNCHANGED vars
    BY <1>9, ReplyStep DEF vars, programVars
  <1> QED BY <1>1, <1>2, <1>3, <1>4, <1>5, <1>6, <1>7, <1>8, <1>9 DEF SegmentedNext

LEMMA SegmentedInvariant == SegmentedSpec => []SegmentedInv
  BY SegmentedInitInv, SegmentedStep, PTL DEF SegmentedSpec

(***************************************************************************)
(* processSegmentedInsertCommand, the callbacks of its Interests and the   *)
(* timers keep the types of their state.                                   *)
(***************************************************************************)
THEOREM SegmentedTypeCorrect == SegmentedSpec => []SegmentedTypeOK
  <1>1. SegmentedInv => SegmentedTypeOK
    <2> SUFFICES ASSUME SegmentedInv PROVE SegmentedTypeOK
      OBVIOUS
    <2>1. \A p \in ProcessInfo :
             /\ p.code \in {300, 200, 405} /\ p.end \in Segment \cup {NoBlock}
             /\ p.nextSegment \in Segment /\ p.queue \in Seq(Segment)
             /\ p.retryCounts \in [DOMAIN p.retryCounts -> 0..RetryTime]
      <3> TAKE p \in ProcessInfo
      <3>1. PICK D \in SUBSET Segment : p.retryCounts \in [D -> 0..RetryTime]
        BY DEF ProcessInfo, Counts
      <3>2. p.retryCounts \in [DOMAIN p.retryCounts -> 0..RetryTime]
        BY <3>1
      <3> QED BY <3>2 DEF ProcessInfo
    <2>2. invalid \subseteq Segment /\ refused \subseteq Segment
      BY SegmentsAreIntegers DEF SegmentedInv, SegmentedTypes
    <2> QED BY <2>1, <2>2 DEF SegmentedInv, SegmentedTypes, SegmentedTypeOK
  <1> QED BY <1>1, SegmentedInvariant, PTL

(***************************************************************************)
(* Whatever is lost, late, invalid or refused, the credits of a process    *)
(* are in its hand, in flight, or with an invalid packet.                  *)
(***************************************************************************)
THEOREM CreditsAreConserved == SegmentedSpec => []CreditConserved
  <1>1. SegmentedInv => CreditConserved
    <2> SUFFICES ASSUME SegmentedInv, Present
                 PROVE  /\ process.credit + Cardinality(BagToSet(pending)) + Cardinality(invalid)
                              = InitialCredit(command)
                        /\ \A s \in BagToSet(pending) : pending[s] = 1
      BY DEF CreditConserved
    <2>1. \A s \in BagToSet(pending) : pending[s] = 1
      <3> DEFINE fly == BagToSet(pending)
      <3>1. pending = SetToBag(fly)
        BY PresentHasBooks
      <3> HIDE DEF fly
      <3>2. \A s \in fly : pending[s] = 1
        BY <3>1, BagOfSet
      <3> QED BY <3>2 DEF fly
    <2> QED BY <2>1, PresentHasBooks DEF Books
  <1> QED BY <1>1, SegmentedInvariant, PTL

(***************************************************************************)
(* The BOOST_ASSERTs of onSegmentDataControl and onSegmentTimeoutControl   *)
(* cannot fail: an Interest in flight has its retry counter.               *)
(***************************************************************************)
THEOREM AssertionsCannotFail == SegmentedSpec => []AssertionsHold
  <1>1. SegmentedInv => AssertionsHold
    BY PresentHasBooks DEF AssertionsHold, Books
  <1> QED BY <1>1, SegmentedInvariant, PTL

(***************************************************************************)
(* onSegmentDataControl passes over no segment of the range.               *)
(***************************************************************************)
THEOREM EverySegmentIsAskedFor == SegmentedSpec => []NoSegmentSkipped
  <1>1. SegmentedInv => NoSegmentSkipped
    <2> SUFFICES ASSUME SegmentedInv, Present, NEW s \in process.start..process.nextSegment
                 PROVE  \/ HasEnd(process) /\ s > process.end
                        \/ s \in ToSet(process.queue)
                        \/ s \in stored \cup invalid \cup refused
                        \/ BagIn(s, pending)
      BY DEF NoSegmentSkipped
    <2> DEFINE fly == BagToSet(pending)
    <2>1. PICK u \in Segment : Books(process, command, fly, invalid, refused, stored, u)
      BY PresentHasBooks
    <2>2. process \in ProcessInfo /\ u \in Nat /\ process.nextSegment \in Nat
          /\ process.start \in Nat /\ process.start <= s /\ s <= process.nextSegment /\ s \in Nat
      <3>1. process \in ProcessInfo
        BY PresentHasBooks
      <3>2. process.nextSegment \in Nat /\ process.start \in Nat /\ u \in Nat
        BY <3>1, SegmentsAreIntegers DEF ProcessInfo
      <3> QED BY <3>1, <3>2
    <2>3. CASE s <= u - 1
      <3>1. s \in fly \cup invalid \cup refused \cup Inserted(process, fly, invalid, refused, u)
        BY <2>2, <2>3 DEF Inserted
      <3> QED BY <2>1, <3>1 DEF Books, BagIn
    <2>4. CASE u <= s
      <3>1. s = u /\ process.nextSegment = u
        BY <2>1, <2>2, <2>4 DEF Books, Queued
      <3>2. process.queue = <<u>> \/ (HasEnd(process) /\ u > process.end)
        BY <2>1, <2>2, <3>1 DEF Books, Queued
      <3>3. u \in ToSet(<<u>>)
        BY DEF ToSet
      <3> QED BY <3>1, <3>2, <3>3
    <2> QED BY <2>2, <2>3, <2>4
  <1> QED BY <1>1, SegmentedInvariant, PTL

(***************************************************************************)
(* A check is answered 200 only when every segment up to the last is       *)
(* stored.                                                                 *)
(***************************************************************************)
THEOREM CheckedOnlyWhenStored == SegmentedSpec => []CheckedIsStored
  <1>1. SegmentedInv => CheckedIsStored
    BY DEF SegmentedInv, InsertedMeansStored
  <1> QED BY <1>1, SegmentedInvariant, PTL
===============================================================================
