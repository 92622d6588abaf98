--------------------------- MODULE SemQueueProofs ---------------------------
(***************************************************************************)
(* The safety of Queue<T> for every queueSize, every set of threads and    *)
(* every set of objects.                                                   *)
(*                                                                         *)
(* MutualExclusion and HeadFollowsTail are not inductive by themselves:    *)
(* the first needs the values a semaphore may have (TypeOK), the second    *)
(* needs that at most one thread moves head and one moves tail, and        *)
(* NoSlotRace needs that the objects in the buffer never exceed its slots  *)
(* (SlotsConserved).  IInv is their conjunction.                           *)
(*                                                                         *)
(* That the ring is a FIFO needs to know of its slots in addition that     *)
(* those between tail and head hold objects (Filled); each step of a       *)
(* thread is then a step of BoundedFifo or changes nothing there.          *)
(***************************************************************************)
EXTENDS SemQueue, FiniteSetTheorems, SequenceTheorems, TLAPS

IInv ==
  /\ TypeOK
  /\ MutualExclusion
  /\ SlotsConserved
  /\ HeadFollowsTail

-----------------------------------------------------------------------------
\* The remainder of a number below 2 * n.
LEMMA Remainder ==
  ASSUME NEW n \in Nat \ {0}, NEW a \in 0 .. 2 * n - 1
  PROVE  a % n = IF a < n THEN a ELSE a - n
OBVIOUS

\* Threads and the sets of threads at given steps are finite.
LEMMA AtFinite ==
  ASSUME NEW S, IsFiniteSet(S), NEW steps
  PROVE  /\ IsFiniteSet(At(S, steps))
         /\ Cardinality(At(S, steps)) \in Nat
BY FS_Subset, FS_CardinalityType DEF At

\* How one thread's step changes the number of threads at the steps "steps".
LEMMA AtStep ==
  ASSUME NEW S, IsFiniteSet(S), NEW steps, NEW t \in S, NEW from, NEW to,
         S \subseteq Threads, pc = [u \in Threads |-> pc[u]], Step(t, from, to)
  PROVE  Cardinality(At(S, steps))' =
           IF from \in steps
           THEN IF to \in steps THEN Cardinality(At(S, steps)) ELSE Cardinality(At(S, steps)) - 1
           ELSE IF to \in steps THEN Cardinality(At(S, steps)) + 1 ELSE Cardinality(At(S, steps))
<1> DEFINE A == At(S, steps)
           B == At(S, steps)'
<1>1. \A u \in S : pc'[u] = IF u = t THEN to ELSE pc[u]
  BY DEF Step
<1>2. pc[t] = from
  BY DEF Step
<1>3. IsFiniteSet(A)
  BY AtFinite
<1>4. CASE from \in steps /\ to \in steps
  <2>1. B = A
    BY <1>1, <1>2, <1>4 DEF At
  <2> QED BY <2>1, <1>4
<1>5. CASE from \in steps /\ to \notin steps
  <2>1. B = A \ {t} /\ t \in A
    BY <1>1, <1>2, <1>5 DEF At
  <2> QED BY <2>1, <1>3, <1>5, FS_RemoveElement
<1>6. CASE from \notin steps /\ to \in steps
  <2>1. B = A \cup {t} /\ t \notin A
    BY <1>1, <1>2, <1>6 DEF At
  <2> QED BY <2>1, <1>3, <1>6, FS_AddElement
<1>7. CASE from \notin steps /\ to \notin steps
  <2>1. B = A
    BY <1>1, <1>2, <1>7 DEF At
  <2> QED BY <2>1, <1>7
<1> QED BY <1>4, <1>5, <1>6, <1>7

\* A step of a thread outside S leaves the threads of S where they are.
LEMMA AtOther ==
  ASSUME NEW S, NEW steps, NEW t, NEW from, NEW to, t \notin S,
         S \subseteq Threads, pc = [u \in Threads |-> pc[u]], Step(t, from, to)
  PROVE  At(S, steps)' = At(S, steps)
BY DEF At, Step

-----------------------------------------------------------------------------
\* Each variable keeps its type.
LEMMA TypeOKStep == TypeOK /\ MutualExclusion /\ [Next]_vars => TypeOK'
<1> SUFFICES ASSUME TypeOK, MutualExclusion, [Next]_vars PROVE TypeOK'
  OBVIOUS
<1> USE SemQueueAssumption DEF TypeOK, Threads, Slots
<1>1. ASSUME NEW p \in Producers, NEW x \in Items, EnqCall(p, x) PROVE TypeOK'
  BY <1>1 DEF EnqCall, Step, semaphores
<1>2. ASSUME NEW p \in Producers, EnqWaitEmpty(p) PROVE TypeOK'
  BY <1>2 DEF EnqWaitEmpty, Step
<1>3. ASSUME NEW p \in Producers, EnqWaitMutex(p) PROVE TypeOK'
  BY <1>3 DEF EnqWaitMutex, Step
<1>4. ASSUME NEW p \in Producers, EnqWrite(p) PROVE TypeOK'
  BY <1>4 DEF EnqWrite, Step, semaphores
<1>5. ASSUME NEW p \in Producers, EnqAdvance(p) PROVE TypeOK'
  BY <1>5 DEF EnqAdvance, Step, semaphores
<1>6. ASSUME NEW p \in Producers, EnqPostMutex(p) PROVE TypeOK'
  <2>1. enqueue_mutex = 0
    BY <1>6 DEF EnqPostMutex, Step, MutualExclusion, Critical
  <2> QED BY <1>6, <2>1 DEF EnqPostMutex, Step
<1>7. ASSUME NEW p \in Producers, EnqPostFull(p) PROVE TypeOK'
  BY <1>7 DEF EnqPostFull, Step
<1>8. ASSUME NEW c \in Consumers, DeqCall(c) PROVE TypeOK'
  BY <1>8 DEF DeqCall, Step, semaphores
<1>9. ASSUME NEW c \in Consumers, DeqWaitFull(c) PROVE TypeOK'
  BY <1>9 DEF DeqWaitFull, Step
<1>10. ASSUME NEW c \in Consumers, DeqWaitMutex(c) PROVE TypeOK'
  BY <1>10 DEF DeqWaitMutex, Step
<1>11. ASSUME NEW c \in Consumers, DeqRead(c) PROVE TypeOK'
  BY <1>11 DEF DeqRead, Step, semaphores
<1>12. ASSUME NEW c \in Consumers, DeqAdvance(c) PROVE TypeOK'
  BY <1>12 DEF DeqAdvance, Step, semaphores
<1>13. ASSUME NEW c \in Consumers, DeqPostMutex(c) PROVE TypeOK'
  <2>1. dequeue_mutex = 0
    BY <1>13 DEF DeqPostMutex, Step, MutualExclusion, Critical
  <2> QED BY <1>13, <2>1 DEF DeqPostMutex, Step
<1>14. ASSUME NEW c \in Consumers, DeqPostEmpty(c) PROVE TypeOK'
  BY <1>14 DEF DeqPostEmpty, Step
<1>15. CASE UNCHANGED vars
  BY <1>15 DEF vars, semaphores
<1> QED
  BY <1>1, <1>2, <1>3, <1>4, <1>5, <1>6, <1>7, <1>8, <1>9, <1>10, <1>11, <1>12, <1>13,
     <1>14, <1>15 DEF Next, Enqueue, Dequeue

\* Only the thread that took a mutex is between its sem_wait and its sem_post.
LEMMA MutualExclusionStep == TypeOK /\ MutualExclusion /\ [Next]_vars => MutualExclusion'
<1> SUFFICES ASSUME TypeOK, MutualExclusion, [Next]_vars PROVE MutualExclusion'
  OBVIOUS
<1> USE SemQueueAssumption DEF TypeOK, MutualExclusion, Critical, Threads
<1>1. ASSUME NEW p \in Producers, EnqWaitMutex(p) PROVE MutualExclusion'
  BY <1>1 DEF EnqWaitMutex, Step
<1>2. ASSUME NEW p \in Producers, EnqPostMutex(p) PROVE MutualExclusion'
  BY <1>2 DEF EnqPostMutex, Step
<1>3. ASSUME NEW p \in Producers,
             \/ EnqWaitEmpty(p) \/ EnqWrite(p) \/ EnqAdvance(p) \/ EnqPostFull(p)
             \/ \E x \in Items : EnqCall(p, x)
      PROVE MutualExclusion'
  BY <1>3 DEF EnqWaitEmpty, EnqWrite, EnqAdvance, EnqPostFull, EnqCall, Step, semaphores
<1>4. ASSUME NEW c \in Consumers, DeqWaitMutex(c) PROVE MutualExclusion'
  BY <1>4 DEF DeqWaitMutex, Step
<1>5. ASSUME NEW c \in Consumers, DeqPostMutex(c) PROVE MutualExclusion'
  BY <1>5 DEF DeqPostMutex, Step
<1>6. ASSUME NEW c \in Consumers,
             DeqCall(c) \/ DeqWaitFull(c) \/ DeqRead(c) \/ DeqAdvance(c) \/ DeqPostEmpty(c)
      PROVE MutualExclusion'
  BY <1>6 DEF DeqCall, DeqWaitFull, DeqRead, DeqAdvance, DeqPostEmpty, Step, semaphores
<1>7. CASE UNCHANGED vars
  BY <1>7 DEF vars, semaphores
<1> QED
  BY <1>1, <1>2, <1>3, <1>4, <1>5, <1>6, <1>7 DEF Next, Enqueue, Dequeue

-----------------------------------------------------------------------------
(* Counting threads *)

\* The four cardinalities of SlotsConserved and HeadFollowsTail.
enqueuing == Cardinality(At(Producers, Enqueuing))
written == Cardinality(At(Producers, Written))
dequeuing == Cardinality(At(Consumers, Dequeuing))
claimed == Cardinality(At(Consumers, Claimed))

LEMMA CountsAreNat ==
  /\ enqueuing \in Nat
  /\ written \in Nat
  /\ dequeuing \in Nat
  /\ claimed \in Nat
BY AtFinite, SemQueueAssumption DEF enqueuing, written, dequeuing, claimed

\* The change of a count when a thread moves from one step to another.
Change(from, to, steps) ==
  (IF to \in steps THEN 1 ELSE 0) - (IF from \in steps THEN 1 ELSE 0)

LEMMA ProducerMoves ==
  ASSUME TypeOK, NEW p \in Producers, NEW from, NEW to, Step(p, from, to)
  PROVE  /\ enqueuing' = enqueuing + Change(from, to, Enqueuing)
         /\ written' = written + Change(from, to, Written)
         /\ dequeuing' = dequeuing
         /\ claimed' = claimed
<1>1. pc = [u \in Threads |-> pc[u]]
  BY DEF TypeOK
<1>2. Producers \subseteq Threads /\ Consumers \subseteq Threads /\ p \notin Consumers
  BY SemQueueAssumption DEF Threads
<1>3. enqueuing' = enqueuing + Change(from, to, Enqueuing)
  BY <1>1, <1>2, AtStep, CountsAreNat, SemQueueAssumption DEF enqueuing, Change
<1>4. written' = written + Change(from, to, Written)
  BY <1>1, <1>2, AtStep, CountsAreNat, SemQueueAssumption DEF written, Change
<1>5. dequeuing' = dequeuing /\ claimed' = claimed
  BY <1>1, <1>2, AtOther DEF dequeuing, claimed
<1> QED BY <1>3, <1>4, <1>5

LEMMA ConsumerMoves ==
  ASSUME TypeOK, NEW c \in Consumers, NEW from, NEW to, Step(c, from, to)
  PROVE  /\ dequeuing' = dequeuing + Change(from, to, Dequeuing)
         /\ claimed' = claimed + Change(from, to, Claimed)
         /\ enqueuing' = enqueuing
         /\ written' = written
<1>1. pc = [u \in Threads |-> pc[u]]
  BY DEF TypeOK
<1>2. Producers \subseteq Threads /\ Consumers \subseteq Threads /\ c \notin Producers
  BY SemQueueAssumption DEF Threads
<1>3. dequeuing' = dequeuing + Change(from, to, Dequeuing)
  BY <1>1, <1>2, AtStep, CountsAreNat, SemQueueAssumption DEF dequeuing, Change
<1>4. claimed' = claimed + Change(from, to, Claimed)
  BY <1>1, <1>2, AtStep, CountsAreNat, SemQueueAssumption DEF claimed, Change
<1>5. enqueuing' = enqueuing /\ written' = written
  BY <1>1, <1>2, AtOther DEF enqueuing, written
<1> QED BY <1>3, <1>4, <1>5

\* The slots and the head, in these counts.
LEMMA CountsDef ==
  /\ SlotsConserved <=> full + empty + enqueuing + dequeuing = size
  /\ HeadFollowsTail <=> head = (tail + (full + written + claimed)) % size
BY DEF SlotsConserved, HeadFollowsTail, Count, enqueuing, dequeuing, written, claimed

-----------------------------------------------------------------------------
(* The slots *)

LEMMA SlotsConservedStep == TypeOK /\ SlotsConserved /\ [Next]_vars => SlotsConserved'
<1> SUFFICES ASSUME TypeOK, SlotsConserved, [Next]_vars
             PROVE  full' + empty' + enqueuing' + dequeuing' = size
  BY CountsDef DEF SlotsConserved, enqueuing, dequeuing
<1>1. full + empty + enqueuing + dequeuing = size
  BY CountsDef
<1>2. {full, empty, enqueuing, dequeuing, size} \subseteq Int
  BY CountsAreNat, SemQueueAssumption DEF TypeOK
<1> USE <1>1, <1>2 DEF Change, Enqueuing, Dequeuing, semaphores
<1>3. ASSUME NEW p \in Producers, NEW x \in Items, EnqCall(p, x)
      PROVE full' + empty' + enqueuing' + dequeuing' = size
  <2>1. Step(p, "ready", "waitEmpty")
    BY <1>3 DEF EnqCall
  <2> QED BY <2>1, <1>3, ProducerMoves DEF EnqCall
<1>4. ASSUME NEW p \in Producers, EnqWaitEmpty(p)
      PROVE full' + empty' + enqueuing' + dequeuing' = size
  <2>1. Step(p, "waitEmpty", "waitMutex")
    BY <1>4 DEF EnqWaitEmpty
  <2> QED BY <2>1, <1>4, ProducerMoves DEF EnqWaitEmpty
<1>5. ASSUME NEW p \in Producers,
             EnqWaitMutex(p) \/ EnqWrite(p) \/ EnqAdvance(p) \/ EnqPostMutex(p)
      PROVE full' + empty' + enqueuing' + dequeuing' = size
  <2>1. PICK from \in Enqueuing, to \in Enqueuing : Step(p, from, to)
    BY <1>5 DEF EnqWaitMutex, EnqWrite, EnqAdvance, EnqPostMutex
  <2>2. full' = full /\ empty' = empty
    BY <1>5 DEF EnqWaitMutex, EnqWrite, EnqAdvance, EnqPostMutex
  <2> QED BY <2>1, <2>2, ProducerMoves
<1>6. ASSUME NEW p \in Producers, EnqPostFull(p)
      PROVE full' + empty' + enqueuing' + dequeuing' = size
  <2>1. Step(p, "postFull", "ready")
    BY <1>6 DEF EnqPostFull
  <2> QED BY <2>1, <1>6, ProducerMoves DEF EnqPostFull
<1>7. ASSUME NEW c \in Consumers, DeqCall(c)
      PROVE full' + empty' + enqueuing' + dequeuing' = size
  <2>1. Step(c, "ready", "waitFull")
    BY <1>7 DEF DeqCall
  <2> QED BY <2>1, <1>7, ConsumerMoves DEF DeqCall
<1>8. ASSUME NEW c \in Consumers, DeqWaitFull(c)
      PROVE full' + empty' + enqueuing' + dequeuing' = size
  <2>1. Step(c, "waitFull", "waitMutex")
    BY <1>8 DEF DeqWaitFull
  <2> QED BY <2>1, <1>8, ConsumerMoves DEF DeqWaitFull
<1>9. ASSUME NEW c \in Consumers,
             DeqWaitMutex(c) \/ DeqRead(c) \/ DeqAdvance(c) \/ DeqPostMutex(c)
      PROVE full' + empty' + enqueuing' + dequeuing' = size
  <2>1. PICK from \in Dequeuing, to \in Dequeuing : Step(c, from, to)
    BY <1>9 DEF DeqWaitMutex, DeqRead, DeqAdvance, DeqPostMutex
  <2>2. full' = full /\ empty' = empty
    BY <1>9 DEF DeqWaitMutex, DeqRead, DeqAdvance, DeqPostMutex
  <2> QED BY <2>1, <2>2, ConsumerMoves
<1>10. ASSUME NEW c \in Consumers, DeqPostEmpty(c)
       PROVE full' + empty' + enqueuing' + dequeuing' = size
  <2>1. Step(c, "postEmpty", "ready")
    BY <1>10 DEF DeqPostEmpty
  <2> QED BY <2>1, <1>10, ConsumerMoves DEF DeqPostEmpty
<1>11. CASE UNCHANGED vars
  BY <1>11 DEF vars, enqueuing, dequeuing, At
<1> QED
  BY <1>3, <1>4, <1>5, <1>6, <1>7, <1>8, <1>9, <1>10, <1>11 DEF Next, Enqueue, Dequeue

-----------------------------------------------------------------------------
(* The head *)

\* The buffer never holds more objects than slots, and has a free one while a
\* producer is about to fill it.
LEMMA CountBound ==
  ASSUME TypeOK, SlotsConserved
  PROVE  /\ full + written + claimed \in 0 .. size
         /\ \A p \in Producers : pc[p] \in {"write", "advance"} => full + written + claimed < size
         /\ \A c \in Consumers : pc[c] \in {"read", "advance"} => full + written + claimed > 0
<1>1. /\ full + empty + enqueuing + dequeuing = size
      /\ full \in Nat /\ empty \in Nat /\ size \in Nat
      /\ enqueuing \in Nat /\ written \in Nat /\ dequeuing \in Nat /\ claimed \in Nat
  BY CountsDef, CountsAreNat, SemQueueAssumption DEF TypeOK
<1>2. written <= enqueuing /\ (written = enqueuing => At(Producers, Written) = At(Producers, Enqueuing))
  <2>1. At(Producers, Written) \subseteq At(Producers, Enqueuing)
    BY DEF At, Written, Enqueuing
  <2> QED BY <2>1, FS_Subset, AtFinite, SemQueueAssumption DEF written, enqueuing
<1>3. claimed <= dequeuing
  <2>1. At(Consumers, Claimed) \subseteq At(Consumers, Dequeuing)
    BY DEF At, Claimed, Dequeuing
  <2> QED BY <2>1, FS_Subset, AtFinite, SemQueueAssumption DEF claimed, dequeuing
<1>4. full + written + claimed \in 0 .. size
  BY <1>1, <1>2, <1>3
<1>5. ASSUME NEW p \in Producers, pc[p] \in {"write", "advance"}
      PROVE full + written + claimed < size
  <2>1. At(Producers, Written) # At(Producers, Enqueuing)
    <3>1. p \in At(Producers, Enqueuing) /\ p \notin At(Producers, Written)
      BY <1>5 DEF At, Written, Enqueuing
    <3> QED BY <3>1
  <2> QED BY <2>1, <1>1, <1>2, <1>3
<1>6. ASSUME NEW c \in Consumers, pc[c] \in {"read", "advance"}
      PROVE full + written + claimed > 0
  <2>1. At(Consumers, Claimed) # {}
    <3>1. c \in At(Consumers, Claimed)
      BY <1>6 DEF At, Claimed
    <3> QED BY <3>1
  <2>2. claimed # 0
    BY <2>1, FS_EmptySet, AtFinite, SemQueueAssumption DEF claimed
  <2> QED BY <2>2, <1>1
<1> QED BY <1>4, <1>5, <1>6

\* Moving head, and moving tail, along the circle.
LEMMA AdvanceHead ==
  ASSUME NEW n \in Nat \ {0}, NEW t \in 0 .. n - 1, NEW k \in 0 .. n - 1
  PROVE  (((t + k) % n) + 1) % n = (t + (k + 1)) % n
<1> DEFINE a == t + k
           b == (a % n) + 1
           d == t + (k + 1)
<1>1. a \in 0 .. 2 * n - 1 /\ d \in 0 .. 2 * n - 1
  OBVIOUS
<1>2. a % n = IF a < n THEN a ELSE a - n
  <2> HIDE DEF a
  <2> QED BY <1>1, Remainder
<1>3. d % n = IF d < n THEN d ELSE d - n
  <2> HIDE DEF d
  <2> QED BY <1>1, Remainder
<1>4. b \in 0 .. 2 * n - 1
  BY <1>2
<1>5. b % n = IF b < n THEN b ELSE b - n
  <2> HIDE DEF b
  <2> QED BY <1>4, Remainder
<1>6. b % n = d % n
  BY <1>2, <1>3, <1>5
<1> QED BY <1>6

LEMMA AdvanceTail ==
  ASSUME NEW n \in Nat \ {0}, NEW t \in 0 .. n - 1, NEW k \in 1 .. n
  PROVE  (((t + 1) % n) + (k - 1)) % n = (t + k) % n
<1> DEFINE a == t + 1
           b == (a % n) + (k - 1)
           d == t + k
<1>1. a \in 0 .. 2 * n - 1 /\ d \in 0 .. 2 * n - 1
  OBVIOUS
<1>2. a % n = IF a < n THEN a ELSE a - n
  <2> HIDE DEF a
  <2> QED BY <1>1, Remainder
<1>3. d % n = IF d < n THEN d ELSE d - n
  <2> HIDE DEF d
  <2> QED BY <1>1, Remainder
<1>4. b \in 0 .. 2 * n - 1
  BY <1>2
<1>5. b % n = IF b < n THEN b ELSE b - n
  <2> HIDE DEF b
  <2> QED BY <1>4, Remainder
<1>6. b % n = d % n
  BY <1>2, <1>3, <1>5
<1> QED BY <1>6

\* The count of objects changes exactly when head or tail does.
LEMMA HeadFollowsTailStep == IInv /\ [Next]_vars => HeadFollowsTail'
<1> DEFINE count == full + written + claimed
<1> SUFFICES ASSUME IInv, [Next]_vars PROVE head' = (tail' + count') % size
  BY CountsDef DEF HeadFollowsTail, Count, written, claimed
<1>1. head = (tail + count) % size
  BY CountsDef DEF IInv
<1>2. {full, written, claimed} \subseteq Int /\ size \in Nat \ {0} /\ tail \in 0 .. size - 1
  BY CountsAreNat, SemQueueAssumption DEF IInv, TypeOK, Slots
<1>3. TypeOK
  BY DEF IInv
<1> USE <1>1, <1>2, <1>3 DEF Change, Written, Claimed, semaphores
<1>4. ASSUME NEW p \in Producers, EnqAdvance(p) PROVE head' = (tail' + count') % size
  <2>1. Step(p, "advance", "postMutex") /\ full' = full
    BY <1>4 DEF EnqAdvance
  <2>2. count' = count + 1
    BY <2>1, ProducerMoves
  <2>3. count \in 0 .. size - 1
    <3>1. pc[p] = "advance"
      BY <2>1 DEF Step
    <3> QED BY <3>1, CountBound DEF IInv
  <2> QED BY <2>2, <2>3, <1>4, AdvanceHead DEF EnqAdvance
<1>5. ASSUME NEW p \in Producers, EnqPostFull(p) PROVE head' = (tail' + count') % size
  <2>1. Step(p, "postFull", "ready")
    BY <1>5 DEF EnqPostFull
  <2>2. count' = count
    BY <2>1, <1>5, ProducerMoves DEF EnqPostFull
  <2> QED BY <2>2, <1>5 DEF EnqPostFull
<1>6. ASSUME NEW p \in Producers,
             \/ EnqWaitEmpty(p) \/ EnqWaitMutex(p) \/ EnqWrite(p) \/ EnqPostMutex(p)
             \/ \E x \in Items : EnqCall(p, x)
      PROVE head' = (tail' + count') % size
  <2>1. PICK from, to : /\ Step(p, from, to)
                        /\ from \in Written <=> to \in Written
    BY <1>6 DEF EnqWaitEmpty, EnqWaitMutex, EnqWrite, EnqPostMutex, EnqCall
  <2>2. full' = full /\ head' = head /\ tail' = tail
    BY <1>6 DEF EnqWaitEmpty, EnqWaitMutex, EnqWrite, EnqPostMutex, EnqCall
  <2>3. count' = count
    BY <2>1, <2>2, ProducerMoves
  <2> QED BY <2>2, <2>3
<1>7. ASSUME NEW c \in Consumers, DeqAdvance(c) PROVE head' = (tail' + count') % size
  <2>1. Step(c, "advance", "postMutex") /\ full' = full
    BY <1>7 DEF DeqAdvance
  <2>2. count' = count - 1
    BY <2>1, ConsumerMoves
  <2>3. count \in 1 .. size
    <3>1. pc[c] = "advance"
      BY <2>1 DEF Step
    <3> QED BY <3>1, CountBound DEF IInv
  <2> QED BY <2>2, <2>3, <1>7, AdvanceTail DEF DeqAdvance
<1>8. ASSUME NEW c \in Consumers, DeqWaitFull(c) PROVE head' = (tail' + count') % size
  <2>1. Step(c, "waitFull", "waitMutex")
    BY <1>8 DEF DeqWaitFull
  <2>2. count' = count
    BY <2>1, <1>8, ConsumerMoves DEF DeqWaitFull
  <2> QED BY <2>2, <1>8 DEF DeqWaitFull
<1>9. ASSUME NEW c \in Consumers,
             DeqCall(c) \/ DeqWaitMutex(c) \/ DeqRead(c) \/ DeqPostMutex(c) \/ DeqPostEmpty(c)
      PROVE head' = (tail' + count') % size
  <2>1. PICK from, to : /\ Step(c, from, to)
                        /\ from \in Claimed <=> to \in Claimed
    BY <1>9 DEF DeqCall, DeqWaitMutex, DeqRead, DeqPostMutex, DeqPostEmpty
  <2>2. full' = full /\ head' = head /\ tail' = tail
    BY <1>9 DEF DeqCall, DeqWaitMutex, DeqRead, DeqPostMutex, DeqPostEmpty
  <2>3. count' = count
    BY <2>1, <2>2, ConsumerMoves
  <2> QED BY <2>2, <2>3
<1>10. CASE UNCHANGED vars
  BY <1>10 DEF vars, written, claimed, At
<1> QED
  BY <1>4, <1>5, <1>6, <1>7, <1>8, <1>9, <1>10 DEF Next, Enqueue, Dequeue

-----------------------------------------------------------------------------
(* The theorems *)

LEMMA InitIInv == Init => IInv
<1> SUFFICES ASSUME Init PROVE IInv
  OBVIOUS
<1> USE SemQueueAssumption DEF Init
<1>1. TypeOK
  BY DEF TypeOK, Threads, Slots
<1>2. MutualExclusion
  BY DEF MutualExclusion, Critical, Threads
<1>3. \A S \in {Producers, Consumers} : \A steps : "ready" \notin steps => At(S, steps) = {}
  BY DEF At, Threads
<1>4. enqueuing = 0 /\ dequeuing = 0 /\ written = 0 /\ claimed = 0
  <2>1. /\ At(Producers, Enqueuing) = {} /\ At(Producers, Written) = {}
        /\ At(Consumers, Dequeuing) = {} /\ At(Consumers, Claimed) = {}
    BY <1>3 DEF Enqueuing, Written, Dequeuing, Claimed
  <2> QED BY <2>1, FS_EmptySet DEF enqueuing, written, dequeuing, claimed
<1>5. SlotsConserved
  BY <1>4, CountsDef
<1>6. HeadFollowsTail
  BY <1>4, CountsDef, Remainder
<1> QED BY <1>1, <1>2, <1>5, <1>6 DEF IInv

LEMMA IInvStep == IInv /\ [Next]_vars => IInv'
BY TypeOKStep, MutualExclusionStep, SlotsConservedStep, HeadFollowsTailStep DEF IInv

\* The inductive invariant holds in every state of every execution: the
\* conjunction the theorems about queue.h below follow from.
THEOREM Invariance == Spec => []IInv
BY InitIInv, IInvStep, PTL DEF Spec

\* Every variable of the queue stays in its type: no semaphore goes below
\* zero, and head and tail never leave the array.
THEOREM TypeCorrect == Spec => []TypeOK
<1>1. IInv => TypeOK
  BY DEF IInv
<1> QED BY <1>1, Invariance, PTL

\* At most one producer and at most one consumer move head and tail
\* (enqueue_mutex, dequeue_mutex).
THEOREM MutexesExclude == Spec => []MutualExclusion
<1>1. IInv => MutualExclusion
  BY DEF IInv
<1> QED BY <1>1, Invariance, PTL

\* Every slot is accounted for by the semaphores and the calls under way, so
\* that no slot leaks and none is used twice, and head runs ahead of tail by
\* the number of objects in the buffer.
THEOREM RingIsConsistent == Spec => []RingConsistent
<1>1. IInv => RingConsistent
  BY DEF IInv, RingConsistent
<1> QED BY <1>1, Invariance, PTL

\* enqueue writes queue[head] and dequeue reads queue[tail] under different
\* mutexes, and still they never access the same slot together.
THEOREM SlotsNeverRace == Spec => []NoSlotRace
<1>1. IInv => NoSlotRace
  <2> SUFFICES ASSUME IInv, NEW p \in Producers, NEW c \in Consumers,
                      pc[p] = "write", pc[c] \in {"read", "advance"}
               PROVE  head # tail
    BY DEF NoSlotRace
  <2> DEFINE count == full + written + claimed
  <2>1. count \in 1 .. size - 1
    BY CountBound, SemQueueAssumption DEF IInv
  <2>2. tail \in 0 .. size - 1 /\ size \in Nat \ {0}
    BY SemQueueAssumption DEF IInv, TypeOK, Slots
  <2>3. head = (tail + count) % size
    BY CountsDef DEF IInv
  <2> DEFINE a == tail + count
  <2>4. a \in 0 .. 2 * size - 1
    BY <2>1, <2>2
  <2>5. a % size = IF a < size THEN a ELSE a - size
    <3> HIDE DEF a
    <3> QED BY <2>2, <2>4, Remainder
  <2> QED BY <2>1, <2>2, <2>3, <2>5
<1> QED BY <1>1, Invariance, PTL

-----------------------------------------------------------------------------
(* The refinement of BoundedFifo *)

\* The object that a producer is about to move head past is in its slot.
Filled == \A p \in Producers : pc[p] = "advance" => queue[head] = obj[p]

count == full + written + claimed

Contents == Items \cup {NoItem}

\* The queued objects are the slots from tail to head, without the one that a
\* consumer has read and not moved tail past.
LEMMA ItemsAreSlots ==
  ASSUME TypeOK, SlotsConserved
  PROVE  /\ count \in 0 .. size /\ Taken \in {0, 1} /\ count - Taken \in Nat
         /\ itemsMap = [i \in 1 .. count - Taken |-> queue[(tail + Taken + (i - 1)) % size]]
         /\ itemsMap \in Seq(Contents)
         /\ Len(itemsMap) = count - Taken
<1>1. Count = count
  BY DEF Count, count, written, claimed
<1>2. count \in 0 .. size /\ Taken \in {0, 1}
  BY CountBound DEF count, Taken
<1>3. Taken = 1 => count > 0
  BY CountBound DEF count, Taken
<1>4. count - Taken \in Nat
  BY <1>2, <1>3, SemQueueAssumption
<1>5. itemsMap = [i \in 1 .. count - Taken |-> queue[(tail + Taken + (i - 1)) % size]]
  BY <1>1 DEF itemsMap
<1>6. ASSUME NEW i \in 1 .. count - Taken PROVE queue[(tail + Taken + (i - 1)) % size] \in Contents
  <2>1. (tail + Taken + (i - 1)) % size \in 0 .. size - 1
    BY <1>2, SemQueueAssumption DEF TypeOK, Slots
  <2> QED BY <2>1 DEF TypeOK, Slots, Contents
<1>7. itemsMap \in [1 .. count - Taken -> Contents]
  BY <1>5, <1>6
<1>8. itemsMap \in Seq(Contents) /\ Len(itemsMap) = count - Taken
  BY <1>4, <1>7, LenProperties
<1> QED BY <1>2, <1>4, <1>5, <1>8

\* Two places of the circle are different slots.
LEMMA DistinctSlots ==
  ASSUME NEW n \in Nat \ {0}, NEW t \in 0 .. n - 1, NEW j \in 0 .. n - 1, NEW k \in 0 .. n - 1, j # k
  PROVE  (t + j) % n # (t + k) % n
<1> DEFINE a == t + j
           b == t + k
<1>1. a \in 0 .. 2 * n - 1 /\ b \in 0 .. 2 * n - 1
  OBVIOUS
<1>2. a % n = IF a < n THEN a ELSE a - n
  <2> HIDE DEF a
  <2> QED BY <1>1, Remainder
<1>3. b % n = IF b < n THEN b ELSE b - n
  <2> HIDE DEF b
  <2> QED BY <1>1, Remainder
<1> QED BY <1>2, <1>3

\* What a producer wrote stays until head moves past it.
LEMMA FilledStep == IInv /\ Filled /\ [Next]_vars => Filled'
<1> SUFFICES ASSUME IInv, Filled, [Next]_vars PROVE Filled'
  OBVIOUS
<1> USE DEF IInv, TypeOK, MutualExclusion, Critical, Filled, Threads
<1>1. ASSUME NEW p \in Producers, EnqWrite(p) PROVE Filled'
  BY <1>1 DEF EnqWrite, Step, semaphores
<1>2. ASSUME NEW p \in Producers, EnqAdvance(p) PROVE Filled'
  BY <1>2 DEF EnqAdvance, Step, semaphores
<1>3. ASSUME NEW p \in Producers, NEW x \in Items, EnqCall(p, x) PROVE Filled'
  BY <1>3 DEF EnqCall, Step, semaphores
<1>4. ASSUME NEW p \in Producers,
             EnqWaitEmpty(p) \/ EnqWaitMutex(p) \/ EnqPostMutex(p) \/ EnqPostFull(p)
      PROVE  Filled'
  BY <1>4 DEF EnqWaitEmpty, EnqWaitMutex, EnqPostMutex, EnqPostFull, Step
<1>5. ASSUME NEW c \in Consumers, Dequeue(c) PROVE Filled'
  <2>1. \A p \in Producers : pc'[p] = pc[p]
    BY <1>5, SemQueueAssumption
       DEF Dequeue, DeqCall, DeqWaitFull, DeqWaitMutex, DeqRead, DeqAdvance, DeqPostMutex,
           DeqPostEmpty, Step
  <2>2. UNCHANGED <<queue, head, obj>>
    BY <1>5 DEF Dequeue, DeqCall, DeqWaitFull, DeqWaitMutex, DeqRead, DeqAdvance, DeqPostMutex,
                DeqPostEmpty
  <2> QED BY <2>1, <2>2
<1>6. CASE UNCHANGED vars
  BY <1>6 DEF vars
<1> QED BY <1>1, <1>2, <1>3, <1>4, <1>5, <1>6 DEF Next, Enqueue

\* A step that moves nothing in the ring leaves the queued objects.
LEMMA SameItems ==
  ASSUME UNCHANGED <<queue, tail>>, count' = count, Taken' = Taken
  PROVE  itemsMap' = itemsMap
BY DEF itemsMap, Count, count, written, claimed

\* Whether an object was read and tail not moved: the steps of a consumer.
LEMMA TakenIs ==
  ASSUME IInv, NEW c \in Consumers, pc[c] \in Critical
  PROVE  Taken = IF pc[c] = "advance" THEN 1 ELSE 0
BY DEF IInv, MutualExclusion, Critical, Taken

LEMMA OtherStepsTaken ==
  ASSUME \A c \in Consumers : pc'[c] = "advance" <=> pc[c] = "advance"
  PROVE  Taken' = Taken
BY DEF Taken

LEMMA ProducerTaken ==
  ASSUME NEW p \in Producers, NEW from, NEW to, Step(p, from, to), TypeOK
  PROVE  Taken' = Taken
<1>1. \A c \in Consumers : pc'[c] = pc[c]
  BY SemQueueAssumption DEF Step, TypeOK, Threads
<1> QED BY <1>1, OtherStepsTaken

Offering == {"waitEmpty", "waitMutex", "write", "advance"}

LEMMA OfferedIs == offeredMap = [p \in Producers |-> IF pc[p] \in Offering THEN obj[p] ELSE NoItem]
BY DEF offeredMap, Offering

\* A step of a producer before its object is queued or after leaves the offers.
LEMMA SameOffers ==
  ASSUME TypeOK, NEW t \in Threads, NEW from, NEW to, Step(t, from, to), obj' = obj,
         from \in Offering <=> to \in Offering
  PROVE  offeredMap' = offeredMap
<1>1. \A p \in Producers : pc'[p] \in Offering <=> pc[p] \in Offering
  BY DEF Step, TypeOK, Threads
<1> QED BY <1>1 DEF offeredMap, Offering

\* What an enqueue does between its call and the move of head leaves the queued
\* objects: it writes the free slot in front of them.
LEMMA WriteKeepsItems ==
  ASSUME IInv, NEW p \in Producers, EnqWrite(p)
  PROVE  itemsMap' = itemsMap
<1>1. Step(p, "write", "advance") /\ tail' = tail /\ full' = full /\ queue' = [queue EXCEPT ![head] = obj[p]]
  BY DEF EnqWrite, semaphores
<1>2. TypeOK /\ SlotsConserved
  BY DEF IInv
<1>3. count' = count
  BY <1>1, <1>2, ProducerMoves, CountsAreNat DEF Change, Written, count, TypeOK
<1>4. Taken' = Taken
  BY <1>1, <1>2, ProducerTaken
<1>5. /\ count \in 0 .. size - 1 /\ head = (tail + count) % size /\ Taken \in {0, 1}
      /\ tail \in 0 .. size - 1 /\ size \in Nat \ {0}
      /\ queue \in [0 .. size - 1 -> Contents]
  <2>1. pc[p] = "write"
    BY <1>1 DEF Step
  <2>2. count \in 0 .. size /\ count < size /\ Taken \in {0, 1}
    BY <1>2, <2>1, CountBound, ItemsAreSlots DEF count
  <2>3. head = (tail + count) % size
    BY CountsDef DEF IInv, count
  <2> QED BY <1>2, <2>2, <2>3, SemQueueAssumption DEF TypeOK, Slots, Contents
<1>6. ASSUME NEW i \in 1 .. count - Taken
      PROVE  queue'[(tail + Taken + (i - 1)) % size] = queue[(tail + Taken + (i - 1)) % size]
  <2> DEFINE k == Taken + (i - 1)
  <2>1. k \in 0 .. size - 1 /\ k # count
    BY <1>5
  <2>2. (tail + k) % size # (tail + count) % size
    <3> HIDE DEF k
    <3> QED BY <1>5, <2>1, DistinctSlots
  <2>3. tail + k = tail + Taken + (i - 1)
    BY <1>5
  <2>4. (tail + k) % size \in 0 .. size - 1
    <3> HIDE DEF k
    <3> QED BY <1>5, <2>1
  <2> HIDE DEF k
  <2> QED BY <1>1, <1>5, <2>2, <2>3, <2>4
<1>7. /\ itemsMap = [i \in 1 .. count - Taken |-> queue[(tail + Taken + (i - 1)) % size]]
      /\ itemsMap' = [i \in 1 .. count - Taken |-> queue'[(tail + Taken + (i - 1)) % size]]
  BY <1>1, <1>3, <1>4 DEF itemsMap, Count, count, written, claimed
<1> QED BY <1>6, <1>7

\* Moving head past the object puts it behind the others.
LEMMA AdvanceAppends ==
  ASSUME IInv, Filled, NEW p \in Producers, EnqAdvance(p)
  PROVE  itemsMap' = Append(itemsMap, obj[p]) /\ Len(itemsMap) < size
<1>1. Step(p, "advance", "postMutex") /\ tail' = tail /\ full' = full /\ queue' = queue
  BY DEF EnqAdvance, semaphores
<1>2. TypeOK /\ SlotsConserved /\ pc[p] = "advance"
  BY <1>1 DEF IInv, Step
<1>3. count' = count + 1
  BY <1>1, <1>2, ProducerMoves, CountsAreNat DEF Change, Written, count, TypeOK
<1>4. Taken' = Taken
  BY <1>1, <1>2, ProducerTaken
<1>5. /\ count \in 0 .. size - 1 /\ Taken \in {0, 1} /\ count - Taken \in Nat
      /\ head = (tail + count) % size /\ size \in Nat /\ tail \in Nat
      /\ Len(itemsMap) = count - Taken /\ itemsMap \in Seq(Contents)
      /\ itemsMap = [i \in 1 .. count - Taken |-> queue[(tail + Taken + (i - 1)) % size]]
  <2>1. count < size
    BY <1>2, CountBound DEF count
  <2>2. head = (tail + count) % size
    BY CountsDef DEF IInv, count
  <2> QED BY <1>2, <2>1, <2>2, ItemsAreSlots, SemQueueAssumption DEF TypeOK, Slots
<1>6. queue[head] = obj[p] /\ obj[p] \in Contents
  BY <1>2 DEF Filled, TypeOK, Contents
<1>7. itemsMap' = [i \in 1 .. (count - Taken) + 1 |-> queue[(tail + Taken + (i - 1)) % size]]
  <2>1. count' - Taken' = (count - Taken) + 1
    BY <1>3, <1>4, <1>5
  <2> QED BY <1>1, <1>4, <2>1 DEF itemsMap, Count, count, written, claimed
<1> DEFINE n == count - Taken
           s == Append(itemsMap, obj[p])
<1>8. s \in [1 .. n + 1 -> Contents]
  <2>1. s \in Seq(Contents) /\ Len(s) = Len(itemsMap) + 1
    BY <1>5, <1>6, AppendProperties
  <2> HIDE DEF s
  <2>2. s \in [1 .. Len(s) -> Contents]
    BY <2>1, LenProperties
  <2> QED BY <1>5, <2>1, <2>2
<1>9. ASSUME NEW i \in 1 .. n + 1 PROVE s[i] = queue[(tail + Taken + (i - 1)) % size]
  <2>1. CASE i = n + 1
    <3>1. tail + Taken + (i - 1) = tail + count
      BY <1>5, <2>1
    <3>2. s[i] = obj[p]
      BY <1>5, <1>6, <2>1, AppendProperties
    <3> QED BY <1>5, <1>6, <3>1, <3>2
  <2>2. CASE i # n + 1
    <3>1. i \in 1 .. n
      BY <1>5, <2>2
    <3>2. i \in 1 .. Len(itemsMap)
      BY <1>5, <3>1
    <3>3. s[i] = itemsMap[i]
      BY <1>5, <1>6, <3>2, AppendProperties
    <3> QED BY <1>5, <3>1, <3>3
  <2> QED BY <2>1, <2>2
<1> HIDE DEF s
<1>10. itemsMap' = s
  BY <1>7, <1>8, <1>9
<1> QED BY <1>5, <1>10, SemQueueAssumption DEF s

\* Reading the slot at tail takes the oldest object.
LEMMA ReadTakesOldest ==
  ASSUME IInv, NEW c \in Consumers, DeqRead(c)
  PROVE  itemsMap # << >> /\ itemsMap' = Tail(itemsMap) /\ queue[tail] = Head(itemsMap)
<1>1. Step(c, "read", "advance") /\ UNCHANGED <<queue, tail, full>>
  BY DEF DeqRead, semaphores
<1>2. TypeOK /\ SlotsConserved /\ pc[c] = "read" /\ pc'[c] = "advance"
  BY <1>1 DEF IInv, Step, TypeOK, Threads
<1>3. count' = count
  BY <1>1, <1>2, ConsumerMoves, CountsAreNat DEF Change, Claimed, count, TypeOK
<1>4. Taken = 0 /\ Taken' = 1
  <2>1. Taken = 0
    BY <1>2, TakenIs DEF Critical
  <2>2. Taken' = 1
    BY <1>2 DEF Taken
  <2> QED BY <2>1, <2>2
<1>5. /\ count \in 1 .. size /\ size \in Nat \ {0} /\ tail \in 0 .. size - 1
      /\ Len(itemsMap) = count /\ itemsMap \in Seq(Contents)
      /\ itemsMap = [i \in 1 .. count |-> queue[(tail + 0 + (i - 1)) % size]]
  <2>1. count > 0
    BY <1>2, CountBound DEF count
  <2> QED BY <1>2, <1>4, <2>1, ItemsAreSlots, SemQueueAssumption DEF TypeOK, Slots
<1>6. itemsMap' = [i \in 1 .. count - 1 |-> queue[(tail + 1 + (i - 1)) % size]]
  BY <1>1, <1>3, <1>4 DEF itemsMap, Count, count, written, claimed
<1>7. itemsMap # << >>
  BY <1>5
<1>8. queue[tail] = Head(itemsMap)
  <2>1. Head(itemsMap) = itemsMap[1]
    BY <1>5, <1>7, HeadTailProperties
  <2>2. (tail + 0 + (1 - 1)) % size = tail
    <3>1. tail + 0 + (1 - 1) = tail
      BY <1>5
    <3>2. tail % size = tail
      <4>1. tail \in 0 .. 2 * size - 1 /\ tail < size
        BY <1>5
      <4> QED BY <1>5, <4>1, Remainder
    <3> QED BY <3>1, <3>2
  <2> QED BY <1>5, <2>1, <2>2
<1> DEFINE s == Tail(itemsMap)
<1>9. s \in [1 .. count - 1 -> Contents] /\ \A i \in 1 .. count - 1 : s[i] = itemsMap[i + 1]
  <2>1. s \in Seq(Contents) /\ Len(s) = Len(itemsMap) - 1
    BY <1>5, <1>7, HeadTailProperties
  <2>2. \A i \in 1 .. Len(s) : s[i] = itemsMap[i + 1]
    BY <1>5, <1>7, HeadTailProperties
  <2> HIDE DEF s
  <2> QED BY <1>5, <2>1, <2>2, LenProperties
<1>10. ASSUME NEW i \in 1 .. count - 1 PROVE itemsMap[i + 1] = queue[(tail + 1 + (i - 1)) % size]
  <2>1. i + 1 \in 1 .. count /\ tail + 0 + ((i + 1) - 1) = tail + 1 + (i - 1)
    BY <1>5
  <2> QED BY <1>5, <2>1
<1> HIDE DEF s
<1>11. itemsMap' = s
  BY <1>6, <1>9, <1>10
<1> QED BY <1>7, <1>8, <1>11 DEF s

\* Moving tail leaves the queued objects: the one that was read is no longer
\* counted twice.
LEMMA AdvanceKeepsItems ==
  ASSUME IInv, NEW c \in Consumers, DeqAdvance(c)
  PROVE  itemsMap' = itemsMap
<1>1. /\ Step(c, "advance", "postMutex") /\ UNCHANGED <<queue, full>>
      /\ tail' = (tail + 1) % size
  BY DEF DeqAdvance, semaphores
<1>2. TypeOK /\ SlotsConserved /\ pc[c] = "advance"
  BY <1>1 DEF IInv, Step
<1>3. count' = count - 1
  BY <1>1, <1>2, ConsumerMoves, CountsAreNat DEF Change, Claimed, count, TypeOK
<1>4. Taken = 1 /\ Taken' = 0
  <2>1. Taken = 1
    BY <1>2 DEF Taken
  <2>2. \A d \in Consumers : pc'[d] # "advance"
    BY <1>1, <1>2 DEF IInv, MutualExclusion, Critical, Step, TypeOK, Threads
  <2> QED BY <2>1, <2>2 DEF Taken
<1>5. count \in 1 .. size /\ size \in Nat \ {0} /\ tail \in 0 .. size - 1
  <2>1. count > 0
    BY <1>2, CountBound DEF count
  <2> QED BY <1>2, <2>1, ItemsAreSlots, SemQueueAssumption DEF TypeOK, Slots
<1>6. itemsMap = [i \in 1 .. count - 1 |-> queue[(tail + 1 + (i - 1)) % size]]
  BY <1>4 DEF itemsMap, Count, count, written, claimed
<1>7. itemsMap' = [i \in 1 .. count - 1 |-> queue[(((tail + 1) % size) + 0 + (i - 1)) % size]]
  <2>1. count' - Taken' = count - 1
    BY <1>3, <1>4, <1>5
  <2>2. itemsMap' = [i \in 1 .. count' - Taken' |-> queue'[(tail' + Taken' + (i - 1)) % size]]
    BY DEF itemsMap, Count, count, written, claimed
  <2> QED BY <1>1, <1>4, <2>1, <2>2
<1>8. ASSUME NEW i \in 1 .. count - 1
      PROVE  (((tail + 1) % size) + 0 + (i - 1)) % size = (tail + 1 + (i - 1)) % size
  <2>1. i \in 1 .. size
    BY <1>5
  <2>2. (((tail + 1) % size) + (i - 1)) % size = (tail + i) % size
    BY <1>5, <2>1, AdvanceTail
  <2>3. tail + i = tail + 1 + (i - 1)
    BY <1>5
  <2>4. ((tail + 1) % size) + 0 = (tail + 1) % size
    BY <1>5
  <2> QED BY <2>2, <2>3, <2>4
<1> QED BY <1>6, <1>7, <1>8

Inv == IInv /\ Filled

\* The first state is that of an empty queue that nobody uses.
LEMMA InitFifo == Init => Fifo!FifoInit /\ Filled
<1> SUFFICES ASSUME Init PROVE Fifo!FifoInit /\ Filled
  OBVIOUS
<1>1. IInv
  BY InitIInv
<1>2. \A t \in Threads : pc[t] = "ready"
  BY DEF Init
<1>3. count = 0 /\ Taken = 0
  <2>1. \A S \in {Producers, Consumers} : \A steps : "ready" \notin steps => At(S, steps) = {}
    BY <1>2 DEF At, Threads
  <2>2. At(Producers, Written) = {} /\ At(Consumers, Claimed) = {}
    BY <2>1 DEF Written, Claimed
  <2>3. written = 0 /\ claimed = 0
    BY <2>2, FS_EmptySet DEF written, claimed
  <2> QED BY <1>2, <2>3 DEF Init, count, Taken, Threads
<1>4. itemsMap = << >>
  <2>1. itemsMap \in Seq(Contents) /\ Len(itemsMap) = 0
    BY <1>1, <1>3, ItemsAreSlots DEF IInv
  <2> QED BY <2>1, EmptySeq
<1>5. offeredMap = [p \in Producers |-> NoItem]
  BY <1>2 DEF offeredMap, Threads
<1>6. ret = [c \in Consumers |-> NoItem]
  BY DEF Init
<1>7. Filled
  BY <1>2 DEF Filled, Threads
<1> QED BY <1>4, <1>5, <1>6, <1>7 DEF Fifo!FifoInit

\* Every step of queue.h is one of the FIFO or none.
LEMMA FifoStep == Inv /\ [Next]_vars => [Fifo!FifoNext]_Fifo!fifoVars
<1> SUFFICES ASSUME Inv, [Next]_vars PROVE [Fifo!FifoNext]_Fifo!fifoVars
  OBVIOUS
<1>1. IInv /\ Filled /\ TypeOK /\ SlotsConserved
  BY DEF Inv, IInv
<1>2. Producers \subseteq Threads /\ Consumers \subseteq Threads /\ Producers \cap Consumers = {}
  BY SemQueueAssumption DEF Threads
<1>3. ASSUME itemsMap' = itemsMap, offeredMap' = offeredMap, ret' = ret
      PROVE  [Fifo!FifoNext]_Fifo!fifoVars
  BY <1>3 DEF Fifo!fifoVars
<1>4. ASSUME NEW p \in Producers, NEW x \in Items, EnqCall(p, x)
      PROVE  [Fifo!FifoNext]_Fifo!fifoVars
  <2>1. /\ Step(p, "ready", "waitEmpty") /\ UNCHANGED <<queue, tail, full, ret>>
        /\ obj' = [obj EXCEPT ![p] = x]
    BY <1>4 DEF EnqCall, semaphores
  <2>2. count' = count
    BY <2>1, <1>1, ProducerMoves, CountsAreNat DEF Change, Written, count, TypeOK
  <2>3. Taken' = Taken
    BY <2>1, <1>1, ProducerTaken
  <2>4. itemsMap' = itemsMap
    BY <2>1, <2>2, <2>3, SameItems
  <2>5. offeredMap[p] = NoItem
    BY <2>1 DEF offeredMap, Step
  <2>6. offeredMap' = [offeredMap EXCEPT ![p] = x]
    BY <2>1, <1>1, <1>2 DEF offeredMap, Step, TypeOK
  <2>7. Fifo!Offer(p, x)
    BY <2>1, <2>4, <2>5, <2>6 DEF Fifo!Offer
  <2> QED BY <2>7 DEF Fifo!FifoNext
<1>5. ASSUME NEW p \in Producers,
             EnqWaitEmpty(p) \/ EnqWaitMutex(p) \/ EnqPostMutex(p) \/ EnqPostFull(p)
      PROVE  [Fifo!FifoNext]_Fifo!fifoVars
  <2>1. PICK from, to : Step(p, from, to) /\ (from \in Offering <=> to \in Offering)
    BY <1>5 DEF EnqWaitEmpty, EnqWaitMutex, EnqPostMutex, EnqPostFull, Offering
  <2>2. UNCHANGED <<queue, tail, obj, ret>>
    BY <1>5 DEF EnqWaitEmpty, EnqWaitMutex, EnqPostMutex, EnqPostFull
  <2>3. count' = count
    <3>1. CASE EnqWaitEmpty(p)
      <4>1. Step(p, "waitEmpty", "waitMutex") /\ full' = full
        BY <3>1 DEF EnqWaitEmpty
      <4> QED BY <4>1, <1>1, ProducerMoves, CountsAreNat DEF Change, Written, count, TypeOK
    <3>2. CASE EnqWaitMutex(p)
      <4>1. Step(p, "waitMutex", "write") /\ full' = full
        BY <3>2 DEF EnqWaitMutex
      <4> QED BY <4>1, <1>1, ProducerMoves, CountsAreNat DEF Change, Written, count, TypeOK
    <3>3. CASE EnqPostMutex(p)
      <4>1. Step(p, "postMutex", "postFull") /\ full' = full
        BY <3>3 DEF EnqPostMutex
      <4> QED BY <4>1, <1>1, ProducerMoves, CountsAreNat DEF Change, Written, count, TypeOK
    <3>4. CASE EnqPostFull(p)
      <4>1. Step(p, "postFull", "ready") /\ full' = full + 1
        BY <3>4 DEF EnqPostFull
      <4> QED BY <4>1, <1>1, ProducerMoves, CountsAreNat DEF Change, Written, count, TypeOK
    <3> QED BY <1>5, <3>1, <3>2, <3>3, <3>4
  <2>4. itemsMap' = itemsMap
    BY <2>1, <2>2, <2>3, <1>1, ProducerTaken, SameItems
  <2>5. offeredMap' = offeredMap
    BY <2>1, <2>2, <1>1, <1>2, SameOffers
  <2> QED BY <2>2, <2>4, <2>5, <1>3
<1>6. ASSUME NEW p \in Producers, EnqWrite(p) PROVE [Fifo!FifoNext]_Fifo!fifoVars
  <2>1. Step(p, "write", "advance") /\ obj' = obj /\ ret' = ret
    BY <1>6 DEF EnqWrite
  <2>2. offeredMap' = offeredMap
    BY <2>1, <1>1, <1>2, SameOffers DEF Offering
  <2> QED BY <1>1, <1>6, <2>1, <2>2, <1>3, WriteKeepsItems
<1>7. ASSUME NEW p \in Producers, EnqAdvance(p) PROVE [Fifo!FifoNext]_Fifo!fifoVars
  <2>1. Step(p, "advance", "postMutex") /\ obj' = obj /\ ret' = ret
    BY <1>7 DEF EnqAdvance
  <2>2. offeredMap[p] = obj[p] /\ obj[p] # NoItem
    BY <2>1, <1>1, SemQueueAssumption DEF offeredMap, Step, TypeOK
  <2>3. offeredMap' = [offeredMap EXCEPT ![p] = NoItem]
    BY <2>1, <1>1, <1>2 DEF offeredMap, Step, TypeOK
  <2>4. Fifo!Put(p)
    BY <1>1, <1>7, <2>1, <2>2, <2>3, AdvanceAppends DEF Fifo!Put
  <2> QED BY <2>4 DEF Fifo!FifoNext
<1>8. ASSUME NEW c \in Consumers,
             DeqCall(c) \/ DeqWaitFull(c) \/ DeqWaitMutex(c) \/ DeqPostMutex(c) \/ DeqPostEmpty(c)
      PROVE  [Fifo!FifoNext]_Fifo!fifoVars
  <2>1. PICK from, to : /\ Step(c, from, to) /\ from # "advance" /\ to # "advance"
                        /\ full' = full - Change(from, to, Claimed)
    <3>1. CASE DeqCall(c)
      <4>1. Step(c, "ready", "waitFull") /\ full' = full - Change("ready", "waitFull", Claimed)
        BY <3>1, <1>1 DEF DeqCall, semaphores, Change, Claimed, TypeOK
      <4> QED BY <4>1
    <3>2. CASE DeqWaitFull(c)
      <4>1. Step(c, "waitFull", "waitMutex") /\ full' = full - Change("waitFull", "waitMutex", Claimed)
        BY <3>2, <1>1 DEF DeqWaitFull, Change, Claimed, TypeOK
      <4> QED BY <4>1
    <3>3. CASE DeqWaitMutex(c)
      <4>1. Step(c, "waitMutex", "read") /\ full' = full - Change("waitMutex", "read", Claimed)
        BY <3>3, <1>1 DEF DeqWaitMutex, Change, Claimed, TypeOK
      <4> QED BY <4>1
    <3>4. CASE DeqPostMutex(c)
      <4>1. Step(c, "postMutex", "postEmpty") /\ full' = full - Change("postMutex", "postEmpty", Claimed)
        BY <3>4, <1>1 DEF DeqPostMutex, Change, Claimed, TypeOK
      <4> QED BY <4>1
    <3>5. CASE DeqPostEmpty(c)
      <4>1. Step(c, "postEmpty", "ready") /\ full' = full - Change("postEmpty", "ready", Claimed)
        BY <3>5, <1>1 DEF DeqPostEmpty, Change, Claimed, TypeOK
      <4> QED BY <4>1
    <3> QED BY <1>8, <3>1, <3>2, <3>3, <3>4, <3>5
  <2>2. UNCHANGED <<queue, tail, obj, ret>>
    BY <1>8 DEF DeqCall, DeqWaitFull, DeqWaitMutex, DeqPostMutex, DeqPostEmpty, semaphores
  <2>3. count' = count
    <3>1. claimed' = claimed + Change(from, to, Claimed) /\ written' = written
      BY <2>1, <1>1, ConsumerMoves
    <3>2. Change(from, to, Claimed) \in Int /\ full \in Int
      BY <1>1 DEF Change, TypeOK
    <3> QED BY <2>1, <3>1, <3>2, CountsAreNat DEF count
  <2>4. Taken' = Taken
    <3>1. \A d \in Consumers : pc'[d] = "advance" <=> pc[d] = "advance"
      BY <2>1, <1>1, <1>2 DEF Step, TypeOK
    <3> QED BY <3>1, OtherStepsTaken
  <2>5. itemsMap' = itemsMap
    BY <2>2, <2>3, <2>4, SameItems
  <2>6. offeredMap' = offeredMap
    <3>1. \A p \in Producers : pc'[p] = pc[p]
      BY <2>1, <1>1, <1>2 DEF Step, TypeOK
    <3> QED BY <2>2, <3>1 DEF offeredMap
  <2> QED BY <2>2, <2>5, <2>6, <1>3
<1>9. ASSUME NEW c \in Consumers, DeqRead(c) PROVE [Fifo!FifoNext]_Fifo!fifoVars
  <2>1. /\ Step(c, "read", "advance") /\ obj' = obj
        /\ ret' = [ret EXCEPT ![c] = queue[tail]]
    BY <1>9 DEF DeqRead
  <2>2. offeredMap' = offeredMap
    <3>1. \A p \in Producers : pc'[p] = pc[p]
      BY <2>1, <1>1, <1>2 DEF Step, TypeOK
    <3> QED BY <2>1, <3>1 DEF offeredMap
  <2>3. Fifo!Get(c)
    BY <1>1, <1>9, <2>1, <2>2, ReadTakesOldest DEF Fifo!Get
  <2> QED BY <2>3 DEF Fifo!FifoNext
<1>10. ASSUME NEW c \in Consumers, DeqAdvance(c) PROVE [Fifo!FifoNext]_Fifo!fifoVars
  <2>1. Step(c, "advance", "postMutex") /\ obj' = obj /\ ret' = ret
    BY <1>10 DEF DeqAdvance
  <2>2. offeredMap' = offeredMap
    <3>1. \A p \in Producers : pc'[p] = pc[p]
      BY <2>1, <1>1, <1>2 DEF Step, TypeOK
    <3> QED BY <2>1, <3>1 DEF offeredMap
  <2> QED BY <1>1, <1>10, <2>1, <2>2, <1>3, AdvanceKeepsItems
<1>11. CASE UNCHANGED vars
  <2>1. UNCHANGED <<queue, tail, full, pc, obj, ret>>
    BY <1>11 DEF vars, semaphores
  <2>2. itemsMap' = itemsMap
    BY <2>1 DEF itemsMap, Count, At, Taken
  <2>3. offeredMap' = offeredMap
    BY <2>1 DEF offeredMap
  <2> QED BY <2>1, <2>2, <2>3, <1>3
<1> QED
  BY <1>4, <1>5, <1>6, <1>7, <1>8, <1>9, <1>10, <1>11 DEF Next, Enqueue, Dequeue

\* queue.h implements the bounded FIFO: an object that is enqueued comes out
\* once, unchanged and in order, and never more of them are queued than slots.
THEOREM Refinement == Spec => ImplementsFifo
<1>1. Init => Inv /\ Fifo!FifoInit
  BY InitIInv, InitFifo DEF Inv
<1>2. Inv /\ [Next]_vars => Inv'
  BY IInvStep, FilledStep DEF Inv
<1>3. Inv /\ [Next]_vars => [Fifo!FifoNext]_Fifo!fifoVars
  BY FifoStep
<1> QED BY <1>1, <1>2, <1>3, PTL DEF Spec, ImplementsFifo, Fifo!FifoSpec
=============================================================================
