------------------------------ MODULE SemQueue ------------------------------
(***************************************************************************)
(* Queue<T> of simplekvsvr_v2/queue.h: a circular buffer shared by any     *)
(* number of enqueueing and dequeueing threads through four semaphores.    *)
(* Every queue of the server (fdQueue, the work and result queues of the   *)
(* logic layer and of the store) is an instance of it.                     *)
(*                                                                         *)
(* One action per semaphore operation and per access to the shared fields; *)
(* pc[t] names the operation thread t performs next.  A thread uses one    *)
(* queue either as a producer or as a consumer, as the layers do.          *)
(***************************************************************************)
EXTENDS Integers, FiniteSets

CONSTANTS
  Producers,   \* threads that call enqueue
  Consumers,   \* threads that call dequeue
  Items,       \* the objects they exchange
  NoItem,      \* content of a slot of new T[queueSize] nobody wrote yet
  size         \* queueSize

ASSUME SemQueueAssumption ==
  /\ size \in Nat \ {0}
  /\ IsFiniteSet(Producers)
  /\ IsFiniteSet(Consumers)
  /\ Producers \cap Consumers = {}
  /\ NoItem \notin Items

VARIABLES
  queue, head, tail,
  full, empty, enqueue_mutex, dequeue_mutex,   \* semaphore values
  pc,
  obj,   \* obj[p]: the argument of p's enqueue
  ret    \* ret[c]: the local ret of c's dequeue

semaphores == <<full, empty, enqueue_mutex, dequeue_mutex>>
vars == <<queue, head, tail, semaphores, pc, obj, ret>>

Threads == Producers \cup Consumers
Slots == 0 .. size - 1

\* Thread t is at step "from" and moves to step "to".
Step(t, from, to) ==
  /\ pc[t] = from
  /\ pc' = [pc EXCEPT ![t] = to]

Init ==
  /\ queue = [i \in Slots |-> NoItem]
  /\ head = 0
  /\ tail = 0
  /\ full = 0
  /\ empty = size
  /\ enqueue_mutex = 1
  /\ dequeue_mutex = 1
  /\ pc = [t \in Threads |-> "ready"]
  /\ obj = [p \in Producers |-> NoItem]
  /\ ret = [c \in Consumers |-> NoItem]

-----------------------------------------------------------------------------
(* enqueue(obj) *)

EnqCall(p, x) ==
  /\ Step(p, "ready", "waitEmpty")
  /\ obj' = [obj EXCEPT ![p] = x]
  /\ UNCHANGED <<queue, head, tail, semaphores, ret>>

\* mutant: the slot count is not waited for
EnqWaitEmptyNoWait(p) ==
  /\ Step(p, "waitEmpty", "waitMutex")
  /\ empty' = IF empty > 0 THEN empty - 1 ELSE 0
  /\ UNCHANGED <<queue, head, tail, full, enqueue_mutex, dequeue_mutex, obj, ret>>

EnqWaitEmpty(p) ==
  /\ Step(p, "waitEmpty", "waitMutex")
  /\ empty > 0
  /\ empty' = empty - 1
  /\ UNCHANGED <<queue, head, tail, full, enqueue_mutex, dequeue_mutex, obj, ret>>

\* mutant: the enqueue side does not take its mutex
EnqWaitMutexUnlocked(p) ==
  /\ Step(p, "waitMutex", "write")
  /\ UNCHANGED <<queue, head, tail, semaphores, obj, ret>>

EnqWaitMutex(p) ==
  /\ Step(p, "waitMutex", "write")
  /\ enqueue_mutex > 0
  /\ enqueue_mutex' = enqueue_mutex - 1
  /\ UNCHANGED <<queue, head, tail, full, empty, dequeue_mutex, obj, ret>>

EnqWrite(p) ==
  /\ Step(p, "write", "advance")
  /\ queue' = [queue EXCEPT ![head] = obj[p]]
  /\ UNCHANGED <<head, tail, semaphores, obj, ret>>

EnqAdvance(p) ==
  /\ Step(p, "advance", "postMutex")
  /\ head' = (head + 1) % size
  /\ UNCHANGED <<queue, tail, semaphores, obj, ret>>

EnqPostMutex(p) ==
  /\ Step(p, "postMutex", "postFull")
  /\ enqueue_mutex' = enqueue_mutex + 1
  /\ UNCHANGED <<queue, head, tail, full, empty, dequeue_mutex, obj, ret>>

\* mutant: full is never posted
EnqPostFullForgotten(p) ==
  /\ Step(p, "postFull", "ready")
  /\ UNCHANGED <<queue, head, tail, semaphores, obj, ret>>

EnqPostFull(p) ==
  /\ Step(p, "postFull", "ready")
  /\ full' = full + 1
  /\ UNCHANGED <<queue, head, tail, empty, enqueue_mutex, dequeue_mutex, obj, ret>>

-----------------------------------------------------------------------------
(* dequeue() *)

DeqCall(c) ==
  /\ Step(c, "ready", "waitFull")
  /\ UNCHANGED <<queue, head, tail, semaphores, obj, ret>>

DeqWaitFull(c) ==
  /\ Step(c, "waitFull", "waitMutex")
  /\ full > 0
  /\ full' = full - 1
  /\ UNCHANGED <<queue, head, tail, empty, enqueue_mutex, dequeue_mutex, obj, ret>>

DeqWaitMutex(c) ==
  /\ Step(c, "waitMutex", "read")
  /\ dequeue_mutex > 0
  /\ dequeue_mutex' = dequeue_mutex - 1
  /\ UNCHANGED <<queue, head, tail, full, empty, enqueue_mutex, obj, ret>>

DeqRead(c) ==
  /\ Step(c, "read", "advance")
  /\ ret' = [ret EXCEPT ![c] = queue[tail]]
  /\ UNCHANGED <<queue, head, tail, semaphores, obj>>

\* mutant: tail stays where it is
DeqAdvanceForgotten(c) ==
  /\ Step(c, "advance", "postMutex")
  /\ UNCHANGED <<queue, head, tail, semaphores, obj, ret>>

DeqAdvance(c) ==
  /\ Step(c, "advance", "postMutex")
  /\ tail' = (tail + 1) % size
  /\ UNCHANGED <<queue, head, semaphores, obj, ret>>

DeqPostMutex(c) ==
  /\ Step(c, "postMutex", "postEmpty")
  /\ dequeue_mutex' = dequeue_mutex + 1
  /\ UNCHANGED <<queue, head, tail, full, empty, enqueue_mutex, obj, ret>>

\* mutant: the wrong semaphore is posted
DeqPostEmptySwapped(c) ==
  /\ Step(c, "postEmpty", "ready")
  /\ full' = full + 1
  /\ UNCHANGED <<queue, head, tail, empty, enqueue_mutex, dequeue_mutex, obj, ret>>

DeqPostEmpty(c) ==
  /\ Step(c, "postEmpty", "ready")
  /\ empty' = empty + 1
  /\ UNCHANGED <<queue, head, tail, full, enqueue_mutex, dequeue_mutex, obj, ret>>

-----------------------------------------------------------------------------
\* The steps of p inside enqueue, after the call itself.
Enqueue(p) ==
  \/ EnqWaitEmpty(p)
  \/ EnqWaitMutex(p)
  \/ EnqWrite(p)
  \/ EnqAdvance(p)
  \/ EnqPostMutex(p)
  \/ EnqPostFull(p)

\* The steps of c, which calls dequeue in an endless loop.
Dequeue(c) ==
  \/ DeqCall(c)
  \/ DeqWaitFull(c)
  \/ DeqWaitMutex(c)
  \/ DeqRead(c)
  \/ DeqAdvance(c)
  \/ DeqPostMutex(c)
  \/ DeqPostEmpty(c)

Next ==
  \/ \E p \in Producers : Enqueue(p) \/ \E x \in Items : EnqCall(p, x)
  \/ \E c \in Consumers : Dequeue(c)

Spec == Init /\ [][Next]_vars

\* No thread stops inside an operation, and the consumers' loops go on; nobody
\* has to enqueue.
Fairness ==
  /\ \A p \in Producers : WF_vars(Enqueue(p))
  /\ \A c \in Consumers : WF_vars(Dequeue(c))

FairSpec == Spec /\ Fairness

-----------------------------------------------------------------------------
\* Threads of S whose next step is in "steps".
At(S, steps) == {t \in S : pc[t] \in steps}

\* The steps between the two waits and posts of one call: it owns a slot.
Enqueuing == {"waitMutex", "write", "advance", "postMutex", "postFull"}
Dequeuing == {"waitMutex", "read", "advance", "postMutex", "postEmpty"}

\* The steps at which a producer's object is behind head and not counted by
\* full, and those at which a consumer's is not counted but still before tail.
Written == {"postMutex", "postFull"}
Claimed == {"waitMutex", "read", "advance"}

\* The number of objects between tail and head.
Count == full + Cardinality(At(Producers, Written)) + Cardinality(At(Consumers, Claimed))

(* Every variable stays in its type; a semaphore is never negative. *)
TypeOK ==
  /\ queue \in [Slots -> Items \cup {NoItem}]
  /\ head \in Slots
  /\ tail \in Slots
  /\ full \in Nat
  /\ empty \in Nat
  /\ enqueue_mutex \in {0, 1}
  /\ dequeue_mutex \in {0, 1}
  /\ pc \in [Threads -> {"ready", "waitEmpty", "waitFull", "waitMutex", "write", "read",
                         "advance", "postMutex", "postFull", "postEmpty"}]
  /\ \A p \in Producers : pc[p] \notin {"waitFull", "read", "postEmpty"}
  /\ \A c \in Consumers : pc[c] \notin {"waitEmpty", "write", "postFull"}
  /\ obj \in [Producers -> Items \cup {NoItem}]
  /\ \A p \in Producers : pc[p] # "ready" => obj[p] \in Items
  /\ ret \in [Consumers -> Items \cup {NoItem}]

(* Slots are conserved: each of the "size" slots is accounted for by one     *)
(* unit of a semaphore or by one call under way that took the unit           *)
(* (queue.h sem_wait/sem_post pairs).                                        *)
SlotsConserved ==
  full + empty + Cardinality(At(Producers, Enqueuing)) + Cardinality(At(Consumers, Dequeuing))
    = size

(* At most one thread is between sem_wait and sem_post of each mutex.        *)
Critical == {"write", "read", "advance", "postMutex"}

MutualExclusion ==
  /\ enqueue_mutex = 0 <=> \E p \in Producers : pc[p] \in Critical
  /\ dequeue_mutex = 0 <=> \E c \in Consumers : pc[c] \in Critical
  /\ \A p, q \in Producers : pc[p] \in Critical /\ pc[q] \in Critical => p = q
  /\ \A c, d \in Consumers : pc[c] \in Critical /\ pc[d] \in Critical => c = d

(* head is Count slots ahead of tail, modulo size.                           *)
HeadFollowsTail == head = (tail + Count) % size

(* No slot of the ring leaks or is used twice: the semaphores, the calls     *)
(* under way, head and tail always agree on how many objects it holds, full  *)
(* and empty ring included (queue.h:33-53).                                  *)
RingConsistent == SlotsConserved /\ HeadFollowsTail

(* The two sides use different mutexes, so a producer may write queue[head]  *)
(* while a consumer reads queue[tail]: it is never the same slot.            *)
NoSlotRace ==
  \A p \in Producers, c \in Consumers :
    pc[p] = "write" /\ pc[c] \in {"read", "advance"} => head # tail

(* A slot holding an object nobody dequeued yet is eventually handed out.    *)
Occupied(i) == \E j \in 0 .. Count - 1 : i = (tail + j) % size
EveryObjectTaken == \A i \in Slots : Occupied(i) ~> ~Occupied(i)

(* Producers blocked on a full queue do not stay blocked all together: some   *)
(* enqueue gets through.  (A given one may starve: a semaphore is not FIFO.)  *)
EnqueueProgress ==
  (\E p \in Producers : pc[p] = "waitEmpty") ~> (\E p \in Producers : pc[p] = "postFull")

-----------------------------------------------------------------------------
(* The refinement: the object counts as appended when head moves past it,    *)
(* and as handed out when the consumer has read it.                          *)
Taken == IF \E c \in Consumers : pc[c] = "advance" THEN 1 ELSE 0

itemsMap == [i \in 1 .. Count - Taken |-> queue[(tail + Taken + (i - 1)) % size]]

offeredMap ==
  [p \in Producers |->
     IF pc[p] \in {"waitEmpty", "waitMutex", "write", "advance"} THEN obj[p] ELSE NoItem]

Fifo == INSTANCE BoundedFifo
          WITH Capacity <- size, items <- itemsMap, offered <- offeredMap, got <- ret

(* queue.h implements the bounded FIFO: nothing is lost, duplicated,         *)
(* reordered or overwritten before it is read.                               *)
ImplementsFifo == Fifo!FifoSpec
=============================================================================
