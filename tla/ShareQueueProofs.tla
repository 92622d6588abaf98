--------------------------- MODULE ShareQueueProofs ---------------------------
(***************************************************************************)
(* What the mutex of CShareQueue, its Shutdown and its ring of nodes       *)
(* guarantee for every number of processes, nodes, messages, kills and     *)
(* spurious wakeups.                                                       *)
(*                                                                         *)
(* SleepersMissedBroadcast is about the end of Shutdown only.  It is       *)
(* inductive together with what holds between its two broadcasts, and with *)
(* the fact that the flag is set before them (Flagged): from then on       *)
(* nobody that tests the flag goes to sleep any more (IInv).               *)
(*                                                                         *)
(* The ring implements the FIFO because every node in use belongs to one   *)
(* message (Filled) and a message lies in consecutive nodes, its first one *)
(* with its length (Whole): so Dequeue, which believes the first node at   *)
(* the front, finds one whole message.  Both are stated in distances from  *)
(* the front, where wrapping around does not show (The circle of nodes).   *)
(* Who holds which message (MsgInv) and their number (Conserved) complete  *)
(* the invariant (QInv).                                                   *)
(***************************************************************************)
EXTENDS ShareQueue, FiniteSetTheorems, SequenceTheorems, TLAPS

Steps ==
  {"idle", "lock", "test", "doWait", "asleep", "unlock", "giveUp", "task", "exited", "killed"}

PcOK ==
  /\ pc \in [Processes -> Steps]
  /\ shutdown \in {"none", "notEmpty", "notFull", "done"}

\* The steps between pthread_mutex_lock and pthread_mutex_unlock.
Guarded == {"test", "doWait", "unlock", "giveUp"}

(* A process between lock and unlock holds the mutex, so there is one at     *)
(* most.                                                                     *)
MutexHeld == \A p \in Processes : pc[p] \in Guarded => m_mutex = p

Flagged == shutdown # "none" => m_bShutDown

Sleepy == {"doWait", "asleep"}

ConsumersWarned ==
  shutdown \in {"notFull", "done"} => \A c \in Consumers : pc[c] \in Sleepy => c \in missed

ProducersWarned ==
  shutdown = "done" => \A p \in Producers : pc[p] \in Sleepy => p \in missed

IInv == PcOK /\ MutexHeld /\ Flagged /\ ConsumersWarned /\ ProducersWarned

-----------------------------------------------------------------------------
LEMMA InitIInv == Init => IInv
BY DEF Init, IInv, PcOK, Steps, MutexHeld, Guarded, Flagged, ConsumersWarned, ProducersWarned, Sleepy

\* One process goes to another step of its call.
LEMMA GotoPc ==
  ASSUME PcOK, NEW p \in Processes, NEW to \in Steps, Goto(p, to)
  PROVE  /\ pc' \in [Processes -> Steps]
         /\ pc'[p] = to
         /\ \A q \in Processes : q # p => pc'[q] = pc[q]
BY DEF PcOK, Goto

\* The process that is signalled, if any, slept.
LEMMA GotoAndSignalPc ==
  ASSUME PcOK, NEW p \in Processes, NEW to \in Steps, NEW S \in SUBSET Processes,
         pc[p] # "asleep", GotoAndSignal(p, to, S)
  PROVE  /\ pc' \in [Processes -> Steps]
         /\ pc'[p] = to
         /\ \A q \in Processes :
              q # p => \/ pc'[q] = pc[q]
                       \/ q \in S /\ pc[q] = "asleep" /\ pc'[q] = "lock"
<1>1. CASE Goto(p, to)
  BY <1>1, GotoPc
<1>2. CASE \E q \in Asleep(S) : pc' = [pc EXCEPT ![p] = to, ![q] = "lock"]
  <2>1. PICK q \in Asleep(S) : pc' = [pc EXCEPT ![p] = to, ![q] = "lock"]
    BY <1>2
  <2>2. q \in Processes /\ q # p /\ q \in S /\ pc[q] = "asleep"
    BY DEF Asleep
  <2>3. pc \in [Processes -> Steps] /\ "lock" \in Steps
    BY DEF PcOK, Steps
  <2>4. /\ pc' \in [Processes -> Steps]
        /\ pc'[p] = to /\ pc'[q] = "lock"
        /\ \A r \in Processes : r # p /\ r # q => pc'[r] = pc[r]
    BY <2>1, <2>2, <2>3
  <2> QED BY <2>2, <2>4
<1> QED BY <1>1, <1>2 DEF GotoAndSignal

LEMMA WakeAllPc ==
  ASSUME PcOK, NEW S \in SUBSET Processes, WakeAll(S)
  PROVE  /\ pc' \in [Processes -> Steps]
         /\ \A q \in Processes : pc'[q] = IF q \in S /\ pc[q] = "asleep" THEN "lock" ELSE pc[q]
BY DEF PcOK, WakeAll, Asleep, Steps

-----------------------------------------------------------------------------
(* Each step, seen as a move of one process *)

\* Process p goes to step "to", the ones it signals to "lock"; Shutdown rests.
Moves(p, to) ==
  /\ pc' \in [Processes -> Steps]
  /\ pc'[p] = to
  /\ \A q \in Processes : q # p => pc'[q] = pc[q] \/ pc'[q] = "lock"
  /\ UNCHANGED <<m_bShutDown, shutdown, missed>>

\* A move preserves the invariant if the mutex goes along with it, and if nobody
\* goes to sleep after the flag is set.
LEMMA MoveKeepsIInv ==
  ASSUME IInv, NEW p \in Processes, NEW to \in Steps, Moves(p, to),
         \/ m_mutex' = m_mutex /\ (to \in Guarded => pc[p] \in Guarded)
         \/ m_mutex = Free /\ m_mutex' = p /\ (\A q \in Processes : pc[q] \notin Guarded)
         \/ m_mutex' = Free /\ pc[p] \in Guarded /\ to \notin Guarded,
         to \in Sleepy => pc[p] = "doWait" \/ ~m_bShutDown
  PROVE  IInv'
<1> USE DEF IInv, PcOK, Moves
<1>1. MutexHeld'
  BY DEF MutexHeld, Guarded
<1>2. Flagged'
  BY DEF Flagged
<1>3. ConsumersWarned'
  BY DEF ConsumersWarned, Sleepy, Flagged, Processes
<1>4. ProducersWarned'
  BY DEF ProducersWarned, Sleepy, Flagged, Processes
<1> QED BY <1>1, <1>2, <1>3, <1>4

\* Steps that leave the mutex alone, take it, or give it back.
LEMMA CallsKeepIInv ==
  ASSUME IInv, NEW p \in Processes,
         \/ Lock(p) \/ CondWait(p) \/ Spurious(p)
         \/ EnqReturn(p) \/ DeqReturn(p)
  PROVE  IInv'
<1> USE DEF IInv, Moves, Guarded, Sleepy
<1>1. CASE Lock(p)
  <2>1. Moves(p, "test")
    BY <1>1, GotoPc DEF Lock, Steps
  <2>2. \A q \in Processes : pc[q] \notin Guarded
    BY <1>1, ShareQueueAssumption DEF Lock, MutexHeld, Processes
  <2> QED BY <1>1, <2>1, <2>2, MoveKeepsIInv DEF Lock, Steps
<1>2. CASE CondWait(p)
  BY <1>2, GotoPc, MoveKeepsIInv DEF CondWait, Steps
<1>3. CASE Spurious(p)
  BY <1>3, GotoPc, MoveKeepsIInv DEF Spurious, Steps
<1>4. CASE EnqReturn(p)
  BY <1>4, GotoPc, MoveKeepsIInv DEF EnqReturn, Steps
<1>5. CASE DeqReturn(p)
  BY <1>5, GotoPc, MoveKeepsIInv DEF DeqReturn, Steps
<1> QED BY <1>1, <1>2, <1>3, <1>4, <1>5

LEMMA EnqueueKeepsIInv ==
  ASSUME IInv, NEW p \in Producers,
         \/ \E m \in Messages : EnqCall(p, m)
         \/ EnqNoRoom(p) \/ EnqCopy(p)
  PROVE  IInv'
<1> USE DEF IInv, Moves, Guarded, Sleepy, Processes
<1>1. CASE \E m \in Messages : EnqCall(p, m)
  BY <1>1, GotoPc, MoveKeepsIInv DEF EnqCall, Steps
<1>2. CASE EnqNoRoom(p)
  BY <1>2, GotoPc, MoveKeepsIInv DEF EnqNoRoom, WaitOrGiveUp, Steps
<1>3. CASE EnqCopy(p)
  <2>1. Moves(p, "unlock")
    BY <1>3, GotoAndSignalPc DEF EnqCopy, Steps
  <2> QED BY <1>3, <2>1, MoveKeepsIInv DEF EnqCopy, Steps
<1> QED BY <1>1, <1>2, <1>3

LEMMA DequeueKeepsIInv ==
  ASSUME IInv, NEW c \in Consumers,
         DeqCall(c) \/ DeqNothing(c) \/ DeqCopy(c) \/ DoTask(c) \/ Kill(c)
  PROVE  IInv'
<1> USE DEF IInv, Moves, Guarded, Sleepy, Processes
<1>1. CASE DeqCall(c)
  BY <1>1, GotoPc, MoveKeepsIInv DEF DeqCall, Steps
<1>2. CASE DeqNothing(c)
  BY <1>2, GotoPc, MoveKeepsIInv DEF DeqNothing, WaitOrGiveUp, Steps
<1>3. CASE DeqCopy(c)
  <2>1. Moves(c, "unlock")
    BY <1>3, GotoAndSignalPc DEF DeqCopy, Steps
  <2> QED BY <1>3, <2>1, MoveKeepsIInv DEF DeqCopy, Steps
<1>4. CASE DoTask(c)
  BY <1>4, GotoPc, MoveKeepsIInv DEF DoTask, Steps
<1>5. CASE Kill(c)
  BY <1>5, GotoPc, MoveKeepsIInv DEF Kill, Steps
<1> QED BY <1>1, <1>2, <1>3, <1>4, <1>5

\* Whoever sleeps during a broadcast is woken, and whoever is about to is noted.
LEMMA ShutdownKeepsIInv == IInv /\ Shutdown => IInv'
<1> SUFFICES ASSUME IInv, Shutdown PROVE IInv'
  OBVIOUS
<1> USE DEF IInv, Sleepy
<1>1. CASE ShutdownFlag
  BY <1>1 DEF ShutdownFlag, PcOK, MutexHeld, Flagged, ConsumersWarned, ProducersWarned
<1>2. CASE ShutdownBroadcast("notEmpty", "notFull", Consumers)
  <2>1. /\ pc' \in [Processes -> Steps]
        /\ \A q \in Processes :
             pc'[q] = IF q \in Consumers /\ pc[q] = "asleep" THEN "lock" ELSE pc[q]
    BY <1>2, WakeAllPc DEF ShutdownBroadcast, Processes
  <2> QED BY <1>2, <2>1 DEF ShutdownBroadcast, PcOK, MutexHeld, Guarded, Flagged,
                            ConsumersWarned, ProducersWarned, Processes
<1>3. CASE ShutdownBroadcast("notFull", "done", Producers)
  <2>1. /\ pc' \in [Processes -> Steps]
        /\ \A q \in Processes :
             pc'[q] = IF q \in Producers /\ pc[q] = "asleep" THEN "lock" ELSE pc[q]
    BY <1>3, WakeAllPc DEF ShutdownBroadcast, Processes
  <2> QED BY <1>3, <2>1 DEF ShutdownBroadcast, PcOK, MutexHeld, Guarded, Flagged,
                            ConsumersWarned, ProducersWarned, Processes
<1> QED BY <1>1, <1>2, <1>3 DEF Shutdown

LEMMA IInvStep == IInv /\ [Next]_vars => IInv'
<1> SUFFICES ASSUME IInv, [Next]_vars PROVE IInv'
  OBVIOUS
<1>1. CASE UNCHANGED vars
  BY <1>1 DEF vars, IInv, PcOK, MutexHeld, Flagged, ConsumersWarned, ProducersWarned
<1>2. ASSUME NEW p \in Producers, Enqueue(p) \/ \E m \in Messages : EnqCall(p, m)
      PROVE  IInv'
  BY <1>2, CallsKeepIInv, EnqueueKeepsIInv DEF Enqueue, Processes
<1>3. ASSUME NEW c \in Consumers, Dequeue(c) \/ Kill(c) PROVE IInv'
  BY <1>3, CallsKeepIInv, DequeueKeepsIInv DEF Dequeue, Processes
<1>4. ASSUME NEW p \in Processes, Spurious(p) PROVE IInv'
  BY <1>4, CallsKeepIInv
<1> QED BY <1>1, <1>2, <1>3, <1>4, ShutdownKeepsIInv DEF Next

\* The inductive invariant holds in every reachable state.
THEOREM Invariance == Spec => []IInv
BY InitIInv, IInvStep, PTL DEF Spec

\* At most one process is between lock and unlock of m_mutex, also when others
\* are killed, are signalled or wake up without a signal.
THEOREM RingIsGuarded ==
  Spec => [](\A p, q \in Processes : pc[p] \in Guarded /\ pc[q] \in Guarded => p = q)
<1>1. IInv => \A p, q \in Processes : pc[p] \in Guarded /\ pc[q] \in Guarded => p = q
  BY DEF IInv, MutexHeld
<1> QED BY <1>1, Invariance, PTL

\* Shutdown (shm_cqueue.cpp:171-176) leaves nobody asleep who was not between
\* its test of the flag and pthread_cond_wait during the broadcast.
THEOREM ShutdownWakes == Spec => []SleepersMissedBroadcast
<1>1. IInv => SleepersMissedBroadcast
  BY DEF IInv, SleepersMissedBroadcast, ConsumersWarned, ProducersWarned, Sleepy, Processes
<1> QED BY <1>1, Invariance, PTL

-----------------------------------------------------------------------------
(* The circle of nodes *)

\* The number of nodes in front of node i, and the number of nodes in use.
Depth(i) == Distance(m_iFront, i)
Length == Distance(m_iFront, m_iRear)

\* Remainders, within one round.
LEMMA Round ==
  ASSUME NEW a \in 0 .. 2 * m_iMaxSize - 1
  PROVE  a % m_iMaxSize = IF a < m_iMaxSize THEN a ELSE a - m_iMaxSize
BY ShareQueueAssumption

LEMMA AheadIs ==
  ASSUME NEW i \in Slots, NEW n \in 0 .. m_iMaxSize
  PROVE  Ahead(i, n) = IF i + n < m_iMaxSize THEN i + n ELSE i + n - m_iMaxSize
<1> DEFINE a == i + n
<1>1. a \in 0 .. 2 * m_iMaxSize - 1
  BY ShareQueueAssumption DEF Slots
<1>2. a % m_iMaxSize = IF a < m_iMaxSize THEN a ELSE a - m_iMaxSize
  <2> HIDE DEF a
  <2> QED BY <1>1, Round
<1>3. Ahead(i, n) = a % m_iMaxSize
  BY Zenon DEF Ahead
<1>4. i \in Int /\ n \in Int /\ m_iMaxSize \in Int
  BY ShareQueueAssumption DEF Slots
<1>5. a - m_iMaxSize = i + n - m_iMaxSize
  BY <1>4
<1> QED BY <1>2, <1>3, <1>5, Zenon

LEMMA DistanceIs ==
  ASSUME NEW i \in Slots, NEW j \in Slots
  PROVE  Distance(i, j) = IF i <= j THEN j - i ELSE j + m_iMaxSize - i
<1> DEFINE a == j + m_iMaxSize - i
<1>1. a \in 0 .. 2 * m_iMaxSize - 1
  BY ShareQueueAssumption DEF Slots
<1>2. a % m_iMaxSize = IF a < m_iMaxSize THEN a ELSE a - m_iMaxSize
  <2> HIDE DEF a
  <2> QED BY <1>1, Round
<1>3. m_iMaxSize \in Nat /\ i \in Int /\ j \in Int
  BY ShareQueueAssumption DEF Slots
<1>4. (a < m_iMaxSize <=> ~(i <= j)) /\ a - m_iMaxSize = j - i
  BY <1>3
<1> HIDE DEF a
<1> QED BY <1>2, <1>4 DEF a, Distance

\* Positions are slots, and each slot is at one distance from a position.
LEMMA Circle ==
  ASSUME NEW i \in Slots
  PROVE  /\ \A n \in 0 .. m_iMaxSize : Ahead(i, n) \in Slots
         /\ \A n \in Slots : Distance(i, Ahead(i, n)) = n
         /\ \A j \in Slots : Distance(i, j) \in Slots /\ Ahead(i, Distance(i, j)) = j
         /\ Distance(i, i) = 0 /\ Ahead(i, 0) = i
         /\ \A j, k \in Slots : Distance(i, j) = Distance(i, k) => j = k
<1> USE ShareQueueAssumption DEF Slots
<1>1. ASSUME NEW n \in 0 .. m_iMaxSize PROVE Ahead(i, n) \in Slots
  BY AheadIs
<1>2. ASSUME NEW n \in Slots PROVE Distance(i, Ahead(i, n)) = n
  <2>1. Ahead(i, n) \in Slots /\ Ahead(i, n) = IF i + n < m_iMaxSize THEN i + n ELSE i + n - m_iMaxSize
    BY <1>1, AheadIs
  <2> QED BY <2>1, DistanceIs
<1>3. ASSUME NEW j \in Slots PROVE Distance(i, j) \in Slots /\ Ahead(i, Distance(i, j)) = j
  <2>1. Distance(i, j) = IF i <= j THEN j - i ELSE j + m_iMaxSize - i
    BY DistanceIs
  <2>2. Distance(i, j) \in 0 .. m_iMaxSize /\ Distance(i, j) \in Slots
    BY <2>1
  <2>3. Ahead(i, Distance(i, j)) =
          IF i + Distance(i, j) < m_iMaxSize THEN i + Distance(i, j) ELSE i + Distance(i, j) - m_iMaxSize
    BY <2>2, AheadIs
  <2> QED BY <2>1, <2>2, <2>3
<1>4. Distance(i, i) = 0 /\ Ahead(i, 0) = i
  BY AheadIs, DistanceIs
<1>5. ASSUME NEW j \in Slots, NEW k \in Slots, Distance(i, j) = Distance(i, k) PROVE j = k
  <2> HIDE DEF Slots
  <2> QED BY <1>3, <1>5
<1> QED BY <1>1, <1>2, <1>3, <1>4, <1>5

\* The nodes at the rear are those behind all that are in use.
LEMMA BehindRear ==
  ASSUME NEW f \in Slots, NEW r \in Slots, NEW n \in 1 .. m_iMaxSize - 1,
         Distance(f, r) + n < m_iMaxSize
  PROVE  /\ Ahead(r, n) \in Slots /\ Distance(f, Ahead(r, n)) = Distance(f, r) + n
         /\ \A i \in Slots : i \in Span(r, n) <=>
              Distance(f, r) <= Distance(f, i) /\ Distance(f, i) < Distance(f, r) + n
         /\ \A i \in Slots : Distance(f, r) <= Distance(f, i) =>
              Distance(r, i) = Distance(f, i) - Distance(f, r)
         /\ \A k \in 0 .. n - 1 : Distance(f, Ahead(r, k)) = Distance(f, r) + k
<1>0. /\ m_iMaxSize \in Nat \ {0} /\ f \in 0 .. m_iMaxSize - 1 /\ r \in 0 .. m_iMaxSize - 1
      /\ \A i \in Slots : i \in 0 .. m_iMaxSize - 1 /\ i \in Nat
  BY ShareQueueAssumption DEF Slots
<1>1. ASSUME NEW k \in 0 .. n PROVE Ahead(r, k) \in Slots /\ Distance(f, Ahead(r, k)) = Distance(f, r) + k
  <2>1. /\ Ahead(r, k) \in Slots
        /\ Ahead(r, k) = IF r + k < m_iMaxSize THEN r + k ELSE r + k - m_iMaxSize
    <3>1. k \in 0 .. m_iMaxSize
      BY <1>0
    <3> QED BY <3>1, Circle, AheadIs
  <2>2. /\ Distance(f, r) = IF f <= r THEN r - f ELSE r + m_iMaxSize - f
        /\ Distance(f, Ahead(r, k)) =
             IF f <= Ahead(r, k) THEN Ahead(r, k) - f ELSE Ahead(r, k) + m_iMaxSize - f
    BY <2>1, DistanceIs
  <2>3. Ahead(r, k) \in 0 .. m_iMaxSize - 1
    BY <1>0, <2>1
  <2> QED BY <1>0, <2>1, <2>2, <2>3
<1>2. ASSUME NEW i \in Slots, Distance(f, r) <= Distance(f, i)
      PROVE  Distance(r, i) = Distance(f, i) - Distance(f, r)
  <2>1. /\ Distance(f, r) = IF f <= r THEN r - f ELSE r + m_iMaxSize - f
        /\ Distance(f, i) = IF f <= i THEN i - f ELSE i + m_iMaxSize - f
        /\ Distance(r, i) = IF r <= i THEN i - r ELSE i + m_iMaxSize - r
    BY DistanceIs
  <2> QED BY <1>0, <1>2, <2>1
<1>3. ASSUME NEW i \in Slots
      PROVE  i \in Span(r, n) <=>
               Distance(f, r) <= Distance(f, i) /\ Distance(f, i) < Distance(f, r) + n
  <2>1. Distance(f, i) \in Nat /\ Distance(f, r) \in Nat
    <3>1. Distance(f, i) \in Slots /\ Distance(f, r) \in Slots
      BY Circle
    <3> QED BY <1>0, <3>1
  <2>2. ASSUME i \in Span(r, n)
        PROVE  Distance(f, r) <= Distance(f, i) /\ Distance(f, i) < Distance(f, r) + n
    <3>1. PICK k \in 0 .. n - 1 : i = Ahead(r, k)
      BY <2>2 DEF Span
    <3>2. Distance(f, i) = Distance(f, r) + k
      <4>1. k \in 0 .. n
        OBVIOUS
      <4> QED BY <1>1, <3>1, <4>1
    <3> QED BY <2>1, <3>1, <3>2
  <2>3. ASSUME Distance(f, r) <= Distance(f, i), Distance(f, i) < Distance(f, r) + n
        PROVE  i \in Span(r, n)
    <3>1. Distance(r, i) \in 0 .. n - 1
      BY <1>2, <2>1, <2>3
    <3>2. i = Ahead(r, Distance(r, i))
      BY Circle
    <3> QED BY <3>1, <3>2 DEF Span
  <2> QED BY <2>2, <2>3
<1>4. n \in 0 .. n /\ \A k \in 0 .. n - 1 : k \in 0 .. n
  BY <1>0
<1> QED BY <1>1, <1>2, <1>3, <1>4

\* Moving the front past n nodes in use.
LEMMA PastFront ==
  ASSUME NEW f \in Slots, NEW r \in Slots, NEW n \in 1 .. m_iMaxSize - 1, n <= Distance(f, r)
  PROVE  /\ Ahead(f, n) \in Slots
         /\ Distance(Ahead(f, n), r) = Distance(f, r) - n
         /\ \A i \in Slots :
              /\ i \in Span(f, n) <=> Distance(f, i) < n
              /\ Distance(Ahead(f, n), i) =
                   IF Distance(f, i) < n THEN Distance(f, i) - n + m_iMaxSize ELSE Distance(f, i) - n
<1>0. /\ m_iMaxSize \in Nat \ {0} /\ f \in 0 .. m_iMaxSize - 1 /\ r \in 0 .. m_iMaxSize - 1
      /\ \A i \in Slots : i \in 0 .. m_iMaxSize - 1 /\ i \in Nat
  BY ShareQueueAssumption DEF Slots
<1>1. /\ Ahead(f, n) \in Slots
      /\ Ahead(f, n) = IF f + n < m_iMaxSize THEN f + n ELSE f + n - m_iMaxSize
  <2>1. n \in 0 .. m_iMaxSize
    BY <1>0
  <2> QED BY <2>1, Circle, AheadIs
<1>2. ASSUME NEW i \in Slots
      PROVE  Distance(Ahead(f, n), i) =
               IF Distance(f, i) < n THEN Distance(f, i) - n + m_iMaxSize ELSE Distance(f, i) - n
  <2>1. /\ Distance(f, i) = IF f <= i THEN i - f ELSE i + m_iMaxSize - f
        /\ Distance(Ahead(f, n), i) =
             IF Ahead(f, n) <= i THEN i - Ahead(f, n) ELSE i + m_iMaxSize - Ahead(f, n)
    BY <1>1, DistanceIs
  <2>2. Ahead(f, n) \in 0 .. m_iMaxSize - 1
    BY <1>0, <1>1
  <2> QED BY <1>0, <1>1, <2>1, <2>2
<1>3. ASSUME NEW i \in Slots PROVE i \in Span(f, n) <=> Distance(f, i) < n
  <2>1. Distance(f, i) \in Nat /\ Ahead(f, Distance(f, i)) = i
    <3>1. Distance(f, i) \in Slots /\ Ahead(f, Distance(f, i)) = i
      BY Circle
    <3> QED BY <1>0, <3>1
  <2>2. ASSUME i \in Span(f, n) PROVE Distance(f, i) < n
    <3>1. PICK k \in 0 .. n - 1 : i = Ahead(f, k)
      BY <2>2 DEF Span
    <3>2. Distance(f, i) = k
      <4>1. k \in Slots
        BY <1>0 DEF Slots
      <4> QED BY <3>1, <4>1, Circle
    <3> QED BY <3>2
  <2>3. ASSUME Distance(f, i) < n PROVE i \in Span(f, n)
    BY <2>1, <2>3 DEF Span
  <2> QED BY <2>2, <2>3
<1>4. ~(Distance(f, r) < n)
  <2>1. Distance(f, r) \in Slots
    BY Circle
  <2>2. Distance(f, r) \in Nat
    BY <1>0, <2>1
  <2>3. n \in Nat
    BY <1>0
  <2> QED BY <2>2, <2>3
<1> QED BY <1>1, <1>2, <1>3, <1>4

-----------------------------------------------------------------------------
(* The messages in the ring *)

Node == [m_nodes : Nat, msg : Messages \cup {NoMessage}, piece : Slots]

RingTypes ==
  /\ m_nodes \in [Slots -> Node]
  /\ m_iFront \in Slots /\ m_iRear \in Slots

\* The number of nodes that the message starting at node i takes.
Size(i) == NodesOf[m_nodes[i].msg]

\* A message is in consecutive nodes from its first on, all of them in use.
Whole ==
  \A i \in Starts :
    /\ m_nodes[i].msg \in Messages /\ m_nodes[i].m_nodes = Size(i)
    /\ Depth(i) + Size(i) <= Length
    /\ \A j \in Slots : Depth(i) <= Depth(j) /\ Depth(j) < Depth(i) + Size(i) =>
         m_nodes[j].msg = m_nodes[i].msg /\ m_nodes[j].piece = Depth(j) - Depth(i)

\* Every node in use is one of a message.
Filled ==
  \A j \in Used : \E i \in Starts : Depth(i) <= Depth(j) /\ Depth(j) < Depth(i) + Size(i)

RingInv == RingTypes /\ Whole /\ Filled

LEMMA DepthIs ==
  ASSUME RingTypes
  PROVE  /\ \A i \in Slots : Depth(i) \in Slots
         /\ Length \in Slots /\ Slots \subseteq Nat
         /\ \A i, j \in Slots : Depth(i) = Depth(j) => i = j
         /\ Depth(m_iFront) = 0
         /\ EmptyQueue <=> Length = 0
         /\ EmptyNodes = m_iMaxSize - 1 - Length
         /\ FullQueue <=> Length = m_iMaxSize - 1
<1>1. m_iFront \in Slots /\ m_iRear \in Slots
  BY DEF RingTypes
<1>2. /\ \A i \in Slots : Depth(i) \in Slots
      /\ Length \in Slots
      /\ \A i, j \in Slots : Depth(i) = Depth(j) => i = j
      /\ Depth(m_iFront) = 0
  BY <1>1, Circle DEF Depth, Length
<1>3. Slots \subseteq Nat
  BY DEF Slots
<1>4. Length = IF m_iFront <= m_iRear THEN m_iRear - m_iFront ELSE m_iRear + m_iMaxSize - m_iFront
  BY <1>1, DistanceIs DEF Length
<1>5. m_iFront \in 0 .. m_iMaxSize - 1 /\ m_iRear \in 0 .. m_iMaxSize - 1 /\ m_iMaxSize \in Nat \ {0}
  BY <1>1, ShareQueueAssumption DEF Slots
<1>6. EmptyQueue <=> Length = 0
  BY <1>4, <1>5 DEF EmptyQueue
<1>7. EmptyNodes = m_iMaxSize - 1 - Length
  BY <1>4, <1>5 DEF EmptyNodes
<1>8. FullQueue <=> Length = m_iMaxSize - 1
  <2>1. Ahead(m_iRear, 1) = IF m_iRear + 1 < m_iMaxSize THEN m_iRear + 1 ELSE m_iRear + 1 - m_iMaxSize
    <3>1. 1 \in 0 .. m_iMaxSize
      BY <1>5
    <3> QED BY <1>1, <3>1, AheadIs
  <2> QED BY <1>4, <1>5, <2>1 DEF FullQueue
<1> QED BY <1>2, <1>3, <1>6, <1>7, <1>8

\* A call that has room leaves one node free.
LEMMA RoomIs ==
  ASSUME RingTypes, NEW p \in Processes, msg[p] \in Messages, ~NoRoom(p)
  PROVE  NodesOf[msg[p]] \in 1 .. m_iMaxSize - 1 /\ Length + NodesOf[msg[p]] < m_iMaxSize
<1>1. NodesOf[msg[p]] \in Nat \ {0} /\ m_iMaxSize \in Nat
  BY ShareQueueAssumption
<1>2. Length \in Nat /\ EmptyNodes = m_iMaxSize - 1 - Length
  BY DepthIs
<1>3. ~(EmptyNodes < NodesOf[msg[p]])
  BY DEF NoRoom
<1> QED BY <1>1, <1>2, <1>3

\* The oldest message starts at the front.
LEMMA OldestAtFront ==
  ASSUME RingInv, ~EmptyQueue
  PROVE  /\ m_iFront \in Starts
         /\ Size(m_iFront) \in 1 .. m_iMaxSize - 1
         /\ Size(m_iFront) <= Length
         /\ m_nodes[m_iFront].m_nodes = Size(m_iFront)
         /\ m_nodes[m_iFront].msg \in Messages
         /\ Assembled(m_iFront, Size(m_iFront)) = m_nodes[m_iFront].msg
<1>1. RingTypes /\ Whole /\ Filled /\ m_iFront \in Slots
  BY DEF RingInv, RingTypes
<1>2. Length \in Nat /\ Length > 0 /\ Length < m_iMaxSize /\ Depth(m_iFront) = 0 /\ m_iMaxSize \in Nat
  <2>1. Length \in Slots /\ Length # 0 /\ Depth(m_iFront) = 0
    BY <1>1, DepthIs
  <2> QED BY <2>1, ShareQueueAssumption DEF Slots
<1>3. m_iFront \in Used
  BY <1>1, <1>2 DEF Used, Depth, Length
<1>4. PICK i \in Starts : Depth(i) <= Depth(m_iFront) /\ Depth(m_iFront) < Depth(i) + Size(i)
  BY <1>1, <1>3 DEF Filled
<1>5. i \in Slots
  BY DEF Starts, Used
<1>6. Depth(i) \in Nat
  BY <1>1, <1>5, DepthIs
<1>7. Depth(i) = 0
  BY <1>2, <1>4, <1>6
<1>8. i = m_iFront
  BY <1>1, <1>2, <1>5, <1>7, DepthIs
<1>9. /\ m_iFront \in Starts /\ m_nodes[m_iFront].msg \in Messages
      /\ m_nodes[m_iFront].m_nodes = Size(m_iFront) /\ Depth(m_iFront) + Size(m_iFront) <= Length
      /\ \A j \in Slots : Depth(m_iFront) <= Depth(j) /\ Depth(j) < Depth(m_iFront) + Size(m_iFront) =>
           /\ m_nodes[j].msg = m_nodes[m_iFront].msg
           /\ m_nodes[j].piece = Depth(j) - Depth(m_iFront)
  BY <1>1, <1>8 DEF Whole
<1>10. Size(m_iFront) \in Nat \ {0}
  BY <1>9, ShareQueueAssumption DEF Size
<1>11. Size(m_iFront) <= Length /\ Size(m_iFront) \in 1 .. m_iMaxSize - 1
  BY <1>2, <1>9, <1>10
<1>12. ASSUME NEW k \in 0 .. Size(m_iFront) - 1
       PROVE  /\ m_nodes[Ahead(m_iFront, k)].msg = m_nodes[m_iFront].msg
              /\ m_nodes[Ahead(m_iFront, k)].piece = k
  <2>1. k \in Slots /\ k \in 0 .. m_iMaxSize
    BY <1>2, <1>11 DEF Slots
  <2>2. Ahead(m_iFront, k) \in Slots /\ Depth(Ahead(m_iFront, k)) = k
    BY <1>1, <2>1, Circle DEF Depth
  <2>3. Depth(m_iFront) <= k /\ k < Depth(m_iFront) + Size(m_iFront) /\ k - Depth(m_iFront) = k
    BY <1>2, <1>11
  <2> QED BY <1>9, <2>2, <2>3
<1>13. Assembled(m_iFront, Size(m_iFront)) = m_nodes[m_iFront].msg
  BY <1>12, Zenon DEF Assembled
<1> QED BY <1>9, <1>11, <1>13

\* Enqueue puts one more message behind the others.
LEMMA EnqCopyRing ==
  ASSUME RingInv, NEW p \in Producers, msg[p] \in Messages, EnqCopy(p)
  PROVE  /\ RingInv'
         /\ Starts' = Starts \cup {m_iRear} /\ m_iRear \notin Starts
         /\ m_nodes'[m_iRear].msg = msg[p]
         /\ Distance(m_iFront, m_iRear)' = Length + NodesOf[msg[p]]
         /\ \A i \in Starts : /\ m_nodes'[i].msg = m_nodes[i].msg
                              /\ Distance(m_iFront, i) < Distance(m_iFront, m_iRear)
<1> DEFINE m == msg[p]
           n == NodesOf[msg[p]]
           L == Length
<1>1. RingTypes /\ Whole /\ Filled
  BY DEF RingInv
<1>2. n \in 1 .. m_iMaxSize - 1 /\ L + n < m_iMaxSize
  BY <1>1, RoomIs DEF EnqCopy, Processes
<1>3. /\ m_iFront \in Slots /\ m_iRear \in Slots /\ m_nodes \in [Slots -> Node]
      /\ m_iMaxSize \in Nat /\ L \in Nat
      /\ \A i \in Slots : Depth(i) \in Slots /\ Depth(i) \in Nat
  BY <1>1, DepthIs, ShareQueueAssumption DEF RingTypes
<1>4. /\ Ahead(m_iRear, n) \in Slots /\ Distance(m_iFront, Ahead(m_iRear, n)) = L + n
      /\ \A i \in Slots : i \in Span(m_iRear, n) <=> L <= Depth(i) /\ Depth(i) < L + n
      /\ \A i \in Slots : L <= Depth(i) => Distance(m_iRear, i) = Depth(i) - L
  BY <1>2, <1>3, BehindRear DEF Depth, Length
<1>5. /\ m_iFront' = m_iFront /\ m_iRear' = Ahead(m_iRear, n)
      /\ m_nodes' = [i \in Slots |->
                       IF i \notin Span(m_iRear, n) THEN m_nodes[i]
                       ELSE [m_nodes |-> IF i = m_iRear THEN n ELSE m_nodes[i].m_nodes,
                             msg |-> m, piece |-> Distance(m_iRear, i)]]
  BY DEF EnqCopy
<1> HIDE DEF m, n, L
<1>6. Length' = L + n /\ \A i \in Slots : Depth(i)' = Depth(i)
  BY <1>4, <1>5 DEF Length, Depth
<1>7. ASSUME NEW i \in Slots, Depth(i) < L PROVE m_nodes'[i] = m_nodes[i]
  <2>1. i \notin Span(m_iRear, n)
    BY <1>3, <1>4, <1>7
  <2> QED BY <1>5, <2>1
<1>8. ASSUME NEW i \in Slots, L <= Depth(i), Depth(i) < L + n
      PROVE  /\ m_nodes'[i].msg = m /\ m_nodes'[i].piece = Depth(i) - L
             /\ i = m_iRear => m_nodes'[i].m_nodes = n
             /\ m_nodes'[i] \in Node
  <2>1. i \in Span(m_iRear, n) /\ Distance(m_iRear, i) = Depth(i) - L
    BY <1>4, <1>8
  <2>2. m_nodes'[i] = [m_nodes |-> IF i = m_iRear THEN n ELSE m_nodes[i].m_nodes,
                       msg |-> m, piece |-> Depth(i) - L]
    BY <1>5, <2>1
  <2>3. Depth(i) - L \in Slots
    BY <1>2, <1>3, <1>8 DEF Slots
  <2>4. m_nodes[i].m_nodes \in Nat /\ n \in Nat /\ m \in Messages
    BY <1>2, <1>3 DEF Node, m
  <2> QED BY <2>2, <2>3, <2>4 DEF Node
<1>9. RingTypes'
  <2>1. ASSUME NEW i \in Slots PROVE m_nodes'[i] \in Node
    BY <1>3, <1>5, <1>8, <1>4, <2>1
  <2>2. m_nodes' \in [Slots -> Node]
    BY <1>5, <2>1
  <2> QED BY <1>3, <1>4, <1>5, <2>2 DEF RingTypes
<1>10. Depth(m_iRear) = L /\ \A i \in Slots : Depth(i) = L => i = m_iRear
  BY <1>1, <1>3, DepthIs DEF Depth, Length, L
<1>11. \A i \in Slots : /\ i \in Used <=> Depth(i) < L
                        /\ i \in Used' <=> Depth(i) < L + n
  BY <1>6, Zenon DEF Used, Depth, Length, L
<1>12. Starts' = Starts \cup {m_iRear} /\ m_iRear \notin Starts
  <2>1. ASSUME NEW i \in Slots PROVE i \in Starts' <=> i \in Starts \/ i = m_iRear
    <3>1. i \in Starts' <=> Depth(i) < L + n /\ m_nodes'[i].piece = 0
      BY <1>11 DEF Starts
    <3>2. i \in Starts <=> Depth(i) < L /\ m_nodes[i].piece = 0
      BY <1>11 DEF Starts
    <3>3. CASE Depth(i) < L
      <4>1. m_nodes'[i] = m_nodes[i] /\ i # m_iRear
        BY <1>3, <1>7, <1>10, <3>3
      <4> QED BY <1>2, <1>3, <3>1, <3>2, <3>3, <4>1
    <3>4. CASE L <= Depth(i) /\ Depth(i) < L + n
      <4>1. m_nodes'[i].piece = Depth(i) - L
        BY <1>8, <3>4
      <4>2. m_nodes'[i].piece = 0 <=> i = m_iRear
        BY <1>3, <1>10, <4>1
      <4> QED BY <1>3, <3>1, <3>2, <3>4, <4>2
    <3>5. CASE ~(Depth(i) < L + n)
      BY <1>2, <1>3, <1>10, <3>1, <3>2, <3>5
    <3> QED BY <1>2, <1>3, <3>3, <3>4, <3>5
  <2>2. Starts \subseteq Slots /\ Starts' \subseteq Slots
    BY DEF Starts, Used
  <2>3. m_iRear \notin Starts
    BY <1>3, <1>10, <1>11 DEF Starts
  <2> QED BY <1>3, <2>1, <2>2, <2>3
<1>13. ASSUME NEW i \in Starts
       PROVE  /\ i \in Slots /\ Depth(i) < L /\ m_nodes'[i] = m_nodes[i] /\ Size(i)' = Size(i)
              /\ Depth(i) + Size(i) <= L /\ Size(i) \in Nat
  <2>1. i \in Slots /\ Depth(i) < L
    BY <1>11 DEF Starts, Used
  <2>2. m_nodes'[i] = m_nodes[i]
    BY <1>7, <2>1
  <2>3. Depth(i) + Size(i) <= L /\ m_nodes[i].msg \in Messages
    BY <1>1 DEF Whole, L
  <2>4. Size(i) \in Nat
    BY <2>3, ShareQueueAssumption DEF Size
  <2> QED BY <2>1, <2>2, <2>3, <2>4 DEF Size
<1>14. /\ m_nodes'[m_iRear].msg = m /\ m_nodes'[m_iRear].m_nodes = n
       /\ NodesOf[m_nodes'[m_iRear].msg] = n
  <2>1. L <= Depth(m_iRear) /\ Depth(m_iRear) < L + n
    BY <1>2, <1>3, <1>10
  <2>2. m_nodes'[m_iRear].msg = m /\ m_nodes'[m_iRear].m_nodes = n
    BY <1>3, <1>8, <2>1
  <2> QED BY <2>2 DEF n, m
<1>15. Whole'
  <2>1. ASSUME NEW i \in Starts'
        PROVE  /\ m_nodes'[i].msg \in Messages /\ m_nodes'[i].m_nodes = Size(i)'
               /\ Depth(i)' + Size(i)' <= Length'
               /\ \A j \in Slots : Depth(i)' <= Depth(j)' /\ Depth(j)' < Depth(i)' + Size(i)' =>
                    m_nodes'[j].msg = m_nodes'[i].msg /\ m_nodes'[j].piece = Depth(j)' - Depth(i)'
    <3>1. CASE i \in Starts
      <4>1. /\ m_nodes[i].msg \in Messages /\ m_nodes[i].m_nodes = Size(i)
            /\ \A j \in Slots : Depth(i) <= Depth(j) /\ Depth(j) < Depth(i) + Size(i) =>
                 m_nodes[j].msg = m_nodes[i].msg /\ m_nodes[j].piece = Depth(j) - Depth(i)
        BY <1>1, <3>1 DEF Whole
      <4>2. Depth(i)' + Size(i)' <= Length'
        BY <1>2, <1>3, <1>6, <1>13, <3>1
      <4>3. ASSUME NEW j \in Slots, Depth(i)' <= Depth(j)', Depth(j)' < Depth(i)' + Size(i)'
            PROVE  m_nodes'[j].msg = m_nodes'[i].msg /\ m_nodes'[j].piece = Depth(j)' - Depth(i)'
        <5>1. i \in Slots /\ Depth(i)' = Depth(i) /\ Depth(j)' = Depth(j) /\ Size(i)' = Size(i)
          BY <1>6, <1>13, <3>1
        <5>2. Depth(i) <= Depth(j) /\ Depth(j) < Depth(i) + Size(i)
          BY <4>3, <5>1
        <5>3. Depth(j) < L
          BY <1>3, <1>13, <3>1, <5>2
        <5> QED BY <1>7, <1>13, <3>1, <4>1, <5>1, <5>2, <5>3
      <4> QED BY <1>13, <3>1, <4>1, <4>2, <4>3
    <3>2. CASE i = m_iRear
      <4>1. Depth(i)' = L /\ Size(i)' = n /\ Length' = L + n
        BY <1>3, <1>6, <1>10, <1>14, <3>2 DEF Size
      <4>2. ASSUME NEW j \in Slots, Depth(i)' <= Depth(j)', Depth(j)' < Depth(i)' + Size(i)'
            PROVE  m_nodes'[j].msg = m_nodes'[i].msg /\ m_nodes'[j].piece = Depth(j)' - Depth(i)'
        BY <1>6, <1>8, <1>14, <3>2, <4>1, <4>2
      <4>3. m \in Messages
        BY DEF m
      <4> QED BY <1>2, <1>3, <1>14, <3>2, <4>1, <4>2, <4>3
    <3> QED BY <1>12, <3>1, <3>2
  <2> QED BY <2>1, Zenon DEF Whole
<1>16. Filled'
  <2>1. ASSUME NEW j \in Used'
        PROVE  \E i \in Starts' : Depth(i)' <= Depth(j)' /\ Depth(j)' < Depth(i)' + Size(i)'
    <3>1. j \in Slots /\ Depth(j) < L + n /\ Depth(j)' = Depth(j)
      BY <1>6, <1>11 DEF Used
    <3>2. CASE Depth(j) < L
      <4>1. j \in Used
        BY <1>11, <3>1, <3>2
      <4>2. PICK i \in Starts : Depth(i) <= Depth(j) /\ Depth(j) < Depth(i) + Size(i)
        BY <1>1, <4>1 DEF Filled
      <4>3. Depth(i)' = Depth(i) /\ Size(i)' = Size(i)
        BY <1>6, <1>13
      <4> QED BY <1>12, <3>1, <4>2, <4>3
    <3>3. CASE ~(Depth(j) < L)
      <4>2. L <= Depth(j)
        BY <1>3, <3>1, <3>3
      <4>3. PICK i \in Starts' : i = m_iRear
        BY <1>12
      <4>4. Depth(i)' = L /\ Size(i)' = n
        BY <1>3, <1>6, <1>10, <1>14, <4>3 DEF Size
      <4> QED BY <3>1, <4>2, <4>3, <4>4
    <3> QED BY <3>2, <3>3
  <2> QED BY <2>1, Zenon DEF Filled
<1>17. Distance(m_iFront, m_iRear)' = Length + NodesOf[msg[p]]
  BY <1>6 DEF Length, L, n
<1>18. \A i \in Starts : m_nodes'[i].msg = m_nodes[i].msg /\ Distance(m_iFront, i) < Distance(m_iFront, m_iRear)
  BY <1>13 DEF Depth, Length, L
<1> QED BY <1>9, <1>12, <1>14, <1>15, <1>16, <1>17, <1>18 DEF RingInv, m

\* Dequeue takes the message at the front; the others stay as they are.
LEMMA DeqCopyRing ==
  ASSUME RingInv, NEW c \in Consumers, msg \in [Processes -> Messages \cup {NoMessage}], DeqCopy(c)
  PROVE  /\ RingInv'
         /\ m_iFront \in Starts /\ Starts' = Starts \ {m_iFront}
         /\ m_nodes[m_iFront].msg \in Messages
         /\ msg' = [msg EXCEPT ![c] = m_nodes[m_iFront].msg]
         /\ Distance(m_iFront, m_iRear)' = Length - Size(m_iFront)
         /\ Depth(m_iFront) = 0
         /\ \A i \in Starts' : /\ m_nodes'[i].msg = m_nodes[i].msg
                               /\ Depth(i)' = Depth(i) - Size(m_iFront)
                               /\ Size(m_iFront) <= Depth(i)
<1> DEFINE f == m_iFront
           n == Size(m_iFront)
           L == Length
<1>1. RingTypes /\ Whole /\ Filled /\ ~EmptyQueue
  BY DEF RingInv, DeqCopy
<1>2. /\ m_iFront \in Starts
      /\ n \in 1 .. m_iMaxSize - 1
      /\ n <= L
      /\ m_nodes[m_iFront].m_nodes = n
      /\ m_nodes[m_iFront].msg \in Messages
      /\ Assembled(m_iFront, n) = m_nodes[m_iFront].msg
  BY <1>1, OldestAtFront
<1>3. /\ f \in Slots /\ m_iRear \in Slots /\ m_nodes \in [Slots -> Node]
      /\ m_iMaxSize \in Nat /\ L \in Nat /\ L < m_iMaxSize /\ n \in Nat /\ 0 < n
      /\ Depth(m_iFront) = 0
      /\ \A i \in Slots : Depth(i) \in Nat /\ Depth(i) < m_iMaxSize
  <2>1. /\ L \in Slots /\ Depth(m_iFront) = 0 /\ \A i \in Slots : Depth(i) \in Slots
    BY <1>1, DepthIs
  <2>2. \A k \in Slots : k \in Nat /\ k < m_iMaxSize
    BY ShareQueueAssumption DEF Slots
  <2>3. n \in Nat /\ 0 < n
    BY <1>2
  <2> QED BY <1>1, <2>1, <2>2, <2>3, ShareQueueAssumption DEF RingTypes
<1>4. /\ m_iFront' = Ahead(f, n) /\ m_iRear' = m_iRear
      /\ m_nodes' = [i \in Slots |-> IF i \in Span(f, n) THEN NewNode ELSE m_nodes[i]]
      /\ msg' = [msg EXCEPT ![c] = m_nodes[m_iFront].msg]
  BY <1>2 DEF DeqCopy
<1>5. /\ Ahead(f, n) \in Slots /\ Distance(Ahead(f, n), m_iRear) = L - n
      /\ \A i \in Slots : i \in Span(f, n) <=> Depth(i) < n
      /\ \A i \in Slots : Distance(Ahead(f, n), i) =
           IF Depth(i) < n THEN Depth(i) - n + m_iMaxSize ELSE Depth(i) - n
  <2>1. n <= Distance(f, m_iRear)
    BY <1>2 DEF Length
  <2> QED BY <1>2, <1>3, <2>1, PastFront DEF Depth, Length
<1>6. Length' = L - n
  BY <1>4, <1>5 DEF Length
<1>7. \A i \in Slots : Depth(i)' = IF Depth(i) < n THEN Depth(i) - n + m_iMaxSize ELSE Depth(i) - n
  BY <1>4, <1>5 DEF Depth
<1>8. Size(m_iFront) = n /\ Length = L
  OBVIOUS
<1> HIDE DEF f, n, L
<1>9. \A i \in Slots : m_nodes'[i] = IF Depth(i) < n THEN NewNode ELSE m_nodes[i]
  BY <1>4, <1>5
<1>10. RingTypes'
  <2>1. NewNode \in Node
    BY <1>3, ShareQueueAssumption DEF NewNode, Node, Slots
  <2>2. \A i \in Slots : m_nodes'[i] \in Node
    BY <1>3, <1>9, <2>1
  <2>3. m_nodes' \in [Slots -> Node]
    BY <1>4, <2>2
  <2> QED BY <1>3, <1>4, <1>5, <2>3 DEF RingTypes
<1>11. \A i \in Slots : /\ i \in Used <=> Depth(i) < L
                        /\ i \in Used' <=> n <= Depth(i) /\ Depth(i) < L
  <2>1. ASSUME NEW i \in Slots
        PROVE  i \in Used' <=> n <= Depth(i) /\ Depth(i) < L
    <3>1. i \in Used' <=> Depth(i)' < Length'
      BY DEF Used, Depth, Length
    <3>2. Depth(i)' = IF Depth(i) < n THEN Depth(i) - n + m_iMaxSize ELSE Depth(i) - n
      BY <1>7
    <3> QED BY <1>3, <1>6, <3>1, <3>2
  <2>2. ASSUME NEW i \in Slots PROVE i \in Used <=> Depth(i) < L
    BY <1>8 DEF Used, Depth, Length
  <2> QED BY <2>1, <2>2
<1>12. ASSUME NEW i \in Starts
       PROVE  /\ i \in Slots /\ Depth(i) < L /\ Size(i) \in Nat
              /\ m_nodes[i].msg \in Messages
              /\ m_nodes[i].m_nodes = Size(i) /\ Depth(i) + Size(i) <= L
              /\ \A j \in Slots : Depth(i) <= Depth(j) /\ Depth(j) < Depth(i) + Size(i) =>
                   m_nodes[j].msg = m_nodes[i].msg /\ m_nodes[j].piece = Depth(j) - Depth(i)
  <2>2. i \in Slots /\ Depth(i) < L
    BY <1>11 DEF Starts, Used
  <2>3. m_nodes[i].msg \in Messages
    BY <1>1 DEF Whole
  <2>4. Size(i) \in Nat
    BY <2>3, ShareQueueAssumption DEF Size
  <2>5. /\ m_nodes[i].m_nodes = Size(i) /\ Depth(i) + Size(i) <= L
        /\ \A j \in Slots : Depth(i) <= Depth(j) /\ Depth(j) < Depth(i) + Size(i) =>
             m_nodes[j].msg = m_nodes[i].msg /\ m_nodes[j].piece = Depth(j) - Depth(i)
    BY <1>1, <1>8, Zenon DEF Whole
  <2> QED BY <2>2, <2>3, <2>4, <2>5
\* Only the front is the start of a message among the first n nodes.
<1>13. \A i \in Starts : Depth(i) < n => i = m_iFront
  <2>1. ASSUME NEW i \in Starts, Depth(i) < n PROVE i = m_iFront
    <3>1. i \in Slots /\ m_nodes[i].piece = 0
      BY <1>12 DEF Starts
    <3>2. Depth(i) \in Nat
      BY <1>3, <3>1
    <3>3. Depth(m_iFront) <= Depth(i) /\ Depth(i) < Depth(m_iFront) + Size(m_iFront)
      BY <1>3, <1>8, <2>1, <3>2
    <3>4. m_nodes[i].piece = Depth(i) - Depth(m_iFront)
      BY <1>2, <1>12, <3>1, <3>3
    <3>5. Depth(i) = Depth(m_iFront)
      BY <1>3, <3>1, <3>2, <3>4
    <3> QED BY <1>1, <1>3, <3>1, <3>5, DepthIs DEF f
  <2> QED BY <2>1
<1>14. \A i \in Slots : i \in Starts' <=> i \in Starts /\ n <= Depth(i)
  <2>1. ASSUME NEW i \in Slots PROVE i \in Starts' <=> i \in Starts /\ n <= Depth(i)
    <3>1. i \in Starts' <=> n <= Depth(i) /\ Depth(i) < L /\ m_nodes'[i].piece = 0
      BY <1>11 DEF Starts
    <3>2. i \in Starts <=> Depth(i) < L /\ m_nodes[i].piece = 0
      BY <1>11 DEF Starts
    <3>3. n <= Depth(i) => m_nodes'[i] = m_nodes[i]
      BY <1>3, <1>9
    <3> QED BY <3>1, <3>2, <3>3
  <2> QED BY <2>1
<1>15. Starts' = Starts \ {m_iFront}
  <2>1. Starts \subseteq Slots /\ Starts' \subseteq Slots
    BY DEF Starts, Used
  <2>2. ASSUME NEW i \in Slots PROVE i \in Starts' <=> i \in Starts /\ i # m_iFront
    <3>1. Depth(i) \in Nat
      BY <1>3
    <3> QED BY <1>3, <1>13, <1>14, <3>1
  <2> QED BY <2>1, <2>2
<1>16. \A i \in Starts' : /\ i \in Starts /\ i \in Slots /\ n <= Depth(i)
                          /\ Depth(i)' = Depth(i) - n
                          /\ m_nodes'[i] = m_nodes[i]
                          /\ Size(i)' = Size(i)
  <2>1. TAKE i \in Starts'
  <2>2. i \in Starts /\ i \in Slots /\ n <= Depth(i)
    BY <1>12, <1>14, <1>15
  <2>3. ~(Depth(i) < n)
    BY <1>3, <2>2
  <2>4. m_nodes'[i] = m_nodes[i] /\ Depth(i)' = Depth(i) - n
    BY <1>7, <1>9, <2>2, <2>3
  <2> QED BY <2>2, <2>4 DEF Size
<1>17. Whole'
  <2>1. ASSUME NEW i \in Starts'
        PROVE  /\ m_nodes'[i].msg \in Messages /\ m_nodes'[i].m_nodes = Size(i)'
               /\ Depth(i)' + Size(i)' <= Length'
               /\ \A j \in Slots : Depth(i)' <= Depth(j)' /\ Depth(j)' < Depth(i)' + Size(i)' =>
                    m_nodes'[j].msg = m_nodes'[i].msg /\ m_nodes'[j].piece = Depth(j)' - Depth(i)'
    <3>1. /\ i \in Starts /\ i \in Slots /\ n <= Depth(i) /\ Depth(i)' = Depth(i) - n
          /\ m_nodes'[i] = m_nodes[i] /\ Size(i)' = Size(i)
      BY <1>16
    <3>2. /\ Size(i) \in Nat /\ m_nodes[i].msg \in Messages
          /\ m_nodes[i].m_nodes = Size(i) /\ Depth(i) + Size(i) <= L
          /\ \A j \in Slots : Depth(i) <= Depth(j) /\ Depth(j) < Depth(i) + Size(i) =>
               m_nodes[j].msg = m_nodes[i].msg /\ m_nodes[j].piece = Depth(j) - Depth(i)
      BY <1>12, <3>1
    <3>3. Depth(i) \in Nat
      BY <1>3, <3>1
    <3>4. Depth(i)' + Size(i)' <= Length'
      BY <1>3, <1>6, <3>1, <3>2, <3>3
    <3>5. ASSUME NEW j \in Slots, Depth(i)' <= Depth(j)', Depth(j)' < Depth(i)' + Size(i)'
          PROVE  m_nodes'[j].msg = m_nodes'[i].msg /\ m_nodes'[j].piece = Depth(j)' - Depth(i)'
      <4>1. /\ Depth(j) \in Nat
            /\ Depth(j)' = IF Depth(j) < n THEN Depth(j) - n + m_iMaxSize ELSE Depth(j) - n
        BY <1>3, <1>7
      <4>2. n <= Depth(j)
        BY <1>3, <3>1, <3>2, <3>3, <3>5, <4>1
      <4>3. /\ Depth(j)' = Depth(j) - n
            /\ Depth(i) <= Depth(j) /\ Depth(j) < Depth(i) + Size(i)
            /\ Depth(j)' - Depth(i)' = Depth(j) - Depth(i)
            /\ ~(Depth(j) < n)
        BY <1>3, <3>1, <3>2, <3>3, <3>5, <4>1, <4>2
      <4>4. m_nodes'[j] = m_nodes[j]
        BY <1>9, <4>3
      <4> QED BY <3>1, <3>2, <4>3, <4>4
    <3> QED BY <3>1, <3>2, <3>4, <3>5
  <2> QED BY <2>1, Zenon DEF Whole
<1>18. Filled'
  <2>1. ASSUME NEW j \in Used'
        PROVE  \E i \in Starts' : Depth(i)' <= Depth(j)' /\ Depth(j)' < Depth(i)' + Size(i)'
    <3>1. j \in Slots
      BY DEF Used
    <3>2. n <= Depth(j) /\ Depth(j) < L /\ Depth(j) \in Nat /\ j \in Used
      BY <1>3, <1>11, <3>1
    <3>3. Depth(j)' = Depth(j) - n
      BY <1>3, <1>7, <3>1, <3>2
    <3>4. PICK i \in Starts : Depth(i) <= Depth(j) /\ Depth(j) < Depth(i) + Size(i)
      BY <1>1, <3>2 DEF Filled
    <3>5. i # m_iFront
      BY <1>3, <1>8, <3>2, <3>4
    <3>6. PICK k \in Starts' : k = i
      BY <1>15, <3>5
    <3>7. /\ k \in Slots /\ Depth(k)' = Depth(k) - n /\ Size(k)' = Size(k)
          /\ Depth(k) \in Nat /\ Size(k) \in Nat
          /\ Depth(k) <= Depth(j) /\ Depth(j) < Depth(k) + Size(k)
      BY <1>3, <1>12, <1>16, <3>4, <3>6
    <3>8. Depth(k)' <= Depth(j)' /\ Depth(j)' < Depth(k)' + Size(k)'
      BY <1>3, <3>2, <3>3, <3>7
    <3> QED BY <3>8
  <2> QED BY <2>1, Zenon DEF Filled
<1>19. Distance(m_iFront, m_iRear)' = Length - Size(m_iFront)
  BY <1>6, <1>8 DEF Length
<1>20. \A i \in Starts' : /\ m_nodes'[i].msg = m_nodes[i].msg
                          /\ Depth(i)' = Depth(i) - Size(m_iFront)
                          /\ Size(m_iFront) <= Depth(i)
  BY <1>8, <1>16
<1> QED BY <1>2, <1>3, <1>4, <1>10, <1>15, <1>17, <1>18, <1>19, <1>20 DEF RingInv

-----------------------------------------------------------------------------
(* The messages of the ring as a sequence, ordered by how far their first   *)
(* nodes are from node f                                                     *)

Lower(S, f, i) == {j \in S : Distance(f, j) < Distance(f, i)}
Rank(S, f, i) == Cardinality(Lower(S, f, i))
MessagesFrom(N, S, f) ==
  [k \in 1 .. Cardinality(S) |-> N[CHOOSE i \in S : Rank(S, f, i) = k - 1].msg]

\* What an enqueue and a dequeue do to them.
Appends(new, old, m) == new = Append(old, m)
Takes(new, old, m) == old # << >> /\ Head(old) = m /\ new = Tail(old)

LEMMA ItemsFrom == itemsMap = MessagesFrom(m_nodes, Starts, m_iFront)
BY DEF itemsMap, MessagesFrom, Rank, Lower, Before

LEMMA ItemsFromNext == itemsMap' = MessagesFrom(m_nodes', Starts', m_iFront')
BY DEF itemsMap, MessagesFrom, Rank, Lower, Before

LEMMA FiniteSlots ==
  ASSUME NEW S \in SUBSET Slots
  PROVE  IsFiniteSet(S) /\ Cardinality(S) \in Nat
<1>1. IsFiniteSet(Slots)
  BY FS_Interval, ShareQueueAssumption DEF Slots
<1>2. IsFiniteSet(S)
  BY <1>1, FS_Subset
<1> QED BY <1>2, FS_CardinalityType

\* Each of the n nodes in S has another one of the ranks 0 .. n - 1.
LEMMA Ranks ==
  ASSUME NEW f \in Slots, NEW S \in SUBSET Slots
  PROVE  /\ \A i \in S : Rank(S, f, i) \in 0 .. Cardinality(S) - 1
         /\ \A i, j \in S : Rank(S, f, i) = Rank(S, f, j) => i = j
         /\ \A k \in 1 .. Cardinality(S) : \E i \in S : Rank(S, f, i) = k - 1
<1>1. IsFiniteSet(S) /\ Cardinality(S) \in Nat
  BY FiniteSlots
<1>2. \A i \in S : Distance(f, i) \in Nat
  <2>1. \A i \in S : Distance(f, i) \in Slots
    BY Circle
  <2> QED BY <2>1 DEF Slots
<1>3. ASSUME NEW i \in S PROVE Rank(S, f, i) \in Nat /\ Rank(S, f, i) < Cardinality(S)
  <2>1. Lower(S, f, i) \in SUBSET S /\ i \notin Lower(S, f, i)
    BY <1>2 DEF Lower
  <2>2. Lower(S, f, i) \in SUBSET Slots /\ Lower(S, f, i) # S
    BY <2>1
  <2>3. Cardinality(Lower(S, f, i)) \in Nat
    BY <2>2, FiniteSlots
  <2>4. Cardinality(Lower(S, f, i)) <= Cardinality(S) /\ Cardinality(Lower(S, f, i)) # Cardinality(S)
    BY <1>1, <2>1, <2>2, FS_Subset
  <2> QED BY <1>1, <2>3, <2>4 DEF Rank
<1>4. ASSUME NEW i \in S, NEW j \in S, Distance(f, i) < Distance(f, j)
      PROVE  Rank(S, f, i) < Rank(S, f, j)
  <2>1. Lower(S, f, i) \in SUBSET Lower(S, f, j) /\ i \in Lower(S, f, j) /\ i \notin Lower(S, f, i)
    BY <1>2, <1>4 DEF Lower
  <2>2. Lower(S, f, j) \in SUBSET Slots /\ Lower(S, f, i) \in SUBSET Slots
    BY DEF Lower
  <2>3. /\ IsFiniteSet(Lower(S, f, j))
        /\ Cardinality(Lower(S, f, j)) \in Nat /\ Cardinality(Lower(S, f, i)) \in Nat
    BY <2>2, FiniteSlots
  <2>4. /\ Cardinality(Lower(S, f, i)) <= Cardinality(Lower(S, f, j))
        /\ Cardinality(Lower(S, f, i)) # Cardinality(Lower(S, f, j))
    BY <2>1, <2>3, FS_Subset
  <2> QED BY <2>3, <2>4 DEF Rank
<1>5. ASSUME NEW i \in S, NEW j \in S, Rank(S, f, i) = Rank(S, f, j) PROVE i = j
  <2>1. Rank(S, f, i) \in Nat /\ Rank(S, f, j) \in Nat
    BY <1>3
  <2>2. ~(Distance(f, i) < Distance(f, j)) /\ ~(Distance(f, j) < Distance(f, i))
    BY <1>4, <1>5, <2>1
  <2>3. Distance(f, i) = Distance(f, j)
    BY <1>2, <2>2
  <2>4. i \in Slots /\ j \in Slots
    OBVIOUS
  <2> QED BY <2>3, <2>4, Circle
<1> DEFINE n == Cardinality(S)
           rank == [i \in S |-> Rank(S, f, i)]
<1>6. \A i \in S : Rank(S, f, i) \in 0 .. n - 1
  BY <1>1, <1>3
<1>7. IsFiniteSet(0 .. n - 1) /\ Cardinality(0 .. n - 1) = n
  BY <1>1, FS_Interval
<1>8. rank \in Injection(S, 0 .. n - 1)
  <2>1. rank \in [S -> 0 .. n - 1]
    BY <1>6
  <2>2. \A i, j \in S : rank[i] = rank[j] => i = j
    BY <1>5
  <2> QED BY <2>1, <2>2 DEF Injection, IsInjective
<1>9. rank \in Surjection(S, 0 .. n - 1)
  <2> HIDE DEF rank, n
  <2> QED BY <1>7, <1>8, FS_Injection DEF n
<1>10. ASSUME NEW k \in 1 .. n PROVE \E i \in S : Rank(S, f, i) = k - 1
  <2>1. k - 1 \in 0 .. n - 1
    BY <1>1
  <2>2. PICK i \in S : rank[i] = k - 1
    BY <1>9, <2>1 DEF Surjection
  <2> QED BY <2>2
<1> QED BY <1>5, <1>6, <1>10

LEMMA MessageAt ==
  ASSUME NEW f \in Slots, NEW S \in SUBSET Slots, NEW N,
         NEW k \in 1 .. Cardinality(S), NEW i \in S, Rank(S, f, i) = k - 1
  PROVE  MessagesFrom(N, S, f)[k] = N[i].msg
<1>1. MessagesFrom(N, S, f)[k] = N[CHOOSE x \in S : Rank(S, f, x) = k - 1].msg
  BY Zenon DEF MessagesFrom
<1> DEFINE j == CHOOSE x \in S : Rank(S, f, x) = k - 1
<1>2. j \in S /\ Rank(S, f, j) = k - 1
  OBVIOUS
<1>3. j = i
  <2> HIDE DEF j
  <2> QED BY <1>2, Ranks
<1> QED BY <1>1, <1>3

LEMMA MessagesTyped ==
  ASSUME NEW f \in Slots, NEW S \in SUBSET Slots, NEW N, \A i \in S : N[i].msg \in Messages
  PROVE  /\ MessagesFrom(N, S, f) \in Seq(Messages)
         /\ Len(MessagesFrom(N, S, f)) = Cardinality(S)
         /\ DOMAIN MessagesFrom(N, S, f) = 1 .. Cardinality(S)
<1>1. Cardinality(S) \in Nat
  BY FiniteSlots
<1>2. ASSUME NEW k \in 1 .. Cardinality(S)
      PROVE  N[CHOOSE i \in S : Rank(S, f, i) = k - 1].msg \in Messages
  <2>1. \E i \in S : Rank(S, f, i) = k - 1
    BY Ranks
  <2>2. (CHOOSE i \in S : Rank(S, f, i) = k - 1) \in S
    BY <2>1
  <2> QED BY <2>2
<1>3. MessagesFrom(N, S, f) \in [1 .. Cardinality(S) -> Messages]
  BY <1>2 DEF MessagesFrom
<1>4. DOMAIN MessagesFrom(N, S, f) = 1 .. Cardinality(S)
  BY DEF MessagesFrom
<1>5. MessagesFrom(N, S, f) \in Seq(Messages)
  BY <1>1, <1>3, SeqDef
<1> QED BY <1>1, <1>4, <1>5, LenProperties

\* A message behind all others comes last.
LEMMA LastMessage ==
  ASSUME NEW f \in Slots, NEW S \in SUBSET Slots, NEW r \in Slots \ S, NEW N, NEW N2,
         \A i \in S : /\ N[i].msg \in Messages /\ N2[i].msg = N[i].msg
                      /\ Distance(f, i) < Distance(f, r),
         N2[r].msg \in Messages
  PROVE  Appends(MessagesFrom(N2, S \cup {r}, f), MessagesFrom(N, S, f), N2[r].msg)
<1> DEFINE T == S \cup {r}
           n == Cardinality(S)
           new == MessagesFrom(N2, T, f)
           old == MessagesFrom(N, S, f)
           m == N2[r].msg
<1>1. T \in SUBSET Slots /\ IsFiniteSet(S) /\ n \in Nat /\ r \in T /\ r \notin S
  BY FiniteSlots
<1>2. Cardinality(T) = n + 1
  BY <1>1, FS_AddElement
<1>3. /\ new \in Seq(Messages) /\ Len(new) = n + 1
      /\ old \in Seq(Messages) /\ Len(old) = n
  <2>1. \A i \in T : N2[i].msg \in Messages
    OBVIOUS
  <2>2. new \in Seq(Messages) /\ Len(new) = n + 1
    <3> HIDE DEF T, n
    <3> QED BY <1>1, <1>2, <2>1, MessagesTyped
  <2> QED BY <2>2, MessagesTyped
<1>4. \A i \in T : Distance(f, i) \in Nat
  <2>1. \A i \in T : Distance(f, i) \in Slots
    BY <1>1, Circle
  <2> QED BY <2>1 DEF Slots
<1>5. ASSUME NEW i \in S PROVE Rank(T, f, i) = Rank(S, f, i)
  <2>1. Lower(T, f, i) = Lower(S, f, i)
    BY <1>1, <1>4 DEF Lower
  <2> QED BY <2>1 DEF Rank
<1>6. Rank(T, f, r) = n
  <2>1. Lower(T, f, r) = S
    BY <1>1, <1>4 DEF Lower
  <2> QED BY <2>1 DEF Rank
<1>7. new[n + 1] = m
  <2>1. n + 1 \in 1 .. Cardinality(T) /\ Rank(T, f, r) = n + 1 - 1
    BY <1>1, <1>2, <1>6
  <2> HIDE DEF T, n
  <2> QED BY <1>1, <2>1, MessageAt
<1>8. ASSUME NEW k \in 1 .. n PROVE new[k] = old[k]
  <2>1. PICK i \in S : Rank(S, f, i) = k - 1
    BY Ranks
  <2>2. Rank(T, f, i) = k - 1 /\ i \in T /\ k \in 1 .. Cardinality(T)
    <3>1. k \in 1 .. n + 1
      BY <1>1
    <3> QED BY <1>2, <1>5, <2>1, <3>1
  <2>3. old[k] = N[i].msg
    BY <2>1, MessageAt
  <2>4. new[k] = N2[i].msg
    <3> HIDE DEF T, n
    <3> QED BY <1>1, <2>2, MessageAt
  <2> QED BY <2>3, <2>4
<1>9. m \in Messages
  OBVIOUS
<1> HIDE DEF new, old, n, m, T
<1>10. /\ Append(old, m) \in Seq(Messages) /\ Len(Append(old, m)) = n + 1
       /\ \A k \in 1 .. n : Append(old, m)[k] = old[k]
       /\ Append(old, m)[n + 1] = m
  BY <1>1, <1>3, <1>9, AppendProperties
<1>11. \A k \in 1 .. n + 1 : new[k] = Append(old, m)[k]
  BY <1>1, <1>7, <1>8, <1>10
<1>12. new = Append(old, m)
  BY <1>1, <1>3, <1>10, <1>11, SeqEqual
<1> QED BY <1>12 DEF new, old, m, T, Appends

\* The message at node f itself comes first; without it, seen from another node
\* that is n nodes ahead, the others keep their order.
LEMMA FirstMessage ==
  ASSUME NEW f \in Slots, NEW S \in SUBSET Slots, f \in S, NEW N, NEW N2,
         NEW g \in Slots, NEW n \in Nat,
         \A i \in S : N[i].msg \in Messages,
         \A i \in S \ {f} : N2[i].msg = N[i].msg /\ Distance(g, i) = Distance(f, i) - n
  PROVE  Takes(MessagesFrom(N2, S \ {f}, g), MessagesFrom(N, S, f), N[f].msg)
<1> DEFINE T == S \ {f}
           l == Cardinality(S)
           new == MessagesFrom(N2, T, g)
           old == MessagesFrom(N, S, f)
<1>1. T \in SUBSET Slots /\ IsFiniteSet(S) /\ l \in Nat /\ IsFiniteSet(T) /\ Cardinality(T) \in Nat
  BY FiniteSlots
<1>2. Cardinality(T) = l - 1
  BY <1>1, FS_RemoveElement
<1>3. /\ new \in Seq(Messages) /\ Len(new) = l - 1
      /\ old \in Seq(Messages) /\ Len(old) = l
  <2>1. \A i \in T : N2[i].msg \in Messages
    OBVIOUS
  <2>2. new \in Seq(Messages) /\ Len(new) = l - 1
    <3> HIDE DEF T, l
    <3> QED BY <1>1, <1>2, <2>1, MessagesTyped
  <2> QED BY <2>2, MessagesTyped
<1>4. /\ \A i \in S : Distance(f, i) \in Nat
      /\ Distance(f, f) = 0
      /\ \A i \in T : Distance(f, i) > 0
  <2>1. /\ \A i \in S : Distance(f, i) \in Slots
        /\ Distance(f, f) = 0
        /\ \A i \in S : Distance(f, i) = Distance(f, f) => i = f
    BY Circle
  <2>2. \A k \in Slots : k \in Nat /\ (k # 0 => k > 0)
    BY DEF Slots
  <2> QED BY <2>1, <2>2
<1>5. Rank(S, f, f) = 0
  <2>1. Lower(S, f, f) = {}
    BY <1>4 DEF Lower
  <2> QED BY <2>1, FS_EmptySet DEF Rank
<1>6. ASSUME NEW i \in T PROVE Rank(T, g, i) = Rank(S, f, i) - 1
  <2>1. Lower(T, g, i) = Lower(S, f, i) \ {f}
    BY <1>4 DEF Lower
  <2>2. f \in Lower(S, f, i)
    BY <1>4 DEF Lower
  <2>3. IsFiniteSet(Lower(S, f, i))
    <3>1. Lower(S, f, i) \in SUBSET Slots
      BY DEF Lower
    <3> QED BY <3>1, FiniteSlots
  <2>4. Cardinality(Lower(S, f, i) \ {f}) = Cardinality(Lower(S, f, i)) - 1
    BY <2>2, <2>3, FS_RemoveElement
  <2> HIDE DEF T
  <2> QED BY <2>1, <2>4 DEF Rank
<1>7. old[1] = N[f].msg /\ 1 \in 1 .. l
  <2>1. Rank(S, f, f) \in 0 .. l - 1
    BY Ranks
  <2>2. 1 \in 1 .. l /\ 1 - 1 = 0
    BY <1>1, <2>1
  <2> QED BY <1>5, <2>2, MessageAt
<1>8. ASSUME NEW k \in 1 .. l - 1 PROVE new[k] = old[k + 1]
  <2>1. k + 1 \in 1 .. l /\ k + 1 - 1 = k /\ k # 0 /\ k \in 1 .. Cardinality(T)
    BY <1>1, <1>2
  <2>2. PICK i \in S : Rank(S, f, i) = k + 1 - 1
    BY <2>1, Ranks
  <2>3. i \in T
    BY <1>5, <2>1, <2>2
  <2>4. Rank(T, g, i) = k - 1
    BY <1>6, <2>1, <2>2, <2>3
  <2>5. old[k + 1] = N[i].msg
    BY <2>1, <2>2, MessageAt
  <2>6. new[k] = N2[i].msg
    <3> HIDE DEF T
    <3> QED BY <1>1, <2>1, <2>3, <2>4, MessageAt
  <2> QED BY <2>3, <2>5, <2>6
<1> HIDE DEF new, old, l, T
<1>9. old # << >> /\ Head(old) = N[f].msg
  BY <1>1, <1>3, <1>7, EmptySeq, HeadTailProperties
<1>10. /\ Tail(old) \in Seq(Messages) /\ Len(Tail(old)) = l - 1
       /\ \A k \in 1 .. l - 1 : Tail(old)[k] = old[k + 1]
  BY <1>1, <1>3, <1>9, HeadTailProperties
<1>11. new = Tail(old)
  BY <1>3, <1>8, <1>10, SeqEqual
<1> QED BY <1>9, <1>11 DEF new, old, T, Takes

-----------------------------------------------------------------------------
(* What the processes hold *)

RestOK ==
  /\ m_mutex \in Processes \cup {Free}
  /\ m_bShutDown \in BOOLEAN
  /\ missed \subseteq Processes
  /\ spurious \in 0 .. MaxSpurious

\* The steps of a producer with a message that is not in the ring yet.
Offering == {"lock", "test", "doWait", "asleep"}

\* The steps of a consumer with a message that it has not worked off yet.
Busy == {"unlock", "task"}

MsgInv ==
  /\ msg \in [Processes -> Messages \cup {NoMessage}]
  /\ \A p \in Producers : pc[p] \in Offering => msg[p] \in Messages
  /\ \A c \in Consumers : pc[c] \in Busy => msg[c] \in Messages

Working == {c \in Consumers : pc[c] \in Busy}

Conserved ==
  /\ open \in Int
  /\ open - Cardinality(Starts) - Cardinality(Working) \in 0 .. Cardinality(Killed)

QInv == IInv /\ RestOK /\ RingInv /\ MsgInv /\ Conserved

LEMMA StartsFinite == IsFiniteSet(Starts) /\ Cardinality(Starts) \in Nat /\ Starts \subseteq Slots
<1>1. Starts \in SUBSET Slots
  BY DEF Starts, Used
<1> QED BY <1>1, FiniteSlots

LEMMA PartFinite ==
  ASSUME NEW S \in SUBSET Consumers
  PROVE  IsFiniteSet(S) /\ Cardinality(S) \in Nat
BY FS_Subset, FS_CardinalityType, ShareQueueAssumption

LEMMA CountsAreNat ==
  /\ IsFiniteSet(Working) /\ Cardinality(Working) \in Nat
  /\ IsFiniteSet(Killed) /\ Cardinality(Killed) \in Nat
<1>1. Working \in SUBSET Consumers /\ Killed \in SUBSET Consumers
  BY DEF Working, Killed
<1> QED BY <1>1, PartFinite

LEMMA CountsAreNatNext ==
  /\ IsFiniteSet(Working') /\ Cardinality(Working') \in Nat
  /\ IsFiniteSet(Killed') /\ Cardinality(Killed') \in Nat
<1>1. Working' \in SUBSET Consumers /\ Killed' \in SUBSET Consumers
  BY DEF Working, Killed
<1> QED BY <1>1, PartFinite

LEMMA SameRing ==
  ASSUME UNCHANGED ring
  PROVE  Starts' = Starts /\ (RingInv => RingInv') /\ itemsMap' = itemsMap
<1>1. m_nodes' = m_nodes /\ m_iFront' = m_iFront /\ m_iRear' = m_iRear
  BY DEF ring
<1>2. Starts' = Starts
  BY <1>1 DEF Starts, Used
<1>3. RingInv => RingInv'
  <2>1. RingTypes => RingTypes'
    BY <1>1 DEF RingTypes
  <2>2. Used' = Used
    BY <1>1 DEF Used
  <2>3. Whole => Whole'
    BY <1>1, <1>2 DEF Whole, Size, Depth, Length
  <2>4. Filled => Filled'
    BY <1>1, <1>2, <2>2 DEF Filled, Size, Depth
  <2> QED BY <2>1, <2>3, <2>4 DEF RingInv
<1>4. itemsMap' = itemsMap
  BY <1>1, <1>2, ItemsFrom, ItemsFromNext
<1> QED BY <1>2, <1>3, <1>4

LEMMA InitQInv == Init => QInv
<1> SUFFICES ASSUME Init PROVE QInv
  OBVIOUS
<1>1. IInv
  BY InitIInv
<1>2. RestOK
  <2>1. MaxSpurious \in Nat
    BY ShareQueueAssumption
  <2>2. m_mutex = Free /\ missed = {} /\ spurious = 0
    BY DEF Init
  <2>3. m_bShutDown \in BOOLEAN
    BY Zenon DEF Init
  <2> QED BY <2>1, <2>2, <2>3 DEF RestOK
<1>3. 0 \in Slots /\ m_iFront = 0 /\ m_iRear = 0 /\ m_nodes = [i \in Slots |-> NewNode]
  BY ShareQueueAssumption DEF Init, Slots
<1>4. RingTypes
  BY <1>3 DEF RingTypes, Node, NewNode
<1>5. Length = 0 /\ \A i \in Slots : Depth(i) \in Nat
  <2>1. Length = 0
    BY <1>3, Circle DEF Length
  <2>2. \A i \in Slots : Depth(i) \in Slots /\ Slots \subseteq Nat
    BY <1>4, DepthIs
  <2> QED BY <2>1, <2>2
<1>6. Used = {} /\ Starts = {}
  BY <1>5 DEF Used, Starts, Length, Depth
<1>7. RingInv
  BY <1>4, <1>6 DEF RingInv, Whole, Filled
<1>8. MsgInv
  BY DEF Init, MsgInv, Offering, Busy, Processes
<1>9. Conserved
  <2>1. Working = {} /\ Killed = {} /\ open = 0
    BY DEF Init, Working, Killed, Busy, Processes
  <2> QED BY <1>6, <2>1, FS_EmptySet DEF Conserved
<1> QED BY <1>1, <1>2, <1>7, <1>8, <1>9 DEF QInv

\* Nobody begins or ends to hold a message.
Quiet ==
  /\ UNCHANGED <<ring, msg, open>>
  /\ \A p \in Producers : pc'[p] \in Offering => pc[p] \in Offering
  /\ \A c \in Consumers : /\ pc'[c] \in Busy <=> pc[c] \in Busy
                          /\ pc'[c] = "killed" <=> pc[c] = "killed"

LEMMA QuietKeeps == RingInv /\ MsgInv /\ Conserved /\ Quiet => (RingInv /\ MsgInv /\ Conserved)'
<1> SUFFICES ASSUME RingInv, MsgInv, Conserved, Quiet
             PROVE  (RingInv /\ MsgInv /\ Conserved)'
  OBVIOUS
<1>1. RingInv' /\ Starts' = Starts
  BY SameRing DEF Quiet
<1>2. MsgInv'
  BY DEF MsgInv, Quiet
<1>3. Working' = Working /\ Killed' = Killed
  BY DEF Quiet, Working, Killed
<1>4. Conserved'
  BY <1>1, <1>3 DEF Conserved, Quiet
<1> QED BY <1>1, <1>2, <1>4

\* The steps that only take and give back the mutex, wait, or find out that they
\* cannot go on.
LEMMA CallsAreQuiet ==
  ASSUME PcOK, NEW p \in Processes, Lock(p) \/ CondWait(p) \/ Spurious(p)
  PROVE  Quiet /\ \A q \in Producers : pc'[q] \in Offering <=> pc[q] \in Offering
<1> USE DEF Quiet, Offering, Busy, Processes
<1>1. CASE Lock(p)
  BY <1>1, GotoPc DEF Lock, Steps
<1>2. CASE CondWait(p)
  BY <1>2, GotoPc DEF CondWait, Steps
<1>3. CASE Spurious(p)
  BY <1>3, GotoPc DEF Spurious, Steps
<1> QED BY <1>1, <1>2, <1>3

LEMMA NoRoomIsQuiet ==
  ASSUME PcOK, NEW p \in Producers, EnqNoRoom(p)
  PROVE  /\ Quiet
         /\ \A q \in Producers : q # p => pc'[q] = pc[q]
         /\ pc[p] = "test" /\ pc'[p] \in {"doWait", "giveUp"}
BY GotoPc, ShareQueueAssumption
   DEF EnqNoRoom, WaitOrGiveUp, Steps, Quiet, Offering, Busy, Processes

LEMMA ConsumerIsQuiet ==
  ASSUME PcOK, NEW c \in Consumers, DeqCall(c) \/ DeqNothing(c) \/ DeqReturn(c)
  PROVE  Quiet /\ \A q \in Producers : pc'[q] = pc[q]
<1>0. c \in Processes /\ \A q \in Producers : q # c /\ q \in Processes
  BY ShareQueueAssumption DEF Processes
<1>1. \A d \in Consumers : d \in Processes
  BY DEF Processes
<1> USE <1>0, <1>1 DEF Quiet, Offering, Busy
<1>2. CASE DeqCall(c)
  BY <1>2, GotoPc DEF DeqCall, Steps
<1>3. CASE DeqNothing(c)
  BY <1>3, GotoPc DEF DeqNothing, WaitOrGiveUp, Steps
<1>4. CASE DeqReturn(c)
  BY <1>4, GotoPc DEF DeqReturn, Steps
<1> QED BY <1>2, <1>3, <1>4

LEMMA ShutdownIsQuiet ==
  ASSUME PcOK, Shutdown
  PROVE  Quiet /\ \A q \in Producers : pc'[q] \in Offering <=> pc[q] \in Offering
<1> USE DEF Quiet, Offering, Busy, Processes
<1>1. CASE ShutdownFlag
  BY <1>1 DEF ShutdownFlag
<1>2. CASE ShutdownBroadcast("notEmpty", "notFull", Consumers)
  BY <1>2, WakeAllPc DEF ShutdownBroadcast
<1>3. CASE ShutdownBroadcast("notFull", "done", Producers)
  BY <1>3, WakeAllPc DEF ShutdownBroadcast
<1> QED BY <1>1, <1>2, <1>3 DEF Shutdown

LEMMA RestStep == RestOK /\ [Next]_vars => RestOK'
<1> SUFFICES ASSUME RestOK, [Next]_vars PROVE RestOK'
  OBVIOUS
<1> USE DEF RestOK
<1>1. CASE UNCHANGED vars
  BY <1>1 DEF vars
<1>2. ASSUME NEW p \in Processes, Lock(p) \/ CondWait(p) \/ Spurious(p) PROVE RestOK'
  BY <1>2, ShareQueueAssumption DEF Lock, CondWait, Spurious
<1>3. ASSUME NEW p \in Producers,
             \/ EnqNoRoom(p) \/ EnqCopy(p) \/ EnqReturn(p)
             \/ \E m \in Messages : EnqCall(p, m)
      PROVE  RestOK'
  BY <1>3 DEF EnqNoRoom, EnqCopy, EnqReturn, EnqCall
<1>4. ASSUME NEW c \in Consumers,
             \/ DeqCall(c) \/ DeqNothing(c) \/ DeqCopy(c) \/ DeqReturn(c) \/ DoTask(c)
             \/ Kill(c)
      PROVE  RestOK'
  BY <1>4 DEF DeqCall, DeqNothing, DeqCopy, DeqReturn, DoTask, Kill
<1>5. CASE Shutdown
  BY <1>5 DEF Shutdown, ShutdownFlag, ShutdownBroadcast, Processes
<1> QED BY <1>1, <1>2, <1>3, <1>4, <1>5 DEF Next, Enqueue, Dequeue, Processes

-----------------------------------------------------------------------------
(* The steps that put a message into a process, or take it out of it *)

LEMMA EnqCallKeeps ==
  ASSUME QInv, NEW p \in Producers, NEW m \in Messages, EnqCall(p, m)
  PROVE  (RingInv /\ MsgInv /\ Conserved)'
<1>1. PcOK /\ RingInv /\ MsgInv /\ Conserved /\ p \in Processes
  BY DEF QInv, IInv, Processes
<1>2. \A c \in Consumers : c # p /\ c \in Processes
  BY ShareQueueAssumption DEF Processes
<1>3. /\ pc' \in [Processes -> Steps] /\ pc'[p] = "lock" /\ pc[p] = "idle"
      /\ \A q \in Processes : q # p => pc'[q] = pc[q]
  BY <1>1, GotoPc DEF EnqCall, Steps
<1>4. UNCHANGED <<ring, open>> /\ msg' = [msg EXCEPT ![p] = m]
  BY DEF EnqCall
<1>5. MsgInv'
  BY <1>1, <1>2, <1>3, <1>4 DEF MsgInv, Processes
<1>6. Starts' = Starts /\ RingInv'
  BY <1>1, <1>4, SameRing
<1>7. Working' = Working /\ Killed' = Killed
  BY <1>2, <1>3 DEF Working, Killed
<1> QED BY <1>1, <1>4, <1>5, <1>6, <1>7 DEF Conserved

LEMMA EnqReturnKeeps ==
  ASSUME QInv, NEW p \in Producers, EnqReturn(p)
  PROVE  (RingInv /\ MsgInv /\ Conserved)'
<1>1. PcOK /\ RingInv /\ MsgInv /\ Conserved /\ p \in Processes
  BY DEF QInv, IInv, Processes
<1>2. \A c \in Consumers : c # p /\ c \in Processes
  BY ShareQueueAssumption DEF Processes
<1>3. /\ pc' \in [Processes -> Steps] /\ pc'[p] = "idle"
      /\ \A q \in Processes : q # p => pc'[q] = pc[q]
  BY <1>1, GotoPc DEF EnqReturn, Steps
<1>4. UNCHANGED <<ring, open>> /\ msg' = [msg EXCEPT ![p] = NoMessage]
  BY DEF EnqReturn
<1>5. MsgInv'
  BY <1>1, <1>2, <1>3, <1>4 DEF MsgInv, Offering, Processes
<1>6. Starts' = Starts /\ RingInv'
  BY <1>1, <1>4, SameRing
<1>7. Working' = Working /\ Killed' = Killed
  BY <1>2, <1>3 DEF Working, Killed
<1> QED BY <1>1, <1>4, <1>5, <1>6, <1>7 DEF Conserved

\* What a step of one process and the signal it sends do to the others.
LEMMA SignalFromProducer ==
  ASSUME PcOK, NEW p \in Producers, pc[p] = "test", GotoAndSignal(p, "unlock", Consumers)
  PROVE  /\ pc'[p] = "unlock"
         /\ \A q \in Producers : q # p => pc'[q] = pc[q]
         /\ \A c \in Consumers : /\ pc'[c] \in Busy <=> pc[c] \in Busy
                                 /\ pc'[c] = "killed" <=> pc[c] = "killed"
<1>1. /\ pc'[p] = "unlock"
      /\ \A q \in Processes :
           q # p => \/ pc'[q] = pc[q]
                    \/ q \in Consumers /\ pc[q] = "asleep" /\ pc'[q] = "lock"
  BY GotoAndSignalPc DEF Processes, Steps
<1>2. \A c \in Consumers : c # p /\ c \in Processes /\ c \notin Producers
  BY ShareQueueAssumption DEF Processes
<1>3. \A q \in Producers : q \in Processes /\ q \notin Consumers
  BY ShareQueueAssumption DEF Processes
<1> QED BY <1>1, <1>2, <1>3 DEF Busy

LEMMA SignalFromConsumer ==
  ASSUME PcOK, NEW c \in Consumers, pc[c] = "test", GotoAndSignal(c, "unlock", Producers)
  PROVE  /\ pc'[c] = "unlock"
         /\ \A q \in Producers : pc'[q] \in Offering <=> pc[q] \in Offering
         /\ \A d \in Consumers : d # c => pc'[d] = pc[d]
<1>1. /\ pc'[c] = "unlock"
      /\ \A q \in Processes :
           q # c => \/ pc'[q] = pc[q]
                    \/ q \in Producers /\ pc[q] = "asleep" /\ pc'[q] = "lock"
  BY GotoAndSignalPc DEF Processes, Steps
<1>2. \A d \in Consumers : d \in Processes /\ d \notin Producers
  BY ShareQueueAssumption DEF Processes
<1>3. \A q \in Producers : q \in Processes /\ q # c
  BY ShareQueueAssumption DEF Processes
<1> QED BY <1>1, <1>2, <1>3 DEF Offering

LEMMA EnqCopyKeeps ==
  ASSUME QInv, NEW p \in Producers, EnqCopy(p)
  PROVE  (RingInv /\ MsgInv /\ Conserved)'
<1>1. PcOK /\ RingInv /\ MsgInv /\ Conserved
  BY DEF QInv, IInv
<1>2. /\ pc[p] = "test" /\ msg' = msg /\ open' = open + 1
      /\ GotoAndSignal(p, "unlock", Consumers)
  BY DEF EnqCopy
<1>3. /\ pc'[p] = "unlock"
      /\ \A q \in Producers : q # p => pc'[q] = pc[q]
      /\ \A c \in Consumers : /\ pc'[c] \in Busy <=> pc[c] \in Busy
                              /\ pc'[c] = "killed" <=> pc[c] = "killed"
  BY <1>1, <1>2, SignalFromProducer
<1>4. msg[p] \in Messages
  BY <1>1, <1>2 DEF MsgInv, Offering
<1>5. RingInv' /\ Starts' = Starts \cup {m_iRear} /\ m_iRear \notin Starts
  BY <1>1, <1>4, EnqCopyRing
<1>6. MsgInv'
  BY <1>1, <1>2, <1>3 DEF MsgInv, Offering
<1>7. Cardinality(Starts') = Cardinality(Starts) + 1
  BY <1>5, StartsFinite, FS_AddElement
<1>8. Working' = Working /\ Killed' = Killed
  BY <1>3 DEF Working, Killed
<1>9. Conserved'
  <2>1. Cardinality(Starts) \in Nat /\ Cardinality(Working) \in Nat /\ open \in Int
    BY <1>1, StartsFinite, CountsAreNat DEF Conserved
  <2>2. open' - Cardinality(Starts') - Cardinality(Working) = open - Cardinality(Starts) - Cardinality(Working)
    BY <1>2, <1>7, <2>1
  <2> QED BY <1>1, <1>2, <1>8, <2>1, <2>2 DEF Conserved
<1> QED BY <1>5, <1>6, <1>9

LEMMA DeqCopyKeeps ==
  ASSUME QInv, NEW c \in Consumers, DeqCopy(c)
  PROVE  (RingInv /\ MsgInv /\ Conserved)'
<1>1. PcOK /\ RingInv /\ MsgInv /\ Conserved
  BY DEF QInv, IInv
<1>2. pc[c] = "test" /\ open' = open /\ GotoAndSignal(c, "unlock", Producers)
  BY DEF DeqCopy
<1>3. /\ pc'[c] = "unlock"
      /\ \A q \in Producers : pc'[q] \in Offering <=> pc[q] \in Offering
      /\ \A d \in Consumers : d # c => pc'[d] = pc[d]
  BY <1>1, <1>2, SignalFromConsumer
<1>4. msg \in [Processes -> Messages \cup {NoMessage}]
  BY <1>1 DEF MsgInv
<1>5. /\ RingInv' /\ m_iFront \in Starts /\ Starts' = Starts \ {m_iFront}
      /\ m_nodes[m_iFront].msg \in Messages
      /\ msg' = [msg EXCEPT ![c] = m_nodes[m_iFront].msg]
  BY <1>1, <1>4, DeqCopyRing
<1>6. MsgInv'
  <2>1. \A q \in Producers : q # c /\ q \in Processes
    BY ShareQueueAssumption DEF Processes
  <2>2. \A d \in Consumers : d \in Processes
    BY DEF Processes
  <2> QED BY <1>1, <1>3, <1>4, <1>5, <2>1, <2>2 DEF MsgInv
<1>7. Cardinality(Starts') = Cardinality(Starts) - 1
  BY <1>5, StartsFinite, FS_RemoveElement
<1>8. Working' = Working \cup {c} /\ c \notin Working /\ Killed' = Killed
  BY <1>2, <1>3 DEF Working, Killed, Busy
<1>9. Cardinality(Working') = Cardinality(Working) + 1
  BY <1>8, CountsAreNat, FS_AddElement
<1>10. Conserved'
  <2>1. Cardinality(Starts) \in Nat /\ Cardinality(Working) \in Nat /\ open \in Int
    BY <1>1, StartsFinite, CountsAreNat DEF Conserved
  <2>2. open - Cardinality(Starts') - Cardinality(Working') = open - Cardinality(Starts) - Cardinality(Working)
    BY <1>7, <1>9, <2>1
  <2> QED BY <1>1, <1>2, <1>8, <2>1, <2>2 DEF Conserved
<1> QED BY <1>5, <1>6, <1>10

LEMMA DoTaskKeeps ==
  ASSUME QInv, NEW c \in Consumers, DoTask(c)
  PROVE  (RingInv /\ MsgInv /\ Conserved)'
<1>1. PcOK /\ RingInv /\ MsgInv /\ Conserved /\ c \in Processes
  BY DEF QInv, IInv, Processes
<1>2. \A q \in Producers : q # c /\ q \in Processes
  BY ShareQueueAssumption DEF Processes
<1>3. \A d \in Consumers : d \in Processes
  BY DEF Processes
<1>4. /\ pc'[c] = "idle" /\ pc[c] = "task"
      /\ \A q \in Processes : q # c => pc'[q] = pc[q]
  BY <1>1, GotoPc DEF DoTask, Steps
<1>5. UNCHANGED ring /\ msg' = [msg EXCEPT ![c] = NoMessage] /\ open' = open - 1
  BY DEF DoTask
<1>6. MsgInv'
  BY <1>1, <1>2, <1>3, <1>4, <1>5 DEF MsgInv, Busy
<1>7. Starts' = Starts /\ RingInv'
  BY <1>1, <1>5, SameRing
<1>8. Working' = Working \ {c} /\ c \in Working /\ Killed' = Killed
  BY <1>3, <1>4 DEF Working, Killed, Busy
<1>9. Cardinality(Working') = Cardinality(Working) - 1
  BY <1>8, CountsAreNat, FS_RemoveElement
<1>10. Conserved'
  <2>1. Cardinality(Starts) \in Nat /\ Cardinality(Working) \in Nat /\ open \in Int
    BY <1>1, StartsFinite, CountsAreNat DEF Conserved
  <2>2. /\ open' - Cardinality(Starts) - Cardinality(Working') =
             open - Cardinality(Starts) - Cardinality(Working)
        /\ open' \in Int
    BY <1>5, <1>9, <2>1
  <2> QED BY <1>1, <1>7, <1>8, <2>2 DEF Conserved
<1> QED BY <1>6, <1>7, <1>10

\* A consumer that is killed loses one message at most.
LEMMA KillKeeps ==
  ASSUME QInv, NEW c \in Consumers, Kill(c)
  PROVE  (RingInv /\ MsgInv /\ Conserved)'
<1>1. PcOK /\ RingInv /\ MsgInv /\ Conserved /\ c \in Processes
  BY DEF QInv, IInv, Processes
<1>2. \A q \in Producers : q # c /\ q \in Processes
  BY ShareQueueAssumption DEF Processes
<1>3. \A d \in Consumers : d \in Processes
  BY DEF Processes
<1>4. /\ pc'[c] = "killed" /\ pc[c] # "killed"
      /\ \A q \in Processes : q # c => pc'[q] = pc[q]
  BY <1>1, GotoPc DEF Kill, Steps
<1>5. UNCHANGED <<ring, msg, open>>
  BY DEF Kill
<1>6. MsgInv'
  BY <1>1, <1>2, <1>3, <1>4, <1>5 DEF MsgInv, Busy
<1>7. Starts' = Starts /\ RingInv'
  BY <1>1, <1>5, SameRing
<1>8. Working' = Working \ {c} /\ Killed' = Killed \cup {c} /\ c \notin Killed
  BY <1>3, <1>4 DEF Working, Killed, Busy
<1>9. /\ Cardinality(Working') \in {Cardinality(Working), Cardinality(Working) - 1}
      /\ Cardinality(Killed') = Cardinality(Killed) + 1
  BY <1>8, CountsAreNat, FS_AddElement, FS_RemoveElement
<1>10. Conserved'
  <2>1. /\ Cardinality(Starts) \in Nat /\ Cardinality(Working) \in Nat
        /\ Cardinality(Killed) \in Nat /\ open \in Int
    BY <1>1, StartsFinite, CountsAreNat DEF Conserved
  <2>2. open - Cardinality(Starts) - Cardinality(Working) \in 0 .. Cardinality(Killed)
    BY <1>1 DEF Conserved
  <2>3. open - Cardinality(Starts) - Cardinality(Working') \in 0 .. Cardinality(Killed')
    BY <1>9, <2>1, <2>2
  <2> QED BY <1>5, <1>7, <2>1, <2>3 DEF Conserved
<1> QED BY <1>6, <1>7, <1>10

LEMMA QInvStep == QInv /\ [Next]_vars => QInv'
<1> SUFFICES ASSUME QInv, [Next]_vars PROVE QInv'
  OBVIOUS
<1>1. IInv' /\ RestOK'
  BY IInvStep, RestStep DEF QInv
<1>2. PcOK /\ RingInv /\ MsgInv /\ Conserved
  BY DEF QInv, IInv
<1>3. SUFFICES (RingInv /\ MsgInv /\ Conserved)'
  BY <1>1 DEF QInv
<1>4. CASE UNCHANGED vars
  <2>1. Quiet
    BY <1>4 DEF vars, Quiet
  <2> QED BY <1>2, <2>1, QuietKeeps
<1>5. ASSUME NEW p \in Processes, Lock(p) \/ CondWait(p) \/ Spurious(p)
      PROVE  (RingInv /\ MsgInv /\ Conserved)'
  BY <1>2, <1>5, CallsAreQuiet, QuietKeeps
<1>6. ASSUME NEW p \in Producers,
             \/ EnqNoRoom(p) \/ EnqCopy(p) \/ EnqReturn(p)
             \/ \E m \in Messages : EnqCall(p, m)
      PROVE  (RingInv /\ MsgInv /\ Conserved)'
  BY <1>2, <1>6, NoRoomIsQuiet, QuietKeeps, EnqCopyKeeps, EnqReturnKeeps, EnqCallKeeps
<1>7. ASSUME NEW c \in Consumers,
             \/ DeqCall(c) \/ DeqNothing(c) \/ DeqCopy(c) \/ DeqReturn(c) \/ DoTask(c)
             \/ Kill(c)
      PROVE  (RingInv /\ MsgInv /\ Conserved)'
  BY <1>2, <1>7, ConsumerIsQuiet, QuietKeeps, DeqCopyKeeps, DoTaskKeeps, KillKeeps
<1>8. CASE Shutdown
  BY <1>2, <1>8, ShutdownIsQuiet, QuietKeeps
<1> QED BY <1>4, <1>5, <1>6, <1>7, <1>8 DEF Next, Enqueue, Dequeue, Processes

THEOREM QInvariance == Spec => []QInv
BY InitQInv, QInvStep, PTL DEF Spec

LEMMA OpenIsNat == QInv => open \in Nat
<1> SUFFICES ASSUME QInv PROVE open \in Nat
  OBVIOUS
<1>1. open \in Int /\ open - Cardinality(Starts) - Cardinality(Working) \in 0 .. Cardinality(Killed)
  BY DEF QInv, Conserved
<1>2. Cardinality(Starts) \in Nat /\ Cardinality(Working) \in Nat /\ Cardinality(Killed) \in Nat
  BY StartsFinite, CountsAreNat
<1> QED BY <1>1, <1>2

\* The types, and the assertion of EmptyNodes (shm_cqueue.h:69).
THEOREM TypeCorrect == Spec => []TypeOK
<1>1. ASSUME QInv PROVE TypeOK
  <2>1. PcOK /\ RestOK /\ RingTypes /\ msg \in [Processes -> Messages \cup {NoMessage}] /\ open \in Nat
    BY <1>1, OpenIsNat DEF QInv, IInv, RingInv, MsgInv
  <2>2. EmptyNodes \in 0 .. m_iMaxSize - 1
    <3>1. EmptyNodes = m_iMaxSize - 1 - Length /\ Length \in Slots
      BY <2>1, DepthIs
    <3> QED BY <3>1, ShareQueueAssumption DEF Slots
  <2>3. msg \in [Processes -> Messages \cup {NoMessage, Garbled}]
    BY <2>1
  <2> QED BY <2>1, <2>2, <2>3 DEF TypeOK, PcOK, RestOK, RingTypes, Node, Steps
<1> QED BY <1>1, QInvariance, PTL

LEMMA ItemsTyped ==
  ASSUME RingInv
  PROVE  /\ itemsMap \in Seq(Messages)
         /\ Len(itemsMap) = Cardinality(Starts)
         /\ \A i \in Starts : m_nodes[i].msg \in Messages
<1>1. \A i \in Starts : m_nodes[i].msg \in Messages
  BY DEF RingInv, Whole
<1>2. Starts \in SUBSET Slots /\ m_iFront \in Slots
  BY StartsFinite DEF RingInv, RingTypes
<1> QED BY <1>1, <1>2, MessagesTyped, ItemsFrom

\* However the consumers are killed, each takes one accepted message along at
\* most, and no other is lost or worked off twice.
THEOREM OnlyKillsLose == Spec => []LostOnlyByKill
<1>1. ASSUME QInv PROVE LostOnlyByKill
  <2>1. Len(itemsMap) = Cardinality(Starts)
    BY <1>1, ItemsTyped DEF QInv
  <2>2. Working = {c \in Consumers : pc[c] \in {"unlock", "task"}}
    BY DEF Working, Busy
  <2>3. open - Cardinality(Starts) - Cardinality(Working) \in 0 .. Cardinality(Killed)
    BY <1>1 DEF QInv, Conserved
  <2> QED BY <2>1, <2>2, <2>3, Zenon DEF LostOnlyByKill
<1> QED BY <1>1, QInvariance, PTL

-----------------------------------------------------------------------------
(* The bounded FIFO *)

FifoNextOrWithdraw == Fifo!FifoNext \/ \E p \in Producers : Fifo!Withdraw(p)

LEMMA OfferedIs == offeredMap = [p \in Producers |-> IF pc[p] \in Offering THEN msg[p] ELSE NoMessage]
BY DEF offeredMap, Offering

LEMMA OfferedIsNext ==
  offeredMap' = [p \in Producers |-> IF pc'[p] \in Offering THEN msg'[p] ELSE NoMessage]
BY DEF offeredMap, Offering

\* In the ring there are as many nodes as messages at least.
LEMMA ItemsFit ==
  ASSUME RingInv
  PROVE  Len(itemsMap) <= Length
<1>1. Starts \in SUBSET Slots /\ Len(itemsMap) = Cardinality(Starts) /\ RingTypes
  BY StartsFinite, ItemsTyped DEF RingInv
<1>2. /\ \A i \in Slots : Depth(i) \in Nat
      /\ \A i, j \in Slots : Depth(i) = Depth(j) => i = j
      /\ Length \in Nat
  BY <1>1, DepthIs
<1> DEFINE depth == [i \in Starts |-> Depth(i)]
<1>3. \A i \in Starts : Depth(i) \in 0 .. Length - 1
  <2>1. \A i \in Starts : Depth(i) < Length /\ Depth(i) \in Nat
    BY <1>1, <1>2 DEF Starts, Used, Depth, Length
  <2> QED BY <1>2, <2>1
<1>4. depth \in Injection(Starts, 0 .. Length - 1)
  <2>1. depth \in [Starts -> 0 .. Length - 1]
    BY <1>3
  <2>2. \A i, j \in Starts : depth[i] = depth[j] => i = j
    BY <1>1, <1>2
  <2> QED BY <2>1, <2>2 DEF Injection, IsInjective
<1>5. IsFiniteSet(0 .. Length - 1) /\ Cardinality(0 .. Length - 1) = Length
  BY <1>2, FS_Interval
<1>6. Cardinality(Starts) <= Cardinality(0 .. Length - 1)
  <2> HIDE DEF depth
  <2> QED BY <1>4, <1>5, FS_Injection
<1> QED BY <1>1, <1>5, <1>6

LEMMA InitFifo == Init => Fifo!FifoInit
<1> SUFFICES ASSUME Init PROVE Fifo!FifoInit
  OBVIOUS
<1>1. RingInv
  BY InitQInv DEF QInv
<1>2. itemsMap = << >>
  <2>1. EmptyQueue
    BY DEF Init, EmptyQueue
  <2>2. Length = 0
    BY <1>1, <2>1, DepthIs DEF RingInv
  <2>3. Len(itemsMap) <= 0 /\ itemsMap \in Seq(Messages)
    BY <1>1, <2>2, ItemsFit, ItemsTyped
  <2> QED BY <2>3, EmptySeq
<1>3. offeredMap = [p \in Producers |-> NoMessage]
  BY OfferedIs DEF Init, Offering, Processes
<1>4. [c \in Consumers |-> msg[c]] = [c \in Consumers |-> NoMessage]
  BY DEF Init, Processes
<1> QED BY <1>2, <1>3, <1>4 DEF Fifo!FifoInit

LEMMA QuietStutters ==
  ASSUME UNCHANGED <<ring, msg>>, \A p \in Producers : pc'[p] \in Offering <=> pc[p] \in Offering
  PROVE  UNCHANGED Fifo!fifoVars
<1>1. itemsMap' = itemsMap
  BY SameRing
<1>2. offeredMap' = offeredMap
  BY OfferedIs, OfferedIsNext
<1> QED BY <1>1, <1>2 DEF Fifo!fifoVars

LEMMA EnqCallOffers ==
  ASSUME QInv, NEW p \in Producers, NEW m \in Messages, EnqCall(p, m)
  PROVE  Fifo!Offer(p, m)
<1>1. PcOK /\ msg \in [Processes -> Messages \cup {NoMessage}] /\ p \in Processes
  BY DEF QInv, IInv, MsgInv, Processes
<1>2. /\ pc[p] = "idle" /\ pc'[p] = "lock"
      /\ \A q \in Processes : q # p => pc'[q] = pc[q]
  BY <1>1, GotoPc DEF EnqCall, Steps
<1>3. UNCHANGED ring /\ msg' = [msg EXCEPT ![p] = m]
  BY DEF EnqCall
<1>4. itemsMap' = itemsMap
  BY <1>3, SameRing
<1>5. offeredMap[p] = NoMessage
  BY <1>2, OfferedIs DEF Offering
<1>6. offeredMap' = [offeredMap EXCEPT ![p] = m]
  BY <1>1, <1>2, <1>3, OfferedIs, OfferedIsNext DEF Offering, Processes
<1>7. [c \in Consumers |-> msg[c]]' = [c \in Consumers |-> msg[c]]
  <2>1. \A c \in Consumers : c # p /\ c \in Processes
    BY ShareQueueAssumption DEF Processes
  <2> QED BY <1>1, <1>3, <2>1
<1> QED BY <1>4, <1>5, <1>6, <1>7 DEF Fifo!Offer

LEMMA EnqReturnStutters ==
  ASSUME QInv, NEW p \in Producers, EnqReturn(p)
  PROVE  UNCHANGED Fifo!fifoVars
<1>1. PcOK /\ msg \in [Processes -> Messages \cup {NoMessage}] /\ p \in Processes
  BY DEF QInv, IInv, MsgInv, Processes
<1>2. /\ pc[p] \in {"unlock", "giveUp"} /\ pc'[p] = "idle"
      /\ \A q \in Processes : q # p => pc'[q] = pc[q]
  BY <1>1, GotoPc DEF EnqReturn, Steps
<1>3. UNCHANGED ring /\ msg' = [msg EXCEPT ![p] = NoMessage]
  BY DEF EnqReturn
<1>4. itemsMap' = itemsMap
  BY <1>3, SameRing
<1>5. offeredMap' = offeredMap
  BY <1>1, <1>2, <1>3, OfferedIs, OfferedIsNext DEF Offering, Processes
<1>6. [c \in Consumers |-> msg[c]]' = [c \in Consumers |-> msg[c]]
  <2>1. \A c \in Consumers : c # p /\ c \in Processes
    BY ShareQueueAssumption DEF Processes
  <2> QED BY <1>1, <1>3, <2>1
<1> QED BY <1>4, <1>5, <1>6 DEF Fifo!fifoVars

\* A call that finds no room after a shutdown withdraws its message.
LEMMA EnqNoRoomWithdraws ==
  ASSUME QInv, NEW p \in Producers, EnqNoRoom(p)
  PROVE  Fifo!Withdraw(p) \/ UNCHANGED Fifo!fifoVars
<1>1. PcOK /\ MsgInv /\ p \in Processes
  BY DEF QInv, IInv, Processes
<1>2. /\ UNCHANGED <<ring, msg>> /\ pc[p] = "test" /\ pc'[p] \in {"doWait", "giveUp"}
      /\ \A q \in Producers : q # p => pc'[q] = pc[q]
  BY <1>1, NoRoomIsQuiet DEF Quiet
<1>3. CASE pc'[p] = "doWait"
  BY <1>2, <1>3, QuietStutters DEF Offering
<1>4. CASE pc'[p] = "giveUp"
  <2>1. itemsMap' = itemsMap
    BY <1>2, SameRing
  <2>2. offeredMap[p] # NoMessage
    BY <1>1, <1>2, OfferedIs, ShareQueueAssumption DEF MsgInv, Offering
  <2>3. offeredMap' = [offeredMap EXCEPT ![p] = NoMessage]
    BY <1>2, <1>4, OfferedIs, OfferedIsNext DEF Offering
  <2>4. [c \in Consumers |-> msg[c]]' = [c \in Consumers |-> msg[c]]
    BY <1>2
  <2> QED BY <2>1, <2>2, <2>3, <2>4 DEF Fifo!Withdraw
<1> QED BY <1>2, <1>3, <1>4

LEMMA EnqCopyPuts ==
  ASSUME QInv, NEW p \in Producers, EnqCopy(p)
  PROVE  Fifo!Put(p)
<1>1. PcOK /\ RingInv /\ MsgInv /\ p \in Processes
  BY DEF QInv, IInv, Processes
<1>2. /\ pc[p] = "test" /\ msg' = msg /\ ~NoRoom(p) /\ m_iFront' = m_iFront
      /\ GotoAndSignal(p, "unlock", Consumers)
  BY DEF EnqCopy
<1>3. pc'[p] = "unlock" /\ \A q \in Producers : q # p => pc'[q] = pc[q]
  BY <1>1, <1>2, SignalFromProducer
<1>4. msg[p] \in Messages /\ msg[p] # NoMessage
  BY <1>1, <1>2, ShareQueueAssumption DEF MsgInv, Offering
<1>5. /\ Starts' = Starts \cup {m_iRear} /\ m_iRear \notin Starts
      /\ m_nodes'[m_iRear].msg = msg[p]
      /\ \A i \in Starts : /\ m_nodes'[i].msg = m_nodes[i].msg
                           /\ Distance(m_iFront, i) < Distance(m_iFront, m_iRear)
  BY <1>1, <1>4, EnqCopyRing
<1>6. itemsMap' = Append(itemsMap, msg[p])
  <2>1. Starts \in SUBSET Slots /\ m_iFront \in Slots /\ m_iRear \in Slots \ Starts
    BY <1>1, <1>5, StartsFinite DEF RingInv, RingTypes
  <2>2. /\ \A i \in Starts : /\ m_nodes[i].msg \in Messages
                              /\ m_nodes'[i].msg = m_nodes[i].msg
                              /\ Distance(m_iFront, i) < Distance(m_iFront, m_iRear)
        /\ m_nodes'[m_iRear].msg \in Messages
    BY <1>1, <1>4, <1>5, ItemsTyped
  <2>3. Appends(MessagesFrom(m_nodes', Starts \cup {m_iRear}, m_iFront),
                MessagesFrom(m_nodes, Starts, m_iFront), m_nodes'[m_iRear].msg)
    BY ONLY <2>1, <2>2, LastMessage
  <2> QED BY <1>2, <1>5, <2>3, ItemsFrom, ItemsFromNext DEF Appends
<1>7. Len(itemsMap) < m_iMaxSize - 1
  <2>1. NodesOf[msg[p]] \in 1 .. m_iMaxSize - 1 /\ Length + NodesOf[msg[p]] < m_iMaxSize
    BY <1>1, <1>2, <1>4, RoomIs DEF RingInv
  <2>2. Len(itemsMap) <= Length /\ Len(itemsMap) \in Nat /\ Length \in Nat /\ m_iMaxSize \in Nat
    BY <1>1, ItemsFit, ItemsTyped, StartsFinite, DepthIs, ShareQueueAssumption DEF RingInv
  <2> QED BY <2>1, <2>2
<1>8. offeredMap[p] = msg[p]
  BY <1>2, OfferedIs DEF Offering
<1>9. offeredMap' = [offeredMap EXCEPT ![p] = NoMessage]
  BY <1>2, <1>3, OfferedIs, OfferedIsNext DEF Offering
<1>10. [c \in Consumers |-> msg[c]]' = [c \in Consumers |-> msg[c]]
  BY <1>2
<1> QED BY <1>4, <1>6, <1>7, <1>8, <1>9, <1>10 DEF Fifo!Put

LEMMA DeqCopyGets ==
  ASSUME QInv, NEW c \in Consumers, DeqCopy(c)
  PROVE  Fifo!Get(c)
<1>1. PcOK /\ RingInv /\ MsgInv /\ c \in Processes
  BY DEF QInv, IInv, Processes
<1>2. pc[c] = "test" /\ GotoAndSignal(c, "unlock", Producers)
  BY DEF DeqCopy
<1>3. \A q \in Producers : pc'[q] \in Offering <=> pc[q] \in Offering
  BY <1>1, <1>2, SignalFromConsumer
<1>4. msg \in [Processes -> Messages \cup {NoMessage}]
  BY <1>1 DEF MsgInv
<1>5. /\ RingInv' /\ m_iFront \in Starts /\ Starts' = Starts \ {m_iFront}
      /\ m_nodes[m_iFront].msg \in Messages
      /\ msg' = [msg EXCEPT ![c] = m_nodes[m_iFront].msg]
      /\ \A i \in Starts' : /\ m_nodes'[i].msg = m_nodes[i].msg
                            /\ Depth(i)' = Depth(i) - Size(m_iFront)
  BY <1>1, <1>4, DeqCopyRing
<1>6. /\ itemsMap # << >> /\ Head(itemsMap) = m_nodes[m_iFront].msg
      /\ itemsMap' = Tail(itemsMap)
  <2>1. Starts \in SUBSET Slots /\ m_iFront \in Slots /\ m_iFront' \in Slots
    BY <1>1, <1>5, StartsFinite DEF RingInv, RingTypes
  <2>2. \A i \in Starts : m_nodes[i].msg \in Messages
    BY <1>1, ItemsTyped
  <2>3. \A i \in Starts \ {m_iFront} :
          /\ m_nodes'[i].msg = m_nodes[i].msg
          /\ Distance(m_iFront', i) = Distance(m_iFront, i) - Size(m_iFront)
    BY <1>5 DEF Depth
  <2>4. Size(m_iFront) \in Nat
    BY <1>5, ShareQueueAssumption DEF Size
  <2>5. Takes(MessagesFrom(m_nodes', Starts \ {m_iFront}, m_iFront'),
              MessagesFrom(m_nodes, Starts, m_iFront), m_nodes[m_iFront].msg)
    BY ONLY <1>5, <2>1, <2>2, <2>3, <2>4, FirstMessage
  <2> QED BY <1>5, <2>5, ItemsFrom, ItemsFromNext DEF Takes
<1>7. offeredMap' = offeredMap
  <2>1. \A q \in Producers : msg'[q] = msg[q]
    <3>1. \A q \in Producers : q # c /\ q \in Processes
      BY ShareQueueAssumption DEF Processes
    <3> QED BY <1>4, <1>5, <3>1
  <2> QED BY <1>3, <2>1, OfferedIs, OfferedIsNext
<1>8. [d \in Consumers |-> msg[d]]' =
        [[d \in Consumers |-> msg[d]] EXCEPT ![c] = m_nodes[m_iFront].msg]
  BY <1>4, <1>5 DEF Processes
<1> QED BY <1>6, <1>7, <1>8 DEF Fifo!Get

LEMMA DoTaskDiscards ==
  ASSUME QInv, NEW c \in Consumers, DoTask(c)
  PROVE  Fifo!Discard(c)
<1>1. PcOK /\ MsgInv /\ c \in Processes
  BY DEF QInv, IInv, Processes
<1>2. /\ pc[c] = "task" /\ pc'[c] = "idle"
      /\ \A q \in Processes : q # c => pc'[q] = pc[q]
  BY <1>1, GotoPc DEF DoTask, Steps
<1>3. UNCHANGED ring /\ msg' = [msg EXCEPT ![c] = NoMessage]
  BY DEF DoTask
<1>4. msg \in [Processes -> Messages \cup {NoMessage}]
  BY <1>1 DEF MsgInv
<1>5. itemsMap' = itemsMap
  BY <1>3, SameRing
<1>6. offeredMap' = offeredMap
  <2>1. \A q \in Producers : q # c /\ q \in Processes
    BY ShareQueueAssumption DEF Processes
  <2> QED BY <1>2, <1>3, <1>4, <2>1, OfferedIs, OfferedIsNext
<1>7. msg[c] # NoMessage
  BY <1>1, <1>2, ShareQueueAssumption DEF MsgInv, Busy
<1>8. [d \in Consumers |-> msg[d]]' = [[d \in Consumers |-> msg[d]] EXCEPT ![c] = NoMessage]
  BY <1>3, <1>4 DEF Processes
<1> QED BY <1>5, <1>6, <1>7, <1>8 DEF Fifo!Discard

LEMMA FifoStep == QInv /\ [Next]_vars => [FifoNextOrWithdraw]_Fifo!fifoVars
<1> SUFFICES ASSUME QInv, [Next]_vars PROVE [FifoNextOrWithdraw]_Fifo!fifoVars
  OBVIOUS
<1>1. PcOK
  BY DEF QInv, IInv
<1>2. CASE UNCHANGED vars
  <2>1. UNCHANGED <<ring, msg>> /\ pc' = pc
    BY <1>2 DEF vars
  <2> QED BY <2>1, QuietStutters
<1>3. ASSUME NEW p \in Processes, Lock(p) \/ CondWait(p) \/ Spurious(p)
      PROVE  UNCHANGED Fifo!fifoVars
  BY <1>1, <1>3, CallsAreQuiet, QuietStutters DEF Quiet
<1>4. ASSUME NEW p \in Producers, NEW m \in Messages, EnqCall(p, m) PROVE FifoNextOrWithdraw
  BY <1>4, EnqCallOffers DEF FifoNextOrWithdraw, Fifo!FifoNext
<1>5. ASSUME NEW p \in Producers, EnqNoRoom(p) PROVE [FifoNextOrWithdraw]_Fifo!fifoVars
  BY <1>5, EnqNoRoomWithdraws DEF FifoNextOrWithdraw
<1>6. ASSUME NEW p \in Producers, EnqCopy(p) PROVE FifoNextOrWithdraw
  BY <1>6, EnqCopyPuts DEF FifoNextOrWithdraw, Fifo!FifoNext
<1>7. ASSUME NEW p \in Producers, EnqReturn(p) PROVE UNCHANGED Fifo!fifoVars
  BY <1>7, EnqReturnStutters
<1>8. ASSUME NEW c \in Consumers, DeqCall(c) \/ DeqNothing(c) \/ DeqReturn(c)
      PROVE  UNCHANGED Fifo!fifoVars
  BY <1>1, <1>8, ConsumerIsQuiet, QuietStutters DEF Quiet
<1>9. ASSUME NEW c \in Consumers, DeqCopy(c) PROVE FifoNextOrWithdraw
  BY <1>9, DeqCopyGets DEF FifoNextOrWithdraw, Fifo!FifoNext
<1>10. ASSUME NEW c \in Consumers, DoTask(c) PROVE FifoNextOrWithdraw
  BY <1>10, DoTaskDiscards DEF FifoNextOrWithdraw, Fifo!FifoNext
<1>11. ASSUME NEW c \in Consumers, Kill(c) PROVE UNCHANGED Fifo!fifoVars
  <2>1. UNCHANGED <<ring, msg>>
    BY <1>11 DEF Kill
  <2>2. c \in Processes /\ \A q \in Producers : q # c /\ q \in Processes
    BY ShareQueueAssumption DEF Processes
  <2>3. \A q \in Producers : pc'[q] = pc[q]
    BY <1>1, <1>11, <2>2, GotoPc DEF Kill, Steps
  <2> QED BY <2>1, <2>3, QuietStutters
<1>12. CASE Shutdown
  BY <1>1, <1>12, ShutdownIsQuiet, QuietStutters DEF Quiet
<1> QED
  BY <1>2, <1>3, <1>4, <1>5, <1>6, <1>7, <1>8, <1>9, <1>10, <1>11, <1>12
     DEF Next, Enqueue, Dequeue, Processes

\* shm_cqueue.cpp implements the bounded FIFO of whole messages, whatever their
\* numbers of nodes and wherever they wrap around: a message that Enqueue
\* accepted comes out once, undamaged and in order.
THEOREM Refinement == Spec => ImplementsFifo
<1>1. Init => QInv /\ Fifo!FifoInit
  BY InitQInv, InitFifo
<1>2. QInv /\ [Next]_vars => QInv'
  BY QInvStep
<1>3. QInv /\ [Next]_vars =>
        [Fifo!FifoNext \/ \E p \in Producers : Fifo!Withdraw(p)]_Fifo!fifoVars
  BY FifoStep DEF FifoNextOrWithdraw
<1> QED BY <1>1, <1>2, <1>3, PTL DEF Spec, ImplementsFifo, Fifo!ClosableFifoSpec
=============================================================================
