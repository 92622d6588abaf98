------------------------ MODULE TaskProcessPoolProofs ------------------------
(***************************************************************************)
(* KeyFreed for every number of children, programs and failed calls, and   *)
(* the guarantees of the queue (ShareQueueProofs) in every program of the  *)
(* row.                                                                    *)
(*                                                                         *)
(* KeyFreed looks at the beginning and the end of a program.  What makes   *)
(* it inductive is the state in between (SegmentKnown): a program that has *)
(* a queue owns the segment until Release, and nobody left one behind      *)
(* then; a program without a queue cannot change whether there is one.     *)
(***************************************************************************)
EXTENDS TaskProcessPool, ShareQueueProofs

PoolOK ==
  /\ step \in {"new", "start", "run", "shutdown", "wait", "done", "dead"}
  /\ m_pQueue \in BOOLEAN /\ segment \in BOOLEAN /\ leftBehind \in BOOLEAN
  /\ m_pid \in [Consumers -> {"none", "forked", "failed"}]

SegmentKnown ==
  /\ step = "shutdown" => m_pQueue
  /\ step = "new" \/ ~m_pQueue => (segment <=> leftBehind)
  /\ m_pQueue /\ step \in {"start", "run", "shutdown"} => segment /\ ~leftBehind
  /\ m_pQueue /\ step \in {"wait", "done"} => (segment <=> leftBehind)
  /\ m_pQueue /\ step = "dead" => (leftBehind => segment)

NobodyLeft == step = "done" => \A c \in Forked : Ended(c)

PoolInv == IInv /\ PoolOK /\ SegmentKnown /\ NobodyLeft

-----------------------------------------------------------------------------
(* The queue in the pool *)

\* The constructor of a queue establishes the invariant again.
LEMMA NewQueueIInv == NewQueue => IInv'
BY DEF NewQueue, IInv, PcOK, Steps, MutexHeld, Guarded, Flagged, ConsumersWarned,
       ProducersWarned, Sleepy

LEMMA ParentIsProducer == parent \in Producers
BY TaskProcessPoolAssumption

\* A step of the pool creates the queue or is a step of ShareQueue or none of it.
LEMMA PoolStepOfQueue == NextPool => NewQueue \/ [Next]_vars
<1> SUFFICES ASSUME NextPool PROVE NewQueue \/ [Next]_vars
  OBVIOUS
<1>1. CASE Program
  BY <1>1 DEF Program, Construct, Fork, Started, ShutdownQueue, Release, WaitAll, Next
<1>2. CASE Tasks
  BY <1>2, ParentIsProducer
     DEF Tasks, AddTask, AddTaskWithoutQueue, KillAll, Leave, Next
<1>3. CASE Call
  BY <1>3, ParentIsProducer DEF Call, Next
<1>4. CASE Die \/ Restart
  BY <1>4 DEF Die, Restart
<1>5. ASSUME NEW c \in Consumers, Child(c) PROVE [Next]_vars
  BY <1>5 DEF Child, Work, WorkWithoutQueue, Interrupted, Next
<1> QED BY <1>1, <1>2, <1>3, <1>4, <1>5 DEF NextPool

LEMMA QueueInv == IInv /\ [NextPool]_poolVars => IInv'
<1>1. IInv /\ UNCHANGED poolVars => IInv'
  BY IInvStep DEF poolVars
<1> QED BY <1>1, NewQueueIInv, PoolStepOfQueue, IInvStep

-----------------------------------------------------------------------------
(* The program and its segment *)

LEMMA ProgramKeepsPool ==
  ASSUME PoolInv, Program
  PROVE  PoolOK' /\ SegmentKnown' /\ NobodyLeft'
<1> USE DEF PoolInv, PoolOK, SegmentKnown, NobodyLeft
<1>1. CASE Construct
  <2>1. /\ m_pid' = [c \in Consumers |-> "none"]
        /\ step' = "start"
        /\ segment = leftBehind
        /\ Alloc
    BY <1>1 DEF Construct
  <2>2. CASE ~segment /\ segment' = TRUE /\ m_pQueue' = TRUE /\ UNCHANGED leftBehind
    BY <2>1, <2>2
  <2>3. CASE segment /\ m_pQueue' = FALSE /\ UNCHANGED <<segment, leftBehind>>
    BY <2>1, <2>3
  <2>4. CASE m_pQueue' = FALSE /\ segment' \in BOOLEAN /\ leftBehind' = segment'
    BY <2>1, <2>4
  <2> QED BY <2>1, <2>2, <2>3, <2>4 DEF Alloc
<1>2. ASSUME NEW c \in Consumers, Fork(c) PROVE PoolOK' /\ SegmentKnown' /\ NobodyLeft'
  BY <1>2 DEF Fork
<1>3. CASE Started
  BY <1>3 DEF Started
<1>4. CASE ShutdownQueue
  BY <1>4 DEF ShutdownQueue, program
<1>5. CASE Release
  <2>1. /\ step' = "wait" /\ UNCHANGED <<m_pQueue, m_pid>>
        /\ m_pQueue /\ segment /\ ~leftBehind
    BY <1>5 DEF Release
  <2>2. \/ segment' = FALSE /\ leftBehind' = leftBehind
        \/ segment' = segment /\ leftBehind' = TRUE
    BY <1>5 DEF Release, SegmentAfterRemoval
  <2>3. segment' \in BOOLEAN /\ leftBehind' = segment'
    BY <2>1, <2>2
  <2> QED BY <2>1, <2>3
<1>6. CASE WaitAll
  BY <1>6 DEF WaitAll, Forked, Ended, vars
<1> QED BY <1>1, <1>2, <1>3, <1>4, <1>5, <1>6 DEF Program

LEMMA TasksKeepPool ==
  ASSUME PoolInv, Tasks \/ Call \/ Die \/ Restart
  PROVE  PoolOK' /\ SegmentKnown' /\ NobodyLeft'
<1> USE DEF PoolInv, PoolOK, SegmentKnown, NobodyLeft
<1>1. CASE Tasks
  BY <1>1 DEF Tasks, AddTask, AddTaskWithoutQueue, KillAll, Leave, program
<1>2. CASE Call
  BY <1>2 DEF Call, program
<1>3. CASE Die
  BY <1>3 DEF Die
<1>4. CASE Restart
  BY <1>4 DEF Restart
<1> QED BY <1>1, <1>2, <1>3, <1>4

\* A child that ended does nothing any more.
LEMMA ChildKeepsPool ==
  ASSUME PoolInv, NEW c \in Consumers, Child(c)
  PROVE  PoolOK' /\ SegmentKnown' /\ NobodyLeft'
<1> USE DEF PoolInv, PoolOK
<1>1. UNCHANGED program
  BY DEF Child, Work, WorkWithoutQueue, Interrupted
<1>2. PoolOK' /\ SegmentKnown'
  BY <1>1 DEF program, SegmentKnown
<1>3. NobodyLeft'
  <2>1. CASE Work(c)
    BY <1>1, <2>1 DEF NobodyLeft, Work, Ended, program, Dequeue, DeqCall, Lock, CondWait,
                      DeqNothing, DeqCopy, DeqReturn, DoTask, Forked
  <2>2. CASE WorkWithoutQueue(c) \/ Interrupted(c)
    <3>1. pc' = [pc EXCEPT ![c] = "killed"]
      BY <2>2 DEF WorkWithoutQueue, Interrupted, Kill, Goto
    <3>2. \A d \in Consumers : Ended(d) => Ended(d)'
      BY <3>1 DEF Ended, IInv, PcOK, Processes
    <3> QED BY <1>1, <3>2 DEF NobodyLeft, Forked, program
  <2> QED BY <2>1, <2>2 DEF Child
<1> QED BY <1>2, <1>3

LEMMA PoolInvStep == PoolInv /\ [NextPool]_poolVars => PoolInv'
<1> SUFFICES ASSUME PoolInv, [NextPool]_poolVars PROVE PoolInv'
  OBVIOUS
<1>1. IInv'
  BY QueueInv DEF PoolInv
<1>2. CASE UNCHANGED poolVars
  BY <1>1, <1>2 DEF PoolInv, PoolOK, SegmentKnown, NobodyLeft, Forked, Ended,
                    poolVars, program, vars
<1>3. CASE NextPool
  BY <1>1, <1>3, ProgramKeepsPool, TasksKeepPool, ChildKeepsPool DEF NextPool, PoolInv
<1> QED BY <1>2, <1>3

LEMMA InitPoolInv == InitPool => PoolInv
BY InitIInv DEF InitPool, PoolInv, PoolOK, SegmentKnown, NobodyLeft

\* The inductive invariant holds in every reachable state of the pool.
THEOREM PoolInvariance == SpecPool => []PoolInv
BY InitPoolInv, PoolInvStep, PTL DEF SpecPool

\* The key is free again after a program that ended in order, whichever calls
\* failed before (shm_cqueue.cpp:8-44, processpool.cpp:102-117).
THEOREM KeyIsFreed == SpecPool => []KeyFreed
<1>1. PoolInv => KeyFreed
  BY DEF PoolInv, PoolOK, SegmentKnown, NobodyLeft, KeyFreed
<1> QED BY <1>1, PoolInvariance, PTL

\* The guarantee of Shutdown holds for the queue of every program, also after
\* others that died with theirs.
THEOREM PoolShutdownWakes == SpecPool => []SleepersMissedBroadcast
<1>1. PoolInv => SleepersMissedBroadcast
  BY DEF PoolInv, IInv, SleepersMissedBroadcast, ConsumersWarned, ProducersWarned, Sleepy,
         Processes
<1> QED BY <1>1, PoolInvariance, PTL
=============================================================================
