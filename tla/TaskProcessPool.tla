--------------------------- MODULE TaskProcessPool ---------------------------
(***************************************************************************)
(* TaskProcessPool of simplekvsvr_v3/processpool.cpp: a program that       *)
(* creates the shared segment with the queue (CShareQueueAlloc), forks the *)
(* children that work off its tasks, adds tasks, may kill the children,    *)
(* and at last shuts the queue down, removes the segment                   *)
(* (CShareQueueRelease) and waits for the children, the order of the       *)
(* destructors of TaskProcessPool and ProcessPool.                         *)
(*                                                                         *)
(* The queue is that of ShareQueue, the program its only producer.  The    *)
(* program may die at any step, and is started again with the same key.    *)
(* Its children live on, but nothing of them reaches a later program: it   *)
(* never attaches to a segment that exists, so they are forgotten then.    *)
(***************************************************************************)
EXTENDS ShareQueue

CONSTANTS
  parent,
  \* Bounds and the environment of a run:
  MaxPrograms,    \* programs started one after the other
  MaxFaults     \* system calls that fail

ASSUME TaskProcessPoolAssumption ==
  /\ Producers = {parent}
  /\ {MaxPrograms, MaxFaults} \subseteq Nat

VARIABLES
  step,         \* the next step of the program
  m_pQueue,     \* the program has a queue: the pointer is not NULL
  segment,      \* a segment exists under the key of the program
  m_pid,        \* m_pid[c]: "none", "forked", or "failed" (-1)
  signalled,    \* children with a SIGINT under way
  leftBehind,   \* history: a program ended and left the segment
  programs, faults

program == <<step, m_pQueue, segment, m_pid, signalled, leftBehind, programs, faults>>
poolVars == <<vars, program>>

InitPool ==
  /\ Init
  /\ step = "new"
  /\ m_pQueue = FALSE
  /\ segment = FALSE
  /\ m_pid = [c \in Consumers |-> "none"]
  /\ signalled = {}
  /\ leftBehind = FALSE
  /\ programs = 1
  /\ faults = 0

Fault == faults < MaxFaults /\ faults' = faults + 1
Forked == {c \in Consumers : m_pid[c] = "forked"}
Ended(c) == pc[c] \in {"exited", "killed"}

-----------------------------------------------------------------------------
(* Constructor, Start *)

\* The segment is set to zero and the queue constructed in it.  (Without a queue
\* nobody looks at these variables.)
NewQueue ==
  /\ m_nodes' = [i \in Slots |-> NewNode]
  /\ m_iFront' = 0
  /\ m_iRear' = 0
  /\ m_mutex' = Free
  /\ m_bShutDown' = FALSE
  /\ shutdown' = "none"
  /\ pc' = [p \in Processes |-> "idle"]
  /\ msg' = [p \in Processes |-> NoMessage]
  /\ open' = 0
  /\ missed' = {}

\* shmget, then shmat; a segment that exists is an error (-4).
Alloc ==
  \/ /\ ~segment
     /\ segment' = TRUE
     /\ m_pQueue' = TRUE
     /\ UNCHANGED <<leftBehind, faults>>
  \/ /\ segment
     /\ m_pQueue' = FALSE
     /\ UNCHANGED <<segment, leftBehind, faults>>
  \/ /\ ~segment
     /\ Fault
     /\ m_pQueue' = FALSE
     /\ segment' \in BOOLEAN \* shmat failed, or shmget
     /\ leftBehind' = segment'

Construct ==
  /\ step = "new"
  /\ NewQueue
  /\ Alloc
  /\ m_pid' = [c \in Consumers |-> "none"]
  /\ signalled' = {}
  /\ step' = "start"
  /\ UNCHANGED <<spurious, programs>>

\* fork of each child; that it failed is noticed by nobody.
Fork(c) ==
  /\ step = "start"
  /\ m_pid[c] = "none"
  /\ \/ m_pid' = [m_pid EXCEPT ![c] = "forked"] /\ UNCHANGED faults
     \/ m_pid' = [m_pid EXCEPT ![c] = "failed"] /\ Fault
  /\ UNCHANGED <<vars, step, m_pQueue, segment, signalled, leftBehind, programs>>

Started ==
  /\ step = "start"
  /\ \A c \in Consumers : m_pid[c] # "none"
  /\ step' = "run"
  /\ UNCHANGED <<vars, m_pQueue, segment, m_pid, signalled, leftBehind, programs, faults>>

-----------------------------------------------------------------------------
(* What the program does with the pool *)

AddTask(m) ==
  /\ step = "run"
  /\ m_pQueue
  /\ EnqCall(parent, m)
  /\ UNCHANGED program

\* Enqueue reads the members of an object at NULL.
AddTaskWithoutQueue ==
  /\ step = "run"
  /\ ~m_pQueue
  /\ step' = "dead"
  /\ UNCHANGED <<vars, m_pQueue, segment, m_pid, signalled, leftBehind, programs, faults>>

\* kill(m_pid, SIGINT) for each child; a pid of -1 stands for all processes.
KillAll ==
  /\ step = "run"
  /\ pc[parent] = "idle"
  /\ signalled' = Forked
  /\ UNCHANGED <<vars, step, m_pQueue, segment, m_pid, leftBehind, programs, faults>>

\* The program returns from the function that holds the pool.
Leave ==
  /\ step = "run"
  /\ pc[parent] = "idle"
  /\ step' = IF m_pQueue THEN "shutdown" ELSE "wait"
  /\ UNCHANGED <<vars, m_pQueue, segment, m_pid, signalled, leftBehind, programs, faults>>

-----------------------------------------------------------------------------
(* Destructors *)

ShutdownQueue ==
  /\ step = "shutdown"
  /\ Shutdown
  /\ UNCHANGED program

\* mutant: the segment is not removed
SegmentKept == segment

\* shmctl(shmid, IPC_RMID, NULL)
SegmentAfterRemoval == FALSE

Release ==
  /\ step = "shutdown"
  /\ shutdown = "done"
  /\ \/ segment' = SegmentAfterRemoval /\ UNCHANGED <<leftBehind, faults>>
     \/ Fault /\ leftBehind' = TRUE /\ UNCHANGED segment
  /\ step' = "wait"
  /\ UNCHANGED <<vars, m_pQueue, m_pid, signalled, programs>>

WaitAll ==
  /\ step = "wait"
  /\ \A c \in Forked : Ended(c)
  /\ step' = "done"
  /\ UNCHANGED <<vars, m_pQueue, segment, m_pid, signalled, leftBehind, programs, faults>>

\* The program is killed before the segment is removed, or afterwards.
Die ==
  /\ step \notin {"new", "done", "dead"}
  /\ programs < MaxPrograms
  /\ step' = "dead"
  /\ UNCHANGED <<vars, m_pQueue, segment, m_pid, signalled, leftBehind, programs, faults>>

Restart ==
  /\ step \in {"done", "dead"}
  /\ programs < MaxPrograms
  /\ programs' = programs + 1
  /\ leftBehind' = (leftBehind \/ (step = "dead" /\ segment))
  /\ step' = "new"
  /\ UNCHANGED <<vars, m_pQueue, segment, m_pid, signalled, faults>>

-----------------------------------------------------------------------------
(* A child: TaskProcessor::Run *)

Work(c) ==
  /\ m_pQueue
  /\ c \in Forked
  /\ Dequeue(c)
  /\ UNCHANGED program

\* Dequeue reads the members of an object at NULL.
WorkWithoutQueue(c) ==
  /\ ~m_pQueue
  /\ c \in Forked
  /\ pc[c] = "idle"
  /\ Kill(c)
  /\ UNCHANGED program

Interrupted(c) ==
  /\ c \in signalled
  /\ Kill(c)
  /\ UNCHANGED program

-----------------------------------------------------------------------------
Program ==
  \/ Construct \/ (\E c \in Consumers : Fork(c)) \/ Started
  \/ ShutdownQueue \/ Release \/ WaitAll

Tasks ==
  \/ \E m \in Messages : AddTask(m)
  \/ AddTaskWithoutQueue \/ KillAll \/ Leave

Call == step = "run" /\ Enqueue(parent) /\ UNCHANGED program
Child(c) == Work(c) \/ WorkWithoutQueue(c) \/ Interrupted(c)

NextPool ==
  \/ Program \/ Tasks \/ Call \/ Die \/ Restart
  \/ \E c \in Consumers : Child(c)

SpecPool == InitPool /\ [][NextPool]_poolVars

\* The program and its children go on; a signal arrives.
FairPool ==
  /\ SpecPool
  /\ WF_poolVars(Program)
  /\ WF_poolVars(Call)
  /\ \A c \in Consumers : WF_poolVars(Work(c) \/ WorkWithoutQueue(c)) /\ WF_poolVars(Interrupted(c))
-----------------------------------------------------------------------------
(* The key is free again between two programs unless one of them ended       *)
(* without removing the segment, and then it stays taken: every later        *)
(* program works without a queue (shm_cqueue.cpp:13-26).  A program that     *)
(* ended in order left no child behind.                                      *)
KeyFreed ==
  /\ step \in {"new", "done"} => (segment <=> leftBehind)
  /\ step = "start" => (~m_pQueue <=> (leftBehind \/ ~segment))
  /\ step = "done" => \A c \in Forked : Ended(c)

(* The destructors come to an end once the children were sent SIGINT, even   *)
(* if one of them dies holding the mutex of the queue.  Without KillAll they *)
(* do unless a child missed the broadcast of Shutdown and sleeps for ever    *)
(* (processpool.cpp:70-76, 108-117).                                         *)
TeardownEnds ==
  step \in {"shutdown", "wait"}
    ~> \/ step \in {"done", "dead"}
       \/ signalled = {} /\ \E c \in Forked : pc[c] = "asleep" /\ c \in missed
=============================================================================
