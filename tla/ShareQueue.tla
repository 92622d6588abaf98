------------------------------ MODULE ShareQueue ------------------------------
(***************************************************************************)
(* CShareQueue of simplekvsvr_v3/taskpool/shm_cqueue.cpp: a ring of nodes  *)
(* in shared memory, guarded by a mutex and two condition variables, that  *)
(* carries messages of one or more nodes from the processes that call      *)
(* AddTask to the TaskProcessor processes (processpool.cpp).               *)
(*                                                                         *)
(* pc[p] is the next step of process p in its call.  What a process does   *)
(* to the ring between lock and unlock is one step, nobody else looks at   *)
(* it; m_bShutDown is read and written without the mutex, so its test and  *)
(* the pthread_cond_wait that follows are two.  SIGINT may kill a consumer *)
(* anywhere, and a mutex it holds stays locked.                            *)
(***************************************************************************)
EXTENDS Integers, Sequences, FiniteSets

CONSTANTS
  Producers, Consumers,
  Messages,
  NodesOf,       \* NodesOf[m] = NeedNodes(length of m)
  NoMessage,
  Garbled,       \* a buffer put together from pieces of different messages
  Free,          \* nobody holds the mutex
  m_iMaxSize,
  \* Bounds and the environment of a run:
  MaxSpurious,   \* pthread_cond_wait calls that return without a signal
  MaxKills,
  MayShutdown

ASSUME ShareQueueAssumption ==
  /\ m_iMaxSize \in Nat \ {0}
  /\ NodesOf \in [Messages -> Nat \ {0}]
  /\ Producers \cap Consumers = {} /\ IsFiniteSet(Consumers)
  /\ NoMessage \notin Messages
  /\ Free \notin Producers \cup Consumers
  /\ {MaxSpurious, MaxKills} \subseteq Nat
  /\ MayShutdown \in BOOLEAN

VARIABLES
  m_nodes,            \* the ring: m_nodes, message and piece of each node
  m_iFront, m_iRear,
  m_mutex,            \* its holder
  m_bShutDown,
  shutdown,           \* the next step of Shutdown
  pc,
  msg,                \* msg[p]: what p enqueues; msg[c]: the message c works on
  open,               \* history: messages enqueued and not yet worked off
  missed,             \* history: who was about to sleep during the broadcasts
  spurious

ring == <<m_nodes, m_iFront, m_iRear>>
vars == <<ring, m_mutex, m_bShutDown, shutdown, pc, msg, open, missed, spurious>>

Processes == Producers \cup Consumers
Slots == 0 .. m_iMaxSize - 1

EmptyQueue == m_iFront = m_iRear
EmptyNodes ==
  IF m_iRear >= m_iFront THEN m_iMaxSize - 1 - (m_iRear - m_iFront) ELSE m_iFront - m_iRear - 1

\* mutant: the index runs off the array
AheadNoWrap(i, n) == i + n

\* n nodes ahead of position i.
Ahead(i, n) == (i + n) % m_iMaxSize

\* The positions of n nodes from position i on.
Span(i, n) == {Ahead(i, j) : j \in 0 .. n - 1}

FullQueue == m_iFront = Ahead(m_iRear, 1)
Distance(i, j) == (j + m_iMaxSize - i) % m_iMaxSize

NewNode == [m_nodes |-> 0, msg |-> NoMessage, piece |-> 0]

Init ==
  /\ m_nodes = [i \in Slots |-> NewNode]
  /\ m_iFront = 0
  /\ m_iRear = 0
  /\ m_mutex = Free
  /\ m_bShutDown = FALSE
  /\ shutdown = "none"
  /\ pc = [p \in Processes |-> "idle"]
  /\ msg = [p \in Processes |-> NoMessage]
  /\ open = 0
  /\ missed = {}
  /\ spurious = 0

Goto(p, to) == pc' = [pc EXCEPT ![p] = to]
Asleep(S) == {p \in S : pc[p] = "asleep"}

\* mutant: the signal is forgotten
GotoOnly(p, to, S) == Goto(p, to)

\* Process p goes to step "to", and pthread_cond_signal wakes one of S.
GotoAndSignal(p, to, S) ==
  IF Asleep(S) = {} THEN Goto(p, to)
  ELSE \E q \in Asleep(S) : pc' = [pc EXCEPT ![p] = to, ![q] = "lock"]

\* mutant: pthread_cond_signal in the place of pthread_cond_broadcast
WakeOne(S) ==
  \/ Asleep(S) = {} /\ UNCHANGED pc
  \/ \E q \in Asleep(S) : Goto(q, "lock")

WakeAll(S) == pc' = [p \in Processes |-> IF p \in Asleep(S) THEN "lock" ELSE pc[p]]

\* mutant: the flag is not tested in the loop
WaitAlways == "doWait"

\* The step after the condition of a call was found false.
WaitOrGiveUp == IF m_bShutDown THEN "giveUp" ELSE "doWait"

-----------------------------------------------------------------------------
(* Steps of every call *)

\* pthread_mutex_lock, first or inside pthread_cond_wait.
Lock(p) ==
  /\ pc[p] = "lock"
  /\ m_mutex = Free
  /\ m_mutex' = p
  /\ Goto(p, "test")
  /\ UNCHANGED <<ring, m_bShutDown, shutdown, msg, open, missed, spurious>>

\* pthread_cond_wait releases the mutex and sleeps.
CondWait(p) ==
  /\ pc[p] = "doWait"
  /\ m_mutex' = Free
  /\ Goto(p, "asleep")
  /\ UNCHANGED <<ring, m_bShutDown, shutdown, msg, open, missed, spurious>>

Spurious(p) ==
  /\ pc[p] = "asleep"
  /\ spurious < MaxSpurious
  /\ spurious' = spurious + 1
  /\ Goto(p, "lock")
  /\ UNCHANGED <<ring, m_mutex, m_bShutDown, shutdown, msg, open, missed>>

-----------------------------------------------------------------------------
(* Enqueue(buf, buf_len); after a shutdown it returns -1 at once *)

EnqCall(p, m) ==
  /\ pc[p] = "idle"
  /\ ~m_bShutDown
  /\ msg' = [msg EXCEPT ![p] = m]
  /\ Goto(p, "lock")
  /\ UNCHANGED <<ring, m_mutex, m_bShutDown, shutdown, open, missed, spurious>>

\* mutant: FullQueue is the only test
NoRoomFullOnly(p) == FullQueue

NoRoom(p) == FullQueue \/ EmptyNodes < NodesOf[msg[p]]

EnqNoRoom(p) ==
  /\ pc[p] = "test"
  /\ NoRoom(p)
  /\ Goto(p, WaitOrGiveUp)
  /\ UNCHANGED <<ring, m_mutex, m_bShutDown, shutdown, msg, open, missed, spurious>>

\* The pieces are copied to consecutive nodes and a consumer is signalled.
EnqCopy(p) ==
  LET m == msg[p]
      n == NodesOf[m] IN
  /\ pc[p] = "test"
  /\ ~NoRoom(p)
  /\ m_nodes' = [i \in Slots |->
                   IF i \notin Span(m_iRear, n) THEN m_nodes[i]
                   ELSE [m_nodes |-> IF i = m_iRear THEN n ELSE m_nodes[i].m_nodes,
                         msg |-> m, piece |-> Distance(m_iRear, i)]]
  /\ m_iRear' = Ahead(m_iRear, n)
  /\ open' = open + 1
  /\ GotoAndSignal(p, "unlock", Consumers)
  /\ UNCHANGED <<m_iFront, m_mutex, m_bShutDown, shutdown, msg, missed, spurious>>

EnqReturn(p) ==
  /\ pc[p] \in {"unlock", "giveUp"}
  /\ m_mutex' = Free
  /\ msg' = [msg EXCEPT ![p] = NoMessage]
  /\ Goto(p, "idle")
  /\ UNCHANGED <<ring, m_bShutDown, shutdown, open, missed, spurious>>

-----------------------------------------------------------------------------
(* TaskProcessor::Run: Dequeue in a loop, left after a shutdown *)

DeqCall(c) ==
  /\ pc[c] = "idle"
  /\ Goto(c, IF m_bShutDown THEN "exited" ELSE "lock")
  /\ UNCHANGED <<ring, m_mutex, m_bShutDown, shutdown, msg, open, missed, spurious>>

DeqNothing(c) ==
  /\ pc[c] = "test"
  /\ EmptyQueue
  /\ Goto(c, WaitOrGiveUp)
  /\ UNCHANGED <<ring, m_mutex, m_bShutDown, shutdown, msg, open, missed, spurious>>

\* The message made of n nodes from position i on.
Assembled(i, n) ==
  LET m == m_nodes[i].msg
  IN IF \A j \in 0 .. n - 1 : /\ m_nodes[Ahead(i, j)].msg = m
                              /\ m_nodes[Ahead(i, j)].piece = j
     THEN m ELSE Garbled

\* The message is put together from its nodes and a producer is signalled.
\* What the nodes held is forgotten: the code leaves it there, to be written
\* again before it is read.
DeqCopy(c) ==
  LET n == m_nodes[m_iFront].m_nodes IN
  /\ pc[c] = "test"
  /\ ~EmptyQueue
  /\ msg' = [msg EXCEPT ![c] = Assembled(m_iFront, n)]
  /\ m_nodes' = [i \in Slots |-> IF i \in Span(m_iFront, n) THEN NewNode ELSE m_nodes[i]]
  /\ m_iFront' = Ahead(m_iFront, n)
  /\ GotoAndSignal(c, "unlock", Producers)
  /\ UNCHANGED <<m_iRear, m_mutex, m_bShutDown, shutdown, open, missed, spurious>>

DeqReturn(c) ==
  /\ pc[c] \in {"unlock", "giveUp"}
  /\ m_mutex' = Free
  /\ Goto(c, IF pc[c] = "unlock" THEN "task" ELSE "exited")
  /\ UNCHANGED <<ring, m_bShutDown, shutdown, msg, open, missed, spurious>>

\* DoTask and free(data)
DoTask(c) ==
  /\ pc[c] = "task"
  /\ open' = open - 1
  /\ msg' = [msg EXCEPT ![c] = NoMessage]
  /\ Goto(c, "idle")
  /\ UNCHANGED <<ring, m_mutex, m_bShutDown, shutdown, missed, spurious>>

-----------------------------------------------------------------------------
(* Shutdown() and KillAll() of the parent *)

ShutdownFlag ==
  /\ MayShutdown
  /\ shutdown = "none"
  /\ shutdown' = "notEmpty"
  /\ m_bShutDown' = TRUE
  /\ UNCHANGED <<ring, m_mutex, pc, msg, open, missed, spurious>>

\* A process that saw the flag unset and does not sleep yet misses this.
ShutdownBroadcast(from, to, S) ==
  /\ shutdown = from
  /\ shutdown' = to
  /\ WakeAll(S)
  /\ missed' = missed \cup {p \in S : pc[p] = "doWait"}
  /\ UNCHANGED <<ring, m_mutex, m_bShutDown, msg, open, spurious>>

Killed == {c \in Consumers : pc[c] = "killed"}

Kill(c) ==
  /\ pc[c] \notin {"killed", "exited"}
  /\ Cardinality(Killed) < MaxKills
  /\ Goto(c, "killed")
  /\ UNCHANGED <<ring, m_mutex, m_bShutDown, shutdown, msg, open, missed, spurious>>

-----------------------------------------------------------------------------
Enqueue(p) == Lock(p) \/ CondWait(p) \/ EnqNoRoom(p) \/ EnqCopy(p) \/ EnqReturn(p)

Dequeue(c) ==
  \/ DeqCall(c) \/ Lock(c) \/ CondWait(c) \/ DeqNothing(c) \/ DeqCopy(c) \/ DeqReturn(c)
  \/ DoTask(c)

Shutdown ==
  \/ ShutdownFlag
  \/ ShutdownBroadcast("notEmpty", "notFull", Consumers)
  \/ ShutdownBroadcast("notFull", "done", Producers)

Next ==
  \/ \E p \in Producers : Enqueue(p) \/ \E m \in Messages : EnqCall(p, m)
  \/ \E c \in Consumers : Dequeue(c) \/ Kill(c)
  \/ \E p \in Processes : Spurious(p)
  \/ Shutdown

Spec == Init /\ [][Next]_vars

\* Every process goes on with a call it made; nobody has to enqueue or to shut
\* the queue down, but a Shutdown that began is finished.
Fairness ==
  /\ \A p \in Producers : WF_vars(Enqueue(p))
  /\ \A c \in Consumers : WF_vars(Dequeue(c))
  /\ WF_vars(m_bShutDown /\ Shutdown)

FairSpec == Spec /\ Fairness
-----------------------------------------------------------------------------
(* Types; the assertion of EmptyNodes (shm_cqueue.h:69) is its third line. *)
TypeOK ==
  /\ m_nodes \in [Slots -> [m_nodes : Nat, msg : Messages \cup {NoMessage}, piece : Slots]]
  /\ m_iFront \in Slots /\ m_iRear \in Slots
  /\ EmptyNodes \in 0 .. m_iMaxSize - 1
  /\ m_mutex \in Processes \cup {Free}
  /\ m_bShutDown \in BOOLEAN
  /\ shutdown \in {"none", "notEmpty", "notFull", "done"}
  /\ pc \in [Processes -> {"idle", "lock", "test", "doWait", "asleep", "unlock", "giveUp",
                           "task", "exited", "killed"}]
  /\ msg \in [Processes -> Messages \cup {NoMessage, Garbled}]
  /\ open \in Nat
  /\ missed \subseteq Processes
  /\ spurious \in 0 .. MaxSpurious

\* The nodes in use, and those of them with the first piece of a message.
Used == {i \in Slots : Distance(m_iFront, i) < Distance(m_iFront, m_iRear)}
Starts == {i \in Used : m_nodes[i].piece = 0}
Before(i) == {j \in Starts : Distance(m_iFront, j) < Distance(m_iFront, i)}

\* The messages in the ring, in the order of their first nodes.
itemsMap ==
  [k \in 1 .. Cardinality(Starts) |->
     m_nodes[CHOOSE i \in Starts : Cardinality(Before(i)) = k - 1].msg]

offeredMap ==
  [p \in Producers |->
     IF pc[p] \in {"lock", "test", "doWait", "asleep"} THEN msg[p] ELSE NoMessage]

Fifo == INSTANCE BoundedFifo
          WITH Items <- Messages, NoItem <- NoMessage, Capacity <- m_iMaxSize - 1,
               items <- itemsMap, offered <- offeredMap, got <- [c \in Consumers |-> msg[c]]

(* The ring of nodes implements the bounded FIFO of whole messages: a        *)
(* message that wraps around the end or takes several nodes is handed out    *)
(* once, in order and undamaged.  A call may end without effect after a      *)
(* shutdown.                                                                 *)
ImplementsFifo == Fifo!ClosableFifoSpec

(* A message that was accepted is in the ring, in the hands of a consumer,   *)
(* or worked off; the only ones that are lost were in the hands of consumers *)
(* that were killed (KillAll), one each.                                     *)
LostOnlyByKill ==
  open - Len(itemsMap) - Cardinality({c \in Consumers : pc[c] \in {"unlock", "task"}})
    \in 0 .. Cardinality(Killed)

(* Once Shutdown is done, a process sleeps for good only if it had seen the  *)
(* flag unset and was not asleep yet when its condition was broadcast: the   *)
(* flag is set without the mutex (shm_cqueue.cpp:171-174).                   *)
SleepersMissedBroadcast ==
  shutdown = "done" =>
    \A p \in Processes : pc[p] \in {"doWait", "asleep"} => p \in missed

(* After a shutdown every consumer leaves its loop and every producer its    *)
(* call, but for those that missed the broadcast, and unless a consumer was  *)
(* killed while it held the mutex.                                           *)
ShutdownEnds ==
  m_bShutDown ~> \/ m_mutex \in Killed
                 \/ \A p \in Processes : \/ pc[p] \in {"idle", "exited", "killed"}
                                         \/ pc[p] = "asleep" /\ p \in missed

(* As long as nothing is shut down or killed, the oldest message is always   *)
(* taken (a consumer is at "unlock" just after it took one): no signal is    *)
(* lost that would leave a message and a sleeper.                            *)
OldestIsTaken ==
  ~EmptyQueue ~> m_bShutDown \/ Killed # {} \/ (\E c \in Consumers : pc[c] = "unlock")

(* Producers that wait for room do not wait for ever all together, although  *)
(* a dequeue signals only one of them and that one may need more room than   *)
(* there is (every message fits into the empty ring).                        *)
SomeProducerGoesOn ==
  (\E p \in Producers : pc[p] = "asleep")
    ~> m_bShutDown \/ Killed # {} \/ (\E p \in Producers : pc[p] = "unlock")
=============================================================================
