------------------------------- MODULE Pipeline -------------------------------
(***************************************************************************)
(* The way of a command through simplekvsvr_v2: the network layer          *)
(* (kvnetworklayer.h) waits for connections with one-shot epoll events,    *)
(* reads a line and makes it a Task; the logic layer (kvlogiclayer.h)      *)
(* parses it and answers it or hands it to the store; the store's thread   *)
(* executes it; the answer goes back and is sent.  test.cpp starts one     *)
(* thread per stage and several that wait for events.                      *)
(*                                                                         *)
(* A queue is a sequence with atomic operations (SemQueue implements       *)
(* that), and executing a command is one step (SimpleKVStore has the       *)
(* inside); a command that fails takes the same way back.  Clients read    *)
(* their answers: sending never blocks.                                    *)
(***************************************************************************)
EXTENDS Integers, Sequences, FiniteSets

CONSTANTS
  Conns,          \* the descriptors of the connections
  EpollThreads,
  NoTask,
  queueSize,      \* of the queues of tasks
  fdQueueSize,    \* the queueSize of the network layer, for fdQueue
  \* The environment of a run:
  Loads           \* what the clients may send together: for each connection the
                  \* kinds of lines, also "part" and "end" for half lines and a
                  \* half-close, and how many lines at most

Kinds == {"get", "set", "quit", "stats", "blank", "bad"}

Tasks == [fd : Conns, no : Nat, kind : Kinds, CMD : Kinds \cup {NoTask, "any"}]

ASSUME PipelineAssumption ==
  /\ IsFiniteSet(Conns)
  /\ NoTask \notin Conns \cup Kinds \cup Tasks
  /\ {queueSize, fdQueueSize} \subseteq Nat \ {0}
  /\ \A l \in Loads : /\ l.kinds \in [Conns -> SUBSET (Kinds \cup {"part", "end"})]
                     /\ l.lines \in [Conns -> Nat]

VARIABLES
  lines,     \* lines[c]: the lines the client of c sent, complete ones
  taken,     \* taken[c]: how many of them were read
  part,      \* part[c]: the beginning of another line has arrived
  eof,       \* eof[c]: the client of c sends no more (half-close)
  event,     \* event[c]: the epoll registration of c
  events,    \* events[e]: what epoll_wait returned to thread e
  fdQueue,
  input,     \* inputThread: its step, descriptor and task
  queue,     \* the four queues of tasks
  hand,      \* hand[t]: the task of inThread, diskIO, outThread
  output,    \* outputThread: its step and descriptor
  closed,    \* closed[c]: shutdown(c, SHUT_WR) was called
  answers,   \* answers[c]: the numbers of the lines answered, in order
  died,      \* SIGPIPE: an answer was sent to a closed connection
  hasty      \* history: clients that went on before they had every answer

client == <<lines, part, hasty>>
network == <<event, events, fdQueue, input>>
vars == <<client, taken, eof, network, queue, hand, output, closed, answers, died>>

QueueNames == {"workQueue", "storeWork", "storeResult", "resultQueue"}
Workers == {"inThread", "diskIO", "outThread"}

Idle == [pc |-> "idle", fd |-> NoTask, task |-> NoTask]

Init ==
  /\ lines = [c \in Conns |-> << >>]
  /\ taken = [c \in Conns |-> 0]
  /\ part = [c \in Conns |-> FALSE]
  /\ eof = [c \in Conns |-> FALSE]
  /\ event = [c \in Conns |-> "none"]
  /\ events = [e \in EpollThreads |-> << >>]
  /\ fdQueue = << >>
  /\ input = Idle
  /\ queue = [q \in QueueNames |-> << >>]
  /\ hand = [t \in Workers |-> NoTask]
  /\ output = [pc |-> "idle", fd |-> NoTask]
  /\ closed = [c \in Conns |-> FALSE]
  /\ answers = [c \in Conns |-> << >>]
  /\ died = FALSE
  /\ hasty = {}

\* Every step but the one that ends the process.
Alive == ~died /\ UNCHANGED died

-----------------------------------------------------------------------------
(* Clients *)

Answerable(c) == {i \in DOMAIN lines[c] : lines[c][i] # "blank"}

\* The client of c has all its answers and has not sent quit.
Settled(c) ==
  /\ Len(answers[c]) = Cardinality(Answerable(c))
  /\ \A i \in DOMAIN lines[c] : lines[c][i] # "quit"

Hurry(c) == hasty' = IF Settled(c) THEN hasty ELSE hasty \cup {c}

SendLine(c, kind) ==
  /\ ~eof[c]
  /\ lines' = [lines EXCEPT ![c] = Append(@, kind)]
  /\ part' = [part EXCEPT ![c] = FALSE]
  /\ Hurry(c)
  /\ UNCHANGED <<taken, eof, network, queue, hand, output, closed, answers>>
  /\ Alive

SendPart(c) ==
  /\ ~eof[c]
  /\ ~part[c]
  /\ part' = [part EXCEPT ![c] = TRUE]
  /\ UNCHANGED <<lines, hasty, taken, eof, network, queue, hand, output, closed, answers>>
  /\ Alive

HalfClose(c) ==
  /\ ~eof[c]
  /\ eof' = [eof EXCEPT ![c] = TRUE]
  /\ Hurry(c)
  /\ UNCHANGED <<lines, part, taken, network, queue, hand, output, closed, answers>>
  /\ Alive

-----------------------------------------------------------------------------
(* Network layer: run, epollThread, inputThread *)

Accept(c) ==
  /\ event[c] = "none"
  /\ event' = [event EXCEPT ![c] = "armed"]
  /\ UNCHANGED <<client, taken, eof, events, fdQueue, input, queue, hand, output, closed, answers>>
  /\ Alive

Readable(c) == taken[c] < Len(lines[c]) \/ part[c] \/ eof[c]

\* mutant: EPOLLIN without EPOLLONESHOT
StillArmed(S) == event

\* EPOLLONESHOT
Disarmed(S) == [c \in Conns |-> IF c \in S THEN "off" ELSE event[c]]

Orders(S) == {s \in [1 .. Cardinality(S) -> S] : \A c \in S : \E i \in DOMAIN s : s[i] = c}

EpollWait(e) ==
  /\ events[e] = << >>
  /\ \E S \in SUBSET {c \in Conns : event[c] = "armed" /\ Readable(c)} : \E s \in Orders(S) :
       /\ S # {}
       /\ events' = [events EXCEPT ![e] = s]
       /\ event' = Disarmed(S)
  /\ UNCHANGED <<client, taken, eof, fdQueue, input, queue, hand, output, closed, answers>>
  /\ Alive

EpollEnqueue(e) ==
  /\ events[e] # << >>
  /\ Len(fdQueue) < fdQueueSize
  /\ fdQueue' = Append(fdQueue, Head(events[e]))
  /\ events' = [events EXCEPT ![e] = Tail(@)]
  /\ UNCHANGED <<client, taken, eof, event, input, queue, hand, output, closed, answers>>
  /\ Alive

\* mutant: blank lines are not dropped
MakesAnyTask(kind) == TRUE

MakesTask(kind) == kind # "blank"

\* readline() on the next connection finds a line, and a task is made of it; a
\* blank line is dropped.
InputLine ==
  LET c == Head(fdQueue)
      n == taken[c] + 1 IN
  /\ input.pc = "idle"
  /\ fdQueue # << >>
  /\ n <= Len(lines[c])
  /\ fdQueue' = Tail(fdQueue)
  /\ taken' = [taken EXCEPT ![c] = n]
  /\ input' = IF MakesTask(lines[c][n])
              THEN [pc |-> "addTask", fd |-> c,
                    task |-> [fd |-> c, no |-> n, kind |-> lines[c][n], CMD |-> NoTask]]
              ELSE [Idle EXCEPT !.pc = "rearm", !.fd = c]
  /\ UNCHANGED <<client, eof, event, events, queue, hand, output, closed, answers>>
  /\ Alive

\* mutant: an unfinished line is taken for the end
EndConnection(c) == closed' = [closed EXCEPT ![c] = TRUE] /\ UNCHANGED input

WaitForMore(c) == input' = [Idle EXCEPT !.pc = "rearm", !.fd = c] /\ UNCHANGED closed

\* readline() returns -1: no whole line has arrived.  At the end of the
\* connection it keeps doing so when the last line has no end.
InputNoLine ==
  LET c == Head(fdQueue) IN
  /\ input.pc = "idle"
  /\ fdQueue # << >>
  /\ taken[c] = Len(lines[c])
  /\ part[c]
  /\ fdQueue' = Tail(fdQueue)
  /\ WaitForMore(c)
  /\ UNCHANGED <<client, taken, eof, event, events, queue, hand, output, answers>>
  /\ Alive

\* readline() returns 0: the connection is closed and not armed again, also when
\* answers are under way.
InputEnd ==
  LET c == Head(fdQueue) IN
  /\ input.pc = "idle"
  /\ fdQueue # << >>
  /\ taken[c] = Len(lines[c])
  /\ ~part[c]
  /\ eof[c]
  /\ fdQueue' = Tail(fdQueue)
  /\ closed' = [closed EXCEPT ![c] = TRUE]
  /\ UNCHANGED <<client, taken, eof, event, events, input, queue, hand, output, answers>>
  /\ Alive

AddTask ==
  /\ input.pc = "addTask"
  /\ Len(queue["workQueue"]) < queueSize
  /\ queue' = [queue EXCEPT !["workQueue"] = Append(@, input.task)]
  /\ input' = [input EXCEPT !.pc = "rearm", !.task = NoTask]
  /\ UNCHANGED <<client, taken, eof, event, events, fdQueue, hand, output, closed, answers>>
  /\ Alive

\* mutants: EPOLL_CTL_ADD in the place of EPOLL_CTL_MOD; a connection is not armed
\* again while its next task would have to wait
AddedAgain(c) == "armed"
ModifiedIfRoom(c) == IF Len(queue["workQueue"]) = queueSize THEN event[c] ELSE "armed"

\* modifyEvent fails when the descriptor was deleted.
Modified(c) == IF event[c] = "deleted" THEN "deleted" ELSE "armed"

Rearm ==
  /\ input.pc = "rearm"
  /\ event' = [event EXCEPT ![input.fd] = Modified(input.fd)]
  /\ input' = Idle
  /\ UNCHANGED <<client, taken, eof, events, fdQueue, queue, hand, output, closed, answers>>
  /\ Alive

-----------------------------------------------------------------------------
(* Logic layer and store: inThread, diskIO, outThread *)

\* mutant: inThread answers a get from the cache
StoredSets == {"set"}

\* The kinds of commands that go to the store.
Stored == {"get", "set"}

\* What inThread makes of CMD; errorReq leaves it as "new Task()" found it.
Parsed(task) ==
  {[task EXCEPT !.CMD = x] : x \in IF task.kind = "bad" THEN {"any", "quit"} ELSE {task.kind}}

Source(t) ==
  CASE t = "inThread" -> "workQueue"
    [] t = "diskIO" -> "storeWork"
    [] t = "outThread" -> "storeResult"

\* mutant: errorReq is not followed by "continue"
InTargetsBoth(task) ==
  IF task.kind \in Stored THEN {"storeWork"} ELSE {"resultQueue", "storeWork"}

InTargets(task) == IF task.kind \in Stored THEN {"storeWork"} ELSE {"resultQueue"}

Targets(t, task) ==
  CASE t = "inThread" -> InTargets(task)
    [] t = "diskIO" -> {"storeResult"}
    [] t = "outThread" -> {"resultQueue"}

Take(t) ==
  /\ hand[t] = NoTask
  /\ queue[Source(t)] # << >>
  /\ queue' = [queue EXCEPT ![Source(t)] = Tail(@)]
  /\ \E x \in IF t = "inThread" THEN Parsed(Head(queue[Source(t)])) ELSE {Head(queue[Source(t)])} :
       hand' = [hand EXCEPT ![t] = x]
  /\ UNCHANGED <<client, taken, eof, network, output, closed, answers>>
  /\ Alive

Pass(t) ==
  /\ hand[t] # NoTask
  /\ \A q \in Targets(t, hand[t]) : Len(queue[q]) < queueSize
  /\ queue' = [q \in QueueNames |->
                 IF q \in Targets(t, hand[t]) THEN Append(queue[q], hand[t]) ELSE queue[q]]
  /\ hand' = [hand EXCEPT ![t] = NoTask]
  /\ UNCHANGED <<client, taken, eof, network, output, closed, answers>>
  /\ Alive

-----------------------------------------------------------------------------
(* Network layer: outputThread *)

\* sendn.  Nobody handles the SIGPIPE of a connection closed for writing.
OutputSend ==
  LET task == Head(queue["resultQueue"]) IN
  /\ ~died
  /\ output.pc = "idle"
  /\ queue["resultQueue"] # << >>
  /\ IF closed[task.fd]
     THEN /\ died' = TRUE
          /\ UNCHANGED <<queue, answers, output>>
     ELSE /\ queue' = [queue EXCEPT !["resultQueue"] = Tail(@)]
          /\ answers' = [answers EXCEPT ![task.fd] = Append(@, task.no)]
          /\ output' = IF task.CMD = "quit" THEN [pc |-> "shutdown", fd |-> task.fd] ELSE output
          /\ UNCHANGED died
  /\ UNCHANGED <<client, taken, eof, network, hand, closed>>

OutputShutdown ==
  /\ output.pc = "shutdown"
  /\ closed' = [closed EXCEPT ![output.fd] = TRUE]
  /\ output' = [output EXCEPT !.pc = "deleteEvent"]
  /\ UNCHANGED <<client, taken, eof, network, queue, hand, answers>>
  /\ Alive

OutputDeleteEvent ==
  /\ output.pc = "deleteEvent"
  /\ event' = [event EXCEPT ![output.fd] = "deleted"]
  /\ output' = [pc |-> "idle", fd |-> NoTask]
  /\ UNCHANGED <<client, taken, eof, events, fdQueue, input, queue, hand, closed, answers>>
  /\ Alive

-----------------------------------------------------------------------------
\* What the clients have sent is no more than load l.
Within(l) ==
  \A c \in Conns :
    /\ Len(lines[c]) + (IF part[c] THEN 1 ELSE 0) <= l.lines[c]
    /\ \A i \in DOMAIN lines[c] : lines[c][i] \in l.kinds[c]
    /\ part[c] => "part" \in l.kinds[c]
    /\ eof[c] => "end" \in l.kinds[c]

Client(c) ==
  /\ SendPart(c) \/ HalfClose(c) \/ \E kind \in Kinds : SendLine(c, kind)
  /\ \E l \in Loads : Within(l)'
EpollThread(e) == EpollWait(e) \/ EpollEnqueue(e)
InputThread == InputLine \/ InputNoLine \/ InputEnd \/ AddTask \/ Rearm
Worker(t) == Take(t) \/ Pass(t)
OutputThread == OutputSend \/ OutputShutdown \/ OutputDeleteEvent

Next ==
  \/ \E c \in Conns : Client(c) \/ Accept(c)
  \/ \E e \in EpollThreads : EpollThread(e)
  \/ InputThread
  \/ \E t \in Workers : Worker(t)
  \/ OutputThread

Spec == Init /\ [][Next]_vars

\* Threads go on as long as the process lives, and epoll_wait returns to some
\* thread every connection that stays ready: the kernel takes them in turn.
Returned(c) == \E e \in EpollThreads : EpollWait(e) /\ \E i \in DOMAIN events'[e] : events'[e][i] = c

Fairness ==
  /\ WF_vars(\E c \in Conns : Accept(c))
  /\ \A c \in Conns : WF_vars(Returned(c))
  /\ \A e \in EpollThreads : WF_vars(EpollEnqueue(e))
  /\ WF_vars(InputThread)
  /\ \A t \in Workers : WF_vars(Worker(t))
  /\ WF_vars(OutputThread)

FairSpec == Spec /\ Fairness
-----------------------------------------------------------------------------
(* Types. *)
TypeOK ==
  /\ \A c \in Conns : /\ lines[c] \in Seq(Kinds)
                      /\ taken[c] \in 0 .. Len(lines[c])
                      /\ \A i \in DOMAIN answers[c] : answers[c][i] \in Answerable(c)
  /\ {part, eof, closed} \subseteq [Conns -> BOOLEAN]
  /\ event \in [Conns -> {"none", "armed", "off", "deleted"}]
  /\ \A e \in EpollThreads : events[e] \in Seq(Conns)
  /\ fdQueue \in Seq(Conns) /\ Len(fdQueue) <= fdQueueSize
  /\ \A q \in QueueNames : queue[q] \in Seq(Tasks) /\ Len(queue[q]) <= queueSize
  /\ hand \in [Workers -> Tasks \cup {NoTask}]
  /\ input.task \in Tasks \cup {NoTask}
  /\ hasty \subseteq Conns

\* How often x occurs in s.
Times(s, x) == Cardinality({i \in DOMAIN s : s[i] = x})

(* A connection is with one thread at a time: it is armed, or one thread or  *)
(* fdQueue has it, and never twice, so that the lines of a connection are    *)
(* read one after the other (EPOLLONESHOT, kvnetworklayer.h:80, 143).  What  *)
(* waits for inputThread has something to read: the only thread that reads   *)
(* never blocks in recv (basetcpsocket.h:94).                                *)
HandedOn(c) ==
  Cardinality({w \in EpollThreads \X (1 .. Cardinality(Conns)) :
                 w[2] \in DOMAIN events[w[1]] /\ events[w[1]][w[2]] = c})
    + Times(fdQueue, c) + (IF input.fd = c THEN 1 ELSE 0)

OneHolder ==
  \A c \in Conns : /\ HandedOn(c) <= 1
                   /\ event[c] \in {"none", "armed"} => HandedOn(c) = 0
                   /\ HandedOn(c) > 0 /\ input.fd # c => Readable(c)

(* Every command that was read is in one place, a queue or the hands of a    *)
(* thread, until it is answered, and it is answered once: no task is lost,   *)
(* processed twice or sent to another connection.                            *)
Places ==
  queue["workQueue"] \o queue["storeWork"] \o queue["storeResult"] \o queue["resultQueue"]
    \o <<hand["inThread"], hand["diskIO"], hand["outThread"], input.task>>

TasksConserved ==
  \A c \in Conns : \A n \in Answerable(c) :
    Cardinality({i \in DOMAIN Places : /\ Places[i] # NoTask
                                       /\ Places[i].fd = c
                                       /\ Places[i].no = n})
      + Times(answers[c], n) = IF n <= taken[c] THEN 1 ELSE 0

(* An answer overtakes that of an earlier command only when the logic layer  *)
(* gave it itself: errors, stats and quit overtake commands in the store.    *)
OnlyDirectOvertakes ==
  \A c \in Conns : \A i, j \in DOMAIN answers[c] :
    i < j /\ answers[c][i] > answers[c][j] =>
      /\ lines[c][answers[c][i]] \notin {"get", "set"}
      /\ lines[c][answers[c][j]] \in {"get", "set"}

(* A client that waits for its answers before it goes on, and sends nothing  *)
(* after quit, gets all of them: it is closed only after its quit or its     *)
(* end, or after an error whose task found the CMD of a quit in its memory   *)
(* (task.h:29, kvlogiclayer.h:23-28, kvnetworklayer.h:157).                  *)
ClosedInOrder ==
  \A c \in Conns :
    closed[c] /\ c \notin hasty =>
      \/ Len(answers[c]) = Cardinality(Answerable(c))
      \/ \E i \in DOMAIN answers[c] : lines[c][answers[c][i]] = "bad"

(* A dropped connection stays dropped: once its registration was deleted     *)
(* modifyEvent does not bring it back, and nothing is read from it but what  *)
(* a thread had already in hand.                                             *)
StaysDeleted ==
  [][\A c \in Conns : event[c] = "deleted" =>
       event'[c] = "deleted" /\ (HandedOn(c) = 0 => taken'[c] = taken[c])]_vars

Unanswered(c) == {n \in Answerable(c) : Times(answers[c], n) = 0}

(* All lines of a client that pauses are answered, also while another        *)
(* connection has sent half a line and is armed again and again, and when    *)
(* all queues are full, each stage has a task in hand and waits for the next *)
(* one (kvlogiclayer.h:101); unless its connection is closed or the process  *)
(* died of SIGPIPE.                                                          *)
EveryLineAnswered ==
  \A c \in Conns : Unanswered(c) # {} ~> died \/ closed[c] \/ Unanswered(c) = {}
=============================================================================
