-------------------------------- MODULE KVSvr --------------------------------
(***************************************************************************)
(* The server of simplekvsvr: the accept loop of the main thread           *)
(* (KVSvr.h), the queue of requests (workqueue.h) and the worker threads   *)
(* of the pool (ThreadPool.h, main.cpp), each of which takes a request,    *)
(* answers on its descriptor and closes it.                                *)
(*                                                                         *)
(* Push and Pop hold the mutex of the queue from their first access to it  *)
(* to the last, so each is one step; the notify_one of Push comes after    *)
(* the unlock.  A client sends its whole command at once, as connect.sh    *)
(* does; what the commands do is in NewKVIndex.                            *)
(***************************************************************************)
EXTENDS Integers, Sequences, FiniteSets

CONSTANTS
  Clients, Workers,
  Fds,          \* the descriptors left for connections, small numbers first
  NoFd, Nobody,
  \* Bounds and the environment of a run:
  MaxFaults,    \* calls of bind, listen, accept and select that fail
  MaxSpurious   \* returns from not_empty_.wait without a notify_one

ASSUME KVSvrAssumption ==
  /\ Fds \subseteq Nat /\ Fds # {}
  /\ NoFd \notin Fds /\ Nobody \notin Clients
  /\ {MaxFaults, MaxSpurious} \subseteq Nat

VARIABLES
  backlog,      \* clients that are connected and not accepted
  sent,         \* sent[c]: what c has done on its connection
  gone,         \* gone[c]: c closed its connection after sending
  open,         \* open[fd]: the client of descriptor fd
  main, mainFd, \* the main thread: its next step and the connection it reads
  queue_,       \* requests: the client and the kind of what was read, and fd
  pc, pa,       \* pc[w], pa[w]: next step and request of worker w
  alive,
  got,          \* history: got[c]: the clients whose answers c was sent
  leaked,       \* history: descriptors nobody will close
  faults, spurious

net == <<backlog, sent, gone>>
workers == <<pc, pa>>
vars == <<net, open, main, mainFd, queue_, workers, alive, got, leaked, faults, spurious>>

NoRequest == [client |-> Nobody, kind |-> "none", fd |-> NoFd]
FreeFds == {fd \in Fds : open[fd] = Nobody}
LowestFree == CHOOSE fd \in FreeFds : \A e \in FreeFds : fd <= e

Init ==
  /\ backlog = << >>
  /\ sent = [c \in Clients |-> "none"]
  /\ gone = [c \in Clients |-> FALSE]
  /\ open = [fd \in Fds |-> Nobody]
  /\ main = "start"
  /\ mainFd = NoFd
  /\ queue_ = << >>
  /\ pc = [w \in Workers |-> "pop"]
  /\ pa = [w \in Workers |-> NoRequest]
  /\ alive = TRUE
  /\ got = [c \in Clients |-> << >>]
  /\ leaked = {}
  /\ faults = 0
  /\ spurious = 0

-----------------------------------------------------------------------------
(* The clients *)

Connect(c) ==
  /\ sent[c] = "none"
  /\ sent' = [sent EXCEPT ![c] = "nothing"]
  /\ backlog' = Append(backlog, c)
  /\ UNCHANGED <<gone, open, main, mainFd, queue_, workers, alive, got, leaked, faults, spurious>>

\* A command, a line that is blank or lacks its arguments, the end of the
\* connection, or a reset of it.
Send(c) ==
  /\ sent[c] = "nothing"
  /\ \E kind \in {"command", "malformed", "end", "reset"} : sent' = [sent EXCEPT ![c] = kind]
  /\ UNCHANGED <<backlog, gone, open, main, mainFd, queue_, workers, alive, got, leaked, faults,
                 spurious>>

Leave(c) ==
  /\ sent[c] = "command"
  /\ ~gone[c]
  /\ gone' = [gone EXCEPT ![c] = TRUE]
  /\ UNCHANGED <<backlog, sent, open, main, mainFd, queue_, workers, alive, got, leaked, faults,
                 spurious>>

-----------------------------------------------------------------------------
(* The main thread: main and KVSvr::Run *)

Fault == faults < MaxFaults /\ faults' = faults + 1

\* bind and listen
Start ==
  /\ main = "start"
  /\ main' = "accept"
  /\ UNCHANGED <<net, open, mainFd, queue_, workers, alive, got, leaked, faults, spurious>>

Accept ==
  /\ main = "accept"
  /\ backlog # << >>
  /\ FreeFds # {}
  /\ open' = [open EXCEPT ![LowestFree] = Head(backlog)]
  /\ backlog' = Tail(backlog)
  /\ mainFd' = LowestFree
  /\ main' = "select"
  /\ UNCHANGED <<sent, gone, queue_, workers, alive, got, leaked, faults, spurious>>

\* Run returns, and main joins workers that never end.
Return ==
  /\ main' = "returned"
  /\ UNCHANGED <<net, open, mainFd, queue_, workers, alive, got, leaked, spurious>>

AcceptNoFd == main = "accept" /\ FreeFds = {} /\ Return /\ UNCHANGED faults

\* bind, listen or accept fails.
Fails == main \in {"start", "accept"} /\ Fault /\ Return

\* The descriptor is dropped without a close.
SelectFails ==
  /\ main = "select"
  /\ Fault
  /\ leaked' = leaked \cup {mainFd}
  /\ mainFd' = NoFd
  /\ main' = "accept"
  /\ UNCHANGED <<net, open, queue_, workers, alive, got, spurious>>

\* mutant: the main thread keeps the connection it has passed on
KeptFd == mainFd

ReleasedFd == NoFd

\* select says the connection is readable and recv reads the request, an empty
\* one at the end of the connection; a timeout goes round the loop.
Receive ==
  LET c == open[mainFd] IN
  /\ main = "select"
  /\ sent[c] \in {"command", "malformed", "end"}
  /\ queue_' = Append(queue_, [client |-> c, kind |-> sent[c], fd |-> mainFd])
  /\ mainFd' = ReleasedFd
  /\ main' = "notify"
  /\ UNCHANGED <<net, open, workers, alive, got, leaked, faults, spurious>>

RecvFails ==
  /\ main = "select"
  /\ sent[open[mainFd]] = "reset"
  /\ open' = [open EXCEPT ![mainFd] = Nobody]
  /\ mainFd' = NoFd
  /\ main' = "accept"
  /\ UNCHANGED <<net, queue_, workers, alive, got, leaked, faults, spurious>>

Asleep == {w \in Workers : pc[w] = "asleep"}

\* mutant: nobody is notified
WakeNone == UNCHANGED pc

\* notify_one
WakeOne ==
  IF Asleep = {} THEN UNCHANGED pc ELSE \E w \in Asleep : pc' = [pc EXCEPT ![w] = "pop"]

Notify ==
  /\ main = "notify"
  /\ WakeOne
  /\ main' = "accept"
  /\ UNCHANGED <<net, open, mainFd, queue_, pa, alive, got, leaked, faults, spurious>>

-----------------------------------------------------------------------------
(* A worker: KVWorker::Process *)

Goto(w, to) == pc' = [pc EXCEPT ![w] = to]

PopWait(w) ==
  /\ pc[w] = "pop"
  /\ queue_ = << >>
  /\ Goto(w, "asleep")
  /\ UNCHANGED <<net, open, main, mainFd, queue_, pa, alive, got, leaked, faults, spurious>>

Spurious(w) ==
  /\ pc[w] = "asleep"
  /\ spurious < MaxSpurious
  /\ spurious' = spurious + 1
  /\ Goto(w, "pop")
  /\ UNCHANGED <<net, open, main, mainFd, queue_, pa, alive, got, leaked, faults>>

\* mutant: the request stays in the queue
NotPopped == queue_

Popped == Tail(queue_)

PopTake(w) ==
  /\ pc[w] = "pop"
  /\ queue_ # << >>
  /\ pa' = [pa EXCEPT ![w] = Head(queue_)]
  /\ queue_' = Popped
  /\ Goto(w, "process")
  /\ UNCHANGED <<net, open, main, mainFd, alive, got, leaked, faults, spurious>>

\* Without a first word strtok_r answers NULL, which strcmp reads; a missing key
\* or value makes a string of NULL, an exception nobody catches.
Process(w) ==
  /\ pc[w] = "process"
  /\ IF pa[w].kind = "command" THEN Goto(w, "write") /\ UNCHANGED alive
     ELSE alive' = FALSE /\ UNCHANGED pc
  /\ UNCHANGED <<net, open, main, mainFd, queue_, pa, got, leaked, faults, spurious>>

\* The answer and the end of its line, two writes: a client that left answers
\* the first with a reset, and the second may end the process (SIGPIPE).
Write(w) ==
  LET c == open[pa[w].fd] IN
  /\ pc[w] = "write"
  /\ got' = IF c = Nobody THEN got ELSE [got EXCEPT ![c] = Append(@, pa[w].client)]
  /\ \/ Goto(w, "close") /\ UNCHANGED alive
     \/ c # Nobody /\ gone[c] /\ alive' = FALSE /\ UNCHANGED pc
  /\ UNCHANGED <<net, open, main, mainFd, queue_, pa, leaked, faults, spurious>>

Close(w) ==
  /\ pc[w] = "close"
  /\ open' = [open EXCEPT ![pa[w].fd] = Nobody]
  /\ pa' = [pa EXCEPT ![w] = NoRequest]
  /\ Goto(w, "pop")
  /\ UNCHANGED <<net, main, mainFd, queue_, alive, got, leaked, faults, spurious>>

-----------------------------------------------------------------------------
Run == Start \/ Accept \/ AcceptNoFd \/ Receive \/ RecvFails \/ Notify
Work(w) == PopWait(w) \/ PopTake(w) \/ Process(w) \/ Write(w) \/ Close(w)

Next ==
  /\ alive
  /\ \/ \E c \in Clients : Connect(c) \/ Send(c) \/ Leave(c)
     \/ Run \/ Fails \/ SelectFails
     \/ \E w \in Workers : Work(w) \/ Spurious(w)

Spec == Init /\ [][Next]_vars

\* The threads go on; a client may stay silent for ever.
FairSpec ==
  /\ Spec
  /\ WF_vars(alive /\ Run)
  /\ \A w \in Workers : WF_vars(alive /\ Work(w))
-----------------------------------------------------------------------------
Held(w) == pc[w] \in {"process", "write", "close"}

(* The holders of a descriptor: the main thread, the requests in the queue,  *)
(* the workers, and nobody at all after select failed (KVSvr.h:93-97).       *)
Holders(fd) ==
  {<<"main", f>> : f \in {mainFd} \cap {fd}}
    \cup {<<"queue", i>> : i \in {j \in DOMAIN queue_ : queue_[j].fd = fd}}
    \cup {<<"worker", w>> : w \in {v \in Workers : Held(v) /\ pa[v].fd = fd}}
    \cup {<<"nobody", f>> : f \in leaked \cap {fd}}

(* An open descriptor has exactly one holder, a closed one none, and what    *)
(* the queue and the workers hold is the connection the request came from:   *)
(* no thread reads, answers or closes a connection another one accepted      *)
(* under the same number (KVSvr.h:68-127, main.cpp:91-93).                   *)
OneHolderPerFd ==
  /\ \A fd \in Fds : Cardinality(Holders(fd)) = IF open[fd] = Nobody THEN 0 ELSE 1
  /\ \A i \in DOMAIN queue_ : open[queue_[i].fd] = queue_[i].client
  /\ \A w \in Workers : Held(w) => open[pa[w].fd] = pa[w].client

(* A client is sent one answer at most, and it is the one to its own         *)
(* command.                                                                  *)
OwnAnswerOnce == \A c \in Clients : got[c] \in {<< >>, << c >>}

(* A command that was sent is answered, unless the process dies, Run         *)
(* returns, select fails on the connection, or the accept loop waits for     *)
(* ever for a client that stays silent: it serves one connection at a time   *)
(* (KVSvr.h:74-76).                                                          *)
WaitsForSilent == main = "select" /\ sent[open[mainFd]] = "nothing"

EveryCommandAnswered ==
  \A c \in Clients :
    sent[c] = "command" ~> \/ got[c] # << >> \/ ~alive \/ main = "returned"
                           \/ \E fd \in leaked : open[fd] = c
                           \/ []WaitsForSilent
=============================================================================
