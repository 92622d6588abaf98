---------------------------- MODULE PipelineProofs ----------------------------
(***************************************************************************)
(* The safety properties of the pipeline, for every number of connections, *)
(* epoll threads and commands and every size of the queues.                *)
(*                                                                         *)
(* NetworkInv: a connection waits for inputThread in one place, and while  *)
(* it waits or is with inputThread its registration is disarmed and it has *)
(* something to read.  TaskInv: the places of tasks are eight lanes in the *)
(* order of the way to the client (Lanes); every step of a thread takes    *)
(* the first task of one lane to the end of the next, or past the store,   *)
(* makes one behind all others, or answers the first of the last lane.     *)
(* No task is twice in the lanes and the answers, none is missing, and two *)
(* of a client are out of order only when the one behind waits for the     *)
(* store and the other does not.  ClosedForReason and Patient say why a    *)
(* connection is closed, and what a client that waits has by then.         *)
(***************************************************************************)
EXTENDS Pipeline, FiniteSetTheorems, SequenceTheorems, TLAPS

-----------------------------------------------------------------------------
(* Connections *)

NetworkTypes ==
  /\ event \in [Conns -> {"none", "armed", "off", "deleted"}]
  /\ events \in [EpollThreads -> Seq(Conns)]
  /\ fdQueue \in Seq(Conns) /\ Len(fdQueue) <= fdQueueSize
  /\ input \in [pc : {"idle", "addTask", "rearm"}, fd : Conns \cup {NoTask},
                task : Tasks \cup {NoTask}]
  /\ input.pc = "idle" <=> input.fd = NoTask
  /\ input.pc = "addTask" <=> input.task # NoTask

LineTypes ==
  /\ lines \in [Conns -> Seq(Kinds)]
  /\ taken \in [Conns -> Nat]
  /\ \A c \in Conns : taken[c] <= Len(lines[c])
  /\ {part, eof, closed} \subseteq [Conns -> BOOLEAN]
  /\ hasty \subseteq Conns

\* Where a connection waits for inputThread is one place ...
WaitsOnce ==
  /\ \A e, f \in EpollThreads : \A i \in 1 .. Len(events[e]), j \in 1 .. Len(events[f]) :
       events[e][i] = events[f][j] => e = f /\ i = j
  /\ \A i, j \in 1 .. Len(fdQueue) : fdQueue[i] = fdQueue[j] => i = j
  /\ \A e \in EpollThreads : \A i \in 1 .. Len(events[e]), j \in 1 .. Len(fdQueue) :
       events[e][i] # fdQueue[j]

\* ... and not where it is armed, or with inputThread.
Waits(c) ==
  \/ \E e \in EpollThreads : \E i \in 1 .. Len(events[e]) : events[e][i] = c
  \/ \E i \in 1 .. Len(fdQueue) : fdQueue[i] = c

WaitsDisarmed ==
  /\ input.fd \in Conns => event[input.fd] \in {"off", "deleted"} /\ ~Waits(input.fd)
  /\ \A c \in Conns : Waits(c) => event[c] \in {"off", "deleted"} /\ Readable(c)

NetworkInv == NetworkTypes /\ LineTypes /\ WaitsOnce /\ WaitsDisarmed

-----------------------------------------------------------------------------
(* Tasks *)

AtMostOne(x) == IF x = NoTask THEN << >> ELSE <<x>>

LaneNos == 1 .. 8

\* The places of tasks in the order of the way to the client.
Lanes ==
  [l \in LaneNos |->
     IF l = 1 THEN AtMostOne(input.task)
     ELSE IF l = 2 THEN queue["workQueue"]
     ELSE IF l = 3 THEN AtMostOne(hand["inThread"])
     ELSE IF l = 4 THEN queue["storeWork"]
     ELSE IF l = 5 THEN AtMostOne(hand["diskIO"])
     ELSE IF l = 6 THEN queue["storeResult"]
     ELSE IF l = 7 THEN AtMostOne(hand["outThread"])
     ELSE queue["resultQueue"]]

OutputTyped ==
  /\ output \in [pc : {"idle", "shutdown", "deleteEvent"}, fd : Conns \cup {NoTask}]
  /\ output.pc # "idle" => output.fd \in Conns

TaskTypes ==
  /\ queue \in [QueueNames -> Seq(Tasks)]
  /\ \A q \in QueueNames : Len(queue[q]) <= queueSize
  /\ hand \in [Workers -> Tasks \cup {NoTask}]
  /\ answers \in [Conns -> Seq(Nat)]
  /\ OutputTyped

Same(x, y) == x.fd = y.fd /\ x.no = y.no
Alike(x, y) == Same(x, y) /\ x.kind = y.kind

\* The task at place i of lane l is behind that at place j of lane m.
Behind(l, i, m, j) == l < m \/ (l = m /\ j < i)

\* A task stands for a line that was read.
Known(x) ==
  /\ x.no \in 1 .. taken[x.fd]
  /\ x.kind = lines[x.fd][x.no] /\ x.kind # "blank"
  /\ x.CMD = "quit" => x.kind \in {"quit", "bad"}

TasksKnown ==
  \A l \in LaneNos : \A i \in 1 .. Len(Lanes[l]) :
    Known(Lanes[l][i]) /\ (l \in 4 .. 7 => Lanes[l][i].kind \in Stored)

AnswersKnown ==
  \A c \in Conns : \A k \in 1 .. Len(answers[c]) :
    /\ answers[c][k] \in 1 .. taken[c]
    /\ lines[c][answers[c][k]] # "blank"

OnceInLanes ==
  \A l, m \in LaneNos : \A i \in 1 .. Len(Lanes[l]), j \in 1 .. Len(Lanes[m]) :
    Same(Lanes[l][i], Lanes[m][j]) => l = m /\ i = j

OnceAnswered ==
  /\ \A c \in Conns : \A i, j \in 1 .. Len(answers[c]) : answers[c][i] = answers[c][j] => i = j
  /\ \A l \in LaneNos : \A i \in 1 .. Len(Lanes[l]) :
       \A k \in 1 .. Len(answers[Lanes[l][i].fd]) :
         answers[Lanes[l][i].fd][k] # Lanes[l][i].no

Answered(c, n) == \E k \in 1 .. Len(answers[c]) : answers[c][k] = n

OnItsWay(c, n) ==
  \E l \in LaneNos : \E i \in 1 .. Len(Lanes[l]) : Lanes[l][i].fd = c /\ Lanes[l][i].no = n

NoneLost ==
  \A c \in Conns : \A n \in 1 .. taken[c] :
    lines[c][n] # "blank" => Answered(c, n) \/ OnItsWay(c, n)

\* One task is before another of its client that is in front of it only when
\* it waits for the store and the other does not.
Overtakes(k, x) == k \notin Stored /\ x \in Stored

LanesInOrder ==
  \A l, m \in LaneNos : \A i \in 1 .. Len(Lanes[l]), j \in 1 .. Len(Lanes[m]) :
    /\ Behind(l, i, m, j)
    /\ Lanes[l][i].fd = Lanes[m][j].fd
    /\ Lanes[l][i].no < Lanes[m][j].no
    => Overtakes(Lanes[m][j].kind, Lanes[l][i].kind)

AnswersInOrder ==
  /\ \A l \in LaneNos : \A i \in 1 .. Len(Lanes[l]) :
       \A k \in 1 .. Len(answers[Lanes[l][i].fd]) :
         Lanes[l][i].no < answers[Lanes[l][i].fd][k] =>
           Overtakes(lines[Lanes[l][i].fd][answers[Lanes[l][i].fd][k]], Lanes[l][i].kind)
  /\ \A c \in Conns : \A i, j \in 1 .. Len(answers[c]) :
       i < j /\ answers[c][j] < answers[c][i] =>
         Overtakes(lines[c][answers[c][i]], lines[c][answers[c][j]])

TaskInv ==
  /\ TaskTypes /\ TasksKnown /\ AnswersKnown /\ OnceInLanes /\ OnceAnswered /\ NoneLost
  /\ LanesInOrder /\ AnswersInOrder

-----------------------------------------------------------------------------
(* Ends of connections *)

AnsweredKind(c, kind) == \E k \in 1 .. Len(answers[c]) : lines[c][answers[c][k]] = kind

\* A connection is closed for one of three reasons.
ClosedForReason ==
  \A c \in Conns :
    closed[c] \/ (output.pc # "idle" /\ output.fd = c) =>
      eof[c] \/ AnsweredKind(c, "quit") \/ AnsweredKind(c, "bad")

\* A client that is not hasty has the answers of all lines but the last, and of
\* that as well when it has sent its end.
Patient ==
  \A c \in Conns : c \notin hasty =>
    \A n \in 1 .. Len(lines[c]) :
      /\ lines[c][n] = "quit" => n = Len(lines[c])
      /\ lines[c][n] # "blank" /\ (n < Len(lines[c]) \/ eof[c]) => Answered(c, n)

IInv == NetworkInv /\ TaskInv /\ ClosedForReason /\ Patient

-----------------------------------------------------------------------------
\* What is appended to a sequence and what is taken from it.
LEMMA Appended ==
  ASSUME NEW S, NEW s \in Seq(S), NEW e \in S
  PROVE  /\ Append(s, e) \in Seq(S)
         /\ Len(s) \in Nat
         /\ Len(Append(s, e)) = Len(s) + 1
         /\ \A i \in 1 .. Len(s) : s[i] \in S /\ Append(s, e)[i] = s[i]
         /\ Append(s, e)[Len(s) + 1] = e
BY AppendProperties, LenProperties, ElementOfSeq

LEMMA Taken ==
  ASSUME NEW S, NEW s \in Seq(S), s # << >>
  PROVE  /\ Tail(s) \in Seq(S)
         /\ Head(s) \in S
         /\ Head(s) = s[1]
         /\ Len(s) \in Nat \ {0}
         /\ Len(Tail(s)) = Len(s) - 1
         /\ \A i \in 1 .. Len(s) : s[i] \in S
         /\ \A i \in 1 .. Len(s) - 1 : Tail(s)[i] = s[i + 1]
<1>1. Len(s) # 0
  BY EmptySeq
<1> QED BY <1>1, HeadTailProperties, LenProperties, ElementOfSeq

\* epoll_wait returns each of the connections once.
LEMMA OrderOf ==
  ASSUME NEW S \in SUBSET Conns, NEW s \in Orders(S)
  PROVE  /\ s \in Seq(Conns)
         /\ \A i \in 1 .. Len(s) : s[i] \in S
         /\ \A i, j \in 1 .. Len(s) : s[i] = s[j] => i = j
<1>1. IsFiniteSet(S)
  BY FS_Subset, PipelineAssumption
<1>2. Cardinality(S) \in Nat
  BY <1>1, FS_CardinalityType
<1> DEFINE n == Cardinality(S)
<1>3. s \in [1 .. n -> S] /\ \A c \in S : \E i \in 1 .. n : s[i] = c
  BY DEF Orders
<1>4. s \in Seq(Conns) /\ Len(s) = n
  BY <1>2, <1>3
<1>5. s \in Injection(1 .. n, S)
  <2>1. s \in Surjection(1 .. n, S)
    BY <1>3 DEF Surjection
  <2>2. IsFiniteSet(1 .. n) /\ Cardinality(1 .. n) = n
    BY <1>2, FS_Interval
  <2> QED BY <2>1, <2>2, FS_Surjection
<1>6. \A i, j \in 1 .. n : s[i] = s[j] => i = j
  BY <1>5 DEF Injection, IsInjective
<1> QED BY <1>3, <1>4, <1>6

LEMMA InitNetwork == Init => NetworkInv
<1> SUFFICES ASSUME Init PROVE NetworkInv
  OBVIOUS
<1>1. NetworkTypes /\ LineTypes
  BY PipelineAssumption DEF Init, NetworkTypes, LineTypes, Idle
<1>2. WaitsOnce /\ WaitsDisarmed
  BY PipelineAssumption DEF Init, WaitsOnce, WaitsDisarmed, Waits, Idle
<1> QED BY <1>1, <1>2 DEF NetworkInv

\* A step that hands no connection on.
LEMMA NetworkSteady ==
  ASSUME NetworkInv, LineTypes', UNCHANGED network,
         \A c \in Conns : Readable(c) => Readable(c)'
  PROVE  NetworkInv'
BY DEF NetworkInv, NetworkTypes, WaitsOnce, WaitsDisarmed, Waits, network

LEMMA ReadableTyped ==
  ASSUME NetworkInv, NEW c \in Conns
  PROVE  /\ taken[c] \in Nat /\ Len(lines[c]) \in Nat /\ lines[c] \in Seq(Kinds)
         /\ part[c] \in BOOLEAN /\ eof[c] \in BOOLEAN
BY LenProperties DEF NetworkInv, LineTypes

LEMMA NetworkClient ==
  ASSUME NetworkInv, NEW c \in Conns, Client(c) PROVE NetworkInv'
<1>1. ASSUME NEW kind \in Kinds, SendLine(c, kind) PROVE NetworkInv'
  <2> USE <1>1 DEF SendLine
  <2>1. /\ Append(lines[c], kind) \in Seq(Kinds)
        /\ Len(Append(lines[c], kind)) = Len(lines[c]) + 1
    BY ReadableTyped, Appended
  <2>2. \A d \in Conns : lines'[d] = IF d = c THEN Append(lines[c], kind) ELSE lines[d]
    BY DEF NetworkInv, LineTypes
  <2>3. LineTypes'
    <3>1. lines' \in [Conns -> Seq(Kinds)]
      BY <2>1 DEF NetworkInv, LineTypes
    <3>2. \A d \in Conns : taken'[d] <= Len(lines'[d])
      BY <2>1, <2>2, ReadableTyped DEF NetworkInv, LineTypes
    <3>3. hasty' \subseteq Conns
      BY DEF NetworkInv, LineTypes, Hurry
    <3> QED BY <3>1, <3>2, <3>3 DEF NetworkInv, LineTypes
  <2>4. ASSUME NEW d \in Conns, Readable(d) PROVE Readable(d)'
    <3>1. CASE d = c
      <4>1. taken'[c] < Len(lines'[c])
        BY <2>1, <2>2, ReadableTyped DEF NetworkInv, LineTypes
      <4> QED BY <3>1, <4>1 DEF Readable
    <3>2. CASE d # c
      BY <2>2, <2>4, <3>2 DEF Readable, NetworkInv, LineTypes
    <3> QED BY <3>1, <3>2
  <2> QED BY <2>3, <2>4, NetworkSteady
<1>2. CASE SendPart(c)
  <2> USE <1>2 DEF SendPart
  <2>1. LineTypes'
    BY DEF NetworkInv, LineTypes
  <2>2. \A d \in Conns : Readable(d) => Readable(d)'
    BY DEF Readable, NetworkInv, LineTypes
  <2> QED BY <2>1, <2>2, NetworkSteady
<1>3. CASE HalfClose(c)
  <2> USE <1>3 DEF HalfClose
  <2>1. LineTypes'
    BY DEF NetworkInv, LineTypes, Hurry
  <2>2. \A d \in Conns : Readable(d) => Readable(d)'
    BY DEF Readable, NetworkInv, LineTypes
  <2> QED BY <2>1, <2>2, NetworkSteady
<1> QED BY <1>1, <1>2, <1>3 DEF Client

\* Only closed has changed for the network.
LEMMA NetworkAlone ==
  ASSUME NetworkInv, UNCHANGED <<client, taken, eof, network>>, closed' \in [Conns -> BOOLEAN]
  PROVE  NetworkInv'
BY NetworkSteady DEF NetworkInv, LineTypes, Readable, client

LEMMA NetworkAccept ==
  ASSUME NetworkInv, NEW c \in Conns, Accept(c) PROVE NetworkInv'
<1> USE DEF NetworkInv, Accept, client
<1>1. NetworkTypes' /\ LineTypes' /\ WaitsOnce'
  BY DEF NetworkTypes, LineTypes, WaitsOnce
<1>2. ~Waits(c) /\ input.fd # c
  BY DEF WaitsDisarmed
<1>3. WaitsDisarmed'
  <2>1. \A d \in Conns : d # c => event'[d] = event[d]
    BY DEF NetworkTypes
  <2>2. \A d \in Conns : Waits(d)' = Waits(d) /\ Readable(d)' = Readable(d)
    BY DEF Waits, Readable
  <2> QED BY <1>2, <2>1, <2>2 DEF WaitsDisarmed
<1> QED BY <1>1, <1>3

LEMMA NetworkEpollWait ==
  ASSUME NetworkInv, NEW e \in EpollThreads, EpollWait(e) PROVE NetworkInv'
<1> USE DEF NetworkInv
<1>0. PICK S \in SUBSET {c \in Conns : event[c] = "armed" /\ Readable(c)} : \E s \in Orders(S) :
        events' = [events EXCEPT ![e] = s] /\ event' = Disarmed(S)
  BY DEF EpollWait
<1>1. PICK s \in Orders(S) : events' = [events EXCEPT ![e] = s] /\ event' = Disarmed(S)
  BY <1>0
<1>2. /\ events[e] = << >> /\ UNCHANGED <<lines, taken, part, eof, hasty, closed, fdQueue, input>>
  BY DEF EpollWait, client
<1>3. /\ s \in Seq(Conns)
      /\ \A i \in 1 .. Len(s) : s[i] \in S
      /\ \A i, j \in 1 .. Len(s) : s[i] = s[j] => i = j
  BY OrderOf
<1>4. \A f \in EpollThreads : events'[f] = IF f = e THEN s ELSE events[f]
  BY <1>1 DEF NetworkTypes
<1>5. ASSUME NEW c \in S
      PROVE  c \in Conns /\ event[c] = "armed" /\ Readable(c) /\ ~Waits(c) /\ input.fd # c
  BY DEF WaitsDisarmed
<1>6. NetworkTypes' /\ LineTypes'
  BY <1>1, <1>2, <1>3 DEF NetworkTypes, LineTypes, Disarmed
<1>7. WaitsOnce'
  <2>1. \A f \in EpollThreads : \A i \in 1 .. Len(events[f]), j \in 1 .. Len(s) : events[f][i] # s[j]
    BY <1>3, <1>5 DEF Waits
  <2>2. \A i \in 1 .. Len(s), j \in 1 .. Len(fdQueue) : s[i] # fdQueue[j]
    BY <1>3, <1>5 DEF Waits
  <2> QED BY <1>2, <1>3, <1>4, <2>1, <2>2 DEF WaitsOnce
<1>8. WaitsDisarmed'
  <2>1. \A c \in Conns : Readable(c)' = Readable(c)
    BY <1>2 DEF Readable
  <2>2. \A c \in Conns : event'[c] = IF c \in S THEN "off" ELSE event[c]
    BY <1>1 DEF Disarmed
  <2>3. ASSUME NEW c \in Conns, Waits(c)' PROVE c \in S \/ Waits(c)
    BY <1>2, <1>3, <1>4, <2>3 DEF Waits
  <2>4. ASSUME NEW c \in Conns, c = input.fd PROVE c \notin S /\ ~Waits(c)'
    BY <1>5, <2>3, <2>4 DEF WaitsDisarmed
  <2> QED BY <1>2, <1>5, <2>1, <2>2, <2>3, <2>4 DEF WaitsDisarmed
<1> QED BY <1>6, <1>7, <1>8

LEMMA NetworkEpollEnqueue ==
  ASSUME NetworkInv, NEW e \in EpollThreads, EpollEnqueue(e) PROVE NetworkInv'
<1> DEFINE c == Head(events[e])
<1> USE DEF NetworkInv
<1>1. /\ events[e] \in Seq(Conns) /\ events[e] # << >> /\ fdQueue \in Seq(Conns)
      /\ UNCHANGED <<lines, taken, part, eof, hasty, closed, event, input>>
      /\ events' = [events EXCEPT ![e] = Tail(events[e])] /\ fdQueue' = Append(fdQueue, c)
      /\ Len(fdQueue) < fdQueueSize
  BY DEF EpollEnqueue, client, NetworkTypes
<1>2. /\ Tail(events[e]) \in Seq(Conns) /\ c \in Conns /\ c = events[e][1]
      /\ Len(events[e]) \in Nat \ {0} /\ Len(Tail(events[e])) = Len(events[e]) - 1
      /\ \A i \in 1 .. Len(events[e]) - 1 : Tail(events[e])[i] = events[e][i + 1]
  BY <1>1, Taken
<1>3. /\ fdQueue' \in Seq(Conns) /\ Len(fdQueue) \in Nat /\ Len(fdQueue') = Len(fdQueue) + 1
      /\ \A i \in 1 .. Len(fdQueue) : fdQueue'[i] = fdQueue[i]
      /\ fdQueue'[Len(fdQueue) + 1] = c
  <2> HIDE DEF c
  <2> QED BY <1>1, <1>2, Appended
<1> HIDE DEF c
<1>4. \A f \in EpollThreads : events'[f] = IF f = e THEN Tail(events[e]) ELSE events[f]
  BY <1>1 DEF NetworkTypes
<1>5. NetworkTypes' /\ LineTypes'
  <2>1. Len(fdQueue') <= fdQueueSize
    BY <1>1, <1>3, PipelineAssumption
  <2> QED BY <1>1, <1>2, <1>3, <2>1 DEF NetworkTypes, LineTypes
<1>6. ASSUME NEW f \in EpollThreads, NEW i \in 1 .. Len(events'[f])
      PROVE  \E j \in 1 .. Len(events[f]) :
               events'[f][i] = events[f][j] /\ j = (IF f = e THEN i + 1 ELSE i)
  <2>1. CASE f = e
    <3>1. i \in 1 .. Len(events[e]) - 1 /\ events'[f][i] = Tail(events[e])[i]
      BY <1>2, <1>4, <2>1
    <3>2. i + 1 \in 1 .. Len(events[e]) /\ events'[f][i] = events[e][i + 1]
      BY <1>2, <3>1
    <3> QED BY <2>1, <3>2
  <2>2. CASE f # e
    BY <1>4, <2>2
  <2> QED BY <2>1, <2>2
<1>7. ASSUME NEW i \in 1 .. Len(fdQueue')
      PROVE  \/ i \in 1 .. Len(fdQueue) /\ fdQueue'[i] = fdQueue[i]
             \/ i = Len(fdQueue) + 1 /\ fdQueue'[i] = events[e][1]
  BY <1>2, <1>3
<1>8. WaitsOnce'
  <2>1. ASSUME NEW f \in EpollThreads, NEW g \in EpollThreads,
               NEW i \in 1 .. Len(events'[f]), NEW j \in 1 .. Len(events'[g]),
               events'[f][i] = events'[g][j]
        PROVE  f = g /\ i = j
    BY <1>6, <2>1 DEF WaitsOnce
  <2>2. ASSUME NEW f \in EpollThreads, NEW i \in 1 .. Len(events'[f]), NEW j \in 1 .. Len(fdQueue')
        PROVE  events'[f][i] # fdQueue'[j]
    <3>1. PICK k \in 1 .. Len(events[f]) : events'[f][i] = events[f][k] /\ k = (IF f = e THEN i + 1 ELSE i)
      BY <1>6
    <3>2. 1 \in 1 .. Len(events[e]) /\ (f = e => k # 1)
      BY <1>2, <3>1
    <3> QED BY <1>7, <3>1, <3>2 DEF WaitsOnce
  <2>3. ASSUME NEW i \in 1 .. Len(fdQueue'), NEW j \in 1 .. Len(fdQueue'), fdQueue'[i] = fdQueue'[j]
        PROVE  i = j
    <3>1. 1 \in 1 .. Len(events[e])
      BY <1>2
    <3> QED BY <1>7, <2>3, <3>1 DEF WaitsOnce
  <2> QED BY <2>1, <2>2, <2>3 DEF WaitsOnce
<1>9. WaitsDisarmed'
  <2>1. ASSUME NEW d \in Conns, Waits(d)' PROVE Waits(d)
    <3>1. 1 \in 1 .. Len(events[e])
      BY <1>2
    <3>2. CASE \E f \in EpollThreads : \E i \in 1 .. Len(events'[f]) : events'[f][i] = d
      BY <1>6, <3>2 DEF Waits
    <3>3. CASE \E i \in 1 .. Len(fdQueue') : fdQueue'[i] = d
      BY <1>7, <3>1, <3>3 DEF Waits
    <3> QED BY <2>1, <3>2, <3>3 DEF Waits
  <2>2. \A d \in Conns : Readable(d)' = Readable(d)
    BY <1>1 DEF Readable
  <2> QED BY <1>1, <2>1, <2>2 DEF WaitsDisarmed
<1> QED BY <1>5, <1>8, <1>9

\* inputThread takes the next connection: nobody else waits with it.
LEMMA NextConnection ==
  ASSUME NetworkInv, input.pc = "idle", fdQueue # << >>,
         fdQueue' = Tail(fdQueue), events' = events
  PROVE  /\ Head(fdQueue) \in Conns
         /\ Readable(Head(fdQueue))
         /\ event[Head(fdQueue)] \in {"off", "deleted"}
         /\ fdQueue' \in Seq(Conns) /\ Len(fdQueue') <= fdQueueSize
         /\ WaitsOnce'
         /\ \A d \in Conns : Waits(d)' => Waits(d) /\ d # Head(fdQueue)
<1> DEFINE c == Head(fdQueue)
<1>1. fdQueue \in Seq(Conns) /\ Len(fdQueue) <= fdQueueSize
  BY DEF NetworkInv, NetworkTypes
<1>2. /\ fdQueue' \in Seq(Conns) /\ c \in Conns /\ c = fdQueue[1]
      /\ Len(fdQueue) \in Nat \ {0} /\ Len(fdQueue') = Len(fdQueue) - 1
      /\ \A i \in 1 .. Len(fdQueue) - 1 : fdQueue'[i] = fdQueue[i + 1]
  BY <1>1, Taken
<1> HIDE DEF c
<1>3. 1 \in 1 .. Len(fdQueue) /\ Len(fdQueue') <= fdQueueSize
  BY <1>1, <1>2, PipelineAssumption
<1>4. Readable(c) /\ event[c] \in {"off", "deleted"}
  BY <1>2, <1>3 DEF NetworkInv, WaitsDisarmed, Waits
<1>5. ASSUME NEW i \in 1 .. Len(fdQueue')
      PROVE  i + 1 \in 1 .. Len(fdQueue) /\ fdQueue'[i] = fdQueue[i + 1]
  BY <1>2
<1>6. WaitsOnce'
  <2>1. \A i, j \in 1 .. Len(fdQueue') : fdQueue'[i] = fdQueue'[j] => i = j
    <3> SUFFICES ASSUME NEW i \in 1 .. Len(fdQueue'), NEW j \in 1 .. Len(fdQueue'),
                        fdQueue'[i] = fdQueue'[j]
                 PROVE  i = j
      OBVIOUS
    <3>1. i + 1 = j + 1
      BY <1>5 DEF NetworkInv, WaitsOnce
    <3> QED BY <3>1
  <2>2. \A e \in EpollThreads : \A i \in 1 .. Len(events[e]), j \in 1 .. Len(fdQueue') :
          events[e][i] # fdQueue'[j]
    BY <1>5 DEF NetworkInv, WaitsOnce
  <2> QED BY <2>1, <2>2 DEF NetworkInv, WaitsOnce
<1>7. ASSUME NEW d \in Conns, Waits(d)' PROVE Waits(d) /\ d # c
  <2>1. CASE \E e \in EpollThreads : \E i \in 1 .. Len(events[e]) : events[e][i] = d
    BY <1>2, <1>3, <2>1 DEF Waits, NetworkInv, WaitsOnce
  <2>2. CASE \E i \in 1 .. Len(fdQueue') : fdQueue'[i] = d
    <3>1. PICK i \in 1 .. Len(fdQueue') : fdQueue'[i] = d
      BY <2>2
    <3>2. i + 1 \in 1 .. Len(fdQueue) /\ fdQueue[i + 1] = d /\ i + 1 # 1
      BY <1>5, <3>1
    <3> QED BY <1>2, <1>3, <3>2 DEF Waits, NetworkInv, WaitsOnce
  <2> QED BY <1>7, <2>1, <2>2 DEF Waits
<1> QED BY <1>2, <1>3, <1>4, <1>6, <1>7 DEF c

LEMMA NetworkInputLine == ASSUME NetworkInv, InputLine PROVE NetworkInv'
<1> DEFINE c == Head(fdQueue)
           n == taken[c] + 1
<1>1. /\ input.pc = "idle" /\ fdQueue # << >> /\ n <= Len(lines[c])
      /\ fdQueue' = Tail(fdQueue) /\ taken' = [taken EXCEPT ![c] = n]
      /\ UNCHANGED <<lines, part, hasty, eof, event, events, closed>>
  BY DEF InputLine, client
<1>2. /\ c \in Conns /\ event[c] \in {"off", "deleted"}
      /\ fdQueue' \in Seq(Conns) /\ Len(fdQueue') <= fdQueueSize
      /\ WaitsOnce'
      /\ \A d \in Conns : Waits(d)' => Waits(d) /\ d # c
  BY <1>1, NextConnection
<1>3. taken[c] \in Nat /\ Len(lines[c]) \in Nat /\ lines[c] \in Seq(Kinds)
  BY <1>2, ReadableTyped
<1>4. input' = IF MakesTask(lines[c][n])
               THEN [pc |-> "addTask", fd |-> c,
                     task |-> [fd |-> c, no |-> n, kind |-> lines[c][n], CMD |-> NoTask]]
               ELSE [Idle EXCEPT !.pc = "rearm", !.fd = c]
  BY DEF InputLine
<1> HIDE DEF c
<1>5. /\ input' \in [pc : {"addTask", "rearm"}, fd : {c}, task : Tasks \cup {NoTask}]
      /\ input'.pc = "addTask" <=> input'.task # NoTask
  <2>1. lines[c][n] \in Kinds /\ n \in Nat
    BY <1>1, <1>3, ElementOfSeq
  <2>2. [fd |-> c, no |-> n, kind |-> lines[c][n], CMD |-> NoTask] \in Tasks
    BY <1>2, <2>1 DEF Tasks
  <2> HIDE DEF n
  <2>3. CASE MakesTask(lines[c][n])
    BY <1>4, <2>2, <2>3, PipelineAssumption
  <2>4. CASE ~MakesTask(lines[c][n])
    BY <1>4, <2>4 DEF Idle
  <2> QED BY <2>3, <2>4
<1>6. NetworkTypes'
  BY <1>1, <1>2, <1>5, PipelineAssumption DEF NetworkInv, NetworkTypes
<1>7. LineTypes'
  BY <1>1, <1>2, <1>3 DEF NetworkInv, LineTypes
<1>8. WaitsDisarmed'
  <2>1. ASSUME NEW d \in Conns, Waits(d)' PROVE event'[d] \in {"off", "deleted"} /\ Readable(d)'
    <3>1. taken'[d] = taken[d] /\ Waits(d)
      BY <1>1, <1>2, <2>1 DEF NetworkInv, LineTypes
    <3> QED BY <1>1, <3>1 DEF NetworkInv, WaitsDisarmed, Readable
  <2>2. input'.fd = c
    BY <1>5
  <2> QED BY <1>1, <1>2, <2>1, <2>2 DEF WaitsDisarmed
<1> QED BY <1>2, <1>6, <1>7, <1>8 DEF NetworkInv

LEMMA NetworkInputNoLine == ASSUME NetworkInv, InputNoLine PROVE NetworkInv'
<1> DEFINE c == Head(fdQueue)
<1>1. /\ input.pc = "idle" /\ fdQueue # << >>
      /\ fdQueue' = Tail(fdQueue) /\ input' = [pc |-> "rearm", fd |-> c, task |-> NoTask]
      /\ UNCHANGED <<lines, part, hasty, taken, eof, event, events, closed>>
  BY DEF InputNoLine, client, WaitForMore, Idle
<1>2. /\ c \in Conns /\ event[c] \in {"off", "deleted"}
      /\ fdQueue' \in Seq(Conns) /\ Len(fdQueue') <= fdQueueSize
      /\ WaitsOnce'
      /\ \A d \in Conns : Waits(d)' => Waits(d) /\ d # c
  BY <1>1, NextConnection
<1> HIDE DEF c
<1>3. NetworkTypes' /\ LineTypes'
  BY <1>1, <1>2, PipelineAssumption DEF NetworkInv, NetworkTypes, LineTypes
<1>4. WaitsDisarmed'
  <2>1. \A d \in Conns : Readable(d)' = Readable(d)
    BY <1>1 DEF Readable
  <2> QED BY <1>1, <1>2, <2>1 DEF NetworkInv, WaitsDisarmed
<1> QED BY <1>2, <1>3, <1>4 DEF NetworkInv

LEMMA NetworkInputEnd == ASSUME NetworkInv, InputEnd PROVE NetworkInv'
<1> DEFINE c == Head(fdQueue)
<1>1. /\ input.pc = "idle" /\ fdQueue # << >>
      /\ fdQueue' = Tail(fdQueue) /\ closed' = [closed EXCEPT ![c] = TRUE]
      /\ UNCHANGED <<lines, part, hasty, taken, eof, event, events, input>>
  BY DEF InputEnd, client
<1>2. /\ c \in Conns
      /\ fdQueue' \in Seq(Conns) /\ Len(fdQueue') <= fdQueueSize
      /\ WaitsOnce'
      /\ \A d \in Conns : Waits(d)' => Waits(d) /\ d # c
  BY <1>1, NextConnection
<1> HIDE DEF c
<1>3. NetworkTypes' /\ LineTypes'
  BY <1>1, <1>2 DEF NetworkInv, NetworkTypes, LineTypes
<1>4. WaitsDisarmed'
  <2>1. \A d \in Conns : Readable(d)' = Readable(d)
    BY <1>1 DEF Readable
  <2>2. input.fd \notin Conns
    BY <1>1, PipelineAssumption DEF NetworkInv, NetworkTypes
  <2> QED BY <1>1, <1>2, <2>1, <2>2 DEF NetworkInv, WaitsDisarmed
<1> QED BY <1>2, <1>3, <1>4 DEF NetworkInv

LEMMA NetworkAddTask == ASSUME NetworkInv, AddTask PROVE NetworkInv'
<1>1. /\ input.pc = "addTask" /\ input' = [input EXCEPT !.pc = "rearm", !.task = NoTask]
      /\ UNCHANGED <<lines, part, hasty, taken, eof, event, events, fdQueue, closed>>
  BY DEF AddTask, client
<1>2. input.fd \in Conns /\ input'.fd = input.fd /\ input'.pc = "rearm" /\ input'.task = NoTask
  BY <1>1 DEF NetworkInv, NetworkTypes
<1>3. NetworkTypes' /\ LineTypes' /\ WaitsOnce'
  <2>1. input' \in [pc : {"rearm"}, fd : Conns, task : {NoTask}]
    BY <1>1, <1>2 DEF NetworkInv, NetworkTypes
  <2>2. NetworkTypes'
    BY <1>1, <2>1, PipelineAssumption DEF NetworkInv, NetworkTypes
  <2>3. LineTypes' /\ WaitsOnce'
    BY <1>1 DEF NetworkInv, LineTypes, WaitsOnce
  <2> QED BY <2>2, <2>3
<1>4. WaitsDisarmed'
  BY <1>1, <1>2 DEF NetworkInv, WaitsDisarmed, Waits, Readable
<1> QED BY <1>3, <1>4 DEF NetworkInv

LEMMA NetworkRearm == ASSUME NetworkInv, Rearm PROVE NetworkInv'
<1>1. /\ input.pc = "rearm" /\ input' = Idle
      /\ event' = [event EXCEPT ![input.fd] = Modified(input.fd)]
      /\ UNCHANGED <<lines, part, hasty, taken, eof, events, fdQueue, closed>>
  BY DEF Rearm, client
<1>2. input.fd \in Conns /\ ~Waits(input.fd)
  BY <1>1 DEF NetworkInv, NetworkTypes, WaitsDisarmed
<1>3. NetworkTypes' /\ LineTypes' /\ WaitsOnce'
  <2>1. Modified(input.fd) \in {"armed", "deleted"}
    BY DEF Modified
  <2>2. event' \in [Conns -> {"none", "armed", "off", "deleted"}]
    BY <1>1, <1>2, <2>1 DEF NetworkInv, NetworkTypes
  <2>3. input' \in [pc : {"idle"}, fd : {NoTask}, task : {NoTask}]
    BY <1>1 DEF Idle
  <2>4. NetworkTypes'
    BY <1>1, <2>2, <2>3 DEF NetworkInv, NetworkTypes
  <2>5. LineTypes' /\ WaitsOnce'
    BY <1>1 DEF NetworkInv, LineTypes, WaitsOnce
  <2> QED BY <2>4, <2>5
<1>4. WaitsDisarmed'
  <2>1. \A d \in Conns : Waits(d)' = Waits(d) /\ Readable(d)' = Readable(d)
    BY <1>1 DEF Waits, Readable
  <2>2. \A d \in Conns : d # input.fd => event'[d] = event[d]
    BY <1>1 DEF NetworkInv, NetworkTypes
  <2> QED BY <1>1, <1>2, <2>1, <2>2, PipelineAssumption DEF NetworkInv, WaitsDisarmed, Idle
<1> QED BY <1>3, <1>4 DEF NetworkInv

LEMMA NetworkDeleteEvent ==
  ASSUME NetworkInv, OutputDeleteEvent, output.fd \in Conns PROVE NetworkInv'
<1>1. /\ event' = [event EXCEPT ![output.fd] = "deleted"]
      /\ UNCHANGED <<lines, part, hasty, taken, eof, events, fdQueue, input, closed>>
  BY DEF OutputDeleteEvent, client
<1>2. NetworkTypes' /\ LineTypes' /\ WaitsOnce'
  BY <1>1 DEF NetworkInv, NetworkTypes, LineTypes, WaitsOnce
<1>3. WaitsDisarmed'
  <2>1. \A d \in Conns : Waits(d)' = Waits(d) /\ Readable(d)' = Readable(d)
    BY <1>1 DEF Waits, Readable
  <2>2. \A d \in Conns : event'[d] = event[d] \/ event'[d] = "deleted"
    BY <1>1 DEF NetworkInv, NetworkTypes
  <2> QED BY <1>1, <2>1, <2>2 DEF NetworkInv, WaitsDisarmed
<1> QED BY <1>2, <1>3 DEF NetworkInv

-----------------------------------------------------------------------------
(* Steps of tasks *)

LEMMA LanesTyped ==
  ASSUME NetworkInv, TaskTypes PROVE Lanes \in [LaneNos -> Seq(Tasks)]
<1>1. /\ AtMostOne(input.task) \in Seq(Tasks)
      /\ \A t \in Workers : AtMostOne(hand[t]) \in Seq(Tasks)
  BY DEF NetworkInv, NetworkTypes, TaskTypes, AtMostOne
<1>2. /\ queue["workQueue"] \in Seq(Tasks) /\ queue["storeWork"] \in Seq(Tasks)
      /\ queue["storeResult"] \in Seq(Tasks) /\ queue["resultQueue"] \in Seq(Tasks)
  BY DEF TaskTypes, QueueNames
<1> QED BY <1>1, <1>2 DEF Lanes, LaneNos, Workers

\* The first task of lane a goes to the end of lane b, as x.
Moves(L, K, a, b, x) ==
  /\ L[a] # << >>
  /\ K[a] = Tail(L[a])
  /\ K[b] = Append(L[b], x)
  /\ \A l \in LaneNos \ {a, b} : K[l] = L[l]
  /\ Alike(x, Head(L[a]))
  /\ x.CMD = "quit" => x.kind \in {"quit", "bad"}
  /\ \/ b = a + 1
     \/ a = 3 /\ b = 8 /\ x.kind \notin Stored
  /\ b \in 4 .. 7 => x.kind \in Stored

CameFrom(L, K, a, b, x, l, i, m, j) ==
  /\ Alike(K[l][i], L[m][j])
  /\ K[l][i] = L[m][j] \/ (K[l][i] = x /\ l = b)
  /\ \/ l = b /\ i = Len(L[b]) + 1 /\ m = a /\ j = 1
     \/ l = a /\ m = a /\ j = i + 1
     \/ l # a /\ m = l /\ j = i /\ i <= Len(L[l])

LEMMA MovedPlaces ==
  ASSUME NEW L \in [LaneNos -> Seq(Tasks)], NEW K, NEW a \in LaneNos, NEW b \in LaneNos,
         NEW x \in Tasks, Moves(L, K, a, b, x)
  PROVE  /\ \A l \in LaneNos : \A i \in 1 .. Len(K[l]) :
              /\ i \in Nat \ {0}
              /\ \E m \in LaneNos : \E j \in 1 .. Len(L[m]) : CameFrom(L, K, a, b, x, l, i, m, j)
         /\ \A m \in LaneNos : \A j \in 1 .. Len(L[m]) :
              \E l \in LaneNos : \E i \in 1 .. Len(K[l]) : CameFrom(L, K, a, b, x, l, i, m, j)
         /\ \A l \in LaneNos : Len(L[l]) \in Nat
<1>1. a # b
  BY DEF Moves, LaneNos
<1>2. /\ Head(L[a]) = L[a][1] /\ Len(L[a]) \in Nat \ {0}
      /\ Len(K[a]) = Len(L[a]) - 1
      /\ \A i \in 1 .. Len(L[a]) - 1 : K[a][i] = L[a][i + 1]
  BY Taken DEF Moves
<1>3. /\ Len(L[b]) \in Nat /\ Len(K[b]) = Len(L[b]) + 1
      /\ \A i \in 1 .. Len(L[b]) : K[b][i] = L[b][i]
      /\ K[b][Len(L[b]) + 1] = x
  BY Appended DEF Moves
<1>4. \A l \in LaneNos : Len(L[l]) \in Nat
  BY LenProperties
<1>5. \A l \in LaneNos \ {a, b} : K[l] = L[l]
  BY DEF Moves
<1>6. Alike(x, L[a][1]) /\ 1 \in 1 .. Len(L[a])
  BY <1>2 DEF Moves
<1>7. ASSUME NEW l \in LaneNos, NEW i \in 1 .. Len(K[l])
      PROVE  \E m \in LaneNos : \E j \in 1 .. Len(L[m]) : CameFrom(L, K, a, b, x, l, i, m, j)
  <2>1. CASE l = a
    <3>1. i + 1 \in 1 .. Len(L[a]) /\ K[a][i] = L[a][i + 1]
      BY <1>2, <2>1
    <3> QED BY <2>1, <3>1 DEF CameFrom, Alike, Same
  <2>2. CASE l = b /\ i = Len(L[b]) + 1
    BY <1>3, <1>6, <2>2 DEF CameFrom
  <2>3. CASE l # a /\ ~(l = b /\ i = Len(L[b]) + 1)
    <3>1. i \in 1 .. Len(L[l]) /\ K[l][i] = L[l][i]
      BY <1>3, <1>4, <1>5, <2>3
    <3> QED BY <1>4, <2>3, <3>1 DEF CameFrom, Alike, Same
  <2> QED BY <2>1, <2>2, <2>3
<1>8. ASSUME NEW m \in LaneNos, NEW j \in 1 .. Len(L[m])
      PROVE  \E l \in LaneNos : \E i \in 1 .. Len(K[l]) : CameFrom(L, K, a, b, x, l, i, m, j)
  <2>1. CASE m = a /\ j = 1
    <3>1. Len(L[b]) + 1 \in 1 .. Len(K[b])
      BY <1>3
    <3> QED BY <1>3, <1>6, <2>1, <3>1 DEF CameFrom
  <2>2. CASE m = a /\ j # 1
    <3>1. j - 1 \in 1 .. Len(K[a]) /\ K[a][j - 1] = L[a][j] /\ j = (j - 1) + 1
      BY <1>2, <2>2
    <3> QED BY <2>2, <3>1 DEF CameFrom, Alike, Same
  <2>3. CASE m # a
    <3>1. j \in 1 .. Len(K[m]) /\ K[m][j] = L[m][j]
      BY <1>3, <1>4, <1>5, <2>3
    <3> QED BY <1>4, <2>3, <3>1 DEF CameFrom, Alike, Same
  <2> QED BY <2>1, <2>2, <2>3
<1>9. ASSUME NEW l \in LaneNos, NEW i \in 1 .. Len(K[l]) PROVE i \in Nat \ {0}
  BY <1>2, <1>3, <1>4, <1>5
<1> QED BY <1>4, <1>7, <1>8, <1>9

\* Two tasks come from two places, and an earlier one from an earlier place,
\* unless it overtakes.
InOrder(L, K, a, b, x) ==
  \A l, l2, m, m2 \in LaneNos :
    \A i \in 1 .. Len(K[l]), i2 \in 1 .. Len(K[l2]), j \in 1 .. Len(L[m]), j2 \in 1 .. Len(L[m2]) :
      CameFrom(L, K, a, b, x, l, i, m, j) /\ CameFrom(L, K, a, b, x, l2, i2, m2, j2) =>
        /\ m = m2 /\ j = j2 => l = l2 /\ i = i2
        /\ Behind(l, i, l2, i2) =>
             \/ Behind(m, j, m2, j2)
             \/ l \in 4 .. 7 /\ l2 = 8 /\ K[l2][i2].kind \notin Stored

LEMMA MovedInOrder ==
  ASSUME NEW L \in [LaneNos -> Seq(Tasks)], NEW K, NEW a \in LaneNos, NEW b \in LaneNos,
         NEW x \in Tasks, Moves(L, K, a, b, x)
  PROVE  InOrder(L, K, a, b, x)
<1> SUFFICES ASSUME NEW l \in LaneNos, NEW l2 \in LaneNos, NEW m \in LaneNos, NEW m2 \in LaneNos,
                    NEW i \in 1 .. Len(K[l]), NEW i2 \in 1 .. Len(K[l2]),
                    NEW j \in 1 .. Len(L[m]), NEW j2 \in 1 .. Len(L[m2]),
                    CameFrom(L, K, a, b, x, l, i, m, j), CameFrom(L, K, a, b, x, l2, i2, m2, j2)
             PROVE  /\ m = m2 /\ j = j2 => l = l2 /\ i = i2
                    /\ Behind(l, i, l2, i2) =>
                         \/ Behind(m, j, m2, j2)
                         \/ l \in 4 .. 7 /\ l2 = 8 /\ K[l2][i2].kind \notin Stored
  BY DEF InOrder
<1>1. /\ i \in Nat \ {0} /\ i2 \in Nat \ {0} /\ j \in Nat \ {0} /\ j2 \in Nat \ {0}
      /\ Len(L[b]) \in Nat
  BY MovedPlaces
<1>0. /\ a \in 1 .. 8 /\ b \in 1 .. 8 /\ l \in 1 .. 8
      /\ l2 \in 1 .. 8 /\ m \in 1 .. 8 /\ m2 \in 1 .. 8
  BY DEF LaneNos
<1>2. b = a + 1 \/ (a = 3 /\ b = 8 /\ x.kind \notin Stored)
  BY DEF Moves
<1>3. m = m2 /\ j = j2 => l = l2 /\ i = i2
  BY <1>0, <1>1, <1>2 DEF CameFrom
<1>4. ASSUME Behind(l, i, l2, i2), ~Behind(m, j, m2, j2)
      PROVE  l \in 4 .. 7 /\ l2 = 8 /\ K[l2][i2].kind \notin Stored
  <2>1. l2 = b /\ i2 = Len(L[b]) + 1 /\ m2 = a /\ j2 = 1
    BY <1>0, <1>1, <1>2, <1>4 DEF CameFrom, Behind
  <2>2. b = 8 /\ a = 3 /\ x.kind \notin Stored /\ l \in 4 .. 7
    BY <1>0, <1>1, <1>2, <1>4, <2>1 DEF CameFrom, Behind
  <2>3. K[l2][i2].kind = L[a][1].kind
    BY <2>1 DEF CameFrom, Alike
  <2>4. x.kind = L[a][1].kind
    BY Taken DEF Moves, Alike
  <2> QED BY <2>1, <2>2, <2>3, <2>4
<1> QED BY <1>3, <1>4

LEMMA LaneTask ==
  ASSUME NEW L \in [LaneNos -> Seq(Tasks)], NEW l \in LaneNos, NEW i \in 1 .. Len(L[l])
  PROVE  /\ L[l][i] \in Tasks /\ L[l][i].fd \in Conns /\ L[l][i].no \in Nat
         /\ L[l][i].kind \in Kinds
<1>1. L[l] \in Seq(Tasks)
  OBVIOUS
<1>2. L[l][i] \in Tasks
  BY <1>1, ElementOfSeq
<1> QED BY <1>2 DEF Tasks

\* Lanes, lines and answers of a state in which no task has moved.
LEMMA TasksSteady ==
  ASSUME NetworkInv, TaskInv, TaskTypes', Lanes' = Lanes, UNCHANGED <<taken, answers>>,
         \A c \in Conns : \A n \in 1 .. Len(lines[c]) : lines'[c][n] = lines[c][n]
  PROVE  TaskInv'
<1>1. \A c \in Conns : \A n \in 1 .. taken[c] : lines'[c][n] = lines[c][n]
  BY ReadableTyped DEF NetworkInv, LineTypes
<1>2. Lanes \in [LaneNos -> Seq(Tasks)]
  BY LanesTyped DEF TaskInv
<1>3. \A l \in LaneNos : \A i \in 1 .. Len(Lanes[l]) : Lanes[l][i] \in Tasks /\ Lanes[l][i].fd \in Conns
  BY <1>2, LaneTask
<1>4. TasksKnown' /\ AnswersKnown'
  <2>1. TasksKnown'
    BY <1>1, <1>3 DEF TaskInv, TasksKnown, Known
  <2>2. AnswersKnown'
    BY <1>1 DEF TaskInv, AnswersKnown
  <2> QED BY <2>1, <2>2
<1>5. OnceInLanes' /\ OnceAnswered' /\ LanesInOrder'
  BY DEF TaskInv, OnceInLanes, OnceAnswered, LanesInOrder
<1>6. NoneLost'
  BY <1>1 DEF TaskInv, NoneLost, Answered, OnItsWay
<1>7. AnswersInOrder'
  <2>1. \A c \in Conns : \A k \in 1 .. Len(answers[c]) : lines'[c][answers[c][k]] = lines[c][answers[c][k]]
    BY <1>1 DEF TaskInv, AnswersKnown
  <2> DEFINE Part1 == \A l \in LaneNos : \A i \in 1 .. Len(Lanes[l]) :
                        \A k \in 1 .. Len(answers[Lanes[l][i].fd]) :
                          Lanes[l][i].no < answers[Lanes[l][i].fd][k] =>
                            Overtakes(lines[Lanes[l][i].fd][answers[Lanes[l][i].fd][k]], Lanes[l][i].kind)
             Part2 == \A c \in Conns : \A i, j \in 1 .. Len(answers[c]) :
                        i < j /\ answers[c][j] < answers[c][i] =>
                          Overtakes(lines[c][answers[c][i]], lines[c][answers[c][j]])
  <2>2. Part1 /\ Part2
    BY DEF TaskInv, AnswersInOrder
  <2>3. Part1'
    <3> SUFFICES ASSUME NEW l \in LaneNos, NEW i \in 1 .. Len(Lanes[l]),
                        NEW k \in 1 .. Len(answers[Lanes[l][i].fd]),
                        Lanes[l][i].no < answers[Lanes[l][i].fd][k]
                 PROVE  Overtakes(lines'[Lanes[l][i].fd][answers[Lanes[l][i].fd][k]], Lanes[l][i].kind)
      OBVIOUS
    <3>1. Lanes[l][i].fd \in Conns
      BY <1>3
    <3> QED BY <2>1, <2>2, <3>1
  <2>4. Part2'
    <3> HIDE DEF Part1
    <3> QED BY <2>1, <2>2
  <2> QED BY <2>3, <2>4 DEF AnswersInOrder
<1> QED BY <1>4, <1>5, <1>6, <1>7 DEF TaskInv

LEMMA TasksMove ==
  ASSUME NetworkInv, TaskInv, TaskTypes', UNCHANGED <<lines, taken, answers>>,
         NEW a \in LaneNos, NEW b \in LaneNos, NEW x \in Tasks, Moves(Lanes, Lanes', a, b, x)
  PROVE  TaskInv'
<1> DEFINE From(l, i, m, j) == CameFrom(Lanes, Lanes', a, b, x, l, i, m, j)
<1>1. Lanes \in [LaneNos -> Seq(Tasks)]
  BY LanesTyped DEF TaskInv
<1>2. /\ \A l \in LaneNos : \A i \in 1 .. Len(Lanes'[l]) :
           \E m \in LaneNos : \E j \in 1 .. Len(Lanes[m]) : From(l, i, m, j)
      /\ \A m \in LaneNos : \A j \in 1 .. Len(Lanes[m]) :
           \E l \in LaneNos : \E i \in 1 .. Len(Lanes'[l]) : From(l, i, m, j)
  BY <1>1, MovedPlaces
<1>3. \A l, l2, m, m2 \in LaneNos :
        \A i \in 1 .. Len(Lanes'[l]), i2 \in 1 .. Len(Lanes'[l2]),
           j \in 1 .. Len(Lanes[m]), j2 \in 1 .. Len(Lanes[m2]) :
          From(l, i, m, j) /\ From(l2, i2, m2, j2) =>
            /\ m = m2 /\ j = j2 => l = l2 /\ i = i2
            /\ Behind(l, i, l2, i2) =>
                 \/ Behind(m, j, m2, j2)
                 \/ l \in 4 .. 7 /\ l2 = 8 /\ Lanes'[l2][i2].kind \notin Stored
  <2>1. InOrder(Lanes, Lanes', a, b, x)
    BY <1>1, MovedInOrder
  <2> QED BY <2>1, Zenon DEF InOrder
<1>4. \A l, m \in LaneNos : \A i \in 1 .. Len(Lanes'[l]), j \in 1 .. Len(Lanes[m]) :
        From(l, i, m, j) =>
          /\ Lanes'[l][i].fd = Lanes[m][j].fd /\ Lanes'[l][i].no = Lanes[m][j].no
          /\ Lanes'[l][i].kind = Lanes[m][j].kind
          /\ Lanes'[l][i] = Lanes[m][j] \/ (Lanes'[l][i] = x /\ l = b)
          /\ l = b \/ l = a \/ l = m
  BY DEF CameFrom, Alike, Same
<1>5. \A l \in LaneNos : \A i \in 1 .. Len(Lanes[l]) : Lanes[l][i].fd \in Conns
  BY <1>1, LaneTask
<1> HIDE DEF From
<1>6. TasksKnown'
  <2> SUFFICES ASSUME NEW l \in LaneNos, NEW i \in 1 .. Len(Lanes'[l])
               PROVE  Known(Lanes[l][i])' /\ (l \in 4 .. 7 => Lanes'[l][i].kind \in Stored)
    BY DEF TasksKnown
  <2>1. PICK m \in LaneNos : \E j \in 1 .. Len(Lanes[m]) : From(l, i, m, j)
    BY <1>2
  <2>2. PICK j \in 1 .. Len(Lanes[m]) : From(l, i, m, j)
    BY <2>1
  <2>3. Known(Lanes[m][j]) /\ (m \in 4 .. 7 => Lanes[m][j].kind \in Stored)
    BY DEF TaskInv, TasksKnown
  <2>4. x.CMD = "quit" => x.kind \in {"quit", "bad"}
    BY DEF Moves
  <2>5. Known(Lanes[l][i])'
    <3>1. /\ Lanes'[l][i].fd = Lanes[m][j].fd /\ Lanes'[l][i].no = Lanes[m][j].no
          /\ Lanes'[l][i].kind = Lanes[m][j].kind
          /\ Lanes'[l][i].CMD = Lanes[m][j].CMD \/ Lanes'[l][i] = x
      BY <1>4, <2>2
    <3> QED BY <2>3, <2>4, <3>1 DEF Known
  <2>6. ASSUME l \in 4 .. 7 PROVE Lanes'[l][i].kind \in Stored
    <3>1. Lanes'[l][i].kind = Lanes[m][j].kind
      BY <1>4, <2>2
    <3>2. m = l \/ (l = b /\ m = a /\ j = 1)
      BY ONLY <2>2 DEF From, CameFrom
    <3>3. CASE m = l
      BY <2>3, <2>6, <3>1, <3>3
    <3>4. CASE l = b /\ m = a /\ j = 1
      <4>1. x.kind = Lanes[a][1].kind
        BY <1>1, HeadTailProperties DEF Moves, Alike
      <4>2. x.kind \in Stored
        BY <2>6, <3>4 DEF Moves
      <4> QED BY <3>1, <3>4, <4>1, <4>2
    <3> QED BY <3>2, <3>3, <3>4
  <2> QED BY <2>5, <2>6
<1>7. AnswersKnown'
  BY DEF TaskInv, AnswersKnown
<1>8. OnceInLanes'
  <2> SUFFICES ASSUME NEW l \in LaneNos, NEW l2 \in LaneNos,
                      NEW i \in 1 .. Len(Lanes'[l]), NEW i2 \in 1 .. Len(Lanes'[l2]),
                      Same(Lanes'[l][i], Lanes'[l2][i2])
               PROVE  l = l2 /\ i = i2
    BY DEF OnceInLanes
  <2>1. PICK m \in LaneNos : \E j \in 1 .. Len(Lanes[m]) : From(l, i, m, j)
    BY <1>2
  <2>2. PICK j \in 1 .. Len(Lanes[m]) : From(l, i, m, j)
    BY <2>1
  <2>3. PICK m2 \in LaneNos : \E j2 \in 1 .. Len(Lanes[m2]) : From(l2, i2, m2, j2)
    BY <1>2
  <2>4. PICK j2 \in 1 .. Len(Lanes[m2]) : From(l2, i2, m2, j2)
    BY <2>3
  <2>5. Same(Lanes[m][j], Lanes[m2][j2])
    BY <1>4, <2>2, <2>4 DEF Same
  <2>6. m = m2 /\ j = j2
    BY <2>5 DEF TaskInv, OnceInLanes
  <2> QED BY <1>3, <2>2, <2>4, <2>6
<1>9. OnceAnswered'
  <2> SUFFICES ASSUME NEW l \in LaneNos, NEW i \in 1 .. Len(Lanes'[l]),
                      NEW k \in 1 .. Len(answers[Lanes'[l][i].fd])
               PROVE  answers[Lanes'[l][i].fd][k] # Lanes'[l][i].no
    BY DEF TaskInv, OnceAnswered
  <2>1. PICK m \in LaneNos : \E j \in 1 .. Len(Lanes[m]) : From(l, i, m, j)
    BY <1>2
  <2>2. PICK j \in 1 .. Len(Lanes[m]) : From(l, i, m, j)
    BY <2>1
  <2>3. Lanes'[l][i].fd = Lanes[m][j].fd /\ Lanes'[l][i].no = Lanes[m][j].no
    BY <1>4, <2>2
  <2>4. k \in 1 .. Len(answers[Lanes[m][j].fd])
    BY ONLY <2>3, k \in 1 .. Len(answers[Lanes'[l][i].fd])
  <2>5. OnceAnswered
    BY DEF TaskInv
  <2>6. answers[Lanes[m][j].fd][k] # Lanes[m][j].no
    BY <2>4, <2>5, Zenon DEF OnceAnswered
  <2> QED BY ONLY <2>3, <2>6
<1>10. NoneLost'
  <2>1. ASSUME NEW c \in Conns, NEW n, OnItsWay(c, n) PROVE OnItsWay(c, n)'
    <3>1. PICK m \in LaneNos : \E j \in 1 .. Len(Lanes[m]) : Lanes[m][j].fd = c /\ Lanes[m][j].no = n
      BY ONLY <2>1, Zenon DEF OnItsWay
    <3>2. PICK j \in 1 .. Len(Lanes[m]) : Lanes[m][j].fd = c /\ Lanes[m][j].no = n
      BY ONLY <3>1
    <3>3. PICK l \in LaneNos : \E i \in 1 .. Len(Lanes'[l]) : From(l, i, m, j)
      BY <1>2
    <3>4. PICK i \in 1 .. Len(Lanes'[l]) : From(l, i, m, j)
      BY ONLY <3>3
    <3>5. Lanes'[l][i].fd = c /\ Lanes'[l][i].no = n
      BY <1>4, <3>2, <3>4
    <3> QED BY ONLY <3>5, Zenon DEF OnItsWay
  <2> QED BY <2>1 DEF TaskInv, NoneLost, Answered
<1>11. LanesInOrder'
  <2> SUFFICES ASSUME NEW l \in LaneNos, NEW l2 \in LaneNos,
                      NEW i \in 1 .. Len(Lanes'[l]), NEW i2 \in 1 .. Len(Lanes'[l2]),
                      Behind(l, i, l2, i2), Lanes'[l][i].fd = Lanes'[l2][i2].fd,
                      Lanes'[l][i].no < Lanes'[l2][i2].no
               PROVE  Overtakes(Lanes'[l2][i2].kind, Lanes'[l][i].kind)
    BY DEF LanesInOrder, Behind
  <2>1. PICK m \in LaneNos : \E j \in 1 .. Len(Lanes[m]) : From(l, i, m, j)
    BY <1>2
  <2>2. PICK j \in 1 .. Len(Lanes[m]) : From(l, i, m, j)
    BY <2>1
  <2>3. PICK m2 \in LaneNos : \E j2 \in 1 .. Len(Lanes[m2]) : From(l2, i2, m2, j2)
    BY <1>2
  <2>4. PICK j2 \in 1 .. Len(Lanes[m2]) : From(l2, i2, m2, j2)
    BY <2>3
  <2>5. CASE Behind(m, j, m2, j2)
    <3>1. Lanes[m][j].fd = Lanes[m2][j2].fd /\ Lanes[m][j].no < Lanes[m2][j2].no
      BY <1>4, <2>2, <2>4
    <3>2. Overtakes(Lanes[m2][j2].kind, Lanes[m][j].kind)
      BY <2>5, <3>1 DEF TaskInv, LanesInOrder
    <3> QED BY <1>4, <2>2, <2>4, <3>2
  <2>6. CASE l \in 4 .. 7 /\ Lanes'[l2][i2].kind \notin Stored
    BY <1>6, <2>6 DEF TasksKnown, Overtakes
  <2> QED BY <1>3, <2>2, <2>4, <2>5, <2>6
<1>12. AnswersInOrder'
  BY <1>2, <1>4 DEF TaskInv, AnswersInOrder
<1> QED BY <1>6, <1>7, <1>8, <1>9, <1>10, <1>11, <1>12 DEF TaskInv

LEMMA TasksBlank ==
  ASSUME NetworkInv, TaskInv, TaskTypes', Lanes' = Lanes, UNCHANGED <<lines, answers>>,
         NEW c \in Conns, taken' = [taken EXCEPT ![c] = taken[c] + 1],
         lines[c][taken[c] + 1] = "blank"
  PROVE  TaskInv'
<1>1. taken \in [Conns -> Nat]
  BY DEF NetworkInv, LineTypes
<1>2. \A d \in Conns : taken'[d] \in Nat /\ taken'[d] >= taken[d]
  BY <1>1
<1>3. Lanes \in [LaneNos -> Seq(Tasks)]
  BY LanesTyped DEF TaskInv
<1>4. \A l \in LaneNos : \A i \in 1 .. Len(Lanes[l]) : Lanes[l][i].fd \in Conns /\ Lanes[l][i].no \in Nat
  BY <1>3, LaneTask
<1>5. TasksKnown'
  <2> SUFFICES ASSUME NEW l \in LaneNos, NEW i \in 1 .. Len(Lanes[l])
               PROVE  Lanes[l][i].no \in 1 .. taken'[Lanes[l][i].fd]
    BY DEF TaskInv, TasksKnown, Known
  <2>1. Lanes[l][i].no \in 1 .. taken[Lanes[l][i].fd]
    BY DEF TaskInv, TasksKnown, Known
  <2> QED BY <1>1, <1>2, <1>4, <2>1
<1>6. AnswersKnown'
  BY <1>1, <1>2 DEF TaskInv, AnswersKnown
<1>7. NoneLost'
  <2> SUFFICES ASSUME NEW d \in Conns, NEW n \in 1 .. taken'[d], lines[d][n] # "blank"
               PROVE  Answered(d, n) \/ OnItsWay(d, n)
    BY DEF NoneLost, Answered, OnItsWay
  <2>1. n \in 1 .. taken[d]
    BY <1>1
  <2> QED BY <2>1 DEF TaskInv, NoneLost
<1> QED BY <1>5, <1>6, <1>7 DEF TaskInv, OnceInLanes, OnceAnswered, LanesInOrder, AnswersInOrder

\* A task of the next line of c is made: it is behind all others.
LEMMA TasksMade ==
  ASSUME NetworkInv, TaskInv, TaskTypes', UNCHANGED <<lines, answers>>,
         NEW c \in Conns, taken' = [taken EXCEPT ![c] = taken[c] + 1],
         NEW x \in Tasks, x.fd = c, x.no = taken[c] + 1, x.kind = lines[c][taken[c] + 1],
         x.kind # "blank", x.CMD # "quit",
         Lanes[1] = << >>, Lanes'[1] = <<x>>, \A l \in LaneNos \ {1} : Lanes'[l] = Lanes[l]
  PROVE  TaskInv'
<1>1. taken \in [Conns -> Nat]
  BY DEF NetworkInv, LineTypes
<1>2. \A d \in Conns : taken'[d] \in Nat /\ taken'[d] >= taken[d] /\ (d # c => taken'[d] = taken[d])
  BY <1>1
<1>3. taken'[c] = taken[c] + 1
  BY <1>1
<1>4. Lanes \in [LaneNos -> Seq(Tasks)] /\ 1 \in LaneNos
  BY LanesTyped DEF TaskInv, LaneNos
<1>5. \A l \in LaneNos : \A i \in 1 .. Len(Lanes[l]) : Lanes[l][i].fd \in Conns /\ Lanes[l][i].no \in Nat
  BY <1>4, LaneTask
<1> DEFINE Old(l, i) == i \in 1 .. Len(Lanes[l]) /\ l # 1 /\ Lanes'[l][i] = Lanes[l][i]
           New(l, i) == l = 1 /\ i = 1 /\ Lanes'[l][i] = x
<1>6. ASSUME NEW l \in LaneNos, NEW i \in 1 .. Len(Lanes'[l]) PROVE Old(l, i) \/ New(l, i)
  <2>1. CASE l = 1
    <3>1. i \in 1 .. Len(<<x>>)
      BY <2>1
    <3>2. i = 1
      BY <3>1
    <3> QED BY <2>1, <3>2
  <2>2. CASE l # 1
    BY <2>2
  <2> QED BY <2>1, <2>2
<1>7. \A l \in LaneNos : \A i \in 1 .. Len(Lanes[l]) :
        l # 1 /\ i \in 1 .. Len(Lanes'[l]) /\ Lanes'[l][i] = Lanes[l][i]
  <2>1. Len(Lanes[1]) = 0
    OBVIOUS
  <2>2. \A l \in LaneNos : \A i \in 1 .. Len(Lanes[l]) : l # 1
    BY <2>1
  <2> QED BY <2>2
<1>8. 1 \in 1 .. Len(Lanes'[1]) /\ Lanes'[1][1] = x
  OBVIOUS
<1>9. ASSUME NEW l \in LaneNos, NEW i \in 1 .. Len(Lanes[l]), Lanes[l][i].fd = c
      PROVE  Lanes[l][i].no < x.no
  BY <1>1, <1>9 DEF TaskInv, TasksKnown, Known
<1>10. \A k \in 1 .. Len(answers[c]) : answers[c][k] < x.no
  BY <1>1 DEF TaskInv, AnswersKnown
<1>11. TasksKnown'
  <2> SUFFICES ASSUME NEW l \in LaneNos, NEW i \in 1 .. Len(Lanes'[l])
               PROVE  Known(Lanes[l][i])' /\ (l \in 4 .. 7 => Lanes'[l][i].kind \in Stored)
    BY DEF TasksKnown
  <2>1. CASE Old(l, i)
    <3>1. Known(Lanes[l][i]) /\ (l \in 4 .. 7 => Lanes[l][i].kind \in Stored)
      BY <2>1 DEF TaskInv, TasksKnown
    <3>2. Lanes[l][i].no \in 1 .. taken'[Lanes[l][i].fd]
      BY <1>1, <1>2, <1>5, <2>1, <3>1 DEF Known
    <3> QED BY <2>1, <3>1, <3>2 DEF Known
  <2>2. CASE New(l, i)
    <3>1. x.no \in 1 .. taken'[c]
      BY <1>1, <1>3
    <3>2. x.kind = lines'[c][x.no]
      OBVIOUS
    <3> QED BY <2>2, <3>1, <3>2 DEF Known
  <2> QED BY <1>6, <2>1, <2>2
<1>12. AnswersKnown'
  BY <1>1, <1>2 DEF TaskInv, AnswersKnown
<1>13. OnceInLanes'
  <2> SUFFICES ASSUME NEW l \in LaneNos, NEW m \in LaneNos,
                      NEW i \in 1 .. Len(Lanes'[l]), NEW j \in 1 .. Len(Lanes'[m]),
                      Lanes'[l][i].fd = Lanes'[m][j].fd, Lanes'[l][i].no = Lanes'[m][j].no
               PROVE  l = m /\ i = j
    BY DEF OnceInLanes, Same
  <2>1. CASE Old(l, i) /\ Old(m, j)
    BY <2>1 DEF TaskInv, OnceInLanes, Same
  <2>2. CASE Old(l, i) /\ New(m, j)
    BY <1>1, <1>5, <1>9, <2>2
  <2>3. CASE New(l, i) /\ Old(m, j)
    BY <1>1, <1>5, <1>9, <2>3
  <2>4. CASE New(l, i) /\ New(m, j)
    BY <2>4
  <2> HIDE DEF Old, New
  <2> QED BY <1>6, <2>1, <2>2, <2>3, <2>4
<1>14. OnceAnswered'
  <2> SUFFICES ASSUME NEW l \in LaneNos, NEW i \in 1 .. Len(Lanes'[l]),
                      NEW k \in 1 .. Len(answers[Lanes'[l][i].fd])
               PROVE  answers[Lanes'[l][i].fd][k] # Lanes'[l][i].no
    BY DEF TaskInv, OnceAnswered
  <2>1. CASE Old(l, i)
    <3>1. Lanes'[l][i].fd = Lanes[l][i].fd /\ Lanes'[l][i].no = Lanes[l][i].no /\ i \in 1 .. Len(Lanes[l])
      BY <2>1
    <3> QED BY <3>1 DEF TaskInv, OnceAnswered
  <2>2. CASE New(l, i)
    BY <1>1, <1>10, <2>2
  <2> QED BY <1>6, <2>1, <2>2
<1>15. NoneLost'
  <2> SUFFICES ASSUME NEW d \in Conns, NEW n \in 1 .. taken'[d], lines[d][n] # "blank"
               PROVE  Answered(d, n) \/ OnItsWay(d, n)'
    BY DEF NoneLost, Answered
  <2>1. CASE d = c /\ n = x.no
    BY <1>4, <1>8, <2>1 DEF OnItsWay
  <2>2. CASE ~(d = c /\ n = x.no)
    <3>1. n \in 1 .. taken[d]
      BY <1>1, <1>2, <1>3, <2>2
    <3>2. OnItsWay(d, n) => OnItsWay(d, n)'
      BY <1>7 DEF OnItsWay
    <3> QED BY <3>1, <3>2 DEF TaskInv, NoneLost
  <2> QED BY <2>1, <2>2
<1>16. LanesInOrder'
  <2> SUFFICES ASSUME NEW l \in LaneNos, NEW m \in LaneNos,
                      NEW i \in 1 .. Len(Lanes'[l]), NEW j \in 1 .. Len(Lanes'[m]),
                      Behind(l, i, m, j), Lanes'[l][i].fd = Lanes'[m][j].fd,
                      Lanes'[l][i].no < Lanes'[m][j].no
               PROVE  Overtakes(Lanes'[m][j].kind, Lanes'[l][i].kind)
    BY DEF LanesInOrder, Behind
  <2>1. CASE Old(l, i) /\ Old(m, j)
    BY <2>1 DEF TaskInv, LanesInOrder
  <2>2. CASE New(l, i) /\ Old(m, j)
    BY <1>1, <1>5, <1>9, <2>2
  <2>3. CASE New(m, j)
    BY <2>3 DEF Behind, LaneNos
  <2> HIDE DEF Old, New
  <2> QED BY <1>6, <2>1, <2>2, <2>3
<1>17. AnswersInOrder'
  <2> SUFFICES ASSUME NEW l \in LaneNos, NEW i \in 1 .. Len(Lanes'[l]),
                      NEW k \in 1 .. Len(answers[Lanes'[l][i].fd]),
                      Lanes'[l][i].no < answers[Lanes'[l][i].fd][k]
               PROVE  Overtakes(lines[Lanes'[l][i].fd][answers[Lanes'[l][i].fd][k]], Lanes'[l][i].kind)
    BY DEF TaskInv, AnswersInOrder
  <2>1. CASE Old(l, i)
    BY <2>1 DEF TaskInv, AnswersInOrder
  <2>2. CASE New(l, i)
    <3>1. answers[c][k] \in Nat
      BY <1>1, <2>2 DEF TaskInv, AnswersKnown
    <3> QED BY <1>1, <1>10, <2>2, <3>1
  <2> QED BY <1>6, <2>1, <2>2
<1> QED BY <1>11, <1>12, <1>13, <1>14, <1>15, <1>16, <1>17 DEF TaskInv

\* The first task of the last lane is answered.
LEMMA TasksSent ==
  ASSUME NetworkInv, TaskInv, TaskTypes', UNCHANGED <<lines, taken>>,
         Lanes[8] # << >>, Lanes'[8] = Tail(Lanes[8]), \A l \in LaneNos \ {8} : Lanes'[l] = Lanes[l],
         answers' = [answers EXCEPT ![Head(Lanes[8]).fd] = Append(@, Head(Lanes[8]).no)]
  PROVE  TaskInv'
<1> DEFINE h == Head(Lanes[8])
<1>1. Lanes \in [LaneNos -> Seq(Tasks)] /\ 8 \in LaneNos
  BY LanesTyped DEF TaskInv, LaneNos
<1>2. /\ h = Lanes[8][1] /\ Len(Lanes[8]) \in Nat \ {0}
      /\ Len(Lanes'[8]) = Len(Lanes[8]) - 1
      /\ \A i \in 1 .. Len(Lanes[8]) - 1 : Lanes'[8][i] = Lanes[8][i + 1]
  BY <1>1, Taken
<1> HIDE DEF h
<1>3. 1 \in 1 .. Len(Lanes[8]) /\ h.fd \in Conns /\ h.no \in Nat
  BY <1>1, <1>2, LaneTask
<1>4. /\ \A d \in Conns : answers[d] \in Seq(Nat) /\ Len(answers[d]) \in Nat
      /\ answers'[h.fd] = Append(answers[h.fd], h.no)
      /\ \A d \in Conns \ {h.fd} : answers'[d] = answers[d]
  BY <1>3, LenProperties DEF TaskInv, TaskTypes, h
<1>5. /\ Len(answers'[h.fd]) = Len(answers[h.fd]) + 1
      /\ \A i \in 1 .. Len(answers[h.fd]) : answers'[h.fd][i] = answers[h.fd][i]
      /\ answers'[h.fd][Len(answers[h.fd]) + 1] = h.no
  BY <1>3, <1>4, Appended
<1>6. ASSUME NEW d \in Conns, NEW k \in 1 .. Len(answers'[d])
      PROVE  \/ k \in 1 .. Len(answers[d]) /\ answers'[d][k] = answers[d][k]
             \/ d = h.fd /\ k = Len(answers[d]) + 1 /\ answers'[d][k] = h.no
  <2>1. CASE d = h.fd
    BY <1>4, <1>5, <2>1
  <2>2. CASE d # h.fd
    BY <1>4, <2>2
  <2> QED BY <2>1, <2>2
<1>7. ASSUME NEW d \in Conns, NEW k \in 1 .. Len(answers[d])
      PROVE  k \in 1 .. Len(answers'[d]) /\ answers'[d][k] = answers[d][k]
  BY <1>4, <1>5
<1> DEFINE At(l, i) == IF l = 8 THEN i + 1 ELSE i
<1>8. ASSUME NEW l \in LaneNos, NEW i \in 1 .. Len(Lanes'[l])
      PROVE  /\ At(l, i) \in 1 .. Len(Lanes[l]) /\ Lanes'[l][i] = Lanes[l][At(l, i)]
             /\ i \in Nat /\ (l = 8 => At(l, i) # 1)
             /\ Behind(l, At(l, i), 8, 1)
  <2>1. CASE l = 8
    <3>1. i \in 1 .. Len(Lanes[8]) - 1 /\ Lanes'[8][i] = Lanes[8][i + 1]
      BY <1>2, <2>1
    <3>2. i \in Nat \ {0} /\ i + 1 \in 1 .. Len(Lanes[8]) /\ 1 < i + 1 /\ i + 1 # 1
      BY <1>2, <3>1
    <3>3. At(l, i) = i + 1
      BY <2>1
    <3> HIDE DEF At
    <3> QED BY <2>1, <3>1, <3>2, <3>3 DEF Behind
  <2>2. CASE l # 8
    <3>1. l < 8
      BY <2>2 DEF LaneNos
    <3>2. Lanes'[l] = Lanes[l] /\ Len(Lanes[l]) \in Nat
      BY <1>1, <2>2, LenProperties
    <3> QED BY <2>2, <3>1, <3>2 DEF Behind
  <2> QED BY <2>1, <2>2
<1>9. \A l \in LaneNos : \A i \in 1 .. Len(Lanes[l]) : Lanes[l][i].fd \in Conns /\ Lanes[l][i].no \in Nat
  BY <1>1, LaneTask
<1>10. h.no \in 1 .. taken[h.fd] /\ h.kind = lines[h.fd][h.no] /\ h.kind # "blank"
  BY <1>1, <1>2, <1>3 DEF TaskInv, TasksKnown, Known
<1> HIDE DEF At
<1>11. TasksKnown'
  BY <1>8 DEF TaskInv, TasksKnown, Known
<1>12. AnswersKnown'
  BY <1>6, <1>10 DEF TaskInv, AnswersKnown
<1>13. OnceInLanes'
  <2> SUFFICES ASSUME NEW l \in LaneNos, NEW m \in LaneNos,
                      NEW i \in 1 .. Len(Lanes'[l]), NEW j \in 1 .. Len(Lanes'[m]),
                      Same(Lanes'[l][i], Lanes'[m][j])
               PROVE  l = m /\ i = j
    BY DEF OnceInLanes
  <2>1. l = m /\ At(l, i) = At(m, j)
    <3>1. Same(Lanes[l][At(l, i)], Lanes[m][At(m, j)])
      BY <1>8
    <3> QED BY <1>8, <3>1 DEF TaskInv, OnceInLanes
  <2> QED BY <1>8, <2>1 DEF At
<1>14. OnceAnswered'
  <2>1. ASSUME NEW c \in Conns, NEW i \in 1 .. Len(answers'[c]), NEW j \in 1 .. Len(answers'[c]),
               answers'[c][i] = answers'[c][j]
        PROVE  i = j
    <3>1. \A k \in 1 .. Len(answers[h.fd]) : answers[h.fd][k] # h.no
      <4>1. \A k \in 1 .. Len(answers[Lanes[8][1].fd]) : answers[Lanes[8][1].fd][k] # Lanes[8][1].no
        BY <1>1, <1>3 DEF TaskInv, OnceAnswered
      <4> QED BY <1>2, <4>1
    <3> QED BY <1>6, <2>1, <3>1 DEF TaskInv, OnceAnswered
  <2>2. ASSUME NEW l \in LaneNos, NEW i \in 1 .. Len(Lanes'[l]),
               NEW k \in 1 .. Len(answers'[Lanes'[l][i].fd])
        PROVE  answers'[Lanes'[l][i].fd][k] # Lanes'[l][i].no
    <3>1. ~Same(Lanes[l][At(l, i)], h)
      BY <1>1, <1>2, <1>3, <1>8 DEF TaskInv, OnceInLanes
    <3>2. Lanes'[l][i].fd \in Conns /\ ~Same(Lanes'[l][i], h)
      BY <1>8, <1>9, <3>1
    <3>3. \A n \in 1 .. Len(answers[Lanes'[l][i].fd]) : answers[Lanes'[l][i].fd][n] # Lanes'[l][i].no
      <4>1. \A n \in 1 .. Len(answers[Lanes[l][At(l, i)].fd]) :
              answers[Lanes[l][At(l, i)].fd][n] # Lanes[l][At(l, i)].no
        BY <1>8 DEF TaskInv, OnceAnswered
      <4> QED BY <1>8, <4>1
    <3> QED BY <1>6, <3>2, <3>3 DEF Same
  <2> QED BY <2>1, <2>2 DEF OnceAnswered
<1>15. NoneLost'
  <2> SUFFICES ASSUME NEW c \in Conns, NEW n \in 1 .. taken[c], lines[c][n] # "blank"
               PROVE  Answered(c, n)' \/ OnItsWay(c, n)'
    BY DEF NoneLost
  <2>1. CASE Answered(c, n)
    BY <1>7, <2>1 DEF Answered
  <2>2. CASE OnItsWay(c, n)
    <3>1. PICK l \in LaneNos : \E i \in 1 .. Len(Lanes[l]) : Lanes[l][i].fd = c /\ Lanes[l][i].no = n
      BY <2>2 DEF OnItsWay
    <3>2. PICK i \in 1 .. Len(Lanes[l]) : Lanes[l][i].fd = c /\ Lanes[l][i].no = n
      BY <3>1
    <3>3. CASE l # 8
      BY <3>2, <3>3 DEF OnItsWay
    <3>4. CASE l = 8 /\ i # 1
      <4>1. i - 1 \in 1 .. Len(Lanes'[8]) /\ Lanes'[8][i - 1] = Lanes[8][i]
        BY <1>2, <3>4
      <4> QED BY <1>1, <3>2, <3>4, <4>1 DEF OnItsWay
    <3>5. CASE l = 8 /\ i = 1
      <4>1. c = h.fd /\ n = h.no
        BY <1>2, <3>2, <3>5
      <4>2. Len(answers[c]) + 1 \in 1 .. Len(answers'[c])
        BY <1>3, <1>4, <1>5, <4>1
      <4> QED BY <1>5, <4>1, <4>2 DEF Answered
    <3> QED BY <3>3, <3>4, <3>5
  <2> QED BY <2>1, <2>2 DEF TaskInv, NoneLost
<1>16. LanesInOrder'
  <2> SUFFICES ASSUME NEW l \in LaneNos, NEW m \in LaneNos,
                      NEW i \in 1 .. Len(Lanes'[l]), NEW j \in 1 .. Len(Lanes'[m]),
                      Behind(l, i, m, j), Lanes'[l][i].fd = Lanes'[m][j].fd,
                      Lanes'[l][i].no < Lanes'[m][j].no
               PROVE  Overtakes(Lanes'[m][j].kind, Lanes'[l][i].kind)
    BY DEF LanesInOrder, Behind
  <2>1. Behind(l, At(l, i), m, At(m, j))
    BY <1>8 DEF Behind, At
  <2>2. /\ Lanes[l][At(l, i)].fd = Lanes[m][At(m, j)].fd
        /\ Lanes[l][At(l, i)].no < Lanes[m][At(m, j)].no
    BY <1>8
  <2>3. Overtakes(Lanes[m][At(m, j)].kind, Lanes[l][At(l, i)].kind)
    BY <1>8, <2>1, <2>2 DEF TaskInv, LanesInOrder
  <2> QED BY <1>8, <2>3
<1>17. AnswersInOrder'
  <2>1. ASSUME NEW l \in LaneNos, NEW i \in 1 .. Len(Lanes'[l]),
               NEW k \in 1 .. Len(answers'[Lanes'[l][i].fd]),
               Lanes'[l][i].no < answers'[Lanes'[l][i].fd][k]
        PROVE  Overtakes(lines[Lanes'[l][i].fd][answers'[Lanes'[l][i].fd][k]], Lanes'[l][i].kind)
    <3> DEFINE d == Lanes'[l][i].fd
    <3>1. d \in Conns /\ Lanes'[l][i] = Lanes[l][At(l, i)]
      BY <1>8, <1>9
    <3>2. CASE k \in 1 .. Len(answers[d]) /\ answers'[d][k] = answers[d][k]
      <4>1. \A n \in 1 .. Len(answers[Lanes[l][At(l, i)].fd]) :
              Lanes[l][At(l, i)].no < answers[Lanes[l][At(l, i)].fd][n] =>
                Overtakes(lines[Lanes[l][At(l, i)].fd][answers[Lanes[l][At(l, i)].fd][n]], Lanes[l][At(l, i)].kind)
        BY <1>8 DEF TaskInv, AnswersInOrder
      <4>2. \A n \in 1 .. Len(answers[d]) :
              Lanes'[l][i].no < answers[d][n] => Overtakes(lines[d][answers[d][n]], Lanes'[l][i].kind)
        BY <3>1, <4>1
      <4> QED BY <2>1, <3>2, <4>2
    <3>3. CASE d = h.fd /\ answers'[d][k] = h.no
      <4>1. Overtakes(Lanes[8][1].kind, Lanes[l][At(l, i)].kind)
        BY <1>1, <1>2, <1>3, <1>8, <2>1, <3>3 DEF TaskInv, LanesInOrder
      <4> QED BY <1>2, <1>10, <3>1, <3>3, <4>1
    <3> QED BY <1>6, <3>1, <3>2, <3>3
  <2>2. ASSUME NEW c \in Conns, NEW i \in 1 .. Len(answers'[c]), NEW j \in 1 .. Len(answers'[c]),
               i < j, answers'[c][j] < answers'[c][i]
        PROVE  Overtakes(lines[c][answers'[c][i]], lines[c][answers'[c][j]])
    <3>1. i \in 1 .. Len(answers[c]) /\ answers'[c][i] = answers[c][i]
      BY <1>4, <1>6, <2>2
    <3>2. CASE j \in 1 .. Len(answers[c]) /\ answers'[c][j] = answers[c][j]
      <4>1. AnswersInOrder
        BY DEF TaskInv
      <4>2. answers[c][j] < answers[c][i]
        BY <2>2, <3>1, <3>2
      <4>3. Overtakes(lines[c][answers[c][i]], lines[c][answers[c][j]])
        BY ONLY c \in Conns, <2>2, <3>1, <3>2, <4>1, <4>2 DEF AnswersInOrder
      <4> QED BY <3>1, <3>2, <4>3
    <3>3. CASE c = h.fd /\ answers'[c][j] = h.no
      <4>1. Overtakes(lines[c][answers[c][i]], h.kind)
        BY <1>1, <1>2, <1>3, <2>2, <3>1, <3>3 DEF TaskInv, AnswersInOrder
      <4> QED BY <1>10, <3>1, <3>3, <4>1
    <3> QED BY <1>6, <3>2, <3>3
  <2> QED BY <2>1, <2>2 DEF AnswersInOrder
<1> QED BY <1>11, <1>12, <1>13, <1>14, <1>15, <1>16, <1>17 DEF TaskInv

LEMMA LaneValues ==
  /\ Lanes[1] = AtMostOne(input.task) /\ Lanes'[1] = AtMostOne(input'.task)
  /\ Lanes[2] = queue["workQueue"] /\ Lanes'[2] = queue'["workQueue"]
  /\ Lanes[3] = AtMostOne(hand["inThread"]) /\ Lanes'[3] = AtMostOne(hand'["inThread"])
  /\ Lanes[4] = queue["storeWork"] /\ Lanes'[4] = queue'["storeWork"]
  /\ Lanes[5] = AtMostOne(hand["diskIO"]) /\ Lanes'[5] = AtMostOne(hand'["diskIO"])
  /\ Lanes[6] = queue["storeResult"] /\ Lanes'[6] = queue'["storeResult"]
  /\ Lanes[7] = AtMostOne(hand["outThread"]) /\ Lanes'[7] = AtMostOne(hand'["outThread"])
  /\ Lanes[8] = queue["resultQueue"] /\ Lanes'[8] = queue'["resultQueue"]
  /\ \A l \in LaneNos : l \in {1, 2, 3, 4, 5, 6, 7, 8}
  /\ {1, 2, 3, 4, 5, 6, 7, 8} \subseteq LaneNos
BY DEF Lanes, LaneNos

LEMMA LaneOfOne ==
  /\ AtMostOne(NoTask) = << >>
  /\ \A x \in Tasks : /\ AtMostOne(x) = <<x>> /\ AtMostOne(x) # << >>
                      /\ Head(AtMostOne(x)) = x /\ Tail(AtMostOne(x)) = << >>
                      /\ Append(<< >>, x) = AtMostOne(x)
BY PipelineAssumption DEF AtMostOne

LEMMA HeadKnown ==
  ASSUME NetworkInv, TaskInv, NEW a \in LaneNos, Lanes[a] # << >>
  PROVE  /\ Head(Lanes[a]) \in Tasks
         /\ Known(Head(Lanes[a]))
         /\ a \in 4 .. 7 => Head(Lanes[a]).kind \in Stored
<1>1. Lanes \in [LaneNos -> Seq(Tasks)]
  BY LanesTyped DEF TaskInv
<1>2. Head(Lanes[a]) = Lanes[a][1] /\ 1 \in 1 .. Len(Lanes[a])
  BY <1>1, Taken
<1> QED BY <1>1, <1>2, LaneTask DEF TaskInv, TasksKnown

LEMMA TasksStay ==
  ASSUME NetworkInv, TaskInv, OutputTyped', UNCHANGED <<queue, hand, taken, answers>>,
         input'.task = input.task,
         \A c \in Conns : \A n \in 1 .. Len(lines[c]) : lines'[c][n] = lines[c][n]
  PROVE  TaskInv'
<1>1. Lanes' = Lanes
  BY DEF Lanes
<1>2. TaskTypes'
  BY DEF TaskInv, TaskTypes
<1> QED BY <1>1, <1>2, TasksSteady

LEMMA InitTasks == Init => TaskInv
<1> SUFFICES ASSUME Init PROVE TaskInv
  OBVIOUS
<1>1. \A l \in LaneNos : Lanes[l] = << >>
  BY DEF Init, Lanes, LaneNos, AtMostOne, Idle, QueueNames, Workers
<1>2. TaskTypes
  BY PipelineAssumption DEF Init, TaskTypes, OutputTyped
<1>3. \A c \in Conns : answers[c] = << >> /\ taken[c] = 0
  BY DEF Init
<1>4. TasksKnown /\ OnceInLanes /\ LanesInOrder
  BY <1>1 DEF TasksKnown, OnceInLanes, LanesInOrder
<1>5. AnswersKnown /\ OnceAnswered /\ NoneLost /\ AnswersInOrder
  BY <1>1, <1>3 DEF AnswersKnown, OnceAnswered, NoneLost, AnswersInOrder
<1> QED BY <1>2, <1>4, <1>5 DEF TaskInv

LEMMA TasksClient ==
  ASSUME NetworkInv, TaskInv, NEW c \in Conns, Client(c) PROVE TaskInv'
<1> USE DEF network
<1>1. OutputTyped
  BY DEF TaskInv, TaskTypes
<1>2. CASE \E kind \in Kinds : SendLine(c, kind)
  <2>1. PICK kind \in Kinds : SendLine(c, kind)
    BY <1>2
  <2>2. \A d \in Conns : \A n \in 1 .. Len(lines[d]) : lines'[d][n] = lines[d][n]
    <3>1. lines' = [lines EXCEPT ![c] = Append(lines[c], kind)] /\ lines \in [Conns -> Seq(Kinds)]
      BY <2>1 DEF SendLine, NetworkInv, LineTypes
    <3>2. \A n \in 1 .. Len(lines[c]) : Append(lines[c], kind)[n] = lines[c][n]
      BY <3>1, Appended
    <3> QED BY <3>1, <3>2
  <2> QED BY <1>1, <2>1, <2>2, TasksStay DEF SendLine, OutputTyped
<1>3. CASE SendPart(c)
  BY <1>1, <1>3, TasksStay DEF SendPart, OutputTyped
<1>4. CASE HalfClose(c)
  BY <1>1, <1>4, TasksStay DEF HalfClose, OutputTyped
<1> QED BY <1>2, <1>3, <1>4 DEF Client

LEMMA TasksInputLine == ASSUME NetworkInv, TaskInv, InputLine PROVE TaskInv'
<1> DEFINE c == Head(fdQueue)
           n == taken[c] + 1
           x == [fd |-> c, no |-> n, kind |-> lines[c][n], CMD |-> NoTask]
<1>1. /\ input.pc = "idle" /\ fdQueue # << >> /\ n <= Len(lines[c])
      /\ taken' = [taken EXCEPT ![c] = n]
      /\ UNCHANGED <<lines, queue, hand, answers, output>>
  BY DEF InputLine, client
<1>2. input' = IF MakesTask(lines[c][n])
               THEN [pc |-> "addTask", fd |-> c, task |-> x]
               ELSE [Idle EXCEPT !.pc = "rearm", !.fd = c]
  BY DEF InputLine
<1>3. c \in Conns
  BY <1>1, Taken DEF NetworkInv, NetworkTypes
<1> HIDE DEF c
<1>4. taken[c] \in Nat /\ Len(lines[c]) \in Nat /\ lines[c] \in Seq(Kinds)
  BY <1>3, ReadableTyped
<1>5. lines[c][n] \in Kinds /\ n \in Nat
  BY <1>1, <1>4, ElementOfSeq
<1>6. x \in Tasks
  BY <1>3, <1>5 DEF Tasks
<1>7. input.task = NoTask
  BY <1>1 DEF NetworkInv, NetworkTypes
<1>8. TaskTypes'
  BY <1>1 DEF TaskInv, TaskTypes, OutputTyped
<1>9. CASE lines[c][n] = "blank"
  <2>1. input'.task = NoTask
    BY <1>2, <1>9 DEF MakesTask, Idle
  <2>2. Lanes' = Lanes
    BY <1>1, <1>7, <2>1 DEF Lanes
  <2> QED BY <1>1, <1>3, <1>8, <1>9, <2>2, TasksBlank
<1>10. CASE lines[c][n] # "blank"
  <2>1. input'.task = x
    BY <1>2, <1>10 DEF MakesTask
  <2>2. /\ x.fd = c /\ x.no = n /\ x.kind = lines[c][n] /\ x.CMD # "quit"
    BY PipelineAssumption DEF Kinds
  <2> HIDE DEF x
  <2>3. Lanes[1] = << >> /\ Lanes'[1] = <<x>>
    BY <1>6, <1>7, <2>1, LaneValues, LaneOfOne
  <2>4. \A l \in LaneNos \ {1} : Lanes'[l] = Lanes[l]
    BY <1>1, LaneValues
  <2> QED BY <1>1, <1>3, <1>6, <1>8, <1>10, <2>2, <2>3, <2>4, TasksMade
<1> QED BY <1>9, <1>10

LEMMA TasksAddTask == ASSUME NetworkInv, TaskInv, AddTask PROVE TaskInv'
<1> DEFINE x == input.task
           q == "workQueue"
<1>1. /\ input.pc = "addTask" /\ Len(queue[q]) < queueSize
      /\ queue' = [queue EXCEPT ![q] = Append(queue[q], x)]
      /\ input' = [input EXCEPT !.pc = "rearm", !.task = NoTask]
      /\ UNCHANGED <<lines, taken, hand, answers, output>>
  BY DEF AddTask, client
<1>2. x \in Tasks /\ input'.task = NoTask
  BY <1>1 DEF NetworkInv, NetworkTypes
<1>3. queue \in [QueueNames -> Seq(Tasks)] /\ q \in QueueNames
  BY DEF TaskInv, TaskTypes, QueueNames
<1>4. Append(queue[q], x) \in Seq(Tasks) /\ Len(Append(queue[q], x)) <= queueSize
  BY <1>1, <1>2, <1>3, Appended, PipelineAssumption
<1>5. TaskTypes'
  BY <1>1, <1>3, <1>4 DEF TaskInv, TaskTypes, OutputTyped
<1>6. Moves(Lanes, Lanes', 1, 2, x)
  <2>1. Lanes[1] # << >> /\ Head(Lanes[1]) = x /\ Tail(Lanes[1]) = << >> /\ Lanes'[1] = << >>
    BY <1>2, LaneValues, LaneOfOne
  <2>2. Lanes'[2] = Append(Lanes[2], x)
    BY <1>1, <1>3, LaneValues
  <2>3. \A l \in LaneNos \ {1, 2} : Lanes'[l] = Lanes[l]
    BY <1>1, <1>3, LaneValues DEF QueueNames
  <2>4. Known(x)
    BY <2>1, LaneValues, HeadKnown
  <2> HIDE DEF x
  <2> QED BY <2>1, <2>2, <2>3, <2>4 DEF Moves, Alike, Same, Known
<1> QED BY <1>1, <1>2, <1>5, <1>6, TasksMove, LaneValues

LEMMA TasksNetwork ==
  ASSUME NetworkInv, TaskInv,
         \/ \E c \in Conns : Accept(c)
         \/ \E e \in EpollThreads : EpollThread(e)
         \/ InputNoLine
         \/ InputEnd
         \/ Rearm
  PROVE  TaskInv'
<1>1. /\ UNCHANGED <<lines, taken, queue, hand, answers, output>>
      /\ UNCHANGED input \/ (InputNoLine \/ Rearm)
  BY DEF Accept, EpollThread, EpollWait, EpollEnqueue, InputNoLine, InputEnd, Rearm, client
<1>2. ASSUME InputNoLine \/ Rearm PROVE input.task = NoTask /\ input'.task = NoTask
  <2>1. input.pc \in {"idle", "rearm"} /\ input'.task = NoTask
    <3>1. CASE InputNoLine
      <4>1. input.pc = "idle" /\ input' = [pc |-> "rearm", fd |-> Head(fdQueue), task |-> NoTask]
        BY <3>1 DEF InputNoLine, WaitForMore, Idle
      <4> QED BY <4>1
    <3>2. CASE Rearm
      BY <3>2 DEF Rearm, Idle
    <3> QED BY <1>2, <3>1, <3>2
  <2>2. input.task = NoTask
    BY <2>1 DEF NetworkInv, NetworkTypes
  <2> QED BY <2>1, <2>2
<1>3. OutputTyped'
  BY <1>1 DEF TaskInv, TaskTypes, OutputTyped
<1> QED BY <1>1, <1>2, <1>3, TasksStay

LEMMA TasksTake ==
  ASSUME NetworkInv, TaskInv, NEW t \in Workers, Take(t) PROVE TaskInv'
<1> DEFINE q == Source(t)
           h == Head(queue[q])
<1>1. PICK x \in IF t = "inThread" THEN Parsed(h) ELSE {h} : hand' = [hand EXCEPT ![t] = x]
  BY DEF Take
<1>2. /\ hand[t] = NoTask /\ queue[q] # << >> /\ queue' = [queue EXCEPT ![q] = Tail(queue[q])]
      /\ UNCHANGED <<lines, taken, input, answers, output>>
  BY DEF Take, client, network
<1>3. q \in QueueNames /\ queue[q] \in Seq(Tasks)
  BY DEF Workers, Source, QueueNames, TaskInv, TaskTypes
<1>4. /\ h \in Tasks /\ Tail(queue[q]) \in Seq(Tasks) /\ Len(queue[q]) \in Nat \ {0}
      /\ Len(Tail(queue[q])) = Len(queue[q]) - 1
  BY <1>2, <1>3, Taken
<1> HIDE DEF h
<1>5. /\ x \in Tasks /\ Alike(x, h)
      /\ \/ x = h
         \/ x.CMD \in {x.kind} \cup {"any"} \/ x.kind = "bad"
  <2>1. CASE x = h
    BY <1>4, <2>1 DEF Alike, Same
  <2>2. CASE x \in Parsed(h)
    BY <1>4, <2>2 DEF Parsed, Alike, Same, Tasks, Kinds
  <2> QED BY <1>1, <2>1, <2>2
<1>6. TaskTypes'
  <2>1. hand' \in [Workers -> Tasks \cup {NoTask}]
    BY <1>1, <1>5 DEF TaskInv, TaskTypes
  <2>2. queue' \in [QueueNames -> Seq(Tasks)]
    BY <1>2, <1>4 DEF TaskInv, TaskTypes
  <2>3. ASSUME NEW p \in QueueNames PROVE Len(queue'[p]) <= queueSize
    <3>1. CASE p = q
      <4>1. Len(queue[q]) <= queueSize /\ queue'[q] = Tail(queue[q])
        BY <1>2, <1>3 DEF TaskInv, TaskTypes
      <4> HIDE DEF q
      <4> QED BY <1>4, <3>1, <4>1, PipelineAssumption
    <3>2. CASE p # q
      BY <1>2, <3>2 DEF TaskInv, TaskTypes
    <3> QED BY <3>1, <3>2
  <2> QED BY <1>2, <2>1, <2>2, <2>3 DEF TaskInv, TaskTypes, OutputTyped
<1>7. ASSUME NEW a \in LaneNos, NEW b \in LaneNos, b = a + 1, a \in {2, 4, 6},
             Lanes[a] = queue[q], Lanes'[a] = queue'[q],
             Lanes[b] = AtMostOne(hand[t]), Lanes'[b] = AtMostOne(hand'[t]),
             \A l \in LaneNos \ {a, b} : Lanes'[l] = Lanes[l]
      PROVE  TaskInv'
  <2>1. Lanes[a] # << >> /\ Head(Lanes[a]) = h /\ Lanes'[a] = Tail(Lanes[a])
    BY <1>2, <1>3, <1>7 DEF TaskInv, TaskTypes, h
  <2>2. hand'[t] = x
    BY <1>1 DEF TaskInv, TaskTypes
  <2>3. Lanes'[b] = Append(Lanes[b], x)
    BY <1>2, <1>5, <1>7, <2>2, LaneOfOne
  <2>4. Known(h) /\ (a \in 4 .. 7 => h.kind \in Stored)
    BY <1>7, <2>1, HeadKnown
  <2>5. x.kind = h.kind /\ (x.CMD = "quit" => x.kind \in {"quit", "bad"})
    BY <1>5, <2>4 DEF Known, Alike
  <2>6. b \in 4 .. 7 => x.kind \in Stored
    BY <1>7, <2>4, <2>5
  <2> HIDE DEF q
  <2>7. Moves(Lanes, Lanes', a, b, x)
    BY <1>5, <1>7, <2>1, <2>3, <2>5, <2>6 DEF Moves
  <2> QED BY <1>2, <1>5, <1>6, <1>7, <2>7, TasksMove
<1>8. \A l \in QueueNames \ {q} : queue'[l] = queue[l]
  BY <1>2 DEF TaskInv, TaskTypes
<1>9. \A u \in Workers \ {t} : hand'[u] = hand[u]
  BY <1>1 DEF TaskInv, TaskTypes
<1>10. CASE t = "inThread"
  <2>1. q = "workQueue"
    BY <1>10 DEF Source
  <2>2. \A l \in LaneNos \ {2, 3} : Lanes'[l] = Lanes[l]
    BY <1>2, <1>8, <1>9, <1>10, <2>1, LaneValues DEF QueueNames, Workers
  <2> HIDE DEF q
  <2>3. /\ Lanes[2] = queue[q] /\ Lanes'[2] = queue'[q]
        /\ Lanes[3] = AtMostOne(hand[t]) /\ Lanes'[3] = AtMostOne(hand'[t])
        /\ 2 \in LaneNos /\ 3 \in LaneNos
    BY <1>10, <2>1, LaneValues
  <2>4. 3 = 2 + 1 /\ 2 \in {2, 4, 6}
    OBVIOUS
  <2> QED BY <1>7, <2>2, <2>3, <2>4
<1>11. CASE t = "diskIO"
  <2>1. q = "storeWork"
    BY <1>11 DEF Source
  <2>2. \A l \in LaneNos \ {4, 5} : Lanes'[l] = Lanes[l]
    BY <1>2, <1>8, <1>9, <1>11, <2>1, LaneValues DEF QueueNames, Workers
  <2> HIDE DEF q
  <2> QED BY <1>7, <1>11, <2>1, <2>2, LaneValues
<1>12. CASE t = "outThread"
  <2>1. q = "storeResult"
    BY <1>12 DEF Source
  <2>2. \A l \in LaneNos \ {6, 7} : Lanes'[l] = Lanes[l]
    BY <1>2, <1>8, <1>9, <1>12, <2>1, LaneValues DEF QueueNames, Workers
  <2> HIDE DEF q
  <2> QED BY <1>7, <1>12, <2>1, <2>2, LaneValues
<1> QED BY <1>10, <1>11, <1>12 DEF Workers

LEMMA TasksPass ==
  ASSUME NetworkInv, TaskInv, NEW t \in Workers, Pass(t) PROVE TaskInv'
<1> DEFINE x == hand[t]
<1>1. /\ x # NoTask
      /\ \A q \in Targets(t, x) : Len(queue[q]) < queueSize
      /\ queue' = [q \in QueueNames |-> IF q \in Targets(t, x) THEN Append(queue[q], x) ELSE queue[q]]
      /\ hand' = [hand EXCEPT ![t] = NoTask]
      /\ UNCHANGED <<lines, taken, input, answers, output>>
  BY DEF Pass, client, network
<1>2. x \in Tasks
  BY <1>1 DEF TaskInv, TaskTypes
<1>3. /\ hand \in [Workers -> Tasks \cup {NoTask}] /\ hand'[t] = NoTask
      /\ \A u \in Workers \ {t} : hand'[u] = hand[u]
      /\ \A q \in QueueNames : queue[q] \in Seq(Tasks) /\ Len(queue[q]) <= queueSize
  BY <1>1 DEF TaskInv, TaskTypes
<1> HIDE DEF x
<1>4. \A q \in QueueNames : Append(queue[q], x) \in Seq(Tasks) /\ Len(Append(queue[q], x)) = Len(queue[q]) + 1
                            /\ Len(queue[q]) \in Nat
  BY <1>2, <1>3, Appended
<1>5. TaskTypes'
  <2>1. queue' \in [QueueNames -> Seq(Tasks)]
    BY <1>1, <1>3, <1>4
  <2>2. ASSUME NEW q \in QueueNames PROVE Len(queue'[q]) <= queueSize
    <3>1. CASE q \in Targets(t, x)
      <4>1. queue'[q] = Append(queue[q], x) /\ Len(queue[q]) < queueSize
        BY <1>1, <3>1
      <4> QED BY <1>4, <4>1, PipelineAssumption
    <3>2. CASE q \notin Targets(t, x)
      BY <1>1, <1>3, <3>2
    <3> QED BY <3>1, <3>2
  <2>3. hand' \in [Workers -> Tasks \cup {NoTask}]
    BY <1>1, <1>3
  <2> QED BY <1>1, <2>1, <2>2, <2>3 DEF TaskInv, TaskTypes, OutputTyped
<1>6. ASSUME NEW a \in LaneNos, NEW b \in LaneNos, NEW q \in QueueNames,
             b = a + 1 \/ (a = 3 /\ b = 8 /\ x.kind \notin Stored), a \in {3, 5, 7}, a = 3 /\ b = 4 => x.kind \in Stored,
             Targets(t, x) = {q},
             Lanes[a] = AtMostOne(hand[t]), Lanes'[a] = AtMostOne(hand'[t]),
             Lanes[b] = queue[q], Lanes'[b] = queue'[q],
             \A l \in LaneNos \ {a, b} : Lanes'[l] = Lanes[l]
      PROVE  TaskInv'
  <2>1. Lanes[a] # << >> /\ Head(Lanes[a]) = x /\ Lanes'[a] = Tail(Lanes[a])
    BY <1>2, <1>3, <1>6, LaneOfOne DEF x
  <2>2. Lanes'[b] = Append(Lanes[b], x)
    BY <1>1, <1>6
  <2>3. Known(x) /\ (a \in 4 .. 7 => x.kind \in Stored)
    BY <1>6, <2>1, HeadKnown
  <2>4. x.CMD = "quit" => x.kind \in {"quit", "bad"}
    BY <2>3 DEF Known
  <2>5. b \in 4 .. 7 => x.kind \in Stored
    BY <1>6, <2>3
  <2>6. Alike(x, x)
    BY DEF Alike, Same
  <2>7. Moves(Lanes, Lanes', a, b, x)
    BY <1>6, <2>1, <2>2, <2>4, <2>5, <2>6 DEF Moves
  <2> QED BY <1>1, <1>2, <1>5, <1>6, <2>7, TasksMove
<1>7. \A q \in QueueNames \ Targets(t, x) : queue'[q] = queue[q]
  BY <1>1
<1>8. CASE t = "inThread" /\ x.kind \in Stored
  <2>1. Targets(t, x) = {"storeWork"}
    BY <1>8 DEF Targets, InTargets
  <2>2. \A l \in LaneNos \ {3, 4} : Lanes'[l] = Lanes[l]
    <3>1. /\ queue'["workQueue"] = queue["workQueue"]
          /\ queue'["storeResult"] = queue["storeResult"]
          /\ queue'["resultQueue"] = queue["resultQueue"]
      BY <1>7, <2>1 DEF QueueNames
    <3>2. hand'["diskIO"] = hand["diskIO"] /\ hand'["outThread"] = hand["outThread"]
      BY <1>3, <1>8 DEF Workers
    <3>3. /\ Lanes'[1] = Lanes[1] /\ Lanes'[2] = Lanes[2] /\ Lanes'[5] = Lanes[5]
          /\ Lanes'[6] = Lanes[6] /\ Lanes'[7] = Lanes[7] /\ Lanes'[8] = Lanes[8]
      BY <1>1, <3>1, <3>2, LaneValues
    <3> QED BY <3>3, LaneValues
  <2> QED BY <1>6, <1>8, <2>1, <2>2, LaneValues DEF QueueNames
<1>9. CASE t = "inThread" /\ x.kind \notin Stored
  <2>1. Targets(t, x) = {"resultQueue"}
    BY <1>9 DEF Targets, InTargets
  <2>2. \A l \in LaneNos \ {3, 8} : Lanes'[l] = Lanes[l]
    <3>1. /\ queue'["workQueue"] = queue["workQueue"]
          /\ queue'["storeWork"] = queue["storeWork"]
          /\ queue'["storeResult"] = queue["storeResult"]
      BY <1>7, <2>1 DEF QueueNames
    <3>2. hand'["diskIO"] = hand["diskIO"] /\ hand'["outThread"] = hand["outThread"]
      BY <1>3, <1>9 DEF Workers
    <3>3. /\ Lanes'[1] = Lanes[1] /\ Lanes'[2] = Lanes[2] /\ Lanes'[4] = Lanes[4]
          /\ Lanes'[5] = Lanes[5] /\ Lanes'[6] = Lanes[6] /\ Lanes'[7] = Lanes[7]
      BY <1>1, <3>1, <3>2, LaneValues
    <3> QED BY <3>3, LaneValues
  <2> QED BY <1>6, <1>9, <2>1, <2>2, LaneValues DEF QueueNames
<1>10. CASE t = "diskIO"
  <2>1. Targets(t, x) = {"storeResult"}
    BY <1>10 DEF Targets
  <2>2. \A l \in LaneNos \ {5, 6} : Lanes'[l] = Lanes[l]
    <3>1. /\ queue'["workQueue"] = queue["workQueue"]
          /\ queue'["storeWork"] = queue["storeWork"]
          /\ queue'["resultQueue"] = queue["resultQueue"]
      BY <1>7, <2>1 DEF QueueNames
    <3>2. hand'["inThread"] = hand["inThread"] /\ hand'["outThread"] = hand["outThread"]
      BY <1>3, <1>10 DEF Workers
    <3>3. /\ Lanes'[1] = Lanes[1] /\ Lanes'[2] = Lanes[2] /\ Lanes'[3] = Lanes[3]
          /\ Lanes'[4] = Lanes[4] /\ Lanes'[7] = Lanes[7] /\ Lanes'[8] = Lanes[8]
      BY <1>1, <3>1, <3>2, LaneValues
    <3> QED BY <3>3, LaneValues
  <2> QED BY <1>6, <1>10, <2>1, <2>2, LaneValues DEF QueueNames
<1>11. CASE t = "outThread"
  <2>1. Targets(t, x) = {"resultQueue"}
    BY <1>11 DEF Targets
  <2>2. \A l \in LaneNos \ {7, 8} : Lanes'[l] = Lanes[l]
    <3>1. /\ queue'["workQueue"] = queue["workQueue"]
          /\ queue'["storeWork"] = queue["storeWork"]
          /\ queue'["storeResult"] = queue["storeResult"]
      BY <1>7, <2>1 DEF QueueNames
    <3>2. hand'["inThread"] = hand["inThread"] /\ hand'["diskIO"] = hand["diskIO"]
      BY <1>3, <1>11 DEF Workers
    <3>3. /\ Lanes'[1] = Lanes[1] /\ Lanes'[2] = Lanes[2] /\ Lanes'[3] = Lanes[3]
          /\ Lanes'[4] = Lanes[4] /\ Lanes'[5] = Lanes[5] /\ Lanes'[6] = Lanes[6]
      BY <1>1, <3>1, <3>2, LaneValues
    <3> QED BY <3>3, LaneValues
  <2> QED BY <1>6, <1>11, <2>1, <2>2, LaneValues DEF QueueNames
<1> QED BY <1>8, <1>9, <1>10, <1>11 DEF Workers

LEMMA TasksOutput == ASSUME NetworkInv, TaskInv, OutputThread PROVE TaskInv'
<1>1. OutputTyped
  BY DEF TaskInv, TaskTypes
<1>2. CASE OutputShutdown \/ OutputDeleteEvent
  <2>1. OutputTyped'
    BY <1>1, <1>2 DEF OutputShutdown, OutputDeleteEvent, OutputTyped
  <2>2. UNCHANGED <<lines, taken, input, queue, hand, answers>>
    BY <1>2 DEF OutputShutdown, OutputDeleteEvent, client, network
  <2> QED BY <2>1, <2>2, TasksStay
<1>3. CASE OutputSend
  <2> DEFINE task == Head(queue["resultQueue"])
  <2>1. UNCHANGED <<lines, taken, input, hand>> /\ queue["resultQueue"] # << >>
    BY <1>3 DEF OutputSend, client, network
  <2>2. CASE closed[task.fd]
    <3>1. UNCHANGED <<queue, answers, output>>
      BY <1>3, <2>2 DEF OutputSend
    <3> QED BY <1>1, <2>1, <3>1, TasksStay DEF OutputTyped
  <2>3. CASE ~closed[task.fd]
    <3>1. /\ queue' = [queue EXCEPT !["resultQueue"] = Tail(queue["resultQueue"])]
          /\ answers' = [answers EXCEPT ![task.fd] = Append(answers[task.fd], task.no)]
          /\ output' = IF task.CMD = "quit" THEN [pc |-> "shutdown", fd |-> task.fd] ELSE output
      BY <1>3, <2>3 DEF OutputSend
    <3>2. /\ queue \in [QueueNames -> Seq(Tasks)] /\ "resultQueue" \in QueueNames
          /\ answers \in [Conns -> Seq(Nat)]
      BY DEF TaskInv, TaskTypes, QueueNames
    <3>3. /\ task \in Tasks /\ Tail(queue["resultQueue"]) \in Seq(Tasks)
          /\ Len(queue["resultQueue"]) \in Nat \ {0}
          /\ Len(Tail(queue["resultQueue"])) = Len(queue["resultQueue"]) - 1
      BY <2>1, <3>2, Taken
    <3> HIDE DEF task
    <3>4. task.fd \in Conns /\ task.no \in Nat
      BY <3>3 DEF Tasks
    <3>5. TaskTypes'
      <4>1. OutputTyped'
        BY <1>1, <3>1, <3>4 DEF OutputTyped
      <4>2. answers' \in [Conns -> Seq(Nat)]
        BY <3>1, <3>2, <3>4, Appended
      <4>3. queue' \in [QueueNames -> Seq(Tasks)]
        BY <3>1, <3>2, <3>3
      <4>4. ASSUME NEW q \in QueueNames PROVE Len(queue'[q]) <= queueSize
        <5>1. CASE q = "resultQueue"
          BY <3>1, <3>2, <3>3, <5>1, PipelineAssumption DEF TaskInv, TaskTypes
        <5>2. CASE q # "resultQueue"
          BY <3>1, <3>2, <5>2 DEF TaskInv, TaskTypes
        <5> QED BY <5>1, <5>2
      <4> QED BY <2>1, <4>1, <4>2, <4>3, <4>4 DEF TaskInv, TaskTypes
    <3>6. Lanes[8] # << >> /\ Lanes'[8] = Tail(Lanes[8]) /\ Head(Lanes[8]) = task
      BY <2>1, <3>1, <3>2, LaneValues DEF task
    <3>7. \A l \in LaneNos \ {8} : Lanes'[l] = Lanes[l]
      BY <2>1, <3>1, <3>2, LaneValues DEF QueueNames
    <3> QED BY <2>1, <3>1, <3>5, <3>6, <3>7, TasksSent
  <2> QED BY <2>2, <2>3
<1> QED BY <1>2, <1>3 DEF OutputThread

-----------------------------------------------------------------------------
(* Answers and ends of connections *)

\* The answers of c are as many as its lines when each of them has one.
LEMMA AllAnswered ==
  ASSUME NetworkInv, TaskInv, NEW c \in Conns
  PROVE  Len(answers[c]) = Cardinality(Answerable(c)) <=> \A n \in Answerable(c) : Answered(c, n)
<1> DEFINE k == Len(answers[c])
<1>1. lines[c] \in Seq(Kinds) /\ taken[c] <= Len(lines[c]) /\ taken[c] \in Nat /\ Len(lines[c]) \in Nat
  BY ReadableTyped DEF NetworkInv, LineTypes
<1>2. Answerable(c) = {i \in 1 .. Len(lines[c]) : lines[c][i] # "blank"}
  BY <1>1, LenProperties DEF Answerable
<1>3. IsFiniteSet(Answerable(c))
  <2>1. IsFiniteSet(1 .. Len(lines[c])) /\ Answerable(c) \in SUBSET (1 .. Len(lines[c]))
    BY <1>1, <1>2, FS_Interval
  <2> QED BY <2>1, FS_Subset
<1>4. answers[c] \in Seq(Nat) /\ k \in Nat /\ DOMAIN answers[c] = 1 .. k
  <2>1. answers[c] \in Seq(Nat)
    BY DEF TaskInv, TaskTypes
  <2> QED BY <2>1, LenProperties
<1>5. \A i \in 1 .. k : answers[c][i] \in Answerable(c)
  <2> SUFFICES ASSUME NEW i \in 1 .. k PROVE answers[c][i] \in Answerable(c)
    OBVIOUS
  <2>1. answers[c][i] \in 1 .. taken[c] /\ lines[c][answers[c][i]] # "blank"
    BY DEF TaskInv, AnswersKnown
  <2> QED BY <1>1, <1>2, <2>1
<1>6. \A i, j \in 1 .. k : answers[c][i] = answers[c][j] => i = j
  BY DEF TaskInv, OnceAnswered
<1>7. answers[c] = [i \in 1 .. k |-> answers[c][i]]
  BY <1>4
<1> HIDE DEF k
<1>8. answers[c] \in [1 .. k -> Answerable(c)]
  BY <1>5, <1>7
<1>9. answers[c] \in Injection(1 .. k, Answerable(c))
  BY <1>6, <1>8 DEF Injection, IsInjective
<1>10. Cardinality(1 .. k) = Cardinality(Answerable(c)) <=> answers[c] \in Surjection(1 .. k, Answerable(c))
  BY <1>3, <1>9, FS_Injection
<1>11. Cardinality(1 .. k) = k
  BY <1>4, FS_Interval
<1>12. answers[c] \in Surjection(1 .. k, Answerable(c))
         <=> \A n \in Answerable(c) : \E i \in 1 .. k : answers[c][i] = n
  BY <1>8 DEF Surjection
<1> QED BY <1>10, <1>11, <1>12 DEF Answered, k

\* What was answered, read, sent or ended stays so.
Grows ==
  /\ \A c \in Conns : \A k \in 1 .. Len(answers[c]) :
       k \in 1 .. Len(answers'[c]) /\ answers'[c][k] = answers[c][k]
  /\ \A c \in Conns : \A n \in 1 .. Len(lines[c]) :
       n \in 1 .. Len(lines'[c]) /\ lines'[c][n] = lines[c][n]
  /\ \A c \in Conns : eof[c] => eof'[c]
  /\ hasty \subseteq hasty'

LEMMA AnswersGrow ==
  ASSUME NetworkInv, TaskInv, [Next]_vars
  PROVE  Grows
<1>1. CASE UNCHANGED vars
  BY <1>1 DEF vars, client, Grows
<1>2. ASSUME NEW c \in Conns, Client(c) PROVE Grows
  <2>1. CASE \E kind \in Kinds : SendLine(c, kind)
    <3>1. PICK kind \in Kinds : SendLine(c, kind)
      BY <2>1
    <3>2. lines' = [lines EXCEPT ![c] = Append(lines[c], kind)] /\ lines \in [Conns -> Seq(Kinds)]
      BY <3>1 DEF SendLine, NetworkInv, LineTypes
    <3>3. /\ \A n \in 1 .. Len(lines[c]) : Append(lines[c], kind)[n] = lines[c][n]
          /\ Len(Append(lines[c], kind)) = Len(lines[c]) + 1 /\ Len(lines[c]) \in Nat
      BY <3>2, Appended
    <3>4. \A d \in Conns : \A n \in 1 .. Len(lines[d]) :
            n \in 1 .. Len(lines'[d]) /\ lines'[d][n] = lines[d][n]
      <4> SUFFICES ASSUME NEW d \in Conns, NEW n \in 1 .. Len(lines[d])
                   PROVE  n \in 1 .. Len(lines'[d]) /\ lines'[d][n] = lines[d][n]
        OBVIOUS
      <4>1. CASE d = c
        BY <3>2, <3>3, <4>1
      <4>2. CASE d # c
        BY <3>2, <4>2
      <4> QED BY <4>1, <4>2
    <3> QED BY <3>1, <3>4 DEF SendLine, Hurry, Grows
  <2>2. CASE SendPart(c)
    BY <2>2 DEF SendPart, Grows
  <2>3. CASE HalfClose(c)
    BY <2>3 DEF HalfClose, Hurry, Grows, NetworkInv, LineTypes
  <2> QED BY <1>2, <2>1, <2>2, <2>3 DEF Client
<1>3. CASE OutputSend /\ ~closed[Head(queue["resultQueue"]).fd]
  <2> DEFINE task == Head(queue["resultQueue"])
  <2>1. /\ answers' = [answers EXCEPT ![task.fd] = Append(answers[task.fd], task.no)]
        /\ queue["resultQueue"] # << >> /\ UNCHANGED <<lines, eof, hasty>>
    BY <1>3 DEF OutputSend, client
  <2>2. answers \in [Conns -> Seq(Nat)] /\ queue["resultQueue"] \in Seq(Tasks)
    BY DEF TaskInv, TaskTypes, QueueNames
  <2>3. task.fd \in Conns /\ task.no \in Nat
    <3>1. task \in Tasks
      BY <2>1, <2>2, Taken
    <3> HIDE DEF task
    <3> QED BY <3>1 DEF Tasks
  <2> HIDE DEF task
  <2>4. /\ \A k \in 1 .. Len(answers[task.fd]) : Append(answers[task.fd], task.no)[k] = answers[task.fd][k]
        /\ Len(Append(answers[task.fd], task.no)) = Len(answers[task.fd]) + 1
        /\ Len(answers[task.fd]) \in Nat
    BY <2>2, <2>3, Appended
  <2>5. \A d \in Conns : \A k \in 1 .. Len(answers[d]) :
          k \in 1 .. Len(answers'[d]) /\ answers'[d][k] = answers[d][k]
    <3> SUFFICES ASSUME NEW d \in Conns, NEW k \in 1 .. Len(answers[d])
                 PROVE  k \in 1 .. Len(answers'[d]) /\ answers'[d][k] = answers[d][k]
      OBVIOUS
    <3>1. CASE d = task.fd
      BY <2>1, <2>2, <2>4, <3>1
    <3>2. CASE d # task.fd
      BY <2>1, <2>2, <3>2
    <3> QED BY <3>1, <3>2
  <2> QED BY <2>1, <2>5 DEF Grows
<1>4. ASSUME NEW c \in Conns, Accept(c) PROVE Grows
  BY <1>4 DEF Accept, client, Grows
<1>5. ASSUME NEW e \in EpollThreads, EpollThread(e) PROVE Grows
  BY <1>5 DEF EpollThread, EpollWait, EpollEnqueue, client, Grows
<1>6. CASE InputThread
  BY <1>6 DEF InputThread, InputLine, InputNoLine, InputEnd, AddTask, Rearm, client, Grows
<1>7. ASSUME NEW t \in Workers, Worker(t) PROVE Grows
  BY <1>7 DEF Worker, Take, Pass, client, Grows
<1>8. CASE (OutputSend /\ closed[Head(queue["resultQueue"]).fd]) \/ OutputShutdown \/ OutputDeleteEvent
  BY <1>8 DEF OutputSend, OutputShutdown, OutputDeleteEvent, client, Grows
<1> QED BY <1>1, <1>2, <1>3, <1>4, <1>5, <1>6, <1>7, <1>8 DEF Next, OutputThread

LEMMA AnsweredStays ==
  ASSUME NetworkInv, TaskInv, Grows, NEW c \in Conns
  PROVE  /\ \A n : Answered(c, n) => Answered(c, n)'
         /\ \A kind : AnsweredKind(c, kind) => AnsweredKind(c, kind)'
<1>1. \A n : Answered(c, n) => Answered(c, n)'
  BY DEF Grows, Answered
<1>2. ASSUME NEW kind, AnsweredKind(c, kind) PROVE AnsweredKind(c, kind)'
  <2>1. PICK k \in 1 .. Len(answers[c]) : lines[c][answers[c][k]] = kind
    BY <1>2 DEF AnsweredKind
  <2>2. answers[c][k] \in 1 .. Len(lines[c])
    BY ReadableTyped DEF TaskInv, AnswersKnown, NetworkInv, LineTypes
  <2> QED BY <2>1, <2>2 DEF Grows, AnsweredKind
<1> QED BY <1>1, <1>2

LEMMA NetworkNext ==
  ASSUME NetworkInv, TaskInv, [Next]_vars PROVE NetworkInv'
<1>1. CASE UNCHANGED vars
  BY <1>1, NetworkAlone DEF vars, NetworkInv, LineTypes
<1>2. ASSUME NEW c \in Conns, Client(c) \/ Accept(c) PROVE NetworkInv'
  BY <1>2, NetworkClient, NetworkAccept
<1>3. ASSUME NEW e \in EpollThreads, EpollThread(e) PROVE NetworkInv'
  BY <1>3, NetworkEpollWait, NetworkEpollEnqueue DEF EpollThread
<1>4. CASE InputThread
  BY <1>4, NetworkInputLine, NetworkInputNoLine, NetworkInputEnd, NetworkAddTask, NetworkRearm DEF InputThread
<1>5. closed \in [Conns -> BOOLEAN]
  BY DEF NetworkInv, LineTypes
<1>6. ASSUME NEW t \in Workers, Worker(t) PROVE NetworkInv'
  BY <1>5, <1>6, NetworkAlone DEF Worker, Take, Pass
<1>7. CASE OutputSend
  BY <1>5, <1>7, NetworkAlone DEF OutputSend
<1>8. CASE OutputShutdown
  <2>1. closed' \in [Conns -> BOOLEAN]
    BY <1>5, <1>8 DEF OutputShutdown
  <2> QED BY <1>8, <2>1, NetworkAlone DEF OutputShutdown
<1>9. CASE OutputDeleteEvent
  BY <1>9, NetworkDeleteEvent DEF TaskInv, TaskTypes, OutputTyped, OutputDeleteEvent
<1> QED BY <1>1, <1>2, <1>3, <1>4, <1>6, <1>7, <1>8, <1>9 DEF Next, OutputThread

LEMMA TasksNext ==
  ASSUME NetworkInv, TaskInv, [Next]_vars PROVE TaskInv'
<1>1. CASE UNCHANGED vars
  <2>1. OutputTyped'
    BY <1>1 DEF TaskInv, TaskTypes, OutputTyped, vars
  <2> QED BY <1>1, <2>1, TasksStay DEF vars, client, network
<1>2. ASSUME NEW c \in Conns, Client(c) \/ Accept(c) PROVE TaskInv'
  BY <1>2, TasksClient, TasksNetwork
<1>3. ASSUME NEW e \in EpollThreads, EpollThread(e) PROVE TaskInv'
  BY <1>3, TasksNetwork
<1>4. CASE InputThread
  BY <1>4, TasksInputLine, TasksAddTask, TasksNetwork DEF InputThread
<1>5. ASSUME NEW t \in Workers, Worker(t) PROVE TaskInv'
  BY <1>5, TasksTake, TasksPass DEF Worker
<1>6. CASE OutputThread
  BY <1>6, TasksOutput
<1> QED BY <1>1, <1>2, <1>3, <1>4, <1>5, <1>6 DEF Next

\* Who is closed or about to be, after a step: those before, the client whose
\* end was read, and the one whose quit is answered.
LEMMA ClosedBy ==
  ASSUME NetworkInv, TaskInv, [Next]_vars, NEW c \in Conns,
         closed'[c] \/ (output'.pc # "idle" /\ output'.fd = c)
  PROVE  \/ closed[c] \/ (output.pc # "idle" /\ output.fd = c)
         \/ eof[c]
         \/ AnsweredKind(c, "quit")' \/ AnsweredKind(c, "bad")'
<1>1. CASE UNCHANGED vars
  BY <1>1 DEF vars
<1>2. ASSUME NEW d \in Conns, Client(d) \/ Accept(d) PROVE UNCHANGED <<closed, output>>
  BY <1>2 DEF Client, SendLine, SendPart, HalfClose, Accept
<1>3. ASSUME NEW e \in EpollThreads, EpollThread(e) PROVE UNCHANGED <<closed, output>>
  BY <1>3 DEF EpollThread, EpollWait, EpollEnqueue
<1>4. CASE InputLine \/ InputNoLine \/ AddTask \/ Rearm
  BY <1>4 DEF InputLine, InputNoLine, WaitForMore, AddTask, Rearm
<1>5. CASE InputEnd
  BY <1>5 DEF InputEnd, NetworkInv, LineTypes
<1>6. ASSUME NEW t \in Workers, Worker(t) PROVE UNCHANGED <<closed, output>>
  BY <1>6 DEF Worker, Take, Pass
<1>7. CASE OutputSend
  <2> DEFINE task == Head(queue["resultQueue"])
  <2>1. CASE output' = output
    BY <1>7, <2>1 DEF OutputSend
  <2>2. CASE output' # output
    <3>1. /\ queue["resultQueue"] # << >> /\ task.CMD = "quit" /\ output' = [pc |-> "shutdown", fd |-> task.fd]
          /\ answers' = [answers EXCEPT ![task.fd] = Append(answers[task.fd], task.no)]
          /\ UNCHANGED <<closed, lines>>
      BY <1>7, <2>2 DEF OutputSend, client
    <3>2. task \in Tasks /\ Known(task)
      BY <3>1, LaneValues, HeadKnown
    <3> HIDE DEF task
    <3>3. answers \in [Conns -> Seq(Nat)] /\ task.fd \in Conns /\ task.no \in Nat
      BY <3>2 DEF TaskInv, TaskTypes, Tasks
    <3>4. CASE c = task.fd
      <4>1. /\ Len(answers[c]) + 1 \in 1 .. Len(answers'[c])
            /\ answers'[c][Len(answers[c]) + 1] = task.no
        <5>1. answers'[c] = Append(answers[c], task.no) /\ answers[c] \in Seq(Nat)
          BY <3>1, <3>3, <3>4
        <5> QED BY <3>3, <5>1, Appended
      <4>2. lines'[c][task.no] \in {"quit", "bad"}
        BY <3>1, <3>2, <3>4 DEF Known
      <4> QED BY <4>1, <4>2 DEF AnsweredKind
    <3>5. CASE c # task.fd
      BY <3>1, <3>5
    <3> QED BY <3>4, <3>5
  <2> QED BY <2>1, <2>2
<1>8. CASE OutputShutdown
  BY <1>8 DEF OutputShutdown, NetworkInv, LineTypes
<1>9. CASE OutputDeleteEvent
  BY <1>9 DEF OutputDeleteEvent
<1> QED BY <1>1, <1>2, <1>3, <1>4, <1>5, <1>6, <1>7, <1>8, <1>9 DEF Next, InputThread, OutputThread

LEMMA ClosedNext ==
  ASSUME NetworkInv, TaskInv, ClosedForReason, [Next]_vars PROVE ClosedForReason'
<1> SUFFICES ASSUME NEW c \in Conns, closed'[c] \/ (output'.pc # "idle" /\ output'.fd = c)
             PROVE  eof'[c] \/ AnsweredKind(c, "quit")' \/ AnsweredKind(c, "bad")'
  BY DEF ClosedForReason
<1>1. Grows
  BY AnswersGrow
<1>2. /\ eof[c] => eof'[c]
      /\ \A kind : AnsweredKind(c, kind) => AnsweredKind(c, kind)'
  BY <1>1, AnsweredStays DEF Grows
<1>3. CASE closed[c] \/ (output.pc # "idle" /\ output.fd = c)
  <2>1. eof[c] \/ AnsweredKind(c, "quit") \/ AnsweredKind(c, "bad")
    BY <1>3 DEF ClosedForReason
  <2> QED BY <1>2, <2>1
<1> QED BY <1>2, <1>3, ClosedBy

\* A client that did not hurry: its lines and its end are old, or it had all
\* the answers.
LEMMA Waited ==
  ASSUME NetworkInv, TaskInv, [Next]_vars, NEW c \in Conns, c \notin hasty'
  PROVE  /\ c \notin hasty
         /\ \/ lines'[c] = lines[c] /\ eof'[c] = eof[c]
            \/ /\ Settled(c)
               /\ \/ lines'[c] = lines[c]
                  \/ eof'[c] = FALSE /\ \E kind \in Kinds : lines'[c] = Append(lines[c], kind)
<1>1. c \notin hasty
  BY AnswersGrow DEF Grows
<1>2. CASE UNCHANGED <<lines, eof>>
  BY <1>1, <1>2
<1>3. ASSUME NEW d \in Conns, NEW kind \in Kinds, SendLine(d, kind)
      PROVE  \/ lines'[c] = lines[c] /\ eof'[c] = eof[c]
             \/ Settled(c) /\ eof'[c] = FALSE /\ lines'[c] = Append(lines[c], kind)
  BY <1>3 DEF SendLine, Hurry, NetworkInv, LineTypes
<1>4. ASSUME NEW d \in Conns, HalfClose(d)
      PROVE  lines'[c] = lines[c] /\ (eof'[c] = eof[c] \/ Settled(c))
  BY <1>4 DEF HalfClose, Hurry, NetworkInv, LineTypes
<1>5. ASSUME NEW d \in Conns, SendPart(d) \/ Accept(d) PROVE UNCHANGED <<lines, eof>>
  BY <1>5 DEF SendPart, Accept, client
<1>6. ASSUME NEW e \in EpollThreads, EpollThread(e) PROVE UNCHANGED <<lines, eof>>
  BY <1>6 DEF EpollThread, EpollWait, EpollEnqueue, client
<1>7. CASE InputThread
  BY <1>7 DEF InputThread, InputLine, InputNoLine, InputEnd, AddTask, Rearm, client
<1>8. ASSUME NEW t \in Workers, Worker(t) PROVE UNCHANGED <<lines, eof>>
  BY <1>8 DEF Worker, Take, Pass, client
<1>9. CASE OutputThread
  BY <1>9 DEF OutputThread, OutputSend, OutputShutdown, OutputDeleteEvent, client
<1>10. CASE UNCHANGED vars
  BY <1>10 DEF vars, client
<1>11. ASSUME NEW d \in Conns, Client(d)
       PROVE  \/ \E kind \in Kinds : SendLine(d, kind)
              \/ SendPart(d) \/ HalfClose(d)
  BY <1>11 DEF Client
<1>12. CASE Next
  BY <1>1, <1>2, <1>3, <1>4, <1>5, <1>6, <1>7, <1>8, <1>9, <1>11, <1>12 DEF Next
<1> QED BY <1>2, <1>10, <1>12 DEF vars, client

LEMMA PatientNext ==
  ASSUME NetworkInv, TaskInv, Patient, [Next]_vars PROVE Patient'
<1> SUFFICES ASSUME NEW c \in Conns, c \notin hasty', NEW n \in 1 .. Len(lines'[c])
             PROVE  /\ lines'[c][n] = "quit" => n = Len(lines'[c])
                    /\ lines'[c][n] # "blank" /\ (n < Len(lines'[c]) \/ eof'[c]) => Answered(c, n)'
  BY DEF Patient
<1>1. lines[c] \in Seq(Kinds) /\ Len(lines[c]) \in Nat
  BY ReadableTyped
<1>2. \A m : Answered(c, m) => Answered(c, m)'
  BY AnswersGrow, AnsweredStays
<1>3. CASE lines'[c] = lines[c] /\ eof'[c] = eof[c]
  BY <1>2, <1>3, Waited DEF Patient
<1>4. ASSUME Settled(c)
      PROVE  \A m \in 1 .. Len(lines[c]) :
               lines[c][m] # "quit" /\ (lines[c][m] # "blank" => Answered(c, m)')
  <2>1. DOMAIN lines[c] = 1 .. Len(lines[c])
    BY <1>1, LenProperties
  <2> QED BY <1>2, <1>4, <2>1, AllAnswered DEF Settled, Answerable
<1>5. CASE Settled(c) /\ lines'[c] = lines[c]
  BY <1>4, <1>5
<1>6. ASSUME Settled(c), eof'[c] = FALSE, NEW kind \in Kinds, lines'[c] = Append(lines[c], kind)
      PROVE  /\ lines'[c][n] = "quit" => n = Len(lines'[c])
             /\ lines'[c][n] # "blank" /\ (n < Len(lines'[c]) \/ eof'[c]) => Answered(c, n)'
  <2>1. /\ Len(lines'[c]) = Len(lines[c]) + 1
        /\ \A m \in 1 .. Len(lines[c]) : lines'[c][m] = lines[c][m]
    BY <1>1, <1>6, Appended
  <2>2. CASE n = Len(lines[c]) + 1
    BY <1>1, <1>6, <2>1, <2>2
  <2>3. CASE n \in 1 .. Len(lines[c])
    BY <1>4, <1>6, <2>1, <2>3
  <2> QED BY <1>1, <2>1, <2>2, <2>3
<1> QED BY <1>3, <1>5, <1>6, Waited

\* Each connection is in one place and each command that was read in one place
\* until it is answered, in the order of the way; a connection is closed for a
\* reason, and a patient client has the answers of all its lines but the last.
THEOREM Invariant == Spec => []IInv
<1>1. Init => IInv
  <2> SUFFICES ASSUME Init PROVE IInv
    OBVIOUS
  <2>1. ClosedForReason /\ Patient
    BY DEF Init, ClosedForReason, Patient
  <2> QED BY <2>1, InitNetwork, InitTasks DEF IInv
<1>2. IInv /\ [Next]_vars => IInv'
  BY NetworkNext, TasksNext, ClosedNext, PatientNext DEF IInv
<1> QED BY <1>1, <1>2, PTL DEF Spec

-----------------------------------------------------------------------------
(* Theorems *)

\* The variables have their types: what was read was sent, what was answered
\* can be answered, and no queue grows beyond queueSize.
THEOREM TypeCorrect == Spec => []TypeOK
<1>1. ASSUME IInv PROVE TypeOK
  <2> USE <1>1 DEF IInv
  <2>1. ASSUME NEW c \in Conns
        PROVE  /\ lines[c] \in Seq(Kinds)
               /\ taken[c] \in 0 .. Len(lines[c])
               /\ \A i \in DOMAIN answers[c] : answers[c][i] \in Answerable(c)
    <3>1. /\ lines[c] \in Seq(Kinds) /\ Len(lines[c]) \in Nat /\ DOMAIN lines[c] = 1 .. Len(lines[c])
          /\ taken[c] \in Nat /\ taken[c] <= Len(lines[c])
      BY ReadableTyped, LenProperties DEF NetworkInv, LineTypes
    <3>2. DOMAIN answers[c] = 1 .. Len(answers[c])
      BY LenProperties DEF TaskInv, TaskTypes
    <3>3. \A i \in 1 .. Len(answers[c]) : answers[c][i] \in 1 .. taken[c] /\ lines[c][answers[c][i]] # "blank"
      BY DEF TaskInv, AnswersKnown
    <3> QED BY <3>1, <3>2, <3>3 DEF Answerable
  <2>2. {part, eof, closed} \subseteq [Conns -> BOOLEAN] /\ hasty \subseteq Conns
    BY DEF NetworkInv, LineTypes
  <2>3. /\ event \in [Conns -> {"none", "armed", "off", "deleted"}]
        /\ \A e \in EpollThreads : events[e] \in Seq(Conns)
        /\ fdQueue \in Seq(Conns) /\ Len(fdQueue) <= fdQueueSize
        /\ input.task \in Tasks \cup {NoTask}
    BY DEF NetworkInv, NetworkTypes
  <2>4. /\ \A q \in QueueNames : queue[q] \in Seq(Tasks) /\ Len(queue[q]) <= queueSize
        /\ hand \in [Workers -> Tasks \cup {NoTask}]
    BY DEF TaskInv, TaskTypes
  <2> QED BY <2>1, <2>2, <2>3, <2>4 DEF TypeOK
<1>2. IInv => TypeOK
  BY <1>1
<1> QED BY <1>2, Invariant, PTL

\* What is counted as handing on c.
LEMMA Counted ==
  ASSUME NetworkInv, NEW c \in Conns
  PROVE  /\ HandedOn(c) \in 0 .. 1
         /\ HandedOn(c) > 0 => Waits(c) \/ input.fd = c
         /\ (\E i \in 1 .. Len(fdQueue) : fdQueue[i] = c) => HandedOn(c) > 0
<1> DEFINE W == {w \in EpollThreads \X (1 .. Cardinality(Conns)) :
                   w[2] \in DOMAIN events[w[1]] /\ events[w[1]][w[2]] = c}
           F == {i \in DOMAIN fdQueue : fdQueue[i] = c}
<1>1. DOMAIN fdQueue = 1 .. Len(fdQueue) /\ \A e \in EpollThreads : DOMAIN events[e] = 1 .. Len(events[e])
  BY LenProperties DEF NetworkInv, NetworkTypes
<1>2. HandedOn(c) = Cardinality(W) + Cardinality(F) + (IF input.fd = c THEN 1 ELSE 0)
  BY DEF HandedOn, Times
<1>3. \A w, v \in W : w = v
  <2> SUFFICES ASSUME NEW w \in W, NEW v \in W PROVE w = v
    OBVIOUS
  <2>1. w[1] = v[1] /\ w[2] = v[2]
    BY <1>1 DEF NetworkInv, WaitsOnce
  <2> QED BY <2>1
<1>4. \A i, j \in F : i = j
  BY <1>1 DEF NetworkInv, WaitsOnce
<1>5. W # {} => Waits(c) /\ F = {}
  BY <1>1 DEF NetworkInv, WaitsOnce, Waits
<1>6. F # {} => Waits(c)
  BY <1>1 DEF Waits
<1>7. input.fd = c => ~Waits(c)
  BY DEF NetworkInv, WaitsDisarmed
<1>8. (\E i \in 1 .. Len(fdQueue) : fdQueue[i] = c) => F # {}
  BY <1>1
<1> HIDE DEF W, F
<1>9. /\ W = {} => Cardinality(W) = 0
      /\ W # {} => Cardinality(W) = 1
      /\ F = {} => Cardinality(F) = 0
      /\ F # {} => Cardinality(F) = 1
  <2>1. \A S : S # {} /\ (\A x, y \in S : x = y) => \E x : S = {x}
    OBVIOUS
  <2> QED BY <1>3, <1>4, <2>1, FS_EmptySet, FS_Singleton
<1> QED BY <1>2, <1>5, <1>6, <1>7, <1>8, <1>9

\* A connection is armed, or one thread or fdQueue has it, once, and what waits
\* for inputThread has something to read.
THEOREM ConnectionsHeldOnce == Spec => []OneHolder
<1>1. ASSUME IInv, NEW c \in Conns
      PROVE  /\ HandedOn(c) <= 1
             /\ event[c] \in {"none", "armed"} => HandedOn(c) = 0
             /\ HandedOn(c) > 0 /\ input.fd # c => Readable(c)
  <2>1. Waits(c) => event[c] \in {"off", "deleted"} /\ Readable(c)
    BY <1>1 DEF IInv, NetworkInv, WaitsDisarmed
  <2>2. input.fd = c => event[c] \in {"off", "deleted"}
    BY <1>1 DEF IInv, NetworkInv, WaitsDisarmed
  <2> QED BY <1>1, <2>1, <2>2, Counted DEF IInv
<1>2. IInv => OneHolder
  BY <1>1 DEF OneHolder
<1> QED BY <1>2, Invariant, PTL

\* A registration that was deleted stays so, and nothing more is read from its
\* connection but what a thread had in hand.
THEOREM DeletedForGood == Spec => StaysDeleted
<1>1. ASSUME IInv, [Next]_vars, NEW c \in Conns, event[c] = "deleted"
      PROVE  event'[c] = "deleted" /\ (HandedOn(c) = 0 => taken'[c] = taken[c])
  <2> USE <1>1 DEF IInv
  <2>1. /\ event \in [Conns -> {"none", "armed", "off", "deleted"}]
        /\ taken \in [Conns -> Nat] /\ fdQueue \in Seq(Conns)
        /\ input.pc = "rearm" => input.fd \in Conns
    BY DEF NetworkInv, NetworkTypes, LineTypes
  <2>2. CASE UNCHANGED <<event, taken>>
    BY <2>2
  <2>3. ASSUME NEW d \in Conns, Accept(d) PROVE event'[c] = "deleted" /\ taken' = taken
    BY <2>1, <2>3 DEF Accept
  <2>4. ASSUME NEW e \in EpollThreads, EpollWait(e) PROVE event'[c] = "deleted" /\ taken' = taken
    BY <2>1, <2>4 DEF EpollWait, Disarmed
  <2>5. CASE InputLine
    <3>1. /\ fdQueue # << >> /\ event' = event
          /\ taken' = [taken EXCEPT ![Head(fdQueue)] = taken[Head(fdQueue)] + 1]
      BY <2>5 DEF InputLine
    <3>2. ASSUME HandedOn(c) = 0 PROVE Head(fdQueue) # c
      <4>1. Head(fdQueue) = fdQueue[1] /\ 1 \in 1 .. Len(fdQueue)
        BY <2>1, <3>1, Taken
      <4> QED BY <3>2, <4>1, Counted
    <3>3. Head(fdQueue) # c => taken'[c] = taken[c]
      BY <2>1, <3>1
    <3> QED BY <3>1, <3>2, <3>3
  <2>6. CASE Rearm
    BY <2>1, <2>6 DEF Rearm, Modified
  <2>7. CASE OutputDeleteEvent
    BY <2>1, <2>7 DEF OutputDeleteEvent
  <2>8. CASE UNCHANGED vars
    BY <2>2, <2>8 DEF vars, network
  <2>9. ASSUME NEW d \in Conns, Client(d) PROVE UNCHANGED <<event, taken>>
    BY <2>9 DEF Client, SendLine, SendPart, HalfClose, network
  <2>10. ASSUME NEW e \in EpollThreads, EpollEnqueue(e) PROVE UNCHANGED <<event, taken>>
    BY <2>10 DEF EpollEnqueue
  <2>11. CASE InputNoLine \/ InputEnd \/ AddTask
    BY <2>2, <2>11 DEF InputNoLine, InputEnd, AddTask
  <2>12. ASSUME NEW t \in Workers, Worker(t) PROVE UNCHANGED <<event, taken>>
    BY <2>12 DEF Worker, Take, Pass, network
  <2>13. CASE OutputSend \/ OutputShutdown
    BY <2>2, <2>13 DEF OutputSend, OutputShutdown, network
  <2> QED BY <2>2, <2>3, <2>4, <2>5, <2>6, <2>7, <2>8, <2>9, <2>10, <2>11, <2>12, <2>13
          DEF Next, EpollThread, InputThread, OutputThread
<1>2. IInv /\ [Next]_vars =>
        [\A c \in Conns : event[c] = "deleted" =>
           event'[c] = "deleted" /\ (HandedOn(c) = 0 => taken'[c] = taken[c])]_vars
  BY <1>1
<1> QED BY <1>2, Invariant, PTL DEF Spec, StaysDeleted

\* An answer overtakes that of an earlier command only past the store.
THEOREM OrderOfAnswers == Spec => []OnlyDirectOvertakes
<1>1. IInv => OnlyDirectOvertakes
  <2> SUFFICES ASSUME IInv, NEW c \in Conns, NEW i \in DOMAIN answers[c], NEW j \in DOMAIN answers[c],
                      i < j, answers[c][i] > answers[c][j]
               PROVE  /\ lines[c][answers[c][i]] \notin {"get", "set"}
                      /\ lines[c][answers[c][j]] \in {"get", "set"}
    BY DEF OnlyDirectOvertakes
  <2>1. DOMAIN answers[c] = 1 .. Len(answers[c]) /\ \A k \in 1 .. Len(answers[c]) : answers[c][k] \in Nat
    BY LenProperties, ElementOfSeq DEF IInv, TaskInv, TaskTypes
  <2> QED BY <2>1 DEF IInv, TaskInv, AnswersInOrder, Overtakes, Stored
<1> QED BY <1>1, Invariant, PTL

\* A client that waits for its answers gets them before it is closed, unless an
\* error took the CMD of a quit.
THEOREM PatientIsAnswered == Spec => []ClosedInOrder
<1>1. IInv => ClosedInOrder
  <2> SUFFICES ASSUME IInv, NEW c \in Conns, closed[c], c \notin hasty
               PROVE  \/ Len(answers[c]) = Cardinality(Answerable(c))
                      \/ \E i \in DOMAIN answers[c] : lines[c][answers[c][i]] = "bad"
    BY DEF ClosedInOrder
  <2>1. /\ DOMAIN answers[c] = 1 .. Len(answers[c])
        /\ DOMAIN lines[c] = 1 .. Len(lines[c]) /\ Len(lines[c]) \in Nat
        /\ taken[c] \in Nat /\ taken[c] <= Len(lines[c])
    BY LenProperties DEF IInv, TaskInv, TaskTypes, NetworkInv, LineTypes
  <2>2. \A n \in 1 .. Len(lines[c]) :
          /\ lines[c][n] = "quit" => n = Len(lines[c])
          /\ lines[c][n] # "blank" /\ (n < Len(lines[c]) \/ eof[c]) => Answered(c, n)
    BY DEF IInv, Patient
  <2>3. CASE AnsweredKind(c, "bad")
    BY <2>1, <2>3 DEF AnsweredKind
  <2>4. CASE eof[c] \/ AnsweredKind(c, "quit")
    <3>1. ASSUME AnsweredKind(c, "quit") PROVE Answered(c, Len(lines[c]))
      <4>1. PICK k \in 1 .. Len(answers[c]) : lines[c][answers[c][k]] = "quit"
        BY <3>1 DEF AnsweredKind
      <4>2. answers[c][k] \in 1 .. Len(lines[c])
        BY <2>1 DEF IInv, TaskInv, AnswersKnown
      <4> QED BY <2>2, <4>1, <4>2 DEF Answered
    <3>2. \A n \in Answerable(c) : Answered(c, n)
      BY <2>1, <2>2, <2>4, <3>1 DEF Answerable
    <3> QED BY <3>2, AllAnswered DEF IInv
  <2> QED BY <2>3, <2>4 DEF IInv, ClosedForReason
<1> QED BY <1>1, Invariant, PTL

LEMMA Joined ==
  ASSUME NEW S, NEW s \in Seq(S), NEW t \in Seq(S)
  PROVE  /\ s \o t \in Seq(S) /\ Len(s) \in Nat /\ Len(t) \in Nat
         /\ Len(s \o t) = Len(s) + Len(t)
         /\ \A j \in 1 .. Len(s) : (s \o t)[j] = s[j]
         /\ \A j \in 1 .. Len(t) : (s \o t)[Len(s) + j] = t[j]
<1>1. Len(s) \in Nat /\ Len(t) \in Nat
  BY LenProperties
<1>2. /\ s \o t \in Seq(S) /\ Len(s \o t) = Len(s) + Len(t)
      /\ \A i \in 1 .. Len(s) + Len(t) : (s \o t)[i] = IF i <= Len(s) THEN s[i] ELSE t[i - Len(s)]
  BY ConcatProperties
<1>3. ASSUME NEW j \in 1 .. Len(t) PROVE (s \o t)[Len(s) + j] = t[j]
  <2>1. Len(s) + j \in 1 .. Len(s) + Len(t) /\ ~(Len(s) + j <= Len(s)) /\ (Len(s) + j) - Len(s) = j
    BY <1>1
  <2> QED BY <1>2, <2>1
<1>4. ASSUME NEW j \in 1 .. Len(s) PROVE (s \o t)[j] = s[j]
  <2>1. j \in 1 .. Len(s) + Len(t) /\ j <= Len(s)
    BY <1>1
  <2> QED BY <1>2, <2>1
<1> QED BY <1>1, <1>2, <1>3, <1>4

\* Where the places of lane l begin in Places.
Base(l) ==
  LET a == Len(queue["workQueue"])
      b == Len(queue["storeWork"])
      c == Len(queue["storeResult"])
      d == Len(queue["resultQueue"]) IN
  IF l = 2 THEN 0
  ELSE IF l = 4 THEN a
  ELSE IF l = 6 THEN a + b
  ELSE IF l = 8 THEN a + b + c
  ELSE IF l = 3 THEN a + b + c + d
  ELSE IF l = 5 THEN a + b + c + d + 1
  ELSE IF l = 7 THEN a + b + c + d + 2
  ELSE a + b + c + d + 3

LEMMA LanesInPlaces ==
  ASSUME NetworkInv, TaskInv
  PROVE  /\ \A l \in LaneNos : \A j \in 1 .. Len(Lanes[l]) :
              /\ Base(l) + j \in DOMAIN Places
              /\ Places[Base(l) + j] = Lanes[l][j] /\ Lanes[l][j] # NoTask
         /\ \A i \in DOMAIN Places : Places[i] # NoTask =>
              \E l \in LaneNos : \E j \in 1 .. Len(Lanes[l]) : i = Base(l) + j
<1> DEFINE T == Tasks \cup {NoTask}
           s1 == queue["workQueue"]
           s2 == queue["storeWork"]
           s3 == queue["storeResult"]
           s4 == queue["resultQueue"]
           h == <<hand["inThread"], hand["diskIO"], hand["outThread"], input.task>>
           a == Len(s1)
           b == Len(s2)
           c == Len(s3)
           d == Len(s4)
           P == Places
<1>1. s1 \in Seq(T) /\ s2 \in Seq(T) /\ s3 \in Seq(T) /\ s4 \in Seq(T)
  <2>1. s1 \in Seq(Tasks) /\ s2 \in Seq(Tasks) /\ s3 \in Seq(Tasks) /\ s4 \in Seq(Tasks)
    BY DEF TaskInv, TaskTypes, QueueNames
  <2> HIDE DEF s1, s2, s3, s4
  <2> QED BY <2>1
<1>2. hand["inThread"] \in T /\ hand["diskIO"] \in T /\ hand["outThread"] \in T /\ input.task \in T
  BY DEF TaskInv, TaskTypes, Workers, NetworkInv, NetworkTypes
<1>3. /\ h \in Seq(T) /\ Len(h) = 4
      /\ h[1] = hand["inThread"] /\ h[2] = hand["diskIO"] /\ h[3] = hand["outThread"] /\ h[4] = input.task
  BY <1>2
<1>4. P = (((s1 \o s2) \o s3) \o s4) \o h
  BY DEF Places
<1> HIDE DEF T, s1, s2, s3, s4, h, P
<1>5. /\ s1 \o s2 \in Seq(T) /\ Len(s1 \o s2) = a + b /\ a \in Nat /\ b \in Nat
      /\ \A j \in 1 .. a : (s1 \o s2)[j] = s1[j]
      /\ \A j \in 1 .. b : (s1 \o s2)[a + j] = s2[j]
  BY <1>1, Joined
<1>6. /\ (s1 \o s2) \o s3 \in Seq(T) /\ Len((s1 \o s2) \o s3) = a + b + c /\ c \in Nat
      /\ \A j \in 1 .. a + b : ((s1 \o s2) \o s3)[j] = (s1 \o s2)[j]
      /\ \A j \in 1 .. c : ((s1 \o s2) \o s3)[a + b + j] = s3[j]
  <2> DEFINE s == s1 \o s2
  <2>1. s \in Seq(T) /\ Len(s) = a + b
    BY <1>5
  <2> HIDE DEF s, a, b
  <2>2. /\ s \o s3 \in Seq(T) /\ Len(s \o s3) = a + b + c /\ c \in Nat
        /\ \A j \in 1 .. a + b : (s \o s3)[j] = s[j]
        /\ \A j \in 1 .. c : (s \o s3)[a + b + j] = s3[j]
    <3>1. /\ s \o s3 \in Seq(T) /\ Len(s \o s3) = Len(s) + Len(s3) /\ Len(s3) \in Nat
          /\ \A j \in 1 .. Len(s) : (s \o s3)[j] = s[j]
          /\ \A j \in 1 .. Len(s3) : (s \o s3)[Len(s) + j] = s3[j]
      <4>1. s \in Seq(T) /\ s3 \in Seq(T)
        BY <1>1, <2>1
      <4> QED BY <4>1, Joined
    <3> QED BY <2>1, <3>1
  <2> QED BY <2>2 DEF s
<1>7. /\ ((s1 \o s2) \o s3) \o s4 \in Seq(T) /\ Len(((s1 \o s2) \o s3) \o s4) = a + b + c + d /\ d \in Nat
      /\ \A j \in 1 .. a + b + c : (((s1 \o s2) \o s3) \o s4)[j] = ((s1 \o s2) \o s3)[j]
      /\ \A j \in 1 .. d : (((s1 \o s2) \o s3) \o s4)[a + b + c + j] = s4[j]
  <2> DEFINE s == (s1 \o s2) \o s3
  <2>1. s \in Seq(T) /\ Len(s) = a + b + c
    BY <1>6
  <2> HIDE DEF s, a, b, c
  <2>2. /\ s \o s4 \in Seq(T) /\ Len(s \o s4) = a + b + c + d /\ d \in Nat
        /\ \A j \in 1 .. a + b + c : (s \o s4)[j] = s[j]
        /\ \A j \in 1 .. d : (s \o s4)[a + b + c + j] = s4[j]
    <3>1. /\ s \o s4 \in Seq(T) /\ Len(s \o s4) = Len(s) + Len(s4) /\ Len(s4) \in Nat
          /\ \A j \in 1 .. Len(s) : (s \o s4)[j] = s[j]
          /\ \A j \in 1 .. Len(s4) : (s \o s4)[Len(s) + j] = s4[j]
      <4>1. s \in Seq(T) /\ s4 \in Seq(T)
        BY <1>1, <2>1
      <4> QED BY <4>1, Joined
    <3> QED BY <2>1, <3>1
  <2> QED BY <2>2 DEF s
<1>8. /\ P \in Seq(T) /\ Len(P) = a + b + c + d + 4
      /\ \A j \in 1 .. a + b + c + d : P[j] = (((s1 \o s2) \o s3) \o s4)[j]
      /\ \A j \in 1 .. 4 : P[a + b + c + d + j] = h[j]
  <2> DEFINE s == ((s1 \o s2) \o s3) \o s4
  <2>1. s \in Seq(T) /\ Len(s) = a + b + c + d
    BY <1>7
  <2>2. P = s \o h
    BY <1>4
  <2> HIDE DEF s, a, b, c, d
  <2>3. /\ s \o h \in Seq(T) /\ Len(s \o h) = a + b + c + d + 4
        /\ \A j \in 1 .. a + b + c + d : (s \o h)[j] = s[j]
        /\ \A j \in 1 .. 4 : (s \o h)[a + b + c + d + j] = h[j]
    <3>1. /\ s \o h \in Seq(T) /\ Len(s \o h) = Len(s) + Len(h)
          /\ \A j \in 1 .. Len(s) : (s \o h)[j] = s[j]
          /\ \A j \in 1 .. Len(h) : (s \o h)[Len(s) + j] = h[j]
      <4>1. s \in Seq(T) /\ h \in Seq(T)
        BY <1>3, <2>1
      <4> QED BY <4>1, Joined
    <3> QED BY <1>3, <2>1, <3>1
  <2> QED BY <2>2, <2>3 DEF s
<1>9. a \in Nat /\ b \in Nat /\ c \in Nat /\ d \in Nat /\ DOMAIN P = 1 .. a + b + c + d + 4
  BY <1>5, <1>6, <1>7, <1>8, LenProperties
<1>10. /\ \A j \in 1 .. a : P[0 + j] = s1[j]
       /\ \A j \in 1 .. b : P[a + j] = s2[j]
       /\ \A j \in 1 .. c : P[a + b + j] = s3[j]
       /\ \A j \in 1 .. d : P[a + b + c + j] = s4[j]
  <2> HIDE DEF a, b, c, d
  <2>1. \A j \in 1 .. a : P[0 + j] = s1[j]
    <3>1. \A j \in 1 .. a : 0 + j = j /\ j \in 1 .. a + b /\ j \in 1 .. a + b + c /\ j \in 1 .. a + b + c + d
      BY <1>9
    <3> QED BY <1>5, <1>6, <1>7, <1>8, <3>1
  <2>2. ASSUME NEW j \in 1 .. b PROVE P[a + j] = s2[j]
    <3>1. a + j \in 1 .. a + b /\ a + j \in 1 .. a + b + c /\ a + j \in 1 .. a + b + c + d
      BY <1>9
    <3>2. P[a + j] = (s1 \o s2)[a + j]
      BY <1>6, <1>7, <1>8, <3>1
    <3>3. (s1 \o s2)[a + j] = s2[j]
      BY <1>5
    <3> QED BY <3>2, <3>3
  <2>3. \A j \in 1 .. c : P[a + b + j] = s3[j]
    <3>1. \A j \in 1 .. c : a + b + j \in 1 .. a + b + c /\ a + b + j \in 1 .. a + b + c + d
      BY <1>9
    <3> QED BY <1>6, <1>7, <1>8, <3>1
  <2>4. \A j \in 1 .. d : P[a + b + c + j] = s4[j]
    <3>1. \A j \in 1 .. d : a + b + c + j \in 1 .. a + b + c + d
      BY <1>9
    <3> QED BY <1>7, <1>8, <3>1
  <2> QED BY <2>1, <2>2, <2>3, <2>4
<1>11. /\ Base(2) = 0 /\ Base(4) = a /\ Base(6) = a + b /\ Base(8) = a + b + c
       /\ Base(3) = a + b + c + d /\ Base(5) = a + b + c + d + 1
       /\ Base(7) = a + b + c + d + 2 /\ Base(1) = a + b + c + d + 3
  BY DEF Base, s1, s2, s3, s4
<1>12. /\ Lanes[2] = s1 /\ Lanes[4] = s2 /\ Lanes[6] = s3 /\ Lanes[8] = s4
       /\ Lanes[3] = AtMostOne(h[1]) /\ Lanes[5] = AtMostOne(h[2])
       /\ Lanes[7] = AtMostOne(h[3]) /\ Lanes[1] = AtMostOne(h[4])
  BY <1>3, LaneValues DEF s1, s2, s3, s4
<1>13. \A x \in T : \A j \in 1 .. Len(AtMostOne(x)) : j = 1 /\ x # NoTask /\ AtMostOne(x)[j] = x
  <2> SUFFICES ASSUME NEW x \in T, NEW j \in 1 .. Len(AtMostOne(x))
               PROVE  j = 1 /\ x # NoTask /\ AtMostOne(x)[j] = x
    OBVIOUS
  <2>1. CASE x = NoTask
    <3>1. Len(AtMostOne(x)) = 0
      BY <2>1 DEF AtMostOne
    <3> QED BY <3>1
  <2>2. CASE x # NoTask
    <3>1. AtMostOne(x) = <<x>> /\ Len(<<x>>) = 1
      BY <2>2 DEF AtMostOne
    <3> QED BY <2>2, <3>1
  <2> QED BY <2>1, <2>2
<1>14. \A x : x # NoTask => 1 \in 1 .. Len(AtMostOne(x))
  BY DEF AtMostOne
<1>15. h[1] \in T /\ h[2] \in T /\ h[3] \in T /\ h[4] \in T
  BY <1>2, <1>3
<1>16. Lanes \in [LaneNos -> Seq(Tasks)]
  BY LanesTyped DEF TaskInv
<1> HIDE DEF a, b, c, d
<1>17. ASSUME NEW l \in LaneNos, NEW j \in 1 .. Len(Lanes[l])
       PROVE  Base(l) + j \in 1 .. a + b + c + d + 4 /\ P[Base(l) + j] = Lanes[l][j]
  <2>1. CASE l = 2
    <3>1. j \in 1 .. a
      BY <1>12, <2>1 DEF a
    <3>2. P[0 + j] = s1[j]
      BY <1>10, <3>1
    <3>3. Base(l) = 0 /\ Lanes[l] = s1
      BY <1>11, <1>12, <2>1
    <3>4. 0 + j \in 1 .. a + b + c + d + 4
      BY ONLY <1>9, <3>1
    <3> QED BY <3>2, <3>3, <3>4
  <2>2. CASE l = 4
    <3>1. j \in 1 .. b
      BY <1>12, <2>2 DEF b
    <3>2. P[a + j] = s2[j]
      BY <1>10, <3>1
    <3>3. Base(l) = a /\ Lanes[l] = s2
      BY <1>11, <1>12, <2>2
    <3>4. a + j \in 1 .. a + b + c + d + 4
      BY ONLY <1>9, <3>1
    <3> QED BY <3>2, <3>3, <3>4
  <2>3. CASE l = 6
    <3>1. j \in 1 .. c
      BY <1>12, <2>3 DEF c
    <3>2. P[a + b + j] = s3[j]
      BY <1>10, <3>1
    <3>3. Base(l) = a + b /\ Lanes[l] = s3
      BY <1>11, <1>12, <2>3
    <3>4. a + b + j \in 1 .. a + b + c + d + 4
      BY ONLY <1>9, <3>1
    <3> QED BY <3>2, <3>3, <3>4
  <2>4. CASE l = 8
    <3>1. j \in 1 .. d
      BY <1>12, <2>4 DEF d
    <3>2. P[a + b + c + j] = s4[j]
      BY <1>10, <3>1
    <3>3. Base(l) = a + b + c /\ Lanes[l] = s4
      BY <1>11, <1>12, <2>4
    <3>4. a + b + c + j \in 1 .. a + b + c + d + 4
      BY ONLY <1>9, <3>1
    <3> QED BY <3>2, <3>3, <3>4
  <2>5. CASE l = 3
    <3>1. j = 1 /\ Lanes[3][j] = h[1]
      BY <1>12, <1>13, <1>15, <2>5
    <3>2. P[a + b + c + d + 1] = h[1]
      BY <1>8
    <3>3. Base(3) + 1 = a + b + c + d + 1 /\ Base(3) + 1 \in 1 .. a + b + c + d + 4
      BY <1>9, <1>11
    <3> QED BY <2>5, <3>1, <3>2, <3>3
  <2>6. CASE l = 5
    <3>1. j = 1 /\ Lanes[5][j] = h[2]
      BY <1>12, <1>13, <1>15, <2>6
    <3>2. P[a + b + c + d + 2] = h[2]
      BY <1>8
    <3>3. Base(5) + 1 = a + b + c + d + 2 /\ Base(5) + 1 \in 1 .. a + b + c + d + 4
      BY <1>9, <1>11
    <3> QED BY <2>6, <3>1, <3>2, <3>3
  <2>7. CASE l = 7
    <3>1. j = 1 /\ Lanes[7][j] = h[3]
      BY <1>12, <1>13, <1>15, <2>7
    <3>2. P[a + b + c + d + 3] = h[3]
      BY <1>8
    <3>3. Base(7) + 1 = a + b + c + d + 3 /\ Base(7) + 1 \in 1 .. a + b + c + d + 4
      BY <1>9, <1>11
    <3> QED BY <2>7, <3>1, <3>2, <3>3
  <2>8. CASE l = 1
    <3>1. j = 1 /\ Lanes[1][j] = h[4]
      BY <1>12, <1>13, <1>15, <2>8
    <3>2. P[a + b + c + d + 4] = h[4]
      BY <1>8
    <3>3. Base(1) + 1 = a + b + c + d + 4 /\ Base(1) + 1 \in 1 .. a + b + c + d + 4
      BY <1>9, <1>11
    <3> QED BY <2>8, <3>1, <3>2, <3>3
  <2> QED BY <2>1, <2>2, <2>3, <2>4, <2>5, <2>6, <2>7, <2>8, LaneValues
<1>18. ASSUME NEW l \in LaneNos, NEW j \in 1 .. Len(Lanes[l])
       PROVE  Lanes[l][j] # NoTask
  BY <1>16, LaneTask, PipelineAssumption
<1>19. ASSUME NEW i \in DOMAIN P, P[i] # NoTask
       PROVE  \E l \in LaneNos : \E j \in 1 .. Len(Lanes[l]) : i = Base(l) + j
  <2>1. i \in 1 .. a + b + c + d + 4
    BY <1>9
  <2>2. CASE i <= a
    <3>1. 2 \in LaneNos /\ i \in 1 .. Len(Lanes[2]) /\ i = Base(2) + i
      BY <1>9, <1>11, <1>12, <2>1, <2>2, LaneValues DEF a
    <3> QED BY <3>1
  <2>3. CASE a < i /\ i <= a + b
    <3>1. 4 \in LaneNos /\ i - a \in 1 .. Len(Lanes[4]) /\ i = Base(4) + (i - a)
      <4>1. i - a \in 1 .. b /\ i = a + (i - a)
        BY <1>9, <2>1, <2>3
      <4>2. 4 \in LaneNos /\ Len(Lanes[4]) = b /\ Base(4) = a
        BY <1>11, <1>12, LaneValues DEF b
      <4> HIDE DEF b
      <4> QED BY <4>1, <4>2
    <3> QED BY <3>1
  <2>4. CASE a + b < i /\ i <= a + b + c
    <3>1. 6 \in LaneNos /\ i - (a + b) \in 1 .. Len(Lanes[6]) /\ i = Base(6) + (i - (a + b))
      <4>1. i - (a + b) \in 1 .. c /\ i = (a + b) + (i - (a + b))
        BY <1>9, <2>1, <2>4
      <4>2. 6 \in LaneNos /\ Len(Lanes[6]) = c /\ Base(6) = (a + b)
        BY <1>11, <1>12, LaneValues DEF c
      <4> HIDE DEF c
      <4> QED BY <4>1, <4>2
    <3> QED BY <3>1
  <2>5. CASE a + b + c < i /\ i <= a + b + c + d
    <3>1. 8 \in LaneNos /\ i - (a + b + c) \in 1 .. Len(Lanes[8]) /\ i = Base(8) + (i - (a + b + c))
      <4>1. i - (a + b + c) \in 1 .. d /\ i = (a + b + c) + (i - (a + b + c))
        BY <1>9, <2>1, <2>5
      <4>2. 8 \in LaneNos /\ Len(Lanes[8]) = d /\ Base(8) = (a + b + c)
        BY <1>11, <1>12, LaneValues DEF d
      <4> HIDE DEF d
      <4> QED BY <4>1, <4>2
    <3> QED BY <3>1
  <2>6. CASE i = a + b + c + d + 1
    <3>1. h[1] # NoTask /\ i = Base(3) + 1
      <4>1. P[a + b + c + d + 1] = h[1]
        BY <1>8
      <4>2. i = Base(3) + 1
        BY <1>9, <1>11, <2>6
      <4> QED BY <1>19, <2>6, <4>1, <4>2
    <3>2. 3 \in LaneNos /\ 1 \in 1 .. Len(Lanes[3])
      BY <1>12, <1>14, <3>1, LaneValues
    <3> QED BY <3>1, <3>2
  <2>7. CASE i = a + b + c + d + 2
    <3>1. h[2] # NoTask /\ i = Base(5) + 1
      <4>1. P[a + b + c + d + 2] = h[2]
        BY <1>8
      <4>2. i = Base(5) + 1
        BY <1>9, <1>11, <2>7
      <4> QED BY <1>19, <2>7, <4>1, <4>2
    <3>2. 5 \in LaneNos /\ 1 \in 1 .. Len(Lanes[5])
      BY <1>12, <1>14, <3>1, LaneValues
    <3> QED BY <3>1, <3>2
  <2>8. CASE i = a + b + c + d + 3
    <3>1. h[3] # NoTask /\ i = Base(7) + 1
      <4>1. P[a + b + c + d + 3] = h[3]
        BY <1>8
      <4>2. i = Base(7) + 1
        BY <1>9, <1>11, <2>8
      <4> QED BY <1>19, <2>8, <4>1, <4>2
    <3>2. 7 \in LaneNos /\ 1 \in 1 .. Len(Lanes[7])
      BY <1>12, <1>14, <3>1, LaneValues
    <3> QED BY <3>1, <3>2
  <2>9. CASE i = a + b + c + d + 4
    <3>1. h[4] # NoTask /\ i = Base(1) + 1
      <4>1. P[a + b + c + d + 4] = h[4]
        BY <1>8
      <4>2. i = Base(1) + 1
        BY <1>9, <1>11, <2>9
      <4> QED BY <1>19, <2>9, <4>1, <4>2
    <3>2. 1 \in LaneNos /\ 1 \in 1 .. Len(Lanes[1])
      BY <1>12, <1>14, <3>1, LaneValues
    <3> QED BY <3>1, <3>2
  <2> QED BY <1>9, <2>1, <2>2, <2>3, <2>4, <2>5, <2>6, <2>7, <2>8, <2>9
<1> QED BY <1>9, <1>17, <1>18, <1>19 DEF P

\* A command that was read is in one place until it is answered, once.
THEOREM CommandsInOnePlace == Spec => []TasksConserved
<1>1. ASSUME IInv, NEW c \in Conns, NEW n \in Answerable(c)
      PROVE  Cardinality({i \in DOMAIN Places : /\ Places[i] # NoTask
                                                /\ Places[i].fd = c
                                                /\ Places[i].no = n})
               + Times(answers[c], n) = IF n <= taken[c] THEN 1 ELSE 0
  <2> DEFINE P == {i \in DOMAIN Places : Places[i] # NoTask /\ Places[i].fd = c /\ Places[i].no = n}
             A == {i \in DOMAIN answers[c] : answers[c][i] = n}
  <2>0. IInv
    BY <1>1
  <2>1. /\ DOMAIN answers[c] = 1 .. Len(answers[c])
        /\ DOMAIN lines[c] = 1 .. Len(lines[c]) /\ taken[c] \in Nat
    BY <2>0, LenProperties DEF IInv, TaskInv, TaskTypes, NetworkInv, LineTypes
  <2>2. n \in 1 .. Len(lines[c]) /\ lines[c][n] # "blank"
    BY <2>1 DEF Answerable
  <2>3. \A i \in P : \E l \in LaneNos : \E j \in 1 .. Len(Lanes[l]) :
          i = Base(l) + j /\ Lanes[l][j].fd = c /\ Lanes[l][j].no = n
    BY <2>0, LanesInPlaces DEF IInv
  <2>4. ASSUME NEW l \in LaneNos, NEW j \in 1 .. Len(Lanes[l]), Lanes[l][j].fd = c, Lanes[l][j].no = n
        PROVE  Base(l) + j \in P
    <3>1. /\ Base(l) + j \in DOMAIN Places
          /\ Places[Base(l) + j] = Lanes[l][j] /\ Lanes[l][j] # NoTask
      BY <2>0, LanesInPlaces DEF IInv
    <3> QED BY <2>4, <3>1
  <2>5. \A i, k \in P : i = k
    <3> SUFFICES ASSUME NEW i \in P, NEW k \in P PROVE i = k
      OBVIOUS
    <3>1. PICK l \in LaneNos : \E j \in 1 .. Len(Lanes[l]) :
            i = Base(l) + j /\ Lanes[l][j].fd = c /\ Lanes[l][j].no = n
      BY <2>3
    <3>2. PICK j \in 1 .. Len(Lanes[l]) : i = Base(l) + j /\ Lanes[l][j].fd = c /\ Lanes[l][j].no = n
      BY <3>1
    <3>3. PICK m \in LaneNos : \E o \in 1 .. Len(Lanes[m]) :
            k = Base(m) + o /\ Lanes[m][o].fd = c /\ Lanes[m][o].no = n
      BY <2>3
    <3>4. PICK o \in 1 .. Len(Lanes[m]) : k = Base(m) + o /\ Lanes[m][o].fd = c /\ Lanes[m][o].no = n
      BY <3>3
    <3>5. l = m /\ j = o
      BY <2>0, <3>2, <3>4 DEF IInv, TaskInv, OnceInLanes, Same
    <3> QED BY <3>2, <3>4, <3>5
  <2>6. \A i, k \in A : i = k
    BY <2>0, <2>1 DEF IInv, TaskInv, OnceAnswered
  <2>7. P # {} => A = {}
    <3> SUFFICES ASSUME NEW i \in P, NEW k \in A PROVE FALSE
      OBVIOUS
    <3>1. PICK l \in LaneNos : \E j \in 1 .. Len(Lanes[l]) :
            i = Base(l) + j /\ Lanes[l][j].fd = c /\ Lanes[l][j].no = n
      BY <2>3
    <3>2. PICK j \in 1 .. Len(Lanes[l]) : Lanes[l][j].fd = c /\ Lanes[l][j].no = n
      BY <3>1
    <3>3. \A o \in 1 .. Len(answers[c]) : answers[c][o] # n
      BY <2>0, <3>2 DEF IInv, TaskInv, OnceAnswered
    <3> QED BY <2>1, <3>3
  <2>8. P # {} => n \in 1 .. taken[c]
    <3> SUFFICES ASSUME NEW i \in P PROVE n \in 1 .. taken[c]
      OBVIOUS
    <3>1. PICK l \in LaneNos : \E j \in 1 .. Len(Lanes[l]) : Lanes[l][j].fd = c /\ Lanes[l][j].no = n
      BY <2>3
    <3> QED BY <2>0, <3>1 DEF IInv, TaskInv, TasksKnown, Known
  <2>9. A # {} => n \in 1 .. taken[c]
    BY <2>0, <2>1 DEF IInv, TaskInv, AnswersKnown
  <2>10. n \in 1 .. taken[c] => P # {} \/ A # {}
    <3> SUFFICES ASSUME n \in 1 .. taken[c] PROVE P # {} \/ A # {}
      OBVIOUS
    <3>1. Answered(c, n) => A # {}
      BY <2>1 DEF Answered
    <3>2. OnItsWay(c, n) => P # {}
      BY <2>4 DEF OnItsWay
    <3> QED BY <2>0, <2>2, <3>1, <3>2 DEF IInv, TaskInv, NoneLost
  <2>11. Times(answers[c], n) = Cardinality(A)
    BY DEF Times
  <2> HIDE DEF P, A
  <2>12. /\ P = {} => Cardinality(P) = 0
         /\ P # {} => Cardinality(P) = 1
         /\ A = {} => Cardinality(A) = 0
         /\ A # {} => Cardinality(A) = 1
    <3>1. \A S : S # {} /\ (\A x, y \in S : x = y) => \E x : S = {x}
      OBVIOUS
    <3> QED BY <2>5, <2>6, <3>1, FS_EmptySet, FS_Singleton
  <2>13. n <= taken[c] <=> n \in 1 .. taken[c]
    BY <2>1, <2>2
  <2>14. Cardinality(P) + Cardinality(A) = IF n <= taken[c] THEN 1 ELSE 0
    BY <2>7, <2>8, <2>9, <2>10, <2>12, <2>13
  <2> QED BY <2>11, <2>14 DEF P
<1>2. IInv => TasksConserved
  BY <1>1 DEF TasksConserved
<1> QED BY <1>2, Invariant, PTL
=============================================================================
