----------------------------- MODULE KVSvrProofs -----------------------------
(***************************************************************************)
(* No descriptor has two holders and no client gets the answer of another, *)
(* for every number of clients, workers, descriptors and failures.         *)
(*                                                                         *)
(* OneHolderPerFd counts the holders of one descriptor.  What is inductive *)
(* is that the holders differ pairwise, and that each of them knows whose  *)
(* connection it holds (Disjoint, Connected, NoneForgotten): Accept may    *)
(* then give out a number that is free, because nobody holds it any more.  *)
(* OwnAnswerOnce needs in addition that a client is connected once and     *)
(* that it has no answer until its only request is written                 *)
(* (ConnectedOnce, NotYetAnswered).                                        *)
(***************************************************************************)
EXTENDS KVSvr, SequenceTheorems, FiniteSetTheorems, TLAPS

Kinds == {"command", "malformed", "end"}
Request == [client : Clients, kind : Kinds, fd : Fds]

Types ==
  /\ backlog \in Seq(Clients)
  /\ sent \in [Clients -> Kinds \cup {"none", "nothing", "reset"}]
  /\ open \in [Fds -> Clients \cup {Nobody}]
  /\ main \in {"start", "accept", "select", "notify", "returned"}
  /\ mainFd \in Fds \cup {NoFd}
  /\ main = "select" <=> mainFd # NoFd
  /\ queue_ \in Seq(Request)
  /\ pc \in [Workers -> {"pop", "asleep", "process", "write", "close"}]
  /\ pa \in [Workers -> Request \cup {NoRequest}]
  /\ \A w \in Workers : Held(w) => pa[w] \in Request
  /\ got \in [Clients -> Seq(Clients)]
  /\ leaked \subseteq Fds

\* The holders of descriptors differ pairwise.
Disjoint ==
  /\ mainFd \notin leaked
  /\ \A i \in 1 .. Len(queue_) : queue_[i].fd \notin leaked \cup {mainFd}
  /\ \A w \in Workers : Held(w) => pa[w].fd \notin leaked \cup {mainFd}
  /\ \A i, j \in 1 .. Len(queue_) : i # j => queue_[i].fd # queue_[j].fd
  /\ \A w, v \in Workers : Held(w) /\ Held(v) /\ w # v => pa[w].fd # pa[v].fd
  /\ \A i \in 1 .. Len(queue_) : \A w \in Workers : Held(w) => queue_[i].fd # pa[w].fd

\* What is held is open, to the client the holder knows.
Connected ==
  /\ mainFd \in Fds => open[mainFd] \in Clients
  /\ \A fd \in leaked : open[fd] \in Clients
  /\ \A i \in 1 .. Len(queue_) : open[queue_[i].fd] = queue_[i].client
  /\ \A w \in Workers : Held(w) => open[pa[w].fd] = pa[w].client

\* What is open is held.
NoneForgotten ==
  \A fd \in Fds : open[fd] # Nobody =>
    \/ fd = mainFd \/ fd \in leaked
    \/ \E i \in 1 .. Len(queue_) : queue_[i].fd = fd
    \/ \E w \in Workers : Held(w) /\ pa[w].fd = fd

FdInv == Types /\ Disjoint /\ Connected /\ NoneForgotten

\* A client is in the backlog once, or has one descriptor.
ConnectedOnce ==
  /\ \A f, g \in Fds : open[f] # Nobody /\ f # g => open[f] # open[g]
  /\ \A i, j \in 1 .. Len(backlog) : i # j => backlog[i] # backlog[j]
  /\ \A i \in 1 .. Len(backlog) : \A fd \in Fds : open[fd] # backlog[i]
  /\ \A c \in Clients : sent[c] = "none" =>
       /\ \A i \in 1 .. Len(backlog) : backlog[i] # c
       /\ \A fd \in Fds : open[fd] # c

NotYetAnswered ==
  /\ \A c \in Clients : sent[c] = "none" => got[c] = << >>
  /\ \A i \in 1 .. Len(backlog) : got[backlog[i]] = << >>
  /\ mainFd \in Fds => got[open[mainFd]] = << >>
  /\ \A i \in 1 .. Len(queue_) : got[queue_[i].client] = << >>
  /\ alive => \A w \in Workers : pc[w] \in {"process", "write"} => got[pa[w].client] = << >>

ClientInv == ConnectedOnce /\ NotYetAnswered /\ OwnAnswerOnce

IInv == FdInv /\ ClientInv

-----------------------------------------------------------------------------
\* A set of numbers that is not empty has a least element.
LEMMA LeastNumber ==
  ASSUME NEW S \in SUBSET Nat, S # {}
  PROVE  \E m \in S : \A n \in S : m <= n
<1>1. IsWellFoundedOn(OpToRel(<, Nat), Nat)
  BY NatLessThanWellFounded
<1>2. PICK m \in S : \A n \in S : <<n, m>> \notin OpToRel(<, Nat)
  BY <1>1, WFMin
<1>3. \A n \in S : ~(n < m)
  BY <1>2 DEF OpToRel
<1> QED BY <1>3

LEMMA LowestFreeIsFree ==
  ASSUME FreeFds # {}
  PROVE  LowestFree \in Fds /\ open[LowestFree] = Nobody
<1>1. FreeFds \in SUBSET Nat
  BY KVSvrAssumption DEF FreeFds
<1>2. LowestFree \in FreeFds
  BY <1>1, LeastNumber DEF LowestFree
<1> QED BY <1>2 DEF FreeFds

LEMMA InitIInv == Init => IInv
<1> SUFFICES ASSUME Init PROVE IInv
  OBVIOUS
<1> USE KVSvrAssumption DEF Init, Held
<1>1. Types
  BY DEF Types, NoRequest
<1>2. Disjoint /\ Connected /\ NoneForgotten
  BY DEF Disjoint, Connected, NoneForgotten
<1>3. ClientInv
  BY DEF ClientInv, ConnectedOnce, NotYetAnswered, OwnAnswerOnce
<1> QED BY <1>1, <1>2, <1>3 DEF IInv, FdInv

-----------------------------------------------------------------------------
(* The holders of descriptors *)

\* What is appended to a sequence and what is taken from it.
LEMMA Appended ==
  ASSUME NEW S, NEW s \in Seq(S), NEW e \in S
  PROVE  /\ Append(s, e) \in Seq(S)
         /\ Len(s) \in Nat
         /\ Len(Append(s, e)) = Len(s) + 1
         /\ \A i \in 1 .. Len(s) : s[i] \in S /\ Append(s, e)[i] = s[i]
         /\ Append(s, e)[Len(s) + 1] = e
BY AppendProperties, LenProperties, ElementOfSeq

LEMMA Taken ==
  ASSUME NEW S, NEW s \in Seq(S), s # << >>
  PROVE  /\ Tail(s) \in Seq(S)
         /\ Head(s) \in S
         /\ Head(s) = s[1]
         /\ Len(s) \in Nat \ {0}
         /\ Len(Tail(s)) = Len(s) - 1
         /\ \A i \in 1 .. Len(s) : s[i] \in S
         /\ \A i \in 1 .. Len(s) - 1 : Tail(s)[i] = s[i + 1]
<1>1. Len(s) # 0
  BY EmptySeq
<1> QED BY <1>1, HeadTailProperties, LenProperties, ElementOfSeq

\* What the queue and the workers hold.
LEMMA HeldTypes ==
  ASSUME FdInv
  PROVE  /\ \A i \in 1 .. Len(queue_) :
              /\ queue_[i] \in Request /\ queue_[i].fd \in Fds /\ queue_[i].client \in Clients
              /\ queue_[i].fd # NoFd /\ queue_[i].client # Nobody
         /\ \A w \in Workers : Held(w) =>
              /\ pa[w].fd \in Fds /\ pa[w].client \in Clients
              /\ pa[w].fd # NoFd /\ pa[w].client # Nobody
<1>1. \A i \in 1 .. Len(queue_) : queue_[i] \in Request
  <2>1. queue_ \in Seq(Request)
    BY DEF FdInv, Types
  <2> QED BY <2>1, ElementOfSeq
<1>2. \A w \in Workers : Held(w) => pa[w] \in Request
  BY DEF FdInv, Types
<1> QED BY <1>1, <1>2, KVSvrAssumption DEF Request

\* A client's step, and one of the main thread between two connections.
LEMMA FdIdle ==
  ASSUME FdInv, Types', UNCHANGED <<open, mainFd, queue_, workers, leaked>>
  PROVE  FdInv'
<1>1. Disjoint'
  BY DEF FdInv, Disjoint, Held, workers
<1>2. Connected'
  BY DEF FdInv, Connected, Held, workers
<1>3. NoneForgotten'
  BY DEF FdInv, NoneForgotten, Held, workers
<1> QED BY <1>1, <1>2, <1>3 DEF FdInv

LEMMA FdClient ==
  ASSUME FdInv, NEW c \in Clients, Connect(c) \/ Send(c) \/ Leave(c)
  PROVE  FdInv'
<1>1. backlog' \in Seq(Clients)
  <2>1. backlog \in Seq(Clients)
    BY DEF FdInv, Types
  <2>2. Append(backlog, c) \in Seq(Clients)
    BY <2>1, Appended
  <2> QED BY <2>1, <2>2 DEF Connect, Send, Leave
<1>2. sent' \in [Clients -> Kinds \cup {"none", "nothing", "reset"}]
  BY DEF FdInv, Types, Kinds, Connect, Send, Leave
<1>3. UNCHANGED <<open, main, mainFd, queue_, workers, got, leaked>>
  BY DEF Connect, Send, Leave
<1>4. Types'
  BY <1>1, <1>2, <1>3 DEF FdInv, Types, Held, workers
<1> QED BY <1>3, <1>4, FdIdle

LEMMA FdMainIdle ==
  ASSUME FdInv, Start \/ AcceptNoFd \/ Fails
  PROVE  FdInv'
<1>1. UNCHANGED <<net, open, mainFd, queue_, workers, got, leaked>>
  BY DEF Start, AcceptNoFd, Fails, Return
<1>2. main # "select" /\ main' \in {"accept", "returned"}
  BY DEF Start, AcceptNoFd, Fails, Return
<1>3. Types'
  BY <1>1, <1>2 DEF FdInv, Types, Held, workers, net
<1> QED BY <1>1, <1>3, FdIdle

\* The number Accept gives out is held by nobody.
LEMMA FdAccept ==
  ASSUME FdInv, Accept
  PROVE  FdInv'
<1> DEFINE f == LowestFree
<1>1. f \in Fds /\ open[f] = Nobody /\ f # NoFd
  BY LowestFreeIsFree, KVSvrAssumption DEF Accept
<1>2. Head(backlog) \in Clients /\ Tail(backlog) \in Seq(Clients) /\ Head(backlog) # Nobody
  BY Taken, KVSvrAssumption DEF Accept, FdInv, Types
<1>3. /\ open' = [open EXCEPT ![f] = Head(backlog)]
      /\ mainFd' = f /\ main' = "select" /\ mainFd = NoFd
      /\ backlog' = Tail(backlog)
      /\ UNCHANGED <<sent, queue_, pc, pa, got, leaked>>
  BY DEF Accept, workers, FdInv, Types
<1> HIDE DEF f
<1>4. Types'
  BY <1>1, <1>2, <1>3 DEF FdInv, Types, Held
<1>5. /\ f \notin leaked
      /\ \A i \in 1 .. Len(queue_) : queue_[i].fd # f
      /\ \A w \in Workers : Held(w) => pa[w].fd # f
  BY <1>1, HeldTypes, KVSvrAssumption DEF FdInv, Connected
<1>6. Disjoint'
  BY <1>3, <1>5 DEF FdInv, Disjoint, Held
<1>7. Connected'
  <2>1. \A g \in Fds : g # f => open'[g] = open[g]
    BY <1>1, <1>3 DEF FdInv, Types
  <2>2. open'[f] = Head(backlog)
    BY <1>1, <1>3 DEF FdInv, Types
  <2> QED BY <1>2, <1>3, <1>5, <2>1, <2>2, HeldTypes DEF FdInv, Types, Connected, Held
<1>8. NoneForgotten'
  BY <1>1, <1>3, KVSvrAssumption DEF FdInv, Types, NoneForgotten, Held
<1> QED BY <1>4, <1>6, <1>7, <1>8 DEF FdInv

LEMMA FdSelectFails ==
  ASSUME FdInv, SelectFails
  PROVE  FdInv'
<1>1. /\ main' = "accept" /\ mainFd' = NoFd /\ leaked' = leaked \cup {mainFd}
      /\ mainFd \in Fds
      /\ UNCHANGED <<net, open, queue_, pc, pa, got>>
  BY DEF SelectFails, workers, FdInv, Types
<1>4. Types'
  BY <1>1 DEF FdInv, Types, Held, net
<1>5. Disjoint'
  BY <1>1, HeldTypes, KVSvrAssumption DEF FdInv, Types, Disjoint, Held
<1>6. Connected'
  BY <1>1, KVSvrAssumption DEF FdInv, Types, Connected, Held
<1>7. NoneForgotten'
  BY <1>1 DEF FdInv, NoneForgotten, Held
<1> QED BY <1>4, <1>5, <1>6, <1>7 DEF FdInv

\* Receive passes the connection from the main thread to the queue.
LEMMA FdReceive ==
  ASSUME FdInv, Receive
  PROVE  FdInv'
<1> DEFINE r == [client |-> open[mainFd], kind |-> sent[open[mainFd]], fd |-> mainFd]
           n == Len(queue_)
<1>1. /\ main' = "notify" /\ mainFd' = NoFd /\ mainFd \in Fds
      /\ queue_' = Append(queue_, r)
      /\ sent[open[mainFd]] \in Kinds
      /\ UNCHANGED <<net, open, pc, pa, got, leaked>>
  BY DEF Receive, ReleasedFd, workers, FdInv, Types, Kinds
<1>2. r \in Request /\ r.fd = mainFd /\ r.client = open[mainFd]
  BY <1>1 DEF Request, FdInv, Connected
<1> HIDE DEF r
<1>3. /\ queue_' \in Seq(Request) /\ n \in Nat /\ Len(queue_') = n + 1
      /\ \A i \in 1 .. n : queue_[i] \in Request /\ queue_'[i] = queue_[i]
      /\ queue_'[n + 1] = r
  BY <1>1, <1>2, Appended DEF FdInv, Types
<1> HIDE DEF n
<1>4. \A i \in 1 .. n + 1 : i \in 1 .. n \/ i = n + 1
  BY <1>3
<1>5. n = Len(queue_)
  BY DEF n
<1>6. Types'
  BY <1>1, <1>3 DEF FdInv, Types, Held, net
<1>7. \A i \in 1 .. n : queue_[i].fd # NoFd /\ queue_[i].fd # mainFd
  BY <1>3, <1>5, KVSvrAssumption DEF FdInv, Disjoint, Request
<1>8. \A w \in Workers : Held(w) => pa[w].fd # NoFd /\ pa[w].fd # mainFd
  BY HeldTypes DEF FdInv, Disjoint
<1>9. Disjoint'
  <2>1. NoFd \notin leaked
    BY KVSvrAssumption DEF FdInv, Types
  <2>2. \A i \in 1 .. n + 1 : queue_'[i].fd \notin leaked \cup {NoFd}
    BY <1>1, <1>2, <1>3, <1>4, <1>5, <1>7, KVSvrAssumption DEF FdInv, Disjoint
  <2>3. \A i, j \in 1 .. n + 1 : i # j => queue_'[i].fd # queue_'[j].fd
    BY <1>2, <1>3, <1>4, <1>5, <1>7 DEF FdInv, Disjoint
  <2>4. \A i \in 1 .. n + 1 : \A w \in Workers : Held(w) => queue_'[i].fd # pa[w].fd
    BY <1>2, <1>3, <1>4, <1>5, <1>8 DEF FdInv, Disjoint
  <2> QED BY <1>1, <1>3, <1>8, <2>1, <2>2, <2>3, <2>4 DEF FdInv, Disjoint, Held
<1>10. Connected'
  <2>1. \A i \in 1 .. n + 1 : open[queue_'[i].fd] = queue_'[i].client
    BY <1>2, <1>3, <1>4, <1>5 DEF FdInv, Connected
  <2> QED BY <1>1, <1>3, <2>1, KVSvrAssumption DEF FdInv, Connected, Held
<1>11. NoneForgotten'
  <2> SUFFICES ASSUME NEW fd \in Fds, open[fd] # Nobody
               PROVE  \/ fd \in leaked
                      \/ \E i \in 1 .. n + 1 : queue_'[i].fd = fd
                      \/ \E w \in Workers : Held(w) /\ pa[w].fd = fd
    BY <1>1, <1>3 DEF NoneForgotten, Held
  <2>1. CASE fd = mainFd
    BY <1>2, <1>3, <2>1
  <2>2. CASE \E i \in 1 .. n : queue_[i].fd = fd
    BY <1>3, <2>2
  <2> QED BY <1>5, <2>1, <2>2 DEF FdInv, NoneForgotten
<1> QED BY <1>6, <1>9, <1>10, <1>11 DEF FdInv

\* A request that cannot be read: the main thread closes what only it holds.
LEMMA FdRecvFails ==
  ASSUME FdInv, RecvFails
  PROVE  FdInv'
<1>1. /\ main' = "accept" /\ mainFd' = NoFd /\ mainFd \in Fds
      /\ open' = [open EXCEPT ![mainFd] = Nobody]
      /\ UNCHANGED <<net, queue_, pc, pa, got, leaked>>
  BY DEF RecvFails, workers, FdInv, Types
<1>2. \A fd \in Fds : open'[fd] = IF fd = mainFd THEN Nobody ELSE open[fd]
  BY <1>1 DEF FdInv, Types
<1>3. Types'
  BY <1>1 DEF FdInv, Types, Held, net
<1>4. Disjoint'
  BY <1>1, HeldTypes, KVSvrAssumption DEF FdInv, Types, Disjoint, Held
<1>5. Connected'
  BY <1>1, <1>2, HeldTypes, KVSvrAssumption DEF FdInv, Types, Disjoint, Connected, Held
<1>6. NoneForgotten'
  BY <1>1, <1>2 DEF FdInv, NoneForgotten, Held
<1> QED BY <1>3, <1>4, <1>5, <1>6 DEF FdInv

\* The steps of the workers that hold what they held: waiting, waking up,
\* the command and the answer.
LEMMA FdWorkerIdle ==
  ASSUME FdInv, UNCHANGED <<net, open, mainFd, queue_, pa, leaked>>,
         main' = main \/ (main # "select" /\ main' = "accept"),
         pc' \in [Workers -> {"pop", "asleep", "process", "write", "close"}],
         \A w \in Workers : Held(w)' <=> Held(w),
         got' \in [Clients -> Seq(Clients)]
  PROVE  FdInv'
<1>1. Types'
  BY DEF FdInv, Types, net
<1>2. Disjoint'
  BY DEF FdInv, Disjoint
<1>3. Connected'
  BY DEF FdInv, Connected
<1>4. NoneForgotten'
  BY DEF FdInv, NoneForgotten
<1> QED BY <1>1, <1>2, <1>3, <1>4 DEF FdInv

LEMMA FdNotify == FdInv /\ Notify => FdInv'
<1> SUFFICES ASSUME FdInv, Notify PROVE FdInv'
  OBVIOUS
<1> USE DEF FdInv, Types
<1>1. /\ pc' \in [Workers -> {"pop", "asleep", "process", "write", "close"}]
      /\ \A v \in Workers : Held(v)' <=> Held(v)
  BY DEF Notify, WakeOne, Asleep, Held
<1> QED BY <1>1, FdWorkerIdle DEF Notify

LEMMA FdSteady ==
  ASSUME FdInv, NEW w \in Workers,
         PopWait(w) \/ Spurious(w) \/ Process(w) \/ Write(w)
  PROVE  FdInv'
<1> USE DEF FdInv, Types
<1>1. CASE PopWait(w) \/ Spurious(w) \/ Process(w)
  <2>1. /\ pc' \in [Workers -> {"pop", "asleep", "process", "write", "close"}]
        /\ \A v \in Workers : Held(v)' <=> Held(v)
    BY <1>1 DEF PopWait, Spurious, Process, Goto, Held
  <2> QED BY <1>1, <2>1, FdWorkerIdle DEF PopWait, Spurious, Process
<1>2. CASE Write(w)
  <2>1. /\ pc' \in [Workers -> {"pop", "asleep", "process", "write", "close"}]
        /\ \A v \in Workers : Held(v)' <=> Held(v)
    BY <1>2 DEF Write, Goto, Held
  <2>2. got' \in [Clients -> Seq(Clients)]
    <3>1. pa[w].client \in Clients /\ open[pa[w].fd] = pa[w].client
      BY <1>2, HeldTypes DEF Connected, Held, Write
    <3>2. Append(got[pa[w].client], pa[w].client) \in Seq(Clients)
      BY <3>1, Appended
    <3> QED BY <1>2, <3>1, <3>2 DEF Write
  <2> QED BY <1>2, <2>1, <2>2, FdWorkerIdle DEF Write
<1> QED BY <1>1, <1>2

\* PopTake passes the connection of the oldest request to a worker.
LEMMA FdPopTake ==
  ASSUME FdInv, NEW w \in Workers, PopTake(w)
  PROVE  FdInv'
<1> DEFINE n == Len(queue_)
<1>1. /\ pa' = [pa EXCEPT ![w] = Head(queue_)]
      /\ pc' = [pc EXCEPT ![w] = "process"] /\ pc[w] = "pop"
      /\ queue_' = Tail(queue_) /\ queue_ # << >>
      /\ UNCHANGED <<net, open, main, mainFd, got, leaked>>
  BY DEF PopTake, Popped, Goto
<1>2. queue_ \in Seq(Request)
  BY DEF FdInv, Types
<1>3. /\ queue_' \in Seq(Request) /\ Head(queue_) = queue_[1] /\ n \in Nat \ {0}
      /\ Len(queue_') = n - 1 /\ queue_[1] \in Request
      /\ \A i \in 1 .. n - 1 : queue_'[i] = queue_[i + 1]
  BY <1>1, <1>2, Taken
<1>4. n = Len(queue_)
  OBVIOUS
<1> HIDE DEF n
<1>5. 1 \in 1 .. n /\ \A i \in 1 .. n - 1 : i + 1 \in 1 .. n /\ i + 1 # 1
  BY <1>3
<1>6. /\ pa'[w] = queue_[1] /\ Held(w)' /\ ~Held(w)
      /\ \A v \in Workers \ {w} : pa'[v] = pa[v] /\ (Held(v)' <=> Held(v))
  BY <1>1, <1>3 DEF FdInv, Types, Held
<1>7. Types'
  <2>1. pa' \in [Workers -> Request \cup {NoRequest}]
    BY <1>1, <1>3 DEF FdInv, Types
  <2>2. pc' \in [Workers -> {"pop", "asleep", "process", "write", "close"}]
    BY <1>1 DEF FdInv, Types
  <2>3. \A v \in Workers : Held(v)' => pa'[v] \in Request
    BY <1>3, <1>6 DEF FdInv, Types
  <2> QED BY <1>1, <1>3, <2>1, <2>2, <2>3 DEF FdInv, Types, net
<1>8. Disjoint'
  <2>1. \A i \in 1 .. n - 1 : queue_'[i].fd \notin leaked \cup {mainFd}
    BY <1>3, <1>4, <1>5 DEF FdInv, Disjoint
  <2>2. \A v \in Workers : Held(v)' => pa'[v].fd \notin leaked \cup {mainFd}
    BY <1>4, <1>5, <1>6 DEF FdInv, Disjoint
  <2>3. \A i, j \in 1 .. n - 1 : i # j => queue_'[i].fd # queue_'[j].fd
    <3> SUFFICES ASSUME NEW i \in 1 .. n - 1, NEW j \in 1 .. n - 1, i # j
                 PROVE  queue_'[i].fd # queue_'[j].fd
      OBVIOUS
    <3>1. i + 1 \in 1 .. n /\ j + 1 \in 1 .. n /\ i + 1 # j + 1
      BY <1>3
    <3> QED BY <1>3, <1>4, <3>1 DEF FdInv, Disjoint
  <2>4. \A u, v \in Workers : Held(u)' /\ Held(v)' /\ u # v => pa'[u].fd # pa'[v].fd
    BY <1>4, <1>5, <1>6 DEF FdInv, Disjoint
  <2>5. \A i \in 1 .. n - 1 : \A v \in Workers : Held(v)' => queue_'[i].fd # pa'[v].fd
    BY <1>3, <1>4, <1>5, <1>6 DEF FdInv, Disjoint
  <2> QED BY <1>1, <1>3, <2>1, <2>2, <2>3, <2>4, <2>5 DEF FdInv, Disjoint
<1>9. Connected'
  <2>1. \A i \in 1 .. n - 1 : open[queue_'[i].fd] = queue_'[i].client
    BY <1>3, <1>4, <1>5 DEF FdInv, Connected
  <2>2. \A v \in Workers : Held(v)' => open[pa'[v].fd] = pa'[v].client
    BY <1>4, <1>5, <1>6 DEF FdInv, Connected
  <2> QED BY <1>1, <1>3, <2>1, <2>2 DEF FdInv, Connected
<1>10. NoneForgotten'
  <2> SUFFICES ASSUME NEW fd \in Fds, NEW i \in 1 .. n, queue_[i].fd = fd
               PROVE  \/ \E j \in 1 .. n - 1 : queue_'[j].fd = fd
                      \/ \E v \in Workers : Held(v)' /\ pa'[v].fd = fd
    BY <1>1, <1>3, <1>4, <1>6 DEF FdInv, NoneForgotten
  <2>1. CASE i = 1
    BY <1>6, <2>1
  <2>2. CASE i # 1
    <3>1. i - 1 \in 1 .. n - 1 /\ queue_'[i - 1] = queue_[i]
      BY <1>3, <2>2
    <3> QED BY <3>1
  <2> QED BY <2>1, <2>2
<1> QED BY <1>7, <1>8, <1>9, <1>10 DEF FdInv

LEMMA FdClose ==
  ASSUME FdInv, NEW w \in Workers, Close(w)
  PROVE  FdInv'
<1> DEFINE f == pa[w].fd
<1>1. /\ open' = [open EXCEPT ![f] = Nobody]
      /\ pa' = [pa EXCEPT ![w] = NoRequest]
      /\ pc' = [pc EXCEPT ![w] = "pop"] /\ Held(w)
      /\ UNCHANGED <<net, main, mainFd, queue_, got, leaked>>
  BY DEF Close, Goto, Held
<1>2. f \in Fds /\ f # NoFd
  BY <1>1, HeldTypes
<1>3. \A fd \in Fds : open'[fd] = IF fd = f THEN Nobody ELSE open[fd]
  BY <1>1, <1>2 DEF FdInv, Types
<1>4. ~Held(w)' /\ \A v \in Workers \ {w} : pa'[v] = pa[v] /\ (Held(v)' <=> Held(v))
  BY <1>1 DEF FdInv, Types, Held
<1>5. Types'
  <2>1. /\ pa' \in [Workers -> Request \cup {NoRequest}]
        /\ pc' \in [Workers -> {"pop", "asleep", "process", "write", "close"}]
        /\ open' \in [Fds -> Clients \cup {Nobody}]
    BY <1>1 DEF FdInv, Types
  <2>2. \A v \in Workers : Held(v)' => pa'[v] \in Request
    BY <1>4 DEF FdInv, Types
  <2> QED BY <1>1, <2>1, <2>2 DEF FdInv, Types, net
<1>6. Disjoint'
  BY <1>1, <1>4 DEF FdInv, Disjoint
<1>7. f = pa[w].fd
  OBVIOUS
<1> HIDE DEF f
<1>8. f \notin leaked \cup {mainFd} /\ \A i \in 1 .. Len(queue_) : queue_[i].fd # f
  BY <1>1, <1>7 DEF FdInv, Disjoint
<1>9. \A v \in Workers \ {w} : Held(v) => pa[v].fd # f
  BY <1>1, <1>7 DEF FdInv, Disjoint
<1>10. Connected'
  <2>1. \A i \in 1 .. Len(queue_) : open'[queue_[i].fd] = queue_[i].client
    BY <1>3, <1>8, HeldTypes DEF FdInv, Connected
  <2>2. \A v \in Workers : Held(v)' => open'[pa'[v].fd] = pa'[v].client
    BY <1>3, <1>4, <1>9, HeldTypes DEF FdInv, Connected
  <2>3. mainFd \in Fds => open'[mainFd] \in Clients
    BY <1>3, <1>8 DEF FdInv, Connected
  <2>4. \A fd \in leaked : open'[fd] \in Clients
    BY <1>3, <1>8 DEF FdInv, Types, Connected
  <2> QED BY <1>1, <2>1, <2>2, <2>3, <2>4 DEF Connected
<1>11. NoneForgotten'
  BY <1>1, <1>3, <1>4, <1>7 DEF FdInv, NoneForgotten
<1> QED BY <1>5, <1>6, <1>10, <1>11 DEF FdInv

LEMMA FdNext ==
  ASSUME FdInv, [Next]_vars
  PROVE  FdInv'
<1>1. CASE UNCHANGED vars
  BY <1>1, FdIdle DEF FdInv, Types, vars, net, workers, Held
<1>2. ASSUME NEW c \in Clients, Connect(c) \/ Send(c) \/ Leave(c)
      PROVE  FdInv'
  BY <1>2, FdClient
<1>3. CASE Run \/ Fails \/ SelectFails
  BY <1>3, FdMainIdle, FdAccept, FdReceive, FdRecvFails, FdSelectFails, FdNotify DEF Run
<1>4. ASSUME NEW w \in Workers, Work(w) \/ Spurious(w)
      PROVE  FdInv'
  BY <1>4, FdSteady, FdPopTake, FdClose DEF Work
<1> QED BY <1>1, <1>2, <1>3, <1>4 DEF Next

-----------------------------------------------------------------------------
(* The clients and their answers *)

LEMMA ClientConnect ==
  ASSUME FdInv, ClientInv, NEW c \in Clients, Connect(c)
  PROVE  ClientInv'
<1> DEFINE n == Len(backlog)
<1>1. /\ sent[c] = "none" /\ sent' = [sent EXCEPT ![c] = "nothing"]
      /\ backlog' = Append(backlog, c)
      /\ UNCHANGED <<open, mainFd, queue_, pc, pa, alive, got>>
  BY DEF Connect, workers
<1>2. backlog \in Seq(Clients)
  BY DEF FdInv, Types
<1>3. /\ n \in Nat /\ Len(backlog') = n + 1 /\ backlog'[n + 1] = c
      /\ \A i \in 1 .. n : backlog[i] \in Clients /\ backlog'[i] = backlog[i]
  BY <1>1, <1>2, Appended
<1>4. n = Len(backlog)
  OBVIOUS
<1> HIDE DEF n
<1>5. \A i \in 1 .. n + 1 : i \in 1 .. n \/ i = n + 1
  BY <1>3
<1>6. /\ \A i \in 1 .. n : backlog[i] # c
      /\ \A fd \in Fds : open[fd] # c
      /\ got[c] = << >>
  BY <1>1, <1>4 DEF ClientInv, ConnectedOnce, NotYetAnswered
<1>7. \A d \in Clients : sent'[d] = "none" => sent[d] = "none" /\ d # c
  BY <1>1 DEF FdInv, Types
<1>8. ConnectedOnce'
  <2>1. \A i, j \in 1 .. n + 1 : i # j => backlog'[i] # backlog'[j]
    BY <1>3, <1>4, <1>5, <1>6 DEF ClientInv, ConnectedOnce
  <2>2. \A i \in 1 .. n + 1 : \A fd \in Fds : open[fd] # backlog'[i]
    BY <1>3, <1>4, <1>5, <1>6 DEF ClientInv, ConnectedOnce
  <2>3. \A d \in Clients : sent'[d] = "none" =>
          /\ \A i \in 1 .. n + 1 : backlog'[i] # d
          /\ \A fd \in Fds : open[fd] # d
    BY <1>3, <1>4, <1>5, <1>7 DEF ClientInv, ConnectedOnce
  <2> QED BY <1>1, <1>3, <2>1, <2>2, <2>3 DEF ClientInv, ConnectedOnce
<1>9. NotYetAnswered'
  <2>1. \A i \in 1 .. n + 1 : got[backlog'[i]] = << >>
    BY <1>3, <1>4, <1>5, <1>6 DEF ClientInv, NotYetAnswered
  <2> QED BY <1>1, <1>3, <1>7, <2>1 DEF ClientInv, NotYetAnswered
<1> QED BY <1>1, <1>8, <1>9 DEF ClientInv, OwnAnswerOnce

\* The steps that leave connections, answers and requests where they are.
LEMMA ClientIdle ==
  ASSUME FdInv, ClientInv, UNCHANGED <<backlog, open, queue_, pa, got>>,
         mainFd' = mainFd \/ mainFd' = NoFd,
         \A c \in Clients : sent'[c] = "none" => sent[c] = "none",
         \A w \in Workers : pc'[w] \in {"process", "write"} => pc[w] \in {"process", "write"},
         alive' => alive
  PROVE  ClientInv'
<1>1. ConnectedOnce'
  BY DEF ClientInv, ConnectedOnce
<1>2. NotYetAnswered'
  BY KVSvrAssumption DEF ClientInv, NotYetAnswered
<1> QED BY <1>1, <1>2 DEF ClientInv, OwnAnswerOnce

LEMMA ClientSteady ==
  ASSUME FdInv, ClientInv,
         \/ \E c \in Clients : Send(c) \/ Leave(c)
         \/ Start \/ AcceptNoFd \/ Fails \/ SelectFails \/ Notify
         \/ \E w \in Workers : PopWait(w) \/ Spurious(w) \/ Process(w)
  PROVE  ClientInv'
<1>1. CASE \E c \in Clients : Send(c) \/ Leave(c)
  BY <1>1, ClientIdle DEF Send, Leave, workers, FdInv, Types
<1>2. CASE Start \/ AcceptNoFd \/ Fails \/ SelectFails
  BY <1>2, ClientIdle DEF Start, AcceptNoFd, Fails, Return, SelectFails, net, workers
<1>3. CASE Notify
  BY <1>3, ClientIdle DEF Notify, WakeOne, Asleep, net, FdInv, Types
<1>4. ASSUME NEW w \in Workers, PopWait(w) \/ Spurious(w) \/ Process(w)
      PROVE  ClientInv'
  <2>1. \A v \in Workers : pc'[v] \in {"process", "write"} => pc[v] \in {"process", "write"}
    BY <1>4 DEF FdInv, Types, PopWait, Spurious, Process, Goto
  <2> QED BY <1>4, <2>1, ClientIdle DEF net, PopWait, Spurious, Process
<1> QED BY <1>1, <1>2, <1>3, <1>4

LEMMA ClientAccept ==
  ASSUME FdInv, ClientInv, Accept
  PROVE  ClientInv'
<1> DEFINE f == LowestFree
           n == Len(backlog)
<1>1. f \in Fds /\ open[f] = Nobody
  BY LowestFreeIsFree DEF Accept
<1>2. /\ open' = [open EXCEPT ![f] = Head(backlog)]
      /\ mainFd' = f /\ backlog' = Tail(backlog) /\ backlog # << >>
      /\ UNCHANGED <<sent, queue_, pc, pa, alive, got>>
  BY DEF Accept, workers
<1> HIDE DEF f
<1>3. \A g \in Fds : open'[g] = IF g = f THEN Head(backlog) ELSE open[g]
  BY <1>2 DEF FdInv, Types
<1>4. backlog \in Seq(Clients)
  BY DEF FdInv, Types
<1>5. /\ Head(backlog) = backlog[1] /\ n \in Nat \ {0} /\ Len(backlog') = n - 1
      /\ \A i \in 1 .. n : backlog[i] \in Clients
      /\ \A i \in 1 .. n - 1 : backlog'[i] = backlog[i + 1]
  BY <1>2, <1>4, Taken
<1>6. n = Len(backlog)
  OBVIOUS
<1> HIDE DEF n
<1>7. 1 \in 1 .. n /\ \A i \in 1 .. n - 1 : i + 1 \in 1 .. n /\ i + 1 # 1
  BY <1>5
<1>8. ConnectedOnce'
  <2>1. \A g, h \in Fds : open'[g] # Nobody /\ g # h => open'[g] # open'[h]
    BY <1>3, <1>5, <1>6, <1>7, KVSvrAssumption DEF ClientInv, ConnectedOnce
  <2>2. \A i, j \in 1 .. n - 1 : i # j => backlog'[i] # backlog'[j]
    <3> SUFFICES ASSUME NEW i \in 1 .. n - 1, NEW j \in 1 .. n - 1, i # j
                 PROVE  backlog[i + 1] # backlog[j + 1]
      BY <1>5
    <3>1. i + 1 \in 1 .. n /\ j + 1 \in 1 .. n /\ i + 1 # j + 1
      BY <1>5
    <3> QED BY <1>6, <3>1 DEF ClientInv, ConnectedOnce
  <2>3. \A i \in 1 .. n - 1 : \A g \in Fds : open'[g] # backlog'[i]
    BY <1>3, <1>5, <1>6, <1>7 DEF ClientInv, ConnectedOnce
  <2>4. \A c \in Clients : sent[c] = "none" =>
          /\ \A i \in 1 .. n - 1 : backlog'[i] # c
          /\ \A g \in Fds : open'[g] # c
    BY <1>3, <1>5, <1>6, <1>7 DEF ClientInv, ConnectedOnce
  <2> QED BY <1>2, <1>5, <2>1, <2>2, <2>3, <2>4 DEF ConnectedOnce
<1>9. NotYetAnswered'
  <2>1. got[open'[f]] = << >>
    BY <1>1, <1>3, <1>5, <1>6, <1>7 DEF ClientInv, NotYetAnswered
  <2>2. \A i \in 1 .. n - 1 : got[backlog'[i]] = << >>
    BY <1>5, <1>6, <1>7 DEF ClientInv, NotYetAnswered
  <2> QED BY <1>2, <1>5, <2>1, <2>2 DEF ClientInv, NotYetAnswered
<1> QED BY <1>2, <1>8, <1>9 DEF ClientInv, OwnAnswerOnce

LEMMA ClientReceive ==
  ASSUME FdInv, ClientInv, Receive
  PROVE  ClientInv'
<1> DEFINE r == [client |-> open[mainFd], kind |-> sent[open[mainFd]], fd |-> mainFd]
           n == Len(queue_)
<1>1. /\ mainFd' = NoFd /\ mainFd \in Fds /\ queue_' = Append(queue_, r)
      /\ sent[open[mainFd]] \in Kinds
      /\ UNCHANGED <<net, open, pc, pa, alive, got>>
  BY DEF Receive, ReleasedFd, workers, FdInv, Types, Kinds
<1>2. r \in Request /\ r.client = open[mainFd]
  BY <1>1 DEF Request, FdInv, Connected
<1> HIDE DEF r
<1>3. queue_ \in Seq(Request)
  BY DEF FdInv, Types
<1>4. /\ n \in Nat /\ Len(queue_') = n + 1 /\ queue_'[n + 1] = r
      /\ \A i \in 1 .. n : queue_'[i] = queue_[i]
  BY <1>1, <1>2, <1>3, Appended
<1>5. ConnectedOnce'
  BY <1>1 DEF ClientInv, ConnectedOnce, net
<1>6. NotYetAnswered'
  <2>1. \A i \in 1 .. n + 1 : i \in 1 .. n \/ i = n + 1
    BY <1>4
  <2>2. \A i \in 1 .. n + 1 : got[queue_'[i].client] = << >>
    BY <1>1, <1>2, <1>4, <2>1 DEF ClientInv, NotYetAnswered
  <2> QED BY <1>1, <1>4, <2>2, KVSvrAssumption DEF ClientInv, NotYetAnswered, net
<1> QED BY <1>1, <1>5, <1>6 DEF ClientInv, OwnAnswerOnce

\* A connection is closed.
LEMMA ClientClosed ==
  ASSUME FdInv, ClientInv, NEW f \in Fds, f = mainFd => mainFd' = NoFd,
         f # mainFd => mainFd' = mainFd,
         open' = [open EXCEPT ![f] = Nobody],
         UNCHANGED <<net, queue_, alive, got>>,
         \A w \in Workers : pc'[w] \in {"process", "write"} =>
           pc[w] \in {"process", "write"} /\ pa'[w] = pa[w]
  PROVE  ClientInv'
<1>1. \A g \in Fds : open'[g] = IF g = f THEN Nobody ELSE open[g]
  BY DEF FdInv, Types
<1>2. ConnectedOnce'
  <2>1. backlog \in Seq(Clients)
    BY DEF FdInv, Types
  <2>2. \A i \in 1 .. Len(backlog) : backlog[i] # Nobody
    BY <2>1, ElementOfSeq, KVSvrAssumption
  <2> QED BY <1>1, <2>2, KVSvrAssumption DEF ClientInv, ConnectedOnce, net
<1>3. NotYetAnswered'
  <2>1. mainFd' \in Fds => mainFd' = mainFd /\ open'[mainFd] = open[mainFd]
    BY <1>1, KVSvrAssumption
  <2> QED BY <2>1 DEF ClientInv, NotYetAnswered, net
<1> QED BY <1>2, <1>3 DEF ClientInv, OwnAnswerOnce

LEMMA ClientRecvFails ==
  ASSUME FdInv, ClientInv, RecvFails
  PROVE  ClientInv'
<1>1. mainFd \in Fds
  BY DEF RecvFails, FdInv, Types
<1> QED BY <1>1, ClientClosed DEF RecvFails, workers

LEMMA ClientClose ==
  ASSUME FdInv, ClientInv, NEW w \in Workers, Close(w)
  PROVE  ClientInv'
<1>1. Held(w)
  BY DEF Close, Held
<1>2. pa[w].fd \in Fds /\ pa[w].fd # mainFd
  BY <1>1, HeldTypes DEF FdInv, Disjoint
<1>3. \A v \in Workers : pc'[v] \in {"process", "write"} =>
        pc[v] \in {"process", "write"} /\ pa'[v] = pa[v]
  BY DEF Close, Goto, FdInv, Types
<1> QED BY <1>2, <1>3, ClientClosed DEF Close

LEMMA ClientPopTake ==
  ASSUME FdInv, ClientInv, NEW w \in Workers, PopTake(w)
  PROVE  ClientInv'
<1> DEFINE n == Len(queue_)
<1>1. /\ pa' = [pa EXCEPT ![w] = Head(queue_)]
      /\ pc' = [pc EXCEPT ![w] = "process"]
      /\ queue_' = Tail(queue_) /\ queue_ # << >>
      /\ UNCHANGED <<net, open, mainFd, alive, got>>
  BY DEF PopTake, Popped, Goto
<1>2. queue_ \in Seq(Request)
  BY DEF FdInv, Types
<1>3. /\ Head(queue_) = queue_[1] /\ n \in Nat \ {0} /\ Len(queue_') = n - 1
      /\ \A i \in 1 .. n - 1 : queue_'[i] = queue_[i + 1]
  BY <1>1, <1>2, Taken
<1>4. 1 \in 1 .. n /\ \A i \in 1 .. n - 1 : i + 1 \in 1 .. n
  BY <1>3
<1>5. /\ pa'[w] = queue_[1]
      /\ \A v \in Workers \ {w} : pa'[v] = pa[v] /\ pc'[v] = pc[v]
  BY <1>1, <1>3 DEF FdInv, Types
<1>6. ConnectedOnce'
  BY <1>1 DEF ClientInv, ConnectedOnce, net
<1>7. NotYetAnswered'
  <2>1. \A i \in 1 .. n - 1 : got[queue_'[i].client] = << >>
    BY <1>3, <1>4 DEF ClientInv, NotYetAnswered
  <2>2. alive => \A v \in Workers : pc'[v] \in {"process", "write"} => got[pa'[v].client] = << >>
    BY <1>4, <1>5 DEF ClientInv, NotYetAnswered
  <2> QED BY <1>1, <1>3, <2>1, <2>2 DEF ClientInv, NotYetAnswered, net
<1> QED BY <1>1, <1>6, <1>7 DEF ClientInv, OwnAnswerOnce

\* The answer goes to the client the request came from, and no other holder
\* has a request of this client.
LEMMA ClientWrite ==
  ASSUME FdInv, ClientInv, NEW w \in Workers, alive, Write(w)
  PROVE  ClientInv'
<1> DEFINE c == pa[w].client
           f == pa[w].fd
<1>1. Held(w) /\ pc[w] = "write"
  BY DEF Write, Held
<1>2. c \in Clients /\ f \in Fds /\ open[f] = c /\ c # Nobody
  BY <1>1, HeldTypes DEF FdInv, Connected
<1>3. /\ got' = [got EXCEPT ![c] = Append(got[c], c)]
      /\ UNCHANGED <<net, open, mainFd, queue_, pa>>
  BY <1>2 DEF Write
<1>4. got[c] = << >>
  BY <1>1 DEF ClientInv, NotYetAnswered
<1>5. Append(got[c], c) = << c >>
  BY <1>4
<1>6. \A d \in Clients : got'[d] = IF d = c THEN << c >> ELSE got[d]
  BY <1>2, <1>3, <1>5 DEF FdInv, Types
<1>7. \A g \in Fds : g # f => open[g] # c
  BY <1>2 DEF ClientInv, ConnectedOnce
<1>8. /\ f # mainFd
      /\ \A i \in 1 .. Len(queue_) : queue_[i].fd # f
      /\ \A v \in Workers \ {w} : Held(v) => pa[v].fd # f
  BY <1>1 DEF FdInv, Disjoint
<1>9. \A v \in Workers \ {w} : Held(v) => pa[v].client # c /\ pa[v].client \in Clients
  BY <1>7, <1>8, HeldTypes DEF FdInv, Connected
<1>10. \A i \in 1 .. Len(queue_) : queue_[i].client # c /\ queue_[i].client \in Clients
  BY <1>7, <1>8, HeldTypes DEF FdInv, Connected
<1>11. \A i \in 1 .. Len(backlog) : backlog[i] # c /\ backlog[i] \in Clients
  <2>1. backlog \in Seq(Clients)
    BY DEF FdInv, Types
  <2> QED BY <1>2, <2>1, ElementOfSeq DEF ClientInv, ConnectedOnce
<1>12. ConnectedOnce'
  BY <1>3 DEF ClientInv, ConnectedOnce, net
<1>13. NotYetAnswered'
  <2>1. \A d \in Clients : sent[d] = "none" => d # c
    BY <1>2 DEF ClientInv, ConnectedOnce
  <2>2. mainFd \in Fds => open[mainFd] # c /\ open[mainFd] \in Clients
    BY <1>7, <1>8 DEF FdInv, Connected
  <2>3. alive' => \A v \in Workers : pc'[v] \in {"process", "write"} =>
                    v # w /\ pc[v] \in {"process", "write"}
    BY <1>1 DEF Write, Goto, FdInv, Types
  <2>4. alive' => \A v \in Workers : pc'[v] \in {"process", "write"} => got'[pa[v].client] = << >>
    BY <1>6, <1>9, <2>3 DEF ClientInv, NotYetAnswered, Held
  <2>5. \A d \in Clients : sent[d] = "none" => got'[d] = << >>
    BY <1>6, <2>1 DEF ClientInv, NotYetAnswered
  <2> QED BY <1>3, <1>6, <1>10, <1>11, <2>2, <2>4, <2>5 DEF ClientInv, NotYetAnswered, net
<1>14. OwnAnswerOnce'
  BY <1>6 DEF ClientInv, OwnAnswerOnce
<1> QED BY <1>12, <1>13, <1>14 DEF ClientInv

LEMMA ClientNext ==
  ASSUME FdInv, ClientInv, [Next]_vars
  PROVE  ClientInv'
<1>1. CASE UNCHANGED vars
  BY <1>1, ClientIdle DEF vars, net, workers
<1>2. ASSUME NEW c \in Clients, Connect(c) \/ Send(c) \/ Leave(c)
      PROVE  ClientInv'
  BY <1>2, ClientConnect, ClientSteady
<1>3. CASE Run \/ Fails \/ SelectFails
  BY <1>3, ClientSteady, ClientAccept, ClientReceive, ClientRecvFails DEF Run
<1>4. ASSUME NEW w \in Workers, alive, Work(w) \/ Spurious(w)
      PROVE  ClientInv'
  BY <1>4, ClientSteady, ClientPopTake, ClientWrite, ClientClose DEF Work
<1> QED BY <1>1, <1>2, <1>3, <1>4 DEF Next

\* The inductive invariant holds in every reachable state.
THEOREM Invariant == Spec => []IInv
<1>1. IInv /\ [Next]_vars => IInv'
  BY FdNext, ClientNext DEF IInv
<1> QED BY InitIInv, <1>1, PTL DEF Spec

-----------------------------------------------------------------------------
LEMMA HoldersCounted ==
  ASSUME FdInv, NEW fd \in Fds
  PROVE  Cardinality(Holders(fd)) = IF open[fd] = Nobody THEN 0 ELSE 1
<1>1. DOMAIN queue_ = 1 .. Len(queue_)
  <2>1. queue_ \in Seq(Request)
    BY DEF FdInv, Types
  <2> QED BY <2>1, LenProperties
<1>2. CASE open[fd] = Nobody
  <2>1. fd # mainFd /\ fd \notin leaked
    BY <1>2, KVSvrAssumption DEF FdInv, Connected
  <2>2. \A i \in 1 .. Len(queue_) : queue_[i].fd # fd
    BY <1>2, HeldTypes DEF FdInv, Connected
  <2>3. \A w \in Workers : Held(w) => pa[w].fd # fd
    BY <1>2, HeldTypes DEF FdInv, Connected
  <2>4. Holders(fd) = {}
    BY <1>1, <2>1, <2>2, <2>3 DEF Holders
  <2> QED BY <1>2, <2>4, FS_EmptySet
<1>3. CASE open[fd] # Nobody
  <2>1. \E x : Holders(fd) = {x}
    <3>1. CASE fd = mainFd
      <4>1. Holders(fd) = {<<"main", fd>>}
        BY <1>1, <3>1 DEF Holders, FdInv, Disjoint
      <4> QED BY <4>1
    <3>2. CASE fd \in leaked
      <4>1. Holders(fd) = {<<"nobody", fd>>}
        BY <1>1, <3>2 DEF Holders, FdInv, Disjoint
      <4> QED BY <4>1
    <3>3. ASSUME NEW i \in 1 .. Len(queue_), queue_[i].fd = fd
          PROVE  \E x : Holders(fd) = {x}
      <4>1. Holders(fd) = {<<"queue", i>>}
        BY <1>1, <3>3 DEF Holders, FdInv, Disjoint
      <4> QED BY <4>1
    <3>4. ASSUME NEW w \in Workers, Held(w), pa[w].fd = fd
          PROVE  \E x : Holders(fd) = {x}
      <4>1. Holders(fd) = {<<"worker", w>>}
        BY <1>1, <3>4 DEF Holders, FdInv, Disjoint
      <4> QED BY <4>1
    <3> QED BY <1>3, <3>1, <3>2, <3>3, <3>4 DEF FdInv, NoneForgotten
  <2> QED BY <1>3, <2>1, FS_Singleton
<1> QED BY <1>2, <1>3

\* A descriptor has one holder while it is open and none afterwards, and what
\* the queue and the workers hold is the connection the request came from.
THEOREM DescriptorsHeldOnce == Spec => []OneHolderPerFd
<1>1. IInv => OneHolderPerFd
  <2> SUFFICES ASSUME IInv PROVE OneHolderPerFd
    OBVIOUS
  <2>1. queue_ \in Seq(Request)
    BY DEF IInv, FdInv, Types
  <2>2. DOMAIN queue_ = 1 .. Len(queue_)
    BY <2>1, LenProperties
  <2> QED BY <2>2, HoldersCounted DEF IInv, FdInv, Connected, OneHolderPerFd
<1> QED BY Invariant, <1>1, PTL

\* A client is sent one answer at most, the one to its own command.
THEOREM AnswersReachTheirClients == Spec => []OwnAnswerOnce
<1>1. IInv => OwnAnswerOnce
  BY DEF IInv, ClientInv
<1> QED BY Invariant, <1>1, PTL
=============================================================================
