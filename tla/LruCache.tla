------------------------------ MODULE LruCache ------------------------------
(***************************************************************************)
(* The LRU cache of simplekvsvr_v2 (cache.h) on its doubly linked list     *)
(* (linkedlist.h): nodes with next and prev pointers, a head node that     *)
(* holds nothing, a tail pointer, an index from keys to nodes.             *)
(*                                                                         *)
(* simplekvstore.h constructs it; its calls there are commented out.  They *)
(* run on the one diskIO thread.  Each node has a copy of a Task, whose    *)
(* key points into the buffer of the original: the model is right as long  *)
(* as the tasks in the cache are not deleted, which the cached flag of     *)
(* Task is for.                                                            *)
(***************************************************************************)
EXTENDS Integers, Sequences, SequencesExt

CONSTANTS
  Keys, Values,
  NULL,
  MAXCACHED

VARIABLES
  next, prev,     \* of the head node, 0, and the nodes on the heap
  content,        \* the task of a node: its key and value, NULL for a freed node
  lruTail,        \* tail
  lruIndex,       \* index
  totalCached,
  recent          \* history: what is cached, the last used first

lruVars == <<next, prev, content, lruTail, lruIndex, totalCached, recent>>

lruHead == 0
Heap == 1 .. MAXCACHED + 1
LruNodes == {lruHead} \cup Heap

\* The pointers next, prev and tail as one value, for the steps of a method.
Links == [next |-> next, prev |-> prev, tail |-> lruTail]

Unlink(l, n) ==
  LET a == l.prev[n]
      b == l.next[n]
  IN [next |-> [m \in LruNodes |-> IF m = n THEN NULL ELSE IF m = a THEN b ELSE l.next[m]],
      prev |-> [m \in LruNodes |-> IF m = n THEN NULL ELSE IF m = b THEN a ELSE l.prev[m]],
      tail |-> l.tail]

AddToHead(l, n) ==
  LET b == l.next[lruHead]
  IN [next |-> [l.next EXCEPT ![n] = b, ![lruHead] = n],
      prev |-> [m \in LruNodes |-> IF m = n THEN lruHead ELSE IF m = b THEN n ELSE l.prev[m]],
      tail |-> IF l.tail = lruHead THEN n ELSE l.tail]

\* mutant: the tail pointer stays on the node that is taken out
TailStays(l, n) == l

\* The tail moves off node n, which is about to be taken out.
MoveTailOff(l, n) == IF n = l.tail THEN [l EXCEPT !.tail = l.prev[n]] ELSE l

SetLinks(l) == next' = l.next /\ prev' = l.prev /\ lruTail' = l.tail

Init ==
  /\ next = [n \in LruNodes |-> NULL]
  /\ prev = [n \in LruNodes |-> NULL]
  /\ content = [n \in Heap |-> NULL]
  /\ lruTail = lruHead
  /\ lruIndex = [k \in Keys |-> NULL]
  /\ totalCached = 0
  /\ recent = << >>

Place(k) == CHOOSE i \in DOMAIN recent : recent[i][1] = k
Without(k) == RemoveAt(recent, Place(k))

-----------------------------------------------------------------------------
GetMiss(k) ==
  /\ lruIndex[k] = NULL
  /\ UNCHANGED lruVars

GetHit(k) ==
  LET n == lruIndex[k] IN
  /\ n # NULL
  /\ SetLinks(AddToHead(Unlink(MoveTailOff(Links, n), n), n))
  /\ recent' = << content[n] >> \o Without(k)
  /\ UNCHANGED <<content, lruIndex, totalCached>>

AddToCache(k, v) ==
  LET n == CHOOSE m \in Heap : content[m] = NULL
      l == AddToHead(Links, n)
      full == totalCached + 1 > MAXCACHED
      t == l.tail
      c == [content EXCEPT ![n] = <<k, v>>]
      i == [lruIndex EXCEPT ![k] = n] IN
  /\ IF full
     THEN /\ SetLinks(Unlink([l EXCEPT !.tail = l.prev[t]], t))
          /\ content' = [c EXCEPT ![t] = NULL]
          /\ lruIndex' = [i EXCEPT ![c[t][1]] = NULL]
          /\ UNCHANGED totalCached
     ELSE /\ SetLinks(l)
          /\ content' = c
          /\ lruIndex' = i
          /\ totalCached' = totalCached + 1
  /\ recent' = << <<k, v>> >> \o (IF full THEN Front(recent) ELSE recent)

DeleteCache(k) ==
  LET n == lruIndex[k] IN
  /\ n # NULL
  /\ SetLinks(Unlink(MoveTailOff(Links, n), n))
  /\ content' = [content EXCEPT ![n] = NULL]
  /\ lruIndex' = [lruIndex EXCEPT ![k] = NULL]
  /\ totalCached' = totalCached - 1
  /\ recent' = Without(k)

\* getVal adds a key that was not found, setVal one it deleted before.
Next ==
  \E k \in Keys :
    \/ GetMiss(k) \/ GetHit(k) \/ DeleteCache(k)
    \/ lruIndex[k] = NULL /\ \E v \in Values : AddToCache(k, v)

Spec == Init /\ [][Next]_lruVars
-----------------------------------------------------------------------------
\* The nodes of what is cached, the last used first, between the head and NULL.
Chain == << lruHead >> \o [i \in DOMAIN recent |-> lruIndex[recent[i][1]]]
After(i) == IF i < Len(Chain) THEN Chain[i + 1] ELSE NULL

(* The list, read in either direction, has the cached tasks in the order of  *)
(* their last use; the index finds exactly their nodes, tail is the last of  *)
(* them or the head, and there are totalCached of them, MAXCACHED at most.   *)
(* Every other node is off the heap.  So a full cache drops the task that    *)
(* was not used for longest (cache.h:40-113).                                *)
IsLru ==
  /\ \A k \in Keys : (lruIndex[k] = NULL) <=> \A i \in DOMAIN recent : recent[i][1] # k
  /\ \A i \in DOMAIN Chain : next[Chain[i]] = After(i)
  /\ \A i \in DOMAIN Chain : prev[Chain[i]] = IF i = 1 THEN NULL ELSE Chain[i - 1]
  /\ \A i \in DOMAIN recent : content[Chain[i + 1]] = recent[i]
  /\ \A n \in Heap : content[n] # NULL => \E i \in DOMAIN Chain : Chain[i] = n
  /\ lruTail = Last(Chain)
  /\ totalCached = Len(recent) /\ totalCached <= MAXCACHED
=============================================================================
