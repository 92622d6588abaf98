----------------------------- MODULE BoundedFifo -----------------------------
(***************************************************************************)
(* What a bounded blocking queue promises to the threads that share it:    *)
(* an object offered by a producer is appended exactly once, objects are   *)
(* handed out in the order they were appended, each to one consumer, and   *)
(* the queue never holds more than Capacity of them.                       *)
(*                                                                         *)
(* FifoSpec is implemented by SemQueue; ShareQueue, which can be shut down, *)
(* implements ClosableFifoSpec, where an offer may be withdrawn.           *)
(***************************************************************************)
EXTENDS Naturals, Sequences

CONSTANTS Producers, Consumers, Items, Capacity, NoItem

VARIABLES
  items,     \* the queued objects, oldest first
  offered,   \* offered[p]: the object p is enqueueing, NoItem outside a call
  got        \* got[c]: the object c dequeued and has not discarded

fifoVars == <<items, offered, got>>

FifoInit ==
  /\ items = << >>
  /\ offered = [p \in Producers |-> NoItem]
  /\ got = [c \in Consumers |-> NoItem]

Offer(p, x) ==
  /\ offered[p] = NoItem
  /\ offered' = [offered EXCEPT ![p] = x]
  /\ UNCHANGED <<items, got>>

Put(p) ==
  /\ offered[p] # NoItem
  /\ Len(items) < Capacity
  /\ items' = Append(items, offered[p])
  /\ offered' = [offered EXCEPT ![p] = NoItem]
  /\ UNCHANGED got

Get(c) ==
  /\ items # << >>
  /\ items' = Tail(items)
  /\ got' = [got EXCEPT ![c] = Head(items)]
  /\ UNCHANGED offered

\* A consumer is done with its object.
Discard(c) ==
  /\ got[c] # NoItem
  /\ got' = [got EXCEPT ![c] = NoItem]
  /\ UNCHANGED <<items, offered>>

FifoNext ==
  \/ \E p \in Producers : Put(p) \/ \E x \in Items : Offer(p, x)
  \/ \E c \in Consumers : Get(c) \/ Discard(c)

FifoSpec == FifoInit /\ [][FifoNext]_fifoVars

\* A producer gives its call up.
Withdraw(p) ==
  /\ offered[p] # NoItem
  /\ offered' = [offered EXCEPT ![p] = NoItem]
  /\ UNCHANGED <<items, got>>

ClosableFifoSpec ==
  FifoInit /\ [][FifoNext \/ \E p \in Producers : Withdraw(p)]_fifoVars
=============================================================================
