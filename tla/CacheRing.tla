------------------------------ MODULE CacheRing ------------------------------
(***************************************************************************)
(* The ring of cached values that both versions of KVIndex of simplekvsvr  *)
(* (NewKVIndex.h, KVIndex.h) keep beside the map kv_: an entry of kv_      *)
(* names its cache slot, or -1, and its place in the store;                *)
(* cache_element_[i] is the iterator of the element that uses slot i.      *)
(***************************************************************************)
EXTENDS Integers

CONSTANTS
  Keys,
  End, Dangling,    \* iterators: kv_.end(), one to an erased element
  CACHE_SIZE

CacheSlots == 0 .. CACHE_SIZE - 1

NoEntry == [first |-> -1, second |-> -1]
\* What kv_[key] inserts for a key that is not there.
NewEntry == [first |-> 0, second |-> 0]

Present(m, k) == m[k] # NoEntry

\* mutant: the element that used the cache slot keeps it
EraseNothing(m, e, i) == {<<m, e>>}

\* EraseCache(i) on the map m and the iterators e.  An iterator to an erased
\* element writes to freed memory, which may hold the element of another key.
EraseCache(m, e, i) ==
  CASE e[i] = End -> {<<m, e>>}
    [] e[i] \in Keys -> {<<[m EXCEPT ![e[i]].first = -1], [e EXCEPT ![i] = End]>>}
    [] e[i] = Dangling ->
         {<<n, [e EXCEPT ![i] = End]>> :
            n \in {m} \cup {[m EXCEPT ![k].first = -1] : k \in {j \in Keys : Present(m, j)}}}

\* kv_.erase(key)
EraseKey(m, e, k) ==
  <<[m EXCEPT ![k] = NoEntry], [i \in CacheSlots |-> IF e[i] = k THEN Dangling ELSE e[i]]>>

\* What Delete(key) may leave in kv_ and cache_element_.
Deletions(m, e, k) ==
  LET f == IF Present(m, k) THEN m[k].first ELSE NewEntry.first
  IN {EraseKey(d[1], d[2], k) : d \in IF f = -1 THEN {<<m, e>>} ELSE EraseCache(m, e, f)}
=============================================================================
