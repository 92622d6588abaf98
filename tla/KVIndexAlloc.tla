---------------------------- MODULE KVIndexAlloc ----------------------------
(***************************************************************************)
(* KVIndex of simplekvsvr/KVIndex.h, the version before NewKVIndex.h: the  *)
(* values are C strings in a memory-mapped file of bytes, allocated first  *)
(* fit from a list of free blocks, which Delete coalesces and Resize       *)
(* extends.  Quit writes the key file and Start rebuilds the list from the *)
(* zero bytes of the data file.                                            *)
(*                                                                         *)
(* No program of the repository includes it any more, so one command runs  *)
(* at a time.  A set is made of the steps in which it may leave the index: *)
(* the delete of the old value, each Resize, and the insertion.            *)
(***************************************************************************)
EXTENDS CacheRing, SequencesExt

CONSTANTS
  Values,         \* non-empty sequences of letters
  Absent,
  InitialSize,    \* the size in the key file the first Start finds
  MaxFileSize     \* bound: no set that would need a larger file

ASSUME AllocAssumption ==
  /\ {CACHE_SIZE, InitialSize, MaxFileSize} \subseteq Nat \ {0}
  /\ \A v \in Values : v \in Seq(Range(v)) /\ v # << >> /\ 0 \notin Range(v)
  /\ Absent \notin Values
  /\ {End, Dangling} \cap Keys = {} /\ End # Dangling

VARIABLES
  kv,            \* kv_: key to [first: cache slot or -1, second: offset]
  store,         \* store_[0 .. file_size_ - 1]: letters, and 0
  mem_list,      \* mem_list_: <<head, tail>> of each free block
  mapped,        \* FALSE after a Resize that failed
  cache, cache_index, cache_element,
  pending,       \* <<key, value>> between the steps of a set
  latest         \* history: the value each key should have

allocVars ==
  <<kv, store, mem_list, mapped, cache, cache_index, cache_element, pending, latest>>

SizeOf(s) == Cardinality(DOMAIN s)
file_size == SizeOf(store)

\* The C string at offset p of the store, and the bytes of a value.
StringAt(p) ==
  LET n == CHOOSE i \in p .. file_size : /\ i = file_size \/ store[i] = 0
                                         /\ \A j \in p .. i - 1 : store[j] # 0
  IN [i \in 1 .. n - p |-> store[p + i - 1]]
Bytes(v) == Append(v, 0)

-----------------------------------------------------------------------------
(* The list of free blocks *)

Zeros(n) == [i \in 0 .. n - 1 |-> 0]

\* mutant: the terminator of the value before a block is taken for free
RunStart(i) == i

\* A run of zero bytes begins with the terminator of the value before it.
BlockStart(i) == IF i = 0 THEN 0 ELSE i + 1

\* The runs of zero bytes in the bytes s, as long as they can be.
ZeroRuns(s) ==
  {r \in (DOMAIN s) \X (DOMAIN s) :
     /\ r[1] <= r[2]
     /\ \A b \in r[1] .. r[2] : s[b] = 0
     /\ r[1] = 0 \/ s[r[1] - 1] # 0
     /\ r[2] = SizeOf(s) - 1 \/ s[r[2] + 1] # 0}

\* The blocks Start finds in the bytes s, and their list: in order.
FoundBlocks(s) ==
  {b \in {<<BlockStart(r[1]), r[2]>> : r \in ZeroRuns(s)} : b[1] <= b[2]}

ScannedBlocks(s) ==
  LET Blocks == FoundBlocks(s)
      Earlier(b) == {a \in Blocks : a[1] < b[1]}
  IN [i \in 1 .. Cardinality(Blocks) |-> CHOOSE b \in Blocks : Cardinality(Earlier(b)) = i - 1]

\* The first block of n bytes or more, 0 if there is none.
FirstFit(n) == SelectInSeq(mem_list, LAMBDA b : b[2] - b[1] + 1 >= n)

\* Block i of the list without its first n bytes.
Taken(i, n) ==
  LET b == mem_list[i]
  IN IF b[2] - b[1] + 1 = n THEN RemoveAt(mem_list, i)
     ELSE [mem_list EXCEPT ![i][1] = @ + n]

\* mutant: the block is put in its place, its neighbours are left alone
InsertedOnly(head, tail) ==
  LET i == SelectInSeq(mem_list, LAMBDA b : b[1] > tail)
  IN InsertAt(mem_list, IF i = 0 THEN Len(mem_list) + 1 ELSE i, <<head, tail>>)

\* The list with the block head .. tail, one with the neighbours it touches.
Released(head, tail) ==
  LET i == SelectInSeq(mem_list, LAMBDA b : b[1] > tail)
      at == IF i = 0 THEN Len(mem_list) + 1 ELSE i
      pre == at > 1 /\ mem_list[at - 1][2] + 1 = head
      nxt == at <= Len(mem_list) /\ tail + 1 = mem_list[at][1]
  IN SubSeq(mem_list, 1, IF pre THEN at - 2 ELSE at - 1)
       \o << <<IF pre THEN mem_list[at - 1][1] ELSE head,
               IF nxt THEN mem_list[at][2] ELSE tail>> >>
       \o SubSeq(mem_list, IF nxt THEN at + 1 ELSE at, Len(mem_list))

\* The list after the file grew from n to 2 * n bytes.
Extended(n) ==
  IF mem_list # << >> /\ Last(mem_list)[2] = n - 1
  THEN [mem_list EXCEPT ![Len(mem_list)][2] = 2 * n - 1]
  ELSE Append(mem_list, <<n, 2 * n - 1>>)

Init ==
  /\ kv = [k \in Keys |-> NoEntry]
  /\ store = Zeros(InitialSize)
  /\ mem_list = ScannedBlocks(Zeros(InitialSize))
  /\ mapped = TRUE
  /\ cache = [i \in CacheSlots |-> << >>]
  /\ cache_index = -1
  /\ cache_element = [i \in CacheSlots |-> End]
  /\ pending = << >>
  /\ latest = [k \in Keys |-> Absent]

-----------------------------------------------------------------------------
(* Delete, Set, Get, and Quit followed by Start.  A process that touches    *)
(* store_ while it is not mapped dies, so only Quit can follow.             *)

Delete(k) ==
  LET head == kv[k].second
      len == Len(StringAt(head)) IN
  /\ Present(kv, k)
  /\ mem_list' = Released(head, head + len)
  /\ store' = [i \in DOMAIN store |-> IF i \in head .. head + len - 1 THEN 0 ELSE store[i]]
  /\ \E d \in Deletions(kv, cache_element, k) : kv' = d[1] /\ cache_element' = d[2]
  /\ latest' = [latest EXCEPT ![k] = Absent]
  /\ UNCHANGED <<mapped, cache, cache_index>>

Del(k) ==
  /\ pending = << >>
  /\ mapped
  /\ Delete(k)
  /\ UNCHANGED pending

Set(k, v) ==
  /\ pending = << >>
  /\ mapped
  /\ pending' = <<k, v>>
  /\ IF Present(kv, k) THEN Delete(k)
     ELSE UNCHANGED <<kv, store, mem_list, mapped, cache, cache_index, cache_element, latest>>

Fits == FirstFit(Len(pending[2]) + 1)

Insert ==
  /\ pending # << >>
  /\ Fits # 0
  /\ LET k == pending[1]
         bytes == Bytes(pending[2])
         head == mem_list[Fits][1] IN
     /\ kv' = [kv EXCEPT ![k] = [first |-> -1, second |-> head]]
     /\ store' = [i \in DOMAIN store |->
                    IF i - head + 1 \in DOMAIN bytes THEN bytes[i - head + 1] ELSE store[i]]
     /\ mem_list' = Taken(Fits, Len(bytes))
     /\ latest' = [latest EXCEPT ![k] = pending[2]]
  /\ pending' = << >>
  /\ UNCHANGED <<mapped, cache, cache_index, cache_element>>

Resize ==
  /\ pending # << >>
  /\ Fits = 0
  /\ 2 * file_size <= MaxFileSize
  /\ store' = [i \in 0 .. 2 * file_size - 1 |-> IF i < file_size THEN store[i] ELSE 0]
  /\ mem_list' = Extended(file_size)
  /\ UNCHANGED <<kv, mapped, cache, cache_index, cache_element, pending, latest>>

\* Set answers -1; the old value of its key is gone.
ResizeFails ==
  /\ pending # << >>
  /\ Fits = 0
  /\ mapped' = FALSE
  /\ pending' = << >>
  /\ UNCHANGED <<kv, store, mem_list, cache, cache_index, cache_element, latest>>

Get(k) ==
  LET i == (cache_index + 1) % CACHE_SIZE
      value == IF kv[k].first # -1 THEN cache[kv[k].first] ELSE StringAt(kv[k].second) IN
  /\ pending = << >>
  /\ mapped
  /\ Present(kv, k)                     \* Exist(k)
  /\ cache_index' = i
  /\ cache' = [cache EXCEPT ![i] = value]
  /\ \E d \in EraseCache(kv, cache_element, i) :
       /\ kv' = [d[1] EXCEPT ![k].first = i]
       /\ cache_element' = [d[2] EXCEPT ![i] = k]
  /\ UNCHANGED <<store, mem_list, mapped, pending, latest>>

QuitAndStart ==
  /\ pending = << >>
  /\ kv' = [k \in Keys |-> IF Present(kv, k) THEN [kv[k] EXCEPT !.first = -1] ELSE NoEntry]
  /\ mem_list' = ScannedBlocks(store)
  /\ mapped' = TRUE
  /\ cache' = [i \in CacheSlots |-> << >>]
  /\ cache_index' = -1
  /\ cache_element' = [i \in CacheSlots |-> End]
  /\ UNCHANGED <<store, pending, latest>>

Next ==
  \/ \E k \in Keys : Del(k) \/ Get(k) \/ \E v \in Values : Set(k, v)
  \/ Insert
  \/ Resize
  \/ ResizeFails
  \/ QuitAndStart

Spec == Init /\ [][Next]_allocVars
-----------------------------------------------------------------------------
\* The bytes of the value of key k and of its terminator.
Span(k) == kv[k].second .. kv[k].second + Len(latest[k])
IsSet == {k \in Keys : latest[k] # Absent}

(* The free list is, in order, the longest blocks of bytes that belong to no *)
(* value: nothing is lost, handed out twice or left uncoalesced, whether the *)
(* list comes from Insert, Delete and Resize (KVIndex.h:124-224) or from the *)
(* scan of Start (KVIndex.h:100-116).                                        *)
FreeListExact ==
  /\ \A i \in DOMAIN mem_list : mem_list[i][1] <= mem_list[i][2]
  /\ \A i \in 1 .. Len(mem_list) - 1 : mem_list[i][2] + 1 < mem_list[i + 1][1]
  /\ UNION {b[1] .. b[2] : b \in Range(mem_list)} = (DOMAIN store) \ UNION {Span(k) : k \in IsSet}

(* A key has an entry exactly when it is set, no two values overlap, and     *)
(* both the bytes in the store and the cached copy, if any, are the value of *)
(* its last set (KVIndex.h:154-294).                                         *)
ValuesIntact ==
  /\ \A k \in Keys : Present(kv, k) <=> k \in IsSet
  /\ \A k \in IsSet :
       /\ StringAt(kv[k].second) = latest[k]
       /\ kv[k].first # -1 => cache[kv[k].first] = latest[k]
       /\ \A j \in IsSet \ {k} : Span(j) \cap Span(k) = {}
=============================================================================
