------------------------------ MODULE NewKVIndex ------------------------------
(***************************************************************************)
(* KVIndex of simplekvsvr/NewKVIndex.h: an in-memory map over an array of  *)
(* fixed-size records in a memory-mapped file, with a ring of cached       *)
(* records, shared by the KVWorker threads of main.cpp.                    *)
(*                                                                         *)
(* Every method runs under mutex_ and is one action; a worker's get is two *)
(* of them, Exist and then Get, and other workers run between them.  The   *)
(* file is mapped MAP_SHARED: it keeps what was stored when the process    *)
(* dies.  Each client has one command under way, as connect.sh does; five  *)
(* workers or more serve them.                                             *)
(***************************************************************************)
EXTENDS CacheRing, Sequences

CONSTANTS
  Clients, Values,
  NoKey, Absent,    \* no value
  Ok, Null, Error,  \* replies: "OK", "NULL", "error"
  InitialSize,      \* file_size_ of a new file, 4 in Start
  \* Bounds and the environment of a run:
  MaxSets, MaxCrashes, MaxFaults,
  KeyUses           \* the ways in which the clients may divide or share the keys

ASSUME KVIndexAssumption ==
  /\ {CACHE_SIZE, InitialSize} \subseteq Nat \ {0}
  /\ {MaxSets, MaxCrashes, MaxFaults} \subseteq Nat
  /\ KeyUses \subseteq [Clients -> SUBSET Keys] /\ Clients # {}
  /\ {End, Dangling, NoKey} \cap Keys = {} /\ End # Dangling /\ Absent \notin Values

VARIABLES
  kv,             \* kv_: key to [first: cache slot or -1, second: store slot]
  store,          \* store_[0 .. size_ - 1]; the records above are all zero
  file_size,
  mapped,         \* FALSE after a Resize that failed: store_ is no mapping
  cache, cache_index, cache_element,
  cmd,            \* cmd[c]: the command under way of client c, << >> for none
  exists,         \* exists[c]: Exist said yes and Get follows
  reply,          \* reply[c]: the last answer to c, << >> from its next command on
  uses,           \* uses[c]: the keys client c uses
  latest,         \* history: the value each key should have
  lost,           \* history: the keys whose records a delete of another key expired
  sets, crashes, faults

index == <<kv, cache, cache_index, cache_element>>
file == <<store, file_size, mapped>>
counters == <<sets, crashes, faults>>
history == <<latest, lost>>
vars == <<index, file, cmd, exists, reply, uses, history, counters>>

NoRecord == [key |-> NoKey, val |-> Absent, flag |-> FALSE]
Slot(i) == IF i < Len(store) THEN store[i + 1] ELSE NoRecord

\* mutant: the record keeps its flag
ExpireNothing(s, i) == s

Expire(s, i) == IF i < Len(s) THEN [s EXCEPT ![i + 1].flag = FALSE] ELSE s

\* The slot Delete(key) expires: slot 0 when there is no such key.
DeletedSlot(k) == IF Present(kv, k) THEN kv[k].second ELSE NewEntry.second

\* The other key whose record goes with it.
InSlot0(k) == IF DeletedSlot(k) = 0 /\ Slot(0).flag THEN {Slot(0).key} \ {k} ELSE {}

Init ==
  /\ kv = [k \in Keys |-> NoEntry]
  /\ store = << >>
  /\ file_size = InitialSize
  /\ mapped = TRUE
  /\ cache = [i \in CacheSlots |-> NoRecord]
  /\ cache_index = -1
  /\ cache_element = [i \in CacheSlots |-> End]
  /\ cmd = [c \in Clients |-> << >>]
  /\ exists = [c \in Clients |-> FALSE]
  /\ reply = [c \in Clients |-> Ok]
  /\ uses \in KeyUses
  /\ latest = [k \in Keys |-> Absent]
  /\ lost = {}
  /\ sets = 0
  /\ crashes = 0
  /\ faults = 0

Answer(c, x) ==
  /\ cmd' = [cmd EXCEPT ![c] = << >>]
  /\ exists' = [exists EXCEPT ![c] = FALSE]
  /\ reply' = [reply EXCEPT ![c] = x]

-----------------------------------------------------------------------------
(* The commands of KVWorker::Process *)

\* No client uses a key of another one.
Apart == \A c, d \in Clients : c # d => uses[c] \cap uses[d] = {}

Call(c, x) ==
  /\ cmd[c] = << >>
  /\ x[1] = "set" => sets < MaxSets
  /\ cmd' = [cmd EXCEPT ![c] = x]
  /\ sets' = IF x[1] = "set" THEN sets + 1 ELSE sets
  /\ reply' = [reply EXCEPT ![c] = << >>]
  /\ UNCHANGED <<index, file, exists, uses, history, crashes, faults>>

Is(c, name) == cmd[c] # << >> /\ cmd[c][1] = name

Exist(c) ==
  LET k == cmd[c][2] IN
  /\ Is(c, "get")
  /\ ~exists[c]
  /\ IF Present(kv, k)
     THEN /\ exists' = [exists EXCEPT ![c] = TRUE]
          /\ UNCHANGED <<cmd, reply>>
     ELSE Answer(c, Null)
  /\ UNCHANGED <<index, file, uses, history, counters>>

\* A key that went away since Exist is inserted again, at slot 0 of the store
\* and of the cache.
Get(c) ==
  LET k == cmd[c][2]
      e == IF Present(kv, k) THEN kv[k] ELSE NewEntry
      i == (cache_index + 1) % CACHE_SIZE IN
  /\ Is(c, "get")
  /\ exists[c]
  /\ mapped
  /\ Answer(c, IF e.first # -1 THEN cache[e.first].val ELSE Slot(e.second).val)
  /\ cache_index' = i
  /\ cache' = [cache EXCEPT ![i] = Slot(e.second)]
  /\ \E d \in EraseCache([kv EXCEPT ![k] = e], cache_element, i) :
       /\ kv' = [d[1] EXCEPT ![k].first = i]
       /\ cache_element' = [d[2] EXCEPT ![i] = k]
  /\ UNCHANGED <<file, uses, history, counters>>

\* Any key may be deleted: the server does not look whether it is there.
Delete(c) ==
  LET k == cmd[c][2] IN
  /\ Is(c, "del")
  /\ mapped
  /\ store' = Expire(store, DeletedSlot(k))
  /\ \E d \in Deletions(kv, cache_element, k) : kv' = d[1] /\ cache_element' = d[2]
  /\ latest' = [latest EXCEPT ![k] = Absent]
  /\ lost' = (lost \cup InSlot0(k)) \ {k}
  /\ Answer(c, Ok)
  /\ UNCHANGED <<cache, cache_index, file_size, mapped, uses, counters>>

\* mutant: ftruncate to the new size, file_size_ unchanged
FileSizeKept == file_size

ResizedFileSize == 2 * file_size

\* mutant: the slot is taken from file_size_
LastSlotOfFile == file_size - 1

NextSlot == Len(store)

\* Resize doubles the file when it is full; then the old record of the key is
\* deleted and the new one appended.
Set(c) ==
  LET k == cmd[c][2]
      v == cmd[c][3] IN
  /\ Is(c, "set")
  /\ \/ Len(store) < file_size /\ mapped /\ UNCHANGED <<file_size, mapped>>
     \/ Len(store) = file_size /\ file_size' = ResizedFileSize /\ mapped' = TRUE
  /\ store' = Append(IF Present(kv, k) THEN Expire(store, kv[k].second) ELSE store,
                     [key |-> k, val |-> v, flag |-> TRUE])
  /\ \E d \in IF Present(kv, k) THEN Deletions(kv, cache_element, k) ELSE {<<kv, cache_element>>} :
       /\ kv' = [d[1] EXCEPT ![k] = [first |-> -1, second |-> NextSlot]]
       /\ cache_element' = d[2]
  /\ latest' = [latest EXCEPT ![k] = v]
  /\ lost' = (IF Present(kv, k) THEN lost \cup InSlot0(k) ELSE lost) \ {k}
  /\ Answer(c, Ok)
  /\ UNCHANGED <<cache, cache_index, uses, counters>>

\* ftruncate fails in Resize, after munmap, or mmap fails after both.
SetResizeFails(c) ==
  /\ Is(c, "set")
  /\ Len(store) = file_size
  /\ faults < MaxFaults
  /\ faults' = faults + 1
  /\ mapped' = FALSE
  /\ Answer(c, Error)
  /\ UNCHANGED <<index, store, file_size, uses, history, sets, crashes>>

-----------------------------------------------------------------------------
(* The process dies and Start maps the file again. *)

LastOf(s, k) ==
  LET S == {i \in DOMAIN s : s[i].flag /\ s[i].key = k}
  IN IF S = {} THEN 0 ELSE CHOOSE i \in S : \A j \in S : j <= i

\* The value of key k that Start finds in the records s.
StoredValue(s, k) == IF LastOf(s, k) = 0 THEN Absent ELSE s[LastOf(s, k)].val

\* The records s are there, those of the keys in gone are not.
Start(s, gone) ==
  /\ store' = s
  /\ file_size' \in IF mapped THEN {file_size} ELSE {file_size, 2 * file_size}
  /\ mapped' = TRUE
  /\ kv' = [k \in Keys |-> IF LastOf(s, k) = 0 THEN NoEntry
                           ELSE [first |-> -1, second |-> LastOf(s, k) - 1]]
  /\ cache' = [i \in CacheSlots |-> NoRecord]
  /\ cache_index' = -1
  /\ cache_element' = [i \in CacheSlots |-> End]
  /\ cmd' = [c \in Clients |-> << >>]
  /\ exists' = [c \in Clients |-> FALSE]
  /\ latest' = [k \in Keys |-> IF k \in gone THEN Absent ELSE latest[k]]
  /\ lost' = {}
  /\ crashes' = crashes + 1
  /\ UNCHANGED <<reply, uses, sets, faults>>

\* Between two methods, or by touching store_ while it is not mapped.
Crash ==
  /\ crashes < MaxCrashes
  /\ Start(store, lost)

\* Inside Set, after Delete expired the old record and before the new one is
\* stored: the key is gone.
CrashInSet(c) ==
  LET k == cmd[c][2] IN
  /\ crashes < MaxCrashes
  /\ Is(c, "set")
  /\ mapped
  /\ Present(kv, k)
  /\ Start(Expire(store, kv[k].second), lost \cup {k} \cup InSlot0(k))

-----------------------------------------------------------------------------
Commands(c) ==
  {<<"get", k, Absent>> : k \in uses[c]}
    \cup {<<"del", k, Absent>> : k \in uses[c]}
    \cup {<<"set", k, v>> : k \in uses[c], v \in Values}

Work(c) == Exist(c) \/ Get(c) \/ Delete(c) \/ Set(c) \/ SetResizeFails(c)

Next ==
  \/ \E c \in Clients : Work(c) \/ \E x \in Commands(c) : Call(c, x)
  \/ Crash
  \/ \E c \in Clients : CrashInSet(c)

Spec == Init /\ [][Next]_vars
-----------------------------------------------------------------------------
(* Types. *)
RecordType == [key : Keys \cup {NoKey}, val : Values \cup {Absent}, flag : BOOLEAN]

TypeOK ==
  /\ \A k \in Keys : \/ kv[k] = NoEntry
                     \/ kv[k] \in [first : CacheSlots \cup {-1}, second : 0 .. Len(store) - 1]
  /\ \A i \in DOMAIN store : store[i] \in RecordType
  /\ Len(store) <= file_size
  /\ mapped \in BOOLEAN
  /\ cache \in [CacheSlots -> RecordType]
  /\ cache_index \in CacheSlots \cup {-1}
  /\ cache_element \in [CacheSlots -> Keys \cup {End, Dangling}]
  /\ \A c \in Clients : cmd[c] = << >> \/ cmd[c] \in Commands(c)
  /\ exists \in [Clients -> BOOLEAN]
  /\ reply \in [Clients -> Values \cup {Absent, Ok, Null, Error, << >>}]
  /\ latest \in [Keys -> Values \cup {Absent}]
  /\ lost \subseteq Keys

(* The cached record of a key that is set is its own, current one, however  *)
(* the ring wrapped around, the key was cached twice, or an iterator to an   *)
(* erased element was written through (NewKVIndex.h:235-254).                *)
CacheCoherent ==
  \A k \in Keys : latest[k] # Absent /\ Present(kv, k) /\ kv[k].first # -1 =>
    /\ cache[kv[k].first].key = k
    /\ cache[kv[k].first].val = latest[k]

(* Start finds in the file exactly the keys that are set, with their values  *)
(* as of the last command, but for the losses named here: an old record is   *)
(* expired before its key gets a new one, and a full file is doubled         *)
(* (NewKVIndex.h:109-118, 153-198), and no key has two valid records, of     *)
(* which the later one would win.  What is lost is                           *)
(*   - a key whose record is in slot 0, when a key without a record of its   *)
(*     own is deleted, or set after a get brought it back (line 182): the    *)
(*     next start does not find it, though it is served until then;          *)
(*   - the key of a Set that the process dies in, between the delete of its  *)
(*     old record and the new one (lines 163-167).                           *)
(* The values outlive the process: latest is not read again from the file.   *)
Recoverable ==
  /\ \A i, j \in DOMAIN store :
       store[i].flag /\ store[j].flag /\ store[i].key = store[j].key => i = j
  /\ \A k \in Keys : StoredValue(store, k) = IF k \in lost THEN Absent ELSE latest[k]
  /\ \A k \in lost : latest[k] # Absent /\ kv[k].second = 0

(* A key that is not set has an entry only when it was deleted between an    *)
(* Exist and a Get of another worker: the entry names slot 0.  A key that is *)
(* set has its entry, and a slot no other such key has.                      *)
OnlySlot0Revived ==
  \A k \in Keys :
    /\ latest[k] = Absent /\ Present(kv, k) => kv[k].second = 0 /\ ~Apart
    /\ latest[k] # Absent =>
         /\ Present(kv, k)
         /\ \A j \in Keys \ {k} : latest[j] # Absent => kv[j].second # kv[k].second

(* A client whose keys no other client uses sees a key-value map, whatever   *)
(* the others do, set and delete, and whether the keys they delete are there *)
(* or not.  A delete of an absent key answers OK.  It may take one other key *)
(* out of the file, this client's or another one's (NewKVIndex.h:182): that  *)
(* key is served until the process dies.  A death in a Set costs the key of  *)
(* the Set (lines 163-167).  Where the clients share keys nothing is         *)
(* claimed.                                                                  *)
TheClient == CHOOSE c \in Clients : TRUE
ItsKeys == IF Apart THEN uses[TheClient] ELSE {}

ValueOf(k) == IF Present(kv, k) THEN Slot(kv[k].second).val ELSE Absent

\* The map this client sees, what Start would find of it, its command and answer.
Seen == [k \in Keys |-> IF k \in ItsKeys THEN ValueOf(k) ELSE Absent]
Kept == [k \in Keys |-> IF k \in ItsKeys THEN StoredValue(store, k) ELSE Absent]
Pending == IF Apart THEN cmd[TheClient] ELSE << >>
Replied == IF Apart THEN reply[TheClient] ELSE Ok

Map == INSTANCE KVMap
         WITH Fail <- Null, DelAbsent <- Ok, Refused <- Error,
              AtomicSets <- FALSE, DurableDeletes <- TRUE, Forgetful <- TRUE,
              map <- Seen, durable <- Kept, pending <- Pending, reply <- Replied
ImplementsMap == Map!MapSpec
=============================================================================
