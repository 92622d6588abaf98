--------------------------- MODULE NewKVIndexProofs ---------------------------
(***************************************************************************)
(* KVIndex of NewKVIndex.h for every number of clients, keys, values,      *)
(* cache slots, sets, crashes and failures of Resize.                      *)
(*                                                                         *)
(* What a key holds is in three places: its record in the file, its entry  *)
(* in kv_, and its cached copy.  The inductive invariant relates them      *)
(* through the history latest: an entry names the record of its key        *)
(* (EntryNamesRecord), a valid record is the one its key has now           *)
(* (ValidIsCurrent), a cache slot that an entry names has an iterator to   *)
(* that entry (Linked), so that reusing the slot takes it from the entry   *)
(* first.  Entries that a Get brought back are the exception (Revived);    *)
(* KnowsItsKeys says why a client with keys of its own never makes one.    *)
(* A delete of a key without a record expires the one in slot 0, which is  *)
(* never used again: LostAtZero.                                           *)
(***************************************************************************)
EXTENDS NewKVIndex, SequenceTheorems, TLAPS

\* The entries of kv_: an erased element has no cache slot.
EntryType ==
  {e \in [first : CacheSlots \cup {-1}, second : Nat \cup {-1}] : e.second = -1 => e.first = -1}

StoredType == [key : Keys, val : Values, flag : BOOLEAN]
Iterators == Keys \cup {End, Dangling}
CommandType == {<< >>} \cup ({"get", "del", "set"} \X Keys \X (Values \cup {Absent}))

IndexTypes ==
  /\ kv \in [Keys -> EntryType]
  /\ cache \in [CacheSlots -> RecordType]
  /\ cache_index \in CacheSlots \cup {-1}
  /\ cache_element \in [CacheSlots -> Iterators]

FileTypes ==
  /\ store \in Seq(StoredType)
  /\ file_size \in Nat \ {0}
  /\ Len(store) <= file_size
  /\ mapped \in BOOLEAN

ClientTypes ==
  /\ cmd \in [Clients -> CommandType]
  /\ \A c \in Clients : cmd[c] = << >> \/ cmd[c] \in Commands(c)
  /\ exists \in [Clients -> BOOLEAN]
  /\ reply \in [Clients -> Values \cup {Absent, Ok, Null, Error, << >>}]
  /\ uses \in [Clients -> SUBSET Keys]

Types ==
  /\ IndexTypes /\ FileTypes /\ ClientTypes
  /\ latest \in [Keys -> Values \cup {Absent}] /\ lost \subseteq Keys

\* An element with a cache slot is the one the iterator of the slot names.
Linked(m, e) == \A k \in Keys : m[k].first # -1 => e[m[k].first] = k

\* An entry names a record of the file.
EntriesInFile ==
  /\ \A k \in Keys : kv[k].second < Len(store)
  /\ \A c \in Clients : exists[c] => 0 < Len(store)

\* The entry of a key that is set names its record, which is valid unless a
\* delete of another key expired it.
EntryNamesRecord ==
  \A k \in Keys : latest[k] # Absent =>
    /\ kv[k].second + 1 \in 1 .. Len(store)
    /\ store[kv[k].second + 1].key = k
    /\ store[kv[k].second + 1].val = latest[k]
    /\ store[kv[k].second + 1].flag \/ k \in lost

\* A record that another key's delete expired is the first of the file.
LostAtZero ==
  \A k \in lost : latest[k] # Absent /\ kv[k].second = 0 /\ ~store[1].flag

\* A valid record is the one its key has now.
ValidIsCurrent ==
  \A i \in 1 .. Len(store) : store[i].flag =>
    /\ kv[store[i].key].second + 1 = i
    /\ latest[store[i].key] = store[i].val

\* An entry of a key that is not set was revived.
Revived ==
  \A k \in Keys : latest[k] = Absent => kv[k].second = -1 \/ (kv[k].second = 0 /\ ~Apart)

\* The cached copy of a key that is set.
CachedIsCurrent ==
  \A k \in Keys : latest[k] # Absent /\ kv[k].first # -1 =>
    /\ cache[kv[k].first].key = k
    /\ cache[kv[k].first].val = latest[k]

\* What a client with keys of its own knows about them.
KnowsItsKeys ==
  \A c \in Clients : Apart /\ exists[c] => Is(c, "get") /\ latest[cmd[c][2]] # Absent

IInv ==
  /\ Types
  /\ Linked(kv, cache_element)
  /\ CachedIsCurrent
  /\ EntriesInFile
  /\ EntryNamesRecord
  /\ LostAtZero
  /\ ValidIsCurrent
  /\ Revived
  /\ KnowsItsKeys

-----------------------------------------------------------------------------
(* The map, the iterators and the records *)

LEMMA SlotFacts == 0 \in CacheSlots /\ CacheSlots \subseteq Nat /\ CACHE_SIZE \in Nat \ {0}
BY KVIndexAssumption DEF CacheSlots

LEMMA PresentEntry ==
  ASSUME NEW m \in [Keys -> EntryType], NEW k \in Keys
  PROVE  Present(m, k) <=> m[k].second # -1
<1>1. m[k] \in EntryType
  OBVIOUS
<1> QED BY <1>1 DEF Present, NoEntry, EntryType

WithFirst(m, k, i) == [m EXCEPT ![k].first = i]

FirstIs(n, m, k, i) ==
  \A j \in Keys : /\ n[j].first = IF j = k THEN i ELSE m[j].first
                  /\ n[j].second = m[j].second
                  /\ j # k => n[j] = m[j]

LEMMA FirstSet ==
  ASSUME NEW m \in [Keys -> EntryType], NEW k \in Keys, NEW i \in CacheSlots \cup {-1}
  PROVE  FirstIs(WithFirst(m, k, i), m, k, i)
BY DEF EntryType, WithFirst, FirstIs

LEMMA FirstTyped ==
  ASSUME NEW m \in [Keys -> EntryType], NEW k \in Keys, NEW i \in CacheSlots \cup {-1},
         i = -1 \/ m[k].second # -1
  PROVE  WithFirst(m, k, i) \in [Keys -> EntryType]
BY DEF EntryType, WithFirst

\* EraseCache takes the slot from the element that the iterator names, and may
\* take the slot of another one.
SlotErased(m, e, i, d) ==
  /\ d[1] \in [Keys -> EntryType]
  /\ d[2] = [e EXCEPT ![i] = End]
  /\ \A k \in Keys : /\ d[1][k].second = m[k].second
                     /\ d[1][k].first \in {m[k].first, -1}
                     /\ e[i] = k => d[1][k].first = -1

LEMMA EraseCacheFacts ==
  ASSUME NEW m \in [Keys -> EntryType], NEW e \in [CacheSlots -> Iterators],
         NEW i \in CacheSlots, NEW d \in EraseCache(m, e, i)
  PROVE  SlotErased(m, e, i, d)
<1> DEFINE Unslotted(j) == WithFirst(m, j, -1)
<1>1. \A j \in Keys :
        /\ Unslotted(j) \in [Keys -> EntryType]
        /\ \A k \in Keys : /\ Unslotted(j)[k].second = m[k].second
                           /\ Unslotted(j)[k].first = IF k = j THEN -1 ELSE m[k].first
  BY FirstSet, FirstTyped DEF FirstIs
<1> HIDE DEF Unslotted
<1>2. CASE e[i] = End
  <2>1. d = <<m, e>>
    BY <1>2, KVIndexAssumption DEF EraseCache
  <2>2. e = [e EXCEPT ![i] = End]
    BY <1>2
  <2>3. d[1] = m /\ d[2] = e
    BY <2>1
  <2> QED BY <1>2, <2>2, <2>3, KVIndexAssumption DEF SlotErased
<1>3. CASE e[i] \in Keys
  <2>1. d = <<Unslotted(e[i]), [e EXCEPT ![i] = End]>>
    BY <1>3, KVIndexAssumption DEF EraseCache, Unslotted, WithFirst
  <2>2. d[1] = Unslotted(e[i]) /\ d[2] = [e EXCEPT ![i] = End]
    BY <2>1
  <2> QED BY <1>1, <1>3, <2>2 DEF SlotErased
<1>4. CASE e[i] = Dangling
  <2>1. PICK n \in {m} \cup {Unslotted(k) : k \in {j \in Keys : Present(m, j)}} :
          d = <<n, [e EXCEPT ![i] = End]>>
    BY <1>4, KVIndexAssumption DEF EraseCache, Unslotted, WithFirst
  <2>2. n = m \/ \E j \in Keys : n = Unslotted(j)
    OBVIOUS
  <2>3. d[1] = n /\ d[2] = [e EXCEPT ![i] = End]
    BY <2>1
  <2> QED BY <1>1, <1>4, <2>2, <2>3, KVIndexAssumption DEF SlotErased
<1> QED BY <1>2, <1>3, <1>4 DEF Iterators

\* Slot i goes to key k: no other element keeps it.
LEMMA SlotTaken ==
  ASSUME NEW m \in [Keys -> EntryType], NEW e \in [CacheSlots -> Iterators],
         NEW i \in CacheSlots, NEW d \in EraseCache(m, e, i), NEW k \in Keys,
         \A j \in Keys \ {k} : m[j].first # -1 => e[m[j].first] = j
  PROVE  /\ \A j \in Keys \ {k} : d[1][j].first # i
         /\ Linked(WithFirst(d[1], k, i), [d[2] EXCEPT ![i] = k])
<1>0. SlotErased(m, e, i, d)
  BY EraseCacheFacts
<1>1. \A j \in Keys \ {k} : d[1][j].first # i /\ (d[1][j].first # -1 => e[d[1][j].first] = j)
  <2>1. i # -1
    BY SlotFacts
  <2> QED BY <1>0, <2>1 DEF SlotErased
<1>2. d[1] \in [Keys -> EntryType] /\ d[2] = [e EXCEPT ![i] = End]
  BY <1>0 DEF SlotErased
<1>3. \A j \in Keys : d[1][j].first \in CacheSlots \cup {-1}
  BY <1>2 DEF EntryType
<1> DEFINE n == WithFirst(d[1], k, i)
<1>4. \A j \in Keys : n[j].first = IF j = k THEN i ELSE d[1][j].first
  <2>1. FirstIs(n, d[1], k, i)
    BY <1>2, FirstSet
  <2> QED BY <2>1 DEF FirstIs
<1>5. \A s \in CacheSlots : [d[2] EXCEPT ![i] = k][s] = IF s = i THEN k ELSE e[s]
  BY <1>2
<1> HIDE DEF n
<1>6. Linked(n, [d[2] EXCEPT ![i] = k])
  BY <1>1, <1>3, <1>4, <1>5 DEF Linked
<1> QED BY <1>1, <1>6 DEF n

KeyErased(m, k, d) ==
  /\ d[1] \in [Keys -> EntryType]
  /\ d[2] \in [CacheSlots -> Iterators]
  /\ Linked(d[1], d[2])
  /\ d[1][k] = NoEntry
  /\ \A j \in Keys \ {k} : d[1][j].second = m[j].second /\ d[1][j].first \in {m[j].first, -1}

LEMMA DeletionFacts ==
  ASSUME NEW m \in [Keys -> EntryType], NEW e \in [CacheSlots -> Iterators],
         Linked(m, e), NEW k \in Keys, NEW d \in Deletions(m, e, k)
  PROVE  KeyErased(m, k, d)
<1> DEFINE f == IF Present(m, k) THEN m[k].first ELSE NewEntry.first
           D == IF f = -1 THEN {<<m, e>>} ELSE EraseCache(m, e, f)
<1>1. PICK b \in D : d = EraseKey(b[1], b[2], k)
  BY DEF Deletions
<1>2. f \in CacheSlots \cup {-1}
  <2>1. m[k].first \in CacheSlots \cup {-1}
    BY DEF EntryType
  <2> QED BY <2>1, SlotFacts DEF NewEntry
<1> HIDE DEF f
<1>3. /\ b[1] \in [Keys -> EntryType]
      /\ b[2] \in [CacheSlots -> Iterators]
      /\ \A s \in CacheSlots : b[2][s] \in {e[s], End}
      /\ \A j \in Keys : b[1][j].second = m[j].second /\ b[1][j].first \in {m[j].first, -1}
      /\ Linked(b[1], b[2])
  <2>1. CASE f = -1
    <3>1. b = <<m, e>>
      BY <1>1, <2>1
    <3> QED BY <3>1
  <2>2. CASE f # -1
    <3>1. f \in CacheSlots /\ b \in EraseCache(m, e, f)
      BY <1>1, <1>2, <2>2
    <3>a. SlotErased(m, e, f, b)
      BY <3>1, EraseCacheFacts
    <3>2. /\ b[1] \in [Keys -> EntryType] /\ b[2] = [e EXCEPT ![f] = End]
          /\ \A j \in Keys : /\ b[1][j].second = m[j].second
                             /\ b[1][j].first \in {m[j].first, -1}
                             /\ e[f] = j => b[1][j].first = -1
      BY <3>a DEF SlotErased
    <3>3. b[2] \in [CacheSlots -> Iterators]
      BY <3>2 DEF Iterators
    <3>4. \A j \in Keys : b[1][j].first \in CacheSlots \cup {-1}
      BY <3>2 DEF EntryType
    <3>5. \A s \in CacheSlots : b[2][s] = IF s = f THEN End ELSE e[s]
      BY <3>2
    <3>6. Linked(b[1], b[2])
      BY <2>2, <3>2, <3>4, <3>5 DEF Linked
    <3> QED BY <3>2, <3>3, <3>5, <3>6
  <2> QED BY <2>1, <2>2
<1>4. /\ d[1] = [b[1] EXCEPT ![k] = NoEntry]
      /\ d[2] = [i \in CacheSlots |-> IF b[2][i] = k THEN Dangling ELSE b[2][i]]
  BY <1>1 DEF EraseKey
<1>5. NoEntry \in EntryType /\ NoEntry.first = -1
  BY DEF NoEntry, EntryType
<1>6. d[1] \in [Keys -> EntryType] /\ d[2] \in [CacheSlots -> Iterators]
  BY <1>3, <1>4, <1>5 DEF Iterators
<1>7. d[1][k] = NoEntry /\ \A j \in Keys \ {k} : d[1][j] = b[1][j]
  BY <1>3, <1>4
<1>8. Linked(d[1], d[2])
  <2>1. \A j \in Keys : b[1][j].first \in CacheSlots \cup {-1}
    BY <1>3 DEF EntryType
  <2> QED BY <1>3, <1>4, <1>5, <1>7, <2>1 DEF Linked
<1> QED BY <1>3, <1>6, <1>7, <1>8 DEF KeyErased

\* Expire leaves keys and values alone, and takes one flag.
RecordExpired(s, t, i) ==
  /\ t \in Seq(StoredType)
  /\ Len(t) = Len(s)
  /\ \A j \in 1 .. Len(s) : /\ t[j].key = s[j].key
                            /\ t[j].val = s[j].val
                            /\ t[j].flag <=> s[j].flag /\ j # i + 1

LEMMA ExpireFacts ==
  ASSUME NEW s \in Seq(StoredType), NEW i \in Nat
  PROVE  RecordExpired(s, Expire(s, i), i)
<1>1. s \in [1 .. Len(s) -> StoredType] /\ Len(s) \in Nat
  BY LenProperties
<1>2. CASE i < Len(s)
  <2> DEFINE t == [s EXCEPT ![i + 1].flag = FALSE]
  <2>1. i + 1 \in 1 .. Len(s)
    BY <1>1, <1>2
  <2>2. s[i + 1] \in StoredType
    BY <1>1, <2>1
  <2>3. [s[i + 1] EXCEPT !.flag = FALSE] \in StoredType
    BY <2>2 DEF StoredType
  <2>4. t \in Seq(StoredType) /\ Len(t) = Len(s)
    BY <2>1, <2>3, ExceptSeq
  <2>5. \A j \in 1 .. Len(s) : t[j] = IF j = i + 1 THEN [s[j] EXCEPT !.flag = FALSE] ELSE s[j]
    BY <1>1
  <2>6. Expire(s, i) = t
    BY <1>2 DEF Expire
  <2> HIDE DEF t
  <2> QED BY <1>1, <2>4, <2>5, <2>6 DEF StoredType, RecordExpired
<1>3. CASE ~(i < Len(s))
  <2>1. Expire(s, i) = s
    BY <1>3 DEF Expire
  <2>2. \A j \in 1 .. Len(s) : j # i + 1
    BY <1>1, <1>3
  <2> QED BY <2>1, <2>2 DEF RecordExpired
<1> QED BY <1>2, <1>3

\* The valid records of a key in a store where it has one at most.
OneValid(s) ==
  \A i, j \in 1 .. Len(s) : s[i].flag /\ s[j].flag /\ s[i].key = s[j].key => i = j

LastOfIs(s, k, n) ==
  /\ \A i \in 1 .. Len(s) : s[i].flag /\ s[i].key = k => n = i
  /\ n # 0 => n \in 1 .. Len(s) /\ s[n].flag /\ s[n].key = k

LEMMA LastOfFacts ==
  ASSUME NEW s \in Seq(StoredType), NEW k \in Keys, OneValid(s)
  PROVE  LastOfIs(s, k, LastOf(s, k))
<1> DEFINE S == {i \in DOMAIN s : s[i].flag /\ s[i].key = k}
<1>1. DOMAIN s = 1 .. Len(s) /\ Len(s) \in Nat
  BY LenProperties
<1>2. CASE S = {}
  BY <1>1, <1>2 DEF LastOf, LastOfIs
<1>3. ASSUME NEW i \in S
      PROVE  LastOf(s, k) = i
  <2>1. \A j \in S : j = i
    BY <1>1, <1>3 DEF OneValid
  <2>2. i <= i
    BY <1>1
  <2> HIDE DEF S
  <2>3. (CHOOSE n \in S : \A j \in S : j <= n) = i
    BY <2>1, <2>2
  <2> QED BY <2>1, <2>3 DEF LastOf, S
<1>4. \A i \in 1 .. Len(s) : s[i].flag /\ s[i].key = k => LastOf(s, k) = i
  BY <1>1, <1>3
<1> QED BY <1>1, <1>2, <1>3, <1>4 DEF LastOfIs
-----------------------------------------------------------------------------
(* The clients *)

\* The command a client has under way.
LEMMA CommandFacts ==
  ASSUME Types, NEW c \in Clients, cmd[c] # << >>
  PROVE  /\ cmd[c][2] \in uses[c] /\ cmd[c][2] \in Keys
         /\ Is(c, "set") => cmd[c][3] \in Values
<1>1. cmd[c] \in Commands(c) /\ uses[c] \subseteq Keys
  BY DEF Types, ClientTypes
<1>2. CASE \E k \in uses[c] : cmd[c] = <<"get", k, Absent>> \/ cmd[c] = <<"del", k, Absent>>
  <2>1. cmd[c][2] \in uses[c] /\ cmd[c][1] # "set"
    BY <1>2
  <2> QED BY <1>1, <2>1 DEF Is
<1>3. CASE \E k \in uses[c], v \in Values : cmd[c] = <<"set", k, v>>
  BY <1>1, <1>3
<1> QED BY <1>1, <1>2, <1>3 DEF Commands

LEMMA AnswerTypes ==
  ASSUME Types, NEW c \in Clients, NEW x \in Values \cup {Absent, Ok, Null, Error},
         Answer(c, x), UNCHANGED uses
  PROVE  ClientTypes'
<1>1. /\ cmd' = [cmd EXCEPT ![c] = << >>] /\ exists' = [exists EXCEPT ![c] = FALSE]
      /\ reply' = [reply EXCEPT ![c] = x] /\ UNCHANGED uses
  BY DEF Answer
<1>2. cmd' \in [Clients -> CommandType] /\ exists' \in [Clients -> BOOLEAN]
  BY <1>1 DEF Types, ClientTypes, CommandType
<1>3. \A d \in Clients : cmd'[d] = << >> \/ cmd'[d] \in Commands(d)'
  BY <1>1 DEF Types, ClientTypes, Commands
<1>4. reply' \in [Clients -> Values \cup {Absent, Ok, Null, Error, << >>}]
  BY <1>1 DEF Types, ClientTypes
<1> QED BY <1>1, <1>2, <1>3, <1>4 DEF Types, ClientTypes

\* A command is answered: what the other clients know stays true.
LEMMA OthersKnow ==
  ASSUME Types, KnowsItsKeys, NEW c \in Clients, NEW x, cmd[c] # << >>,
         Answer(c, x), UNCHANGED uses,
         \A k \in Keys : k # cmd[c][2] => latest'[k] = latest[k]
  PROVE  KnowsItsKeys'
<1> SUFFICES ASSUME NEW d \in Clients, Apart, exists'[d]
             PROVE  Is(d, "get")' /\ latest'[cmd'[d][2]] # Absent
  BY DEF KnowsItsKeys, Apart
<1>1. d # c
  BY DEF Answer, Is, Types, ClientTypes
<1>2. cmd'[d] = cmd[d] /\ exists'[d] = exists[d]
  BY <1>1 DEF Answer, Types, ClientTypes
<1>3. Is(d, "get") /\ latest[cmd[d][2]] # Absent
  BY <1>2 DEF KnowsItsKeys
<1>4. cmd[d][2] \in Keys /\ cmd[d][2] # cmd[c][2]
  BY <1>1, <1>3, CommandFacts DEF Apart, Is
<1> QED BY <1>2, <1>3, <1>4 DEF Is

\* Another command is under way, or none.
LEMMA NoneExists ==
  ASSUME Types, NEW c \in Clients, NEW x, Answer(c, x), EntriesInFile, Len(store') >= Len(store)
  PROVE  \A b \in Clients : exists'[b] => 0 < Len(store')
<1>1. Len(store) \in Nat
  BY LenProperties DEF Types, FileTypes
<1>2. \A d \in Clients : exists'[d] => exists[d]
  BY DEF Answer, Types, ClientTypes
<1> QED BY <1>1, <1>2 DEF EntriesInFile

-----------------------------------------------------------------------------
(* The steps *)

LEMMA InitIInv == Init => IInv
<1> SUFFICES ASSUME Init PROVE IInv
  OBVIOUS
<1> USE DEF Init
<1>1. IndexTypes
  BY DEF IndexTypes, EntryType, NoEntry, RecordType, NoRecord, Iterators
<1>2. FileTypes
  BY KVIndexAssumption DEF FileTypes
<1>3. ClientTypes
  BY KVIndexAssumption DEF ClientTypes, CommandType
<1>4. Types
  BY <1>1, <1>2, <1>3 DEF Types
<1>5. /\ Linked(kv, cache_element) /\ CachedIsCurrent /\ EntryNamesRecord /\ LostAtZero /\ Revived
      /\ EntriesInFile
  BY DEF Linked, NoEntry, CachedIsCurrent, EntryNamesRecord, LostAtZero, Revived, EntriesInFile
<1>6. ValidIsCurrent
  BY DEF ValidIsCurrent
<1>7. KnowsItsKeys
  BY DEF KnowsItsKeys, Is
<1> QED BY <1>4, <1>5, <1>6, <1>7 DEF IInv

\* The parts of the invariant that speak of the map and the file only.
LEMMA IndexKept ==
  ASSUME IInv, UNCHANGED <<index, store, file_size, uses, history>>, mapped' \in BOOLEAN,
         ClientTypes', KnowsItsKeys', \A c \in Clients : exists'[c] => 0 < Len(store)
  PROVE  IInv'
<1>1. IndexTypes' /\ FileTypes'
  BY DEF IInv, Types, IndexTypes, FileTypes, index
<1>2. Types'
  BY <1>1 DEF IInv, Types, history
<1>3. Linked(kv, cache_element)' /\ CachedIsCurrent' /\ EntriesInFile'
  BY DEF IInv, Linked, CachedIsCurrent, EntriesInFile, index, history
<1>4. EntryNamesRecord' /\ LostAtZero' /\ ValidIsCurrent' /\ Revived'
  BY DEF IInv, EntryNamesRecord, LostAtZero, ValidIsCurrent, Revived, Apart, index, history
<1> QED BY <1>2, <1>3, <1>4 DEF IInv

LEMMA StutterStep == IInv /\ UNCHANGED vars => IInv'
<1> SUFFICES ASSUME IInv, UNCHANGED vars PROVE IInv'
  OBVIOUS
<1>1. ClientTypes'
  BY DEF IInv, Types, ClientTypes, Commands, vars
<1>2. KnowsItsKeys'
  BY DEF IInv, KnowsItsKeys, Apart, Is, vars, history
<1> QED BY <1>1, <1>2, IndexKept DEF vars, file, IInv, Types, FileTypes, EntriesInFile

LEMMA CallStep ==
  ASSUME IInv, NEW c \in Clients, NEW x \in Commands(c), Call(c, x)
  PROVE  IInv'
<1>1. /\ cmd' = [cmd EXCEPT ![c] = x] /\ reply' = [reply EXCEPT ![c] = << >>]
      /\ cmd[c] = << >>
      /\ UNCHANGED <<index, file, exists, uses, history>>
  BY DEF Call
<1>2. x \in CommandType
  <2>1. uses[c] \subseteq Keys
    BY DEF IInv, Types, ClientTypes
  <2> QED BY <2>1 DEF Commands, CommandType
<1>3. ClientTypes'
  <2>1. \A d \in Clients : cmd'[d] = << >> \/ cmd'[d] \in Commands(d)'
    BY <1>1 DEF IInv, Types, ClientTypes, Commands
  <2>2. reply' \in [Clients -> Values \cup {Absent, Ok, Null, Error, << >>}]
    BY <1>1 DEF IInv, Types, ClientTypes
  <2>3. cmd' \in [Clients -> CommandType]
    BY <1>1, <1>2 DEF IInv, Types, ClientTypes
  <2> QED BY <1>1, <2>1, <2>2, <2>3 DEF IInv, Types, ClientTypes
<1>4. KnowsItsKeys'
  <2> SUFFICES ASSUME NEW d \in Clients, Apart, exists[d]
               PROVE  Is(d, "get")' /\ latest[cmd'[d][2]] # Absent
    BY <1>1 DEF KnowsItsKeys, Apart, history
  <2>1. d # c
    BY <1>1 DEF IInv, KnowsItsKeys, Is
  <2> QED BY <1>1, <2>1 DEF IInv, Types, ClientTypes, KnowsItsKeys, Is
<1> QED BY <1>1, <1>3, <1>4, IndexKept DEF file, IInv, Types, FileTypes, EntriesInFile

LEMMA ExistStep ==
  ASSUME IInv, NEW c \in Clients, Exist(c)
  PROVE  IInv'
<1> DEFINE k == cmd[c][2]
<1>1. cmd[c] # << >> /\ Is(c, "get") /\ UNCHANGED <<index, file, uses, history>>
  BY DEF Exist, Is
<1>2. k \in Keys
  BY <1>1, CommandFacts DEF IInv
<1>3. CASE ~Present(kv, k)
  <2>1. Answer(c, Null)
    BY <1>3 DEF Exist
  <2>2. ClientTypes'
    BY <1>1, <2>1, AnswerTypes DEF IInv
  <2>3. KnowsItsKeys'
    BY <1>1, <2>1, OthersKnow DEF IInv, history
  <2>4. \A d \in Clients : exists'[d] => 0 < Len(store)
    BY <1>1, <2>1, NoneExists, LenProperties DEF IInv, Types, FileTypes, file
  <2> QED BY <1>1, <2>2, <2>3, <2>4, IndexKept DEF file, IInv, Types, FileTypes
<1>4. CASE Present(kv, k)
  <2>1. exists' = [exists EXCEPT ![c] = TRUE] /\ UNCHANGED <<cmd, reply>>
    BY <1>4 DEF Exist
  <2>2. ClientTypes'
    BY <1>1, <2>1 DEF IInv, Types, ClientTypes, Commands
  <2>3. Apart => latest[k] # Absent
    BY <1>2, <1>4, PresentEntry DEF IInv, Types, IndexTypes, Revived
  <2>4. KnowsItsKeys'
    BY <1>1, <2>1, <2>3 DEF IInv, Types, ClientTypes, KnowsItsKeys, Apart, Is, history
  <2>5. 0 < Len(store)
    <3>1. kv[k].second \in Nat
      <4>1. kv[k] \in EntryType /\ kv[k].second # -1
        BY <1>2, <1>4, PresentEntry DEF IInv, Types, IndexTypes
      <4> QED BY <4>1 DEF EntryType
    <3>2. kv[k].second < Len(store) /\ Len(store) \in Nat
      BY <1>2, LenProperties DEF IInv, EntriesInFile, Types, FileTypes
    <3> QED BY <3>1, <3>2
  <2> QED BY <1>1, <2>2, <2>4, <2>5, IndexKept DEF file, IInv, Types, FileTypes
<1> QED BY <1>3, <1>4

LEMMA ResizeFailsStep ==
  ASSUME IInv, NEW c \in Clients, SetResizeFails(c)
  PROVE  IInv'
<1>1. /\ cmd[c] # << >> /\ Answer(c, Error) /\ mapped' = FALSE
      /\ UNCHANGED <<index, store, file_size, uses, history>>
  BY DEF SetResizeFails, Is
<1>2. ClientTypes'
  BY <1>1, AnswerTypes DEF IInv
<1>3. KnowsItsKeys'
  BY <1>1, OthersKnow DEF IInv, history
<1>4. \A d \in Clients : exists'[d] => 0 < Len(store)
  BY <1>1, NoneExists, LenProperties DEF IInv, Types, FileTypes
<1> QED BY <1>1, <1>2, <1>3, <1>4, IndexKept

LEMMA GetStep ==
  ASSUME IInv, NEW c \in Clients, Get(c)
  PROVE  IInv'
<1> DEFINE k == cmd[c][2]
           e == IF Present(kv, k) THEN kv[k] ELSE NewEntry
           i == (cache_index + 1) % CACHE_SIZE
           m == [kv EXCEPT ![k] = e]
           x == IF e.first # -1 THEN cache[e.first].val ELSE Slot(e.second).val
<1>1. /\ cmd[c] # << >> /\ exists[c] /\ Answer(c, x)
      /\ cache_index' = i
      /\ cache' = [cache EXCEPT ![i] = Slot(e.second)]
      /\ UNCHANGED <<file, uses, history>>
  BY DEF Get, Is
<1>2. PICK d \in EraseCache(m, cache_element, i) :
        kv' = [d[1] EXCEPT ![k].first = i] /\ cache_element' = [d[2] EXCEPT ![i] = k]
  BY DEF Get
<1>3. /\ k \in Keys /\ kv \in [Keys -> EntryType]
      /\ cache \in [CacheSlots -> RecordType] /\ cache_element \in [CacheSlots -> Iterators]
      /\ store \in Seq(StoredType)
  BY <1>1, CommandFacts DEF IInv, Types, IndexTypes, FileTypes
<1>4. kv' = WithFirst(d[1], k, i)
  BY <1>2 DEF WithFirst
<1>5. i \in CacheSlots
  BY SlotFacts DEF IInv, Types, IndexTypes, CacheSlots
<1>6. /\ e \in EntryType /\ e.second \in Nat /\ e.first \in CacheSlots \cup {-1}
      /\ kv[k].second # -1 => e = kv[k]
      /\ kv[k].second = -1 => e.second = 0
  <2>1. NewEntry \in EntryType /\ NewEntry.second = 0
    BY SlotFacts DEF NewEntry, EntryType
  <2>2. kv[k] \in EntryType
    BY <1>3
  <2>3. Present(kv, k) <=> kv[k].second # -1
    BY <1>3, PresentEntry
  <2>4. e \in EntryType /\ e.second # -1
    BY <2>1, <2>2, <2>3
  <2> QED BY <2>1, <2>3, <2>4 DEF EntryType
<1>7. Slot(e.second) \in RecordType /\ x \in Values \cup {Absent}
  <2>1. Slot(e.second) \in RecordType
    <3>1. CASE e.second < Len(store)
      <4>1. e.second + 1 \in 1 .. Len(store)
        BY <1>3, <1>6, <3>1, LenProperties
      <4>2. store[e.second + 1] \in StoredType
        BY <1>3, <4>1, ElementOfSeq
      <4> QED BY <3>1, <4>2 DEF Slot, StoredType, RecordType
    <3>2. CASE ~(e.second < Len(store))
      BY <3>2 DEF Slot, NoRecord, RecordType
    <3> QED BY <3>1, <3>2
  <2>2. e.first # -1 => cache[e.first] \in RecordType
    BY <1>3, <1>6
  <2> QED BY <2>1, <2>2 DEF RecordType
<1> HIDE DEF e, i, x
<1>8. m \in [Keys -> EntryType] /\ m[k] = e /\ \A j \in Keys \ {k} : m[j] = kv[j]
  BY <1>3, <1>6
<1> HIDE DEF m
<1>9. SlotErased(m, cache_element, i, d)
  BY <1>3, <1>5, <1>8, EraseCacheFacts
<1>10. d[1] \in [Keys -> EntryType] /\ d[2] = [cache_element EXCEPT ![i] = End]
  BY <1>9 DEF SlotErased
<1>11. /\ \A j \in Keys \ {k} : d[1][j].first # i
       /\ Linked(WithFirst(d[1], k, i), [d[2] EXCEPT ![i] = k])
  <2>1. \A j \in Keys \ {k} : m[j].first # -1 => cache_element[m[j].first] = j
    BY <1>8 DEF IInv, Linked
  <2> QED BY <1>3, <1>5, <1>8, <2>1, SlotTaken
<1>12. Linked(kv, cache_element)'
  BY <1>2, <1>4, <1>11
<1>13. kv' \in [Keys -> EntryType]
  <2>1. d[1][k].second # -1
    BY <1>3, <1>6, <1>8, <1>9 DEF SlotErased
  <2> QED BY <1>3, <1>4, <1>5, <1>10, <2>1, FirstTyped
<1>14. FirstIs(kv', d[1], k, i)
  BY <1>3, <1>4, <1>5, <1>10, FirstSet
<1>15. /\ kv'[k].second = e.second /\ kv'[k].first = i
       /\ \A j \in Keys \ {k} : /\ kv'[j].second = kv[j].second
                                /\ kv'[j].first \in {kv[j].first, -1}
                                /\ kv'[j].first # i
  BY <1>3, <1>8, <1>9, <1>11, <1>14 DEF SlotErased, FirstIs
<1>16. IndexTypes'
  <2>1. cache' \in [CacheSlots -> RecordType]
    BY <1>1, <1>3, <1>7
  <2>2. cache_element' \in [CacheSlots -> Iterators]
    BY <1>2, <1>3, <1>5, <1>10 DEF Iterators
  <2> QED BY <1>1, <1>5, <1>13, <2>1, <2>2 DEF IndexTypes
<1>17. Types'
  <2>1. ClientTypes'
    BY <1>1, <1>7, AnswerTypes DEF IInv
  <2> QED BY <1>1, <1>16, <2>1 DEF IInv, Types, FileTypes, file, history
<1>18. CachedIsCurrent'
  <2> SUFFICES ASSUME NEW j \in Keys, latest[j] # Absent, kv'[j].first # -1
               PROVE  cache'[kv'[j].first].key = j /\ cache'[kv'[j].first].val = latest[j]
    BY <1>1 DEF CachedIsCurrent, history
  <2>1. CASE j = k
    <3>1. /\ kv[k].second + 1 \in 1 .. Len(store)
          /\ store[kv[k].second + 1].key = k /\ store[kv[k].second + 1].val = latest[k]
      BY <1>3, <2>1 DEF IInv, EntryNamesRecord
    <3>2. kv[k].second \in Nat \cup {-1} /\ Len(store) \in Nat
      BY <1>3, LenProperties DEF EntryType
    <3>3. kv[k].second # -1 /\ kv[k].second < Len(store)
      BY <3>1, <3>2
    <3>4. Slot(e.second) = store[kv[k].second + 1]
      BY <1>6, <3>3 DEF Slot
    <3>5. cache'[i] = Slot(e.second)
      BY <1>1, <1>3, <1>5
    <3> QED BY <1>15, <2>1, <3>1, <3>4, <3>5
  <2>2. CASE j # k
    <3>1. kv'[j].first = kv[j].first /\ kv[j].first \in CacheSlots /\ kv[j].first # i
      BY <1>3, <1>15, <2>2 DEF EntryType
    <3>2. cache'[kv[j].first] = cache[kv[j].first]
      BY <1>1, <1>3, <3>1
    <3> QED BY <3>1, <3>2 DEF IInv, CachedIsCurrent
  <2> QED BY <2>1, <2>2
<1>19. \A j \in Keys : kv[j].second # -1 => kv'[j].second = kv[j].second
  BY <1>6, <1>15
<1>20. EntryNamesRecord'
  <2>1. \A j \in Keys : latest[j] # Absent => kv[j].second # -1
    BY DEF IInv, EntryNamesRecord
  <2> QED BY <1>1, <1>19, <2>1 DEF IInv, EntryNamesRecord, file, history
<1>21. ValidIsCurrent'
  <2> SUFFICES ASSUME NEW n \in 1 .. Len(store), store[n].flag
               PROVE  kv'[store[n].key].second + 1 = n /\ latest[store[n].key] = store[n].val
    BY <1>1 DEF ValidIsCurrent, file, history
  <2>1. store[n].key \in Keys /\ n # 0
    <3>1. store[n] \in StoredType
      BY <1>3, ElementOfSeq
    <3> QED BY <3>1 DEF StoredType
  <2>2. kv[store[n].key].second + 1 = n /\ latest[store[n].key] = store[n].val
    BY DEF IInv, ValidIsCurrent
  <2> QED BY <1>19, <2>1, <2>2
<1>22. Revived'
  <2>1. Apart => latest[k] # Absent
    BY <1>1 DEF IInv, KnowsItsKeys
  <2> QED BY <1>1, <1>6, <1>15, <2>1 DEF IInv, Revived, Apart, history
<1>23. KnowsItsKeys'
  BY <1>1, OthersKnow DEF IInv, history
<1>24. LostAtZero'
  BY <1>1, <1>19 DEF IInv, LostAtZero, file, history, Types
<1>25. EntriesInFile'
  <2>1. \A b \in Clients : exists'[b] => 0 < Len(store')
    BY <1>1, <1>3, NoneExists, LenProperties DEF IInv, file
  <2>2. \A j \in Keys : kv'[j].second < Len(store)
    <3>1. 0 < Len(store)
      BY <1>1 DEF IInv, EntriesInFile, Types, ClientTypes
    <3> QED BY <1>6, <1>15, <3>1 DEF IInv, EntriesInFile
  <2> QED BY <1>1, <2>1, <2>2 DEF EntriesInFile, file
<1> QED BY <1>12, <1>17, <1>18, <1>20, <1>21, <1>22, <1>23, <1>24, <1>25 DEF IInv

\* The record of key k is expired, or that in slot 0: what is left of the other
\* keys, when those in g have lost theirs.
RecordsLeft(k, t, g) ==
  /\ \A j \in Keys \ {k} : latest[j] # Absent =>
       /\ kv[j].second + 1 \in 1 .. Len(t)
       /\ t[kv[j].second + 1].key = j
       /\ t[kv[j].second + 1].val = latest[j]
       /\ t[kv[j].second + 1].flag \/ j \in g
  /\ g \subseteq Keys
  /\ \A j \in g \ {k} : latest[j] # Absent /\ kv[j].second = 0 /\ ~t[1].flag
  /\ \A n \in 1 .. Len(t) : t[n].flag =>
       /\ t[n].key \in Keys \ {k}
       /\ kv[t[n].key].second + 1 = n
       /\ latest[t[n].key] = t[n].val

\* The key that slot 0 is taken from.
LEMMA InSlot0Facts ==
  ASSUME IInv, NEW k \in Keys, NEW j \in InSlot0(k)
  PROVE  /\ j \in Keys \ {k} /\ DeletedSlot(k) = 0
         /\ 1 \in 1 .. Len(store) /\ store[1].flag /\ store[1].key = j
         /\ kv[j].second = 0 /\ latest[j] # Absent
         /\ InSlot0(k) = {j} /\ lost = {}
<1>1. store \in Seq(StoredType) /\ Len(store) \in Nat /\ kv \in [Keys -> EntryType]
  BY LenProperties DEF IInv, Types, IndexTypes, FileTypes
<1>2. /\ DeletedSlot(k) = 0 /\ Slot(0).flag /\ j = Slot(0).key /\ j # k
      /\ InSlot0(k) = {Slot(0).key} \ {k}
  BY DEF InSlot0
<1>3. 0 < Len(store) /\ Slot(0) = store[1]
  BY <1>2 DEF Slot, NoRecord
<1>4. 1 \in 1 .. Len(store) /\ store[1] \in StoredType
  BY <1>1, <1>3, ElementOfSeq
<1>5. j \in Keys /\ kv[j].second + 1 = 1 /\ latest[j] = store[1].val
  BY <1>2, <1>3, <1>4 DEF StoredType, IInv, ValidIsCurrent
<1>6. kv[j].second = 0 /\ latest[j] # Absent
  <2>1. kv[j].second \in Nat \cup {-1}
    BY <1>1, <1>5 DEF EntryType
  <2> QED BY <1>4, <1>5, <2>1, KVIndexAssumption DEF StoredType
<1>7. lost = {}
  BY <1>2, <1>3 DEF IInv, LostAtZero
<1> QED BY <1>2, <1>3, <1>4, <1>5, <1>6, <1>7

\* A key with a record of its own takes no other one along.
LEMMA NoneInSlot0 ==
  ASSUME IInv, NEW k \in Keys, latest[k] # Absent
  PROVE  InSlot0(k) = {}
<1> SUFFICES ASSUME NEW j \in InSlot0(k) PROVE FALSE
  OBVIOUS
<1>1. kv \in [Keys -> EntryType] /\ store[kv[k].second + 1].key = k
      /\ kv[k].second + 1 \in 1 .. Len(store)
  BY DEF IInv, Types, IndexTypes, EntryNamesRecord
<1>2. kv[k].second \in Nat
  <2>1. kv[k].second \in Nat \cup {-1} /\ kv[k].second + 1 >= 1
    BY <1>1 DEF EntryType
  <2> QED BY <2>1
<1>3. kv[k].second = 0
  BY <1>1, <1>2, InSlot0Facts, PresentEntry DEF DeletedSlot
<1> QED BY <1>1, <1>3, InSlot0Facts

LEMMA ExpiryFacts ==
  ASSUME IInv, NEW k \in Keys, NEW p \in Nat, NEW t, RecordExpired(store, t, p), NEW g,
         \/ p = DeletedSlot(k) /\ g = lost \cup InSlot0(k)
         \/ kv[k].second = -1 /\ p = Len(store) /\ g = lost
  PROVE  RecordsLeft(k, t, g)
<1>1. /\ store \in Seq(StoredType) /\ Len(store) \in Nat /\ Len(t) = Len(store)
      /\ kv \in [Keys -> EntryType]
      /\ \A j \in 1 .. Len(store) : /\ t[j].key = store[j].key
                                    /\ t[j].val = store[j].val
                                    /\ t[j].flag <=> store[j].flag /\ j # p + 1
  <2>1. store \in Seq(StoredType) /\ kv \in [Keys -> EntryType]
    BY DEF IInv, Types, IndexTypes, FileTypes
  <2> QED BY <2>1, LenProperties DEF RecordExpired
<1>2. \A j \in 1 .. Len(store) : store[j].key \in Keys
  <2>1. \A j \in 1 .. Len(store) : store[j] \in StoredType
    BY <1>1, ElementOfSeq
  <2> QED BY <2>1 DEF StoredType
<1>3. \A j \in Keys : kv[j].second \in Nat \cup {-1}
  BY <1>1 DEF EntryType
<1>4. /\ kv[k].second # -1 => p = kv[k].second
      /\ kv[k].second = -1 => p = 0 \/ p = Len(store)
  BY <1>1, PresentEntry DEF DeletedSlot, NewEntry
<1>5. \A j \in lost : j \in Keys /\ latest[j] # Absent /\ kv[j].second = 0 /\ ~store[1].flag
  BY DEF IInv, Types, LostAtZero
<1>6. ASSUME NEW j \in Keys \ {k}, latest[j] # Absent
      PROVE  /\ kv[j].second + 1 \in 1 .. Len(t)
             /\ t[kv[j].second + 1].key = j
             /\ t[kv[j].second + 1].val = latest[j]
             /\ t[kv[j].second + 1].flag \/ j \in g
  <2>1. /\ kv[j].second + 1 \in 1 .. Len(store)
        /\ store[kv[j].second + 1].key = j
        /\ store[kv[j].second + 1].val = latest[j]
        /\ store[kv[j].second + 1].flag \/ j \in lost
    BY <1>6 DEF IInv, EntryNamesRecord
  <2>2. CASE p # kv[j].second
    BY <1>1, <1>3, <2>1, <2>2
  <2>3. CASE p = kv[j].second
    <3>1. p # Len(store)
      BY <1>1, <1>3, <2>1, <2>3
    <3>2. kv[k].second # -1 => kv[k].second = 0
      <4>1. latest[k] # Absent => store[kv[k].second + 1].key = k
        BY DEF IInv, EntryNamesRecord
      <4>2. kv[k].second # -1 => latest[k] = Absent
        BY <1>4, <2>1, <2>3, <4>1
      <4> QED BY <4>2 DEF IInv, Revived
    <3>3. p = 0 /\ p = DeletedSlot(k) /\ g = lost \cup InSlot0(k)
      BY <1>4, <3>1, <3>2
    <3>4. 0 < Len(store) /\ store[1].key = j /\ (store[1].flag \/ j \in lost)
      BY <1>1, <2>1, <2>3, <3>3
    <3>5. store[1].flag => j \in InSlot0(k)
      BY <3>3, <3>4 DEF InSlot0, Slot
    <3> QED BY <1>1, <2>1, <3>3, <3>4, <3>5
  <2> QED BY <2>2, <2>3
<1>7. ASSUME NEW j \in g
      PROVE  j \in Keys /\ (j # k => latest[j] # Absent /\ kv[j].second = 0 /\ ~t[1].flag)
  <2>1. CASE j \in lost
    <3>1. j # k => 1 \in 1 .. Len(store)
      BY <1>1, <1>5, <1>6, <2>1
    <3> QED BY <1>1, <1>5, <2>1, <3>1
  <2>2. CASE j \in InSlot0(k) /\ p = DeletedSlot(k)
    BY <1>1, <2>2, InSlot0Facts
  <2> QED BY <2>1, <2>2
<1>8. ASSUME NEW n \in 1 .. Len(t), t[n].flag
      PROVE  t[n].key \in Keys \ {k} /\ kv[t[n].key].second + 1 = n /\ latest[t[n].key] = t[n].val
  <2>1. n \in 1 .. Len(store) /\ store[n].flag /\ n # p + 1
    BY <1>1, <1>8
  <2>2. kv[store[n].key].second + 1 = n /\ latest[store[n].key] = store[n].val
    BY <2>1 DEF IInv, ValidIsCurrent
  <2>3. store[n].key # k
    BY <1>1, <1>3, <1>4, <2>1, <2>2
  <2> QED BY <1>1, <1>2, <2>1, <2>2, <2>3
<1> QED BY <1>6, <1>7, <1>8 DEF RecordsLeft

LEMMA DeleteStep ==
  ASSUME IInv, NEW c \in Clients, Delete(c)
  PROVE  IInv'
<1> DEFINE k == cmd[c][2]
           p == DeletedSlot(k)
<1>1. /\ cmd[c] # << >> /\ Is(c, "del") /\ Answer(c, Ok)
      /\ store' = Expire(store, p)
      /\ latest' = [latest EXCEPT ![k] = Absent]
      /\ lost' = (lost \cup InSlot0(k)) \ {k}
      /\ UNCHANGED <<cache, cache_index, file_size, mapped, uses>>
  BY DEF Delete, Is
<1>2. PICK d \in Deletions(kv, cache_element, k) : kv' = d[1] /\ cache_element' = d[2]
  BY DEF Delete
<1>3. /\ k \in Keys /\ kv \in [Keys -> EntryType] /\ cache_element \in [CacheSlots -> Iterators]
      /\ store \in Seq(StoredType) /\ latest \in [Keys -> Values \cup {Absent}]
      /\ Linked(kv, cache_element)
  BY <1>1, CommandFacts DEF IInv, Types, IndexTypes, FileTypes
<1>4. p \in Nat
  <2>1. Present(kv, k) <=> kv[k].second # -1
    BY <1>3, PresentEntry
  <2>2. kv[k].second \in Nat \cup {-1}
    BY <1>3 DEF EntryType
  <2> QED BY <2>1, <2>2 DEF DeletedSlot, NewEntry
<1>a. p = DeletedSlot(k)
  OBVIOUS
<1> HIDE DEF p
<1>5. RecordExpired(store, store', p)
  BY <1>1, <1>3, <1>4, ExpireFacts
<1>6. RecordsLeft(k, store', lost \cup InSlot0(k))
  BY <1>3, <1>4, <1>5, <1>a, ExpiryFacts
<1>7. KeyErased(kv, k, d)
  BY <1>2, <1>3, DeletionFacts
<1>8. /\ kv' \in [Keys -> EntryType] /\ cache_element' \in [CacheSlots -> Iterators]
      /\ Linked(kv', cache_element')
      /\ kv'[k].second = -1
      /\ \A j \in Keys \ {k} : kv'[j].second = kv[j].second /\ kv'[j].first \in {kv[j].first, -1}
  BY <1>2, <1>7 DEF KeyErased, NoEntry
<1>9. latest'[k] = Absent /\ \A j \in Keys \ {k} : latest'[j] = latest[j]
  BY <1>1, <1>3
<1>10. Types'
  <2>1. ClientTypes'
    BY <1>1, AnswerTypes DEF IInv
  <2>2. IndexTypes'
    BY <1>1, <1>8 DEF IInv, Types, IndexTypes
  <2>3. FileTypes'
    BY <1>1, <1>5 DEF IInv, Types, FileTypes, RecordExpired
  <2>4. latest' \in [Keys -> Values \cup {Absent}]
    BY <1>1, <1>3
  <2>5. lost' \subseteq Keys
    BY <1>1, <1>6 DEF RecordsLeft
  <2> QED BY <2>1, <2>2, <2>3, <2>4, <2>5 DEF Types
<1>11. Linked(kv, cache_element)' /\ CachedIsCurrent'
  BY <1>1, <1>8, <1>9 DEF IInv, CachedIsCurrent
<1>12. EntryNamesRecord' /\ LostAtZero' /\ ValidIsCurrent'
  BY <1>1, <1>6, <1>8, <1>9 DEF RecordsLeft, EntryNamesRecord, LostAtZero, ValidIsCurrent
<1>13. Revived'
  BY <1>1, <1>8, <1>9 DEF IInv, Revived, Apart
<1>14. KnowsItsKeys'
  BY <1>1, <1>9, OthersKnow DEF IInv
<1>15. EntriesInFile'
  <2>1. Len(store') = Len(store) /\ Len(store) \in Nat
    BY <1>3, <1>5, LenProperties DEF RecordExpired
  <2>2. \A b \in Clients : exists'[b] => 0 < Len(store')
    BY <1>1, <2>1, NoneExists DEF IInv
  <2> QED BY <1>8, <2>1, <2>2 DEF IInv, EntriesInFile
<1> QED BY <1>10, <1>11, <1>12, <1>13, <1>14, <1>15 DEF IInv

LEMMA SetStep ==
  ASSUME IInv, NEW c \in Clients, Set(c)
  PROVE  IInv'
<1> DEFINE k == cmd[c][2]
           v == cmd[c][3]
           n == Len(store)
           r == [key |-> k, val |-> v, flag |-> TRUE]
           t == IF Present(kv, k) THEN Expire(store, kv[k].second) ELSE store
           p == IF Present(kv, k) THEN kv[k].second ELSE n
           q == [first |-> -1, second |-> n]
           g == IF Present(kv, k) THEN lost \cup InSlot0(k) ELSE lost
<1>1. /\ cmd[c] # << >> /\ Is(c, "set") /\ Answer(c, Ok)
      /\ store' = Append(t, r)
      /\ latest' = [latest EXCEPT ![k] = v]
      /\ lost' = g \ {k}
      /\ UNCHANGED <<cache, cache_index, uses>>
      /\ \/ n < file_size /\ UNCHANGED <<file_size, mapped>>
         \/ n = file_size /\ file_size' = 2 * file_size /\ mapped' = TRUE
  BY DEF Set, Is, ResizedFileSize
<1>2. PICK d \in IF Present(kv, k) THEN Deletions(kv, cache_element, k) ELSE {<<kv, cache_element>>} :
        kv' = [d[1] EXCEPT ![k] = q] /\ cache_element' = d[2]
  BY DEF Set, NextSlot
<1>3. /\ k \in Keys /\ v \in Values
      /\ kv \in [Keys -> EntryType] /\ cache_element \in [CacheSlots -> Iterators]
      /\ store \in Seq(StoredType) /\ n \in Nat
      /\ file_size \in Nat \ {0} /\ n <= file_size
      /\ latest \in [Keys -> Values \cup {Absent}]
      /\ Linked(kv, cache_element)
  BY <1>1, CommandFacts, LenProperties DEF IInv, Types, IndexTypes, FileTypes
<1>4. Present(kv, k) <=> kv[k].second # -1
  BY <1>3, PresentEntry
<1>5. p \in Nat /\ RecordExpired(store, t, p)
  <2>1. kv[k].second \in Nat \cup {-1}
    BY <1>3 DEF EntryType
  <2>2. CASE Present(kv, k)
    BY <1>3, <1>4, <2>1, <2>2, ExpireFacts
  <2>3. CASE ~Present(kv, k)
    BY <1>3, <2>3 DEF RecordExpired
  <2> QED BY <2>2, <2>3
<1>6. RecordsLeft(k, t, g)
  <2>1. \/ p = DeletedSlot(k) /\ g = lost \cup InSlot0(k)
        \/ kv[k].second = -1 /\ p = n /\ g = lost
    BY <1>4 DEF DeletedSlot
  <2> HIDE DEF t, p, g
  <2> QED BY <1>3, <1>5, <2>1, ExpiryFacts
<1>7. KeyErased(kv, k, d)
  <2>1. CASE Present(kv, k)
    BY <1>2, <1>3, <2>1, DeletionFacts
  <2>2. CASE ~Present(kv, k)
    <3>1. d[1] = kv /\ d[2] = cache_element
      BY <1>2, <2>2
    <3> QED BY <1>3, <2>2, <3>1 DEF KeyErased, Present
  <2> QED BY <2>1, <2>2
<1>8. r \in StoredType /\ r.key = k /\ r.val = v /\ r.flag
  BY <1>3 DEF StoredType
<1>9. q \in EntryType /\ q.first = -1 /\ q.second = n
  BY <1>3 DEF EntryType
<1> HIDE DEF t, p, r, q, g
<1>10. /\ kv' \in [Keys -> EntryType] /\ cache_element' \in [CacheSlots -> Iterators]
       /\ kv'[k] = q
       /\ \A j \in Keys \ {k} : kv'[j].second = kv[j].second /\ kv'[j].first \in {kv[j].first, -1}
  <2>1. d[1] \in [Keys -> EntryType] /\ d[2] \in [CacheSlots -> Iterators]
    BY <1>7 DEF KeyErased
  <2> QED BY <1>2, <1>3, <1>7, <1>9, <2>1 DEF KeyErased
<1>11. Linked(kv, cache_element)'
  <2>1. d[1] \in [Keys -> EntryType]
    BY <1>7 DEF KeyErased
  <2> QED BY <1>2, <1>3, <1>7, <1>9, <2>1 DEF KeyErased, Linked
<1>12. /\ store' \in Seq(StoredType) /\ Len(store') = n + 1
       /\ \A i \in 1 .. n : store'[i] = t[i]
       /\ store'[n + 1] = r
       /\ Len(t) = n
  <2>1. t \in Seq(StoredType) /\ Len(t) = n
    BY <1>5 DEF RecordExpired
  <2> QED BY <1>1, <1>8, <2>1, AppendProperties
<1>13. latest'[k] = v /\ v # Absent /\ \A j \in Keys \ {k} : latest'[j] = latest[j]
  BY <1>1, <1>3, KVIndexAssumption
<1>14. Types'
  <2>1. ClientTypes'
    BY <1>1, AnswerTypes DEF IInv
  <2>2. IndexTypes'
    BY <1>1, <1>10 DEF IInv, Types, IndexTypes
  <2>3. FileTypes'
    <3>1. CASE n < file_size /\ UNCHANGED <<file_size, mapped>>
      BY <1>3, <1>12, <3>1 DEF IInv, Types, FileTypes
    <3>2. CASE n = file_size /\ file_size' = 2 * file_size /\ mapped' = TRUE
      <4>1. file_size' \in Nat \ {0} /\ n + 1 <= file_size'
        BY <1>3, <3>2
      <4> QED BY <1>12, <3>2, <4>1 DEF FileTypes
    <3> QED BY <1>1, <3>1, <3>2
  <2>4. latest' \in [Keys -> Values \cup {Absent}]
    BY <1>1, <1>3
  <2>5. lost' \subseteq Keys
    BY <1>1, <1>6 DEF RecordsLeft
  <2> QED BY <2>1, <2>2, <2>3, <2>4, <2>5 DEF Types
<1>15. CachedIsCurrent'
  BY <1>1, <1>9, <1>10, <1>13 DEF IInv, CachedIsCurrent
<1>16. EntryNamesRecord'
  <2> SUFFICES ASSUME NEW j \in Keys, latest'[j] # Absent
               PROVE  /\ kv'[j].second + 1 \in 1 .. n + 1
                      /\ store'[kv'[j].second + 1].key = j
                      /\ store'[kv'[j].second + 1].val = latest'[j]
                      /\ store'[kv'[j].second + 1].flag \/ j \in lost'
    BY <1>12 DEF EntryNamesRecord
  <2>1. CASE j = k
    BY <1>3, <1>8, <1>9, <1>10, <1>12, <1>13, <2>1
  <2>2. CASE j # k
    <3>1. /\ kv[j].second + 1 \in 1 .. n
          /\ t[kv[j].second + 1].key = j
          /\ t[kv[j].second + 1].val = latest[j]
          /\ t[kv[j].second + 1].flag \/ j \in lost'
      BY <1>1, <1>6, <1>12, <1>13, <2>2 DEF RecordsLeft
    <3> QED BY <1>3, <1>10, <1>12, <1>13, <2>2, <3>1
  <2> QED BY <2>1, <2>2
<1>17. ValidIsCurrent'
  <2> SUFFICES ASSUME NEW i \in 1 .. n + 1, store'[i].flag
               PROVE  /\ kv'[store'[i].key].second + 1 = i
                      /\ latest'[store'[i].key] = store'[i].val
    BY <1>12 DEF ValidIsCurrent
  <2>1. CASE i = n + 1
    BY <1>8, <1>9, <1>10, <1>12, <1>13, <2>1
  <2>2. CASE i # n + 1
    <3>1. i \in 1 .. n /\ store'[i] = t[i]
      BY <1>3, <1>12, <2>2
    <3> QED BY <1>6, <1>10, <1>12, <1>13, <3>1 DEF RecordsLeft
  <2> QED BY <2>1, <2>2
<1>18. Revived'
  BY <1>1, <1>10, <1>13 DEF IInv, Revived, Apart
<1>19. KnowsItsKeys'
  BY <1>1, <1>13, OthersKnow DEF IInv
<1>20. LostAtZero'
  <2> SUFFICES ASSUME NEW j \in g \ {k}
               PROVE  latest'[j] # Absent /\ kv'[j].second = 0 /\ ~store'[1].flag
    BY <1>1 DEF LostAtZero
  <2>1. j \in Keys \ {k} /\ latest[j] # Absent /\ kv[j].second = 0 /\ ~t[1].flag
    BY <1>6 DEF RecordsLeft
  <2>2. 1 \in 1 .. n
    <3>1. kv[j].second + 1 \in 1 .. n
      BY <1>6, <1>12, <2>1 DEF RecordsLeft
    <3> QED BY <2>1, <3>1
  <2> QED BY <1>10, <1>12, <1>13, <2>1, <2>2
<1>21. EntriesInFile'
  <2>1. \A b \in Clients : exists'[b] => 0 < Len(store')
    BY <1>1, <1>3, <1>12, NoneExists DEF IInv
  <2>2. \A j \in Keys : kv'[j].second < n + 1
    <3> SUFFICES ASSUME NEW j \in Keys PROVE kv'[j].second < n + 1
      OBVIOUS
    <3>1. CASE j = k
      BY <1>3, <1>9, <1>10, <3>1
    <3>2. CASE j # k
      <4>1. kv[j].second \in Nat \cup {-1} /\ kv[j].second < n
        BY <1>3 DEF EntryType, IInv, EntriesInFile
      <4> QED BY <1>3, <1>10, <3>2, <4>1
    <3> QED BY <3>1, <3>2
  <2> QED BY <1>12, <2>1, <2>2 DEF EntriesInFile
<1> QED BY <1>11, <1>14, <1>15, <1>16, <1>17, <1>18, <1>19, <1>20, <1>21 DEF IInv

\* Start builds the map from the valid records of the file.
LEMMA StartStep ==
  ASSUME IInv, NEW s \in Seq(StoredType), OneValid(s), Len(s) = Len(store), NEW g, Start(s, g),
         \A k \in Keys : StoredValue(s, k) = IF k \in g THEN Absent ELSE latest[k]
  PROVE  IInv'
<1>1. /\ store' = s /\ mapped' = TRUE
      /\ kv' = [k \in Keys |-> IF LastOf(s, k) = 0 THEN NoEntry
                               ELSE [first |-> -1, second |-> LastOf(s, k) - 1]]
      /\ cache' = [i \in CacheSlots |-> NoRecord] /\ cache_index' = -1
      /\ cache_element' = [i \in CacheSlots |-> End]
      /\ cmd' = [c \in Clients |-> << >>] /\ exists' = [c \in Clients |-> FALSE]
      /\ latest' = [k \in Keys |-> StoredValue(s, k)]
      /\ lost' = {}
      /\ UNCHANGED <<reply, uses>>
  BY DEF Start
<1>2. \A k \in Keys : LastOfIs(s, k, LastOf(s, k))
  BY LastOfFacts
<1>3. \A i \in 1 .. Len(s) : s[i].key \in Keys /\ s[i].val \in Values /\ s[i].val # Absent
  <2>1. \A i \in 1 .. Len(s) : s[i] \in StoredType
    BY ElementOfSeq
  <2> QED BY <2>1, KVIndexAssumption DEF StoredType
<1>4. Len(s) \in Nat
  BY LenProperties
<1>5. \A k \in Keys : LastOf(s, k) \in 0 .. Len(s)
  <2> SUFFICES ASSUME NEW k \in Keys PROVE LastOf(s, k) \in 0 .. Len(s)
    OBVIOUS
  <2>1. LastOfIs(s, k, LastOf(s, k))
    BY <1>2
  <2>2. LastOf(s, k) = 0 \/ LastOf(s, k) \in 1 .. Len(s)
    BY <2>1 DEF LastOfIs
  <2> QED BY <1>4, <2>2
<1>6. \A k \in Keys :
        /\ kv'[k].first = -1
        /\ kv'[k].second = LastOf(s, k) - 1
  BY <1>1, <1>5 DEF NoEntry
<1>7. \A k \in Keys : /\ latest'[k] \in Values \cup {Absent}
                      /\ latest'[k] = Absent <=> LastOf(s, k) = 0
                      /\ LastOf(s, k) # 0 => latest'[k] = s[LastOf(s, k)].val
  BY <1>1, <1>2, <1>3 DEF StoredValue, LastOfIs
<1>8. IndexTypes'
  <2>1. kv' \in [Keys -> EntryType]
    <3>1. \A k \in Keys : LastOf(s, k) # 0 => LastOf(s, k) - 1 \in Nat
      BY <1>5
    <3> QED BY <1>1, <3>1 DEF EntryType, NoEntry
  <2>2. cache' \in [CacheSlots -> RecordType] /\ cache_element' \in [CacheSlots -> Iterators]
    BY <1>1 DEF RecordType, NoRecord, Iterators
  <2> QED BY <1>1, <2>1, <2>2 DEF IndexTypes
<1>9. FileTypes'
  <2>1. file_size' \in {file_size, 2 * file_size} /\ file_size \in Nat \ {0} /\ Len(s) <= file_size
    BY DEF Start, IInv, Types, FileTypes
  <2>2. file_size' \in Nat \ {0} /\ Len(s) <= file_size'
    BY <1>4, <2>1
  <2> QED BY <1>1, <2>2 DEF FileTypes
<1>10. ClientTypes'
  BY <1>1 DEF IInv, Types, ClientTypes, CommandType
<1>11. Types'
  <2>1. latest' \in [Keys -> Values \cup {Absent}]
    BY <1>1, <1>7
  <2> QED BY <1>1, <1>8, <1>9, <1>10, <2>1 DEF Types
<1>12. Linked(kv, cache_element)' /\ CachedIsCurrent'
  BY <1>6 DEF Linked, CachedIsCurrent
<1>13. EntryNamesRecord'
  <2> SUFFICES ASSUME NEW k \in Keys, latest'[k] # Absent
               PROVE  /\ LastOf(s, k) - 1 + 1 = LastOf(s, k)
                      /\ LastOf(s, k) \in 1 .. Len(s)
                      /\ s[LastOf(s, k)].key = k /\ s[LastOf(s, k)].val = latest'[k]
                      /\ s[LastOf(s, k)].flag
    BY <1>1, <1>6 DEF EntryNamesRecord
  <2> QED BY <1>2, <1>5, <1>7 DEF LastOfIs
<1>14. ValidIsCurrent'
  <2> SUFFICES ASSUME NEW i \in 1 .. Len(s), s[i].flag
               PROVE  kv'[s[i].key].second + 1 = i /\ latest'[s[i].key] = s[i].val
    BY <1>1 DEF ValidIsCurrent
  <2>1. LastOf(s, s[i].key) = i /\ i # 0
    BY <1>2, <1>3 DEF LastOfIs
  <2> QED BY <1>3, <1>4, <1>6, <1>7, <2>1
<1>15. Revived'
  BY <1>6, <1>7 DEF Revived
<1>16. KnowsItsKeys'
  BY <1>1 DEF KnowsItsKeys, Is
<1>17. LostAtZero' /\ EntriesInFile'
  <2>0. \A n \in 0 .. Len(s) : n - 1 < Len(s)
    BY <1>4
  <2>1. \A k \in Keys : LastOf(s, k) - 1 < Len(s)
    BY <1>5, <2>0
  <2> QED BY <1>1, <1>6, <2>1 DEF LostAtZero, EntriesInFile
<1> QED BY <1>11, <1>12, <1>13, <1>14, <1>15, <1>16, <1>17 DEF IInv

\* What Start finds of the keys after one was deleted, or in the file as it is.
LEMMA StoredLeft ==
  ASSUME IInv, NEW k, NEW g, NEW t \in Seq(StoredType), OneValid(t), Len(t) = Len(store),
         RecordsLeft(k, t, g), NEW j \in Keys
  PROVE  StoredValue(t, j) = IF j = k \/ j \in g THEN Absent ELSE latest[j]
<1> DEFINE n == LastOf(t, j)
<1>1. LastOfIs(t, j, n) /\ Len(t) \in Nat
  BY LastOfFacts, LenProperties
<1> HIDE DEF n
<1>2. CASE n # 0
  <2>1. n \in 1 .. Len(t) /\ t[n].flag /\ t[n].key = j
    BY <1>1, <1>2 DEF LastOfIs
  <2>2. j # k /\ kv[j].second + 1 = n /\ latest[j] = t[n].val
    BY <2>1 DEF RecordsLeft
  <2>3. j \notin g
    BY <2>1, <2>2 DEF RecordsLeft
  <2> QED BY <1>2, <2>2, <2>3 DEF StoredValue, n
<1>3. CASE n = 0
  <2>1. StoredValue(t, j) = Absent
    BY <1>3 DEF StoredValue, n
  <2>2. \A i \in 1 .. Len(t) : ~(t[i].flag /\ t[i].key = j)
    BY <1>1, <1>3 DEF LastOfIs
  <2>3. j # k /\ latest[j] # Absent => j \in g
    BY <2>2 DEF RecordsLeft
  <2> QED BY <2>1, <2>3
<1> QED BY <1>2, <1>3

LEMMA StoredValueOf ==
  ASSUME IInv, NEW j \in Keys
  PROVE  StoredValue(store, j) = IF j \in lost THEN Absent ELSE latest[j]
<1>1. store \in Seq(StoredType) /\ OneValid(store)
  BY DEF IInv, Types, FileTypes, ValidIsCurrent, OneValid
<1>2. \A i \in 1 .. Len(store) : store[i].key \in Keys
  <2>1. \A i \in 1 .. Len(store) : store[i] \in StoredType
    BY <1>1, ElementOfSeq
  <2> QED BY <2>1 DEF StoredType
<1>3. NoKey \notin Keys
  BY KVIndexAssumption
<1>4. RecordsLeft(NoKey, store, lost)
  <2>1. lost \subseteq Keys
    BY DEF IInv, Types
  <2> QED BY <1>2, <1>3, <2>1 DEF RecordsLeft, IInv, EntryNamesRecord, LostAtZero, ValidIsCurrent
<1> QED BY <1>1, <1>3, <1>4, StoredLeft

LEMMA CrashStep ==
  ASSUME IInv, Crash
  PROVE  IInv'
<1>1. store \in Seq(StoredType) /\ OneValid(store)
  BY DEF IInv, Types, FileTypes, ValidIsCurrent, OneValid
<1> QED BY <1>1, StoredValueOf, StartStep DEF Crash

LEMMA CrashInSetStep ==
  ASSUME IInv, NEW c \in Clients, CrashInSet(c)
  PROVE  IInv'
<1> DEFINE k == cmd[c][2]
           s == Expire(store, kv[k].second)
           g == lost \cup {k} \cup InSlot0(k)
<1>1. Start(s, g) /\ cmd[c] # << >> /\ Present(kv, k)
  BY DEF CrashInSet, Is
<1>2. k \in Keys /\ store \in Seq(StoredType) /\ kv \in [Keys -> EntryType]
  BY <1>1, CommandFacts DEF IInv, Types, IndexTypes, FileTypes
<1>3. kv[k].second \in Nat
  <2>1. kv[k].second \in Nat \cup {-1}
    BY <1>2 DEF EntryType
  <2> QED BY <1>1, <1>2, <2>1, PresentEntry
<1>4. RecordExpired(store, s, kv[k].second)
  BY <1>2, <1>3, ExpireFacts
<1>5. s \in Seq(StoredType) /\ Len(s) = Len(store) /\ OneValid(s)
  <2>1. OneValid(store)
    BY DEF IInv, ValidIsCurrent, OneValid
  <2> QED BY <1>4, <2>1 DEF RecordExpired, OneValid
<1>6. RecordsLeft(k, s, lost \cup InSlot0(k))
  BY <1>1, <1>2, <1>3, <1>4, ExpiryFacts DEF DeletedSlot
<1> HIDE DEF s
<1>7. \A j \in Keys : StoredValue(s, j) = IF j \in g THEN Absent ELSE latest[j]
  BY <1>5, <1>6, StoredLeft
<1> QED BY <1>1, <1>5, <1>7, StartStep

\* The inductive invariant holds in every reachable state.
THEOREM Invariant == Spec => []IInv
<1>1. IInv /\ [Next]_vars => IInv'
  <2> SUFFICES ASSUME IInv, [Next]_vars PROVE IInv'
    OBVIOUS
  <2>1. ASSUME NEW c \in Clients, Work(c) PROVE IInv'
    BY <2>1, ExistStep, GetStep, DeleteStep, SetStep, ResizeFailsStep DEF Work
  <2>2. ASSUME NEW c \in Clients, NEW x \in Commands(c), Call(c, x) PROVE IInv'
    BY <2>2, CallStep
  <2>3. ASSUME NEW c \in Clients, CrashInSet(c) PROVE IInv'
    BY <2>3, CrashInSetStep
  <2> QED BY <2>1, <2>2, <2>3, CrashStep, StutterStep DEF Next
<1> QED BY InitIInv, <1>1, PTL DEF Spec

-----------------------------------------------------------------------------
(* The properties *)

\* The variables keep their types; an entry names a record of the file.
THEOREM TypeCorrect == Spec => []TypeOK
<1>1. IInv => TypeOK
  <2> SUFFICES ASSUME IInv PROVE TypeOK
    OBVIOUS
  <2> USE DEF IInv
  <2>0. store \in Seq(StoredType) /\ Len(store) \in Nat
    BY LenProperties DEF Types, FileTypes
  <2>1. ASSUME NEW k \in Keys
        PROVE  \/ kv[k] = NoEntry
               \/ kv[k] \in [first : CacheSlots \cup {-1}, second : 0 .. Len(store) - 1]
    <3>1. kv[k] \in EntryType /\ kv[k].second < Len(store)
      BY DEF Types, IndexTypes, EntriesInFile
    <3>2. CASE kv[k].second = -1
      BY <3>1, <3>2 DEF EntryType, NoEntry
    <3>3. CASE kv[k].second # -1
      <4>1. kv[k].second \in 0 .. Len(store) - 1
        BY <2>0, <3>1, <3>3 DEF EntryType
      <4> QED BY <3>1, <4>1 DEF EntryType
    <3> QED BY <3>2, <3>3
  <2>2. \A i \in DOMAIN store : store[i] \in RecordType
    <3>2. \A i \in DOMAIN store : store[i] \in StoredType
      BY <2>0, LenProperties
    <3> QED BY <3>2 DEF StoredType, RecordType
  <2> QED BY <2>1, <2>2 DEF TypeOK, Types, IndexTypes, FileTypes, ClientTypes, Iterators
<1> QED BY Invariant, <1>1, PTL

\* The cached record of a key that is set is its own, current one.
THEOREM CacheAgrees == Spec => []CacheCoherent
<1>1. IInv => CacheCoherent
  BY DEF IInv, CachedIsCurrent, CacheCoherent
<1> QED BY Invariant, <1>1, PTL

\* Start finds in the file the keys that are set, with their values, but for the
\* one whose record another key's delete expired.
THEOREM FileRecovers == Spec => []Recoverable
<1>1. IInv => Recoverable
  <2> SUFFICES ASSUME IInv PROVE Recoverable
    OBVIOUS
  <2>1. store \in Seq(StoredType)
    BY DEF IInv, Types, FileTypes
  <2>2. DOMAIN store = 1 .. Len(store)
    BY <2>1, LenProperties
  <2>3. \A i, j \in DOMAIN store :
          store[i].flag /\ store[j].flag /\ store[i].key = store[j].key => i = j
    BY <2>2 DEF IInv, ValidIsCurrent
  <2>4. \A k \in lost : latest[k] # Absent /\ kv[k].second = 0
    BY DEF IInv, LostAtZero
  <2> QED BY <2>3, <2>4, StoredValueOf DEF Recoverable
<1> QED BY Invariant, <1>1, PTL

LEMMA PresentOf ==
  ASSUME IInv, NEW k \in Keys
  PROVE  /\ latest[k] # Absent => Present(kv, k)
         /\ latest[k] = Absent /\ Present(kv, k) => kv[k].second = 0 /\ ~Apart
<1>1. kv \in [Keys -> EntryType]
  BY DEF IInv, Types, IndexTypes
<1>2. Present(kv, k) <=> kv[k].second # -1
  BY <1>1, PresentEntry
<1>3. latest[k] # Absent => kv[k].second # -1
  BY DEF IInv, EntryNamesRecord
<1> QED BY <1>2, <1>3 DEF IInv, Revived

\* Only a key deleted between an Exist and a Get has an entry though it is not
\* set, and this entry names slot 0.
THEOREM EntriesOfSetKeys == Spec => []OnlySlot0Revived
<1>1. IInv => OnlySlot0Revived
  <2> SUFFICES ASSUME IInv, NEW k \in Keys
               PROVE  /\ latest[k] = Absent /\ Present(kv, k) => kv[k].second = 0 /\ ~Apart
                      /\ latest[k] # Absent =>
                           /\ Present(kv, k)
                           /\ \A j \in Keys \ {k} : latest[j] # Absent => kv[j].second # kv[k].second
    BY DEF OnlySlot0Revived
  <2>1. \A j \in Keys : latest[j] # Absent => store[kv[j].second + 1].key = j
    BY DEF IInv, EntryNamesRecord
  <2> QED BY <2>1, PresentOf
<1> QED BY Invariant, <1>1, PTL

-----------------------------------------------------------------------------
(* A client with keys of its own sees a map. *)

MapOf(f) == [k \in Keys |-> IF k \in ItsKeys THEN f[k] ELSE Absent]

\* What the file holds of the keys.
Left == [k \in Keys |-> IF k \in lost THEN Absent ELSE latest[k]]

\* Where no client uses another one's keys, what a client sees are the values
\* its keys should have, and the file keeps them but for the lost one.
LEMMA MapIsLatest == IInv => Seen = MapOf(latest) /\ Kept = MapOf(Left)
<1> SUFFICES ASSUME IInv PROVE Seen = MapOf(latest) /\ Kept = MapOf(Left)
  OBVIOUS
<1>1. ASSUME NEW k \in Keys, Apart
      PROVE  ValueOf(k) = latest[k] /\ StoredValue(store, k) = Left[k]
  <2>1. StoredValue(store, k) = Left[k]
    BY StoredValueOf DEF Left
  <2>2. CASE latest[k] = Absent
    <3>1. ~Present(kv, k)
      BY <1>1, <2>2, PresentOf
    <3> QED BY <2>1, <2>2, <3>1 DEF ValueOf
  <2>3. CASE latest[k] # Absent
    <3>1. Present(kv, k)
      BY <2>3, PresentOf
    <3>2. store \in Seq(StoredType) /\ kv[k] \in EntryType
      BY DEF IInv, Types, IndexTypes, FileTypes
    <3>3. kv[k].second + 1 \in 1 .. Len(store) /\ store[kv[k].second + 1].val = latest[k]
      BY <2>3 DEF IInv, EntryNamesRecord
    <3>4. kv[k].second < Len(store)
      <4>1. kv[k].second \in Nat \cup {-1} /\ Len(store) \in Nat
        BY <3>2, LenProperties DEF EntryType
      <4> QED BY <3>3, <4>1
    <3> QED BY <2>1, <3>1, <3>3, <3>4 DEF ValueOf, Slot
  <2> QED BY <2>2, <2>3
<1>2. \A k \in ItsKeys : k \in Keys => Apart
  BY DEF ItsKeys
<1> QED BY <1>1, <1>2 DEF MapOf, Seen, Kept

LEMMA MapBefore ==
  ASSUME IInv, IInv'
  PROVE  /\ Seen = MapOf(latest) /\ Kept = MapOf(Left)
         /\ Seen' = MapOf(latest)' /\ Kept' = MapOf(Left)'
<1>1. (Seen = MapOf(latest) /\ Kept = MapOf(Left))'
  BY MapIsLatest, PTL
<1> QED BY <1>1, MapIsLatest

LEMMA TheClientIsOne == TheClient \in Clients
BY KVIndexAssumption DEF TheClient

\* What the client sees of its keys follows latest, what the file keeps of them
\* follows Left.
LEMMA SeenKept ==
  ASSUME IInv, IInv', UNCHANGED uses,
         \A k \in Keys : Apart /\ k \in uses[TheClient] => latest'[k] = latest[k]
  PROVE  UNCHANGED Seen
<1>1. Apart' = Apart /\ ItsKeys' = ItsKeys
  BY DEF Apart, ItsKeys
<1>2. MapOf(latest)' = MapOf(latest)
  BY <1>1 DEF MapOf, ItsKeys
<1> QED BY <1>2, MapBefore

LEMMA KeptKept ==
  ASSUME IInv, IInv', UNCHANGED uses,
         \A k \in Keys : Apart /\ k \in uses[TheClient] => Left'[k] = Left[k]
  PROVE  UNCHANGED Kept
<1>1. Apart' = Apart /\ ItsKeys' = ItsKeys
  BY DEF Apart, ItsKeys
<1>2. MapOf(Left)' = MapOf(Left)
  BY <1>1 DEF MapOf, ItsKeys
<1> QED BY <1>2, MapBefore

LEMMA MapKept ==
  ASSUME IInv, IInv', UNCHANGED <<uses, history>>
  PROVE  UNCHANGED <<Seen, Kept>>
BY SeenKept, KeptKept DEF history, Left

\* One of them changes.
LEMMA SeenChanged ==
  ASSUME IInv, IInv', UNCHANGED uses, Apart, NEW k \in uses[TheClient], NEW v, latest'[k] = v,
         \A j \in Keys : j # k => latest'[j] = latest[j]
  PROVE  Seen' = [Seen EXCEPT ![k] = v]
<1>1. Apart' = Apart /\ ItsKeys' = ItsKeys /\ k \in ItsKeys
  BY DEF Apart, ItsKeys
<1>2. MapOf(latest)' = [MapOf(latest) EXCEPT ![k] = v]
  BY <1>1 DEF MapOf
<1> QED BY <1>2, MapBefore

LEMMA KeptChanged ==
  ASSUME IInv, IInv', UNCHANGED uses, Apart, NEW k \in uses[TheClient], NEW v, Left'[k] = v,
         \A j \in Keys : j # k => Left'[j] = Left[j]
  PROVE  Kept' = [Kept EXCEPT ![k] = v]
<1>1. Apart' = Apart /\ ItsKeys' = ItsKeys /\ k \in ItsKeys
  BY DEF Apart, ItsKeys
<1>2. MapOf(Left)' = [MapOf(Left) EXCEPT ![k] = v]
  BY <1>1 DEF MapOf
<1> QED BY <1>2, MapBefore

\* Where no client uses another one's keys, an entry is that of a key that is
\* set.
LEMMA PresentApart ==
  ASSUME IInv, Apart, NEW k \in Keys, Present(kv, k)
  PROVE  latest[k] # Absent /\ InSlot0(k) = {}
BY PresentOf, NoneInSlot0

\* A delete of an absent key takes at most one other key out of the file.
LEMMA FileForgets ==
  ASSUME IInv, IInv', UNCHANGED <<uses, latest>>, NEW k \in Keys, latest[k] = Absent,
         lost' = (lost \cup InSlot0(k)) \ {k}
  PROVE  Kept' \in Map!Forgotten
<1>0. k \notin lost
  BY DEF IInv, LostAtZero
<1>1. CASE InSlot0(k) = {}
  <2>1. lost' = lost
    BY <1>0, <1>1
  <2>2. UNCHANGED Kept
    BY <2>1, KeptKept DEF Left
  <2> QED BY <2>2 DEF Map!Forgotten
<1>2. ASSUME NEW j \in InSlot0(k)
      PROVE  Kept' \in Map!Forgotten
  <2>1. j \in Keys \ {k} /\ InSlot0(k) = {j} /\ lost = {} /\ lost' = {j}
    BY <1>2, InSlot0Facts
  <2>2. Left = latest /\ \A i \in Keys : Left'[i] = IF i = j THEN Absent ELSE Left[i]
    BY <2>1 DEF Left, IInv, Types
  <2>3. CASE Apart /\ j \in uses[TheClient]
    <3>1. Kept' = [Kept EXCEPT ![j] = Absent]
      BY <2>1, <2>2, <2>3, KeptChanged
    <3>2. Kept = Seen
      BY <2>2, MapBefore
    <3> QED BY <2>1, <3>1, <3>2 DEF Map!Forgotten
  <2>4. CASE ~(Apart /\ j \in uses[TheClient])
    <3>1. UNCHANGED Kept
      BY <2>2, <2>4, KeptKept
    <3> QED BY <3>1 DEF Map!Forgotten
  <2> QED BY <2>3, <2>4
<1> QED BY <1>1, <1>2

\* The command of another client is answered.
LEMMA OtherAnswered ==
  ASSUME Types, NEW c \in Clients, NEW x, Answer(c, x), UNCHANGED uses, c # TheClient \/ ~Apart
  PROVE  UNCHANGED <<Pending, Replied>>
BY TheClientIsOne DEF Answer, Pending, Replied, Apart, Types, ClientTypes

LEMMA ItsAnswer ==
  ASSUME Types, NEW x, Answer(TheClient, x), UNCHANGED uses, Apart
  PROVE  Pending = cmd[TheClient] /\ Pending' = << >> /\ Replied' = x
BY TheClientIsOne DEF Answer, Pending, Replied, Apart, Types, ClientTypes

LEMMA CommandForm ==
  ASSUME Types, NEW c \in Clients, cmd[c] # << >>
  PROVE  /\ Is(c, "get") \/ Is(c, "set") \/ Is(c, "del")
         /\ Is(c, "del") => cmd[c][3] = Absent
<1>1. cmd[c] \in Commands(c)
  BY DEF Types, ClientTypes
<1> QED BY <1>1 DEF Commands, Is

\* The command of the client takes effect: a get.
LEMMA MapGet ==
  ASSUME IInv, IInv', UNCHANGED <<uses, history>>, Apart, NEW x, Is(TheClient, "get"),
         Answer(TheClient, x),
         x = IF latest[cmd[TheClient][2]] = Absent THEN Null ELSE latest[cmd[TheClient][2]]
  PROVE  Map!Apply
<1> DEFINE p == cmd[TheClient]
           k == p[2]
<1>1. k \in uses[TheClient] /\ k \in Keys /\ p[1] = "get" /\ p # << >>
  BY TheClientIsOne, CommandFacts DEF IInv, Is
<1>2. Pending = p /\ Pending' = << >> /\ Replied' = x
  BY ItsAnswer DEF IInv
<1>3. UNCHANGED <<Seen, Kept>>
  BY MapKept
<1>4. Seen[k] = latest[k]
  BY <1>1, MapBefore DEF MapOf, ItsKeys
<1> QED BY <1>1, <1>2, <1>3, <1>4 DEF Map!Apply, Map!Answer, Map!Effect

\* A set or a delete.
LEMMA MapSet ==
  ASSUME IInv, IInv', UNCHANGED uses, Apart, cmd[TheClient] # << >>, Answer(TheClient, Ok),
         Is(TheClient, "set") \/ Is(TheClient, "del"),
         latest' = [latest EXCEPT ![cmd[TheClient][2]] = cmd[TheClient][3]],
         lost' = lost \ {cmd[TheClient][2]}
  PROVE  Map!Apply
<1> DEFINE p == cmd[TheClient]
           k == p[2]
<1>1. k \in uses[TheClient] /\ k \in Keys
  BY TheClientIsOne, CommandFacts DEF IInv
<1>2. p # << >> /\ Pending = p /\ Pending' = << >> /\ Replied' = Ok
  BY ItsAnswer DEF IInv
<1>3. latest \in [Keys -> Values \cup {Absent}]
  BY DEF IInv, Types
<1>4. /\ p[1] \in {"set", "del"}
      /\ latest'[k] = p[3] /\ \A j \in Keys : j # k => latest'[j] = latest[j]
  BY <1>1, <1>3 DEF Is
<1>5. Left'[k] = p[3] /\ \A j \in Keys : j # k => Left'[j] = Left[j]
  BY <1>1, <1>4 DEF Left
<1>6. Seen' = [Seen EXCEPT ![k] = p[3]] /\ Kept' = [Kept EXCEPT ![k] = p[3]]
  BY <1>1, <1>4, <1>5, SeenChanged, KeptChanged
<1> HIDE DEF p
<1> QED BY <1>2, <1>4, <1>6 DEF Map!Apply, Map!Answer, Map!Effect

\* A delete of a key that is not there.
LEMMA MapDeleteAbsent ==
  ASSUME IInv, IInv', UNCHANGED uses, Apart, Is(TheClient, "del"), Answer(TheClient, Ok),
         latest[cmd[TheClient][2]] = Absent,
         latest' = [latest EXCEPT ![cmd[TheClient][2]] = Absent],
         lost' = (lost \cup InSlot0(cmd[TheClient][2])) \ {cmd[TheClient][2]}
  PROVE  Map!Apply
<1> DEFINE p == cmd[TheClient]
           k == p[2]
<1>1. /\ k \in uses[TheClient] /\ k \in Keys /\ p # << >> /\ p[1] = "del" /\ p[3] = Absent
  BY TheClientIsOne, CommandFacts, CommandForm DEF IInv, Is
<1>2. Pending = p /\ Pending' = << >> /\ Replied' = Ok
  BY ItsAnswer DEF IInv, Is
<1>3. UNCHANGED latest
  BY <1>1 DEF IInv, Types
<1>4. Kept' \in Map!Forgotten
  BY <1>1, <1>3, FileForgets
<1>5. UNCHANGED Seen /\ Seen[k] = Absent
  BY <1>1, <1>3, SeenKept, MapBefore DEF MapOf, ItsKeys
<1>6. [Seen EXCEPT ![k] = Absent] = Seen
  BY <1>5 DEF Seen
<1> QED BY <1>1, <1>2, <1>4, <1>5, <1>6 DEF Map!Apply, Map!Answer, Map!Effect

\* The steps of other clients, and of clients that share keys.
LEMMA MapOther ==
  ASSUME IInv, IInv', NEW c \in Clients, c # TheClient \/ ~Apart,
         Work(c) \/ \E x \in Commands(c) : Call(c, x)
  PROVE  [Map!MapNext]_Map!mapVars
<1>1. UNCHANGED uses
  BY DEF Work, Exist, Get, Delete, Set, SetResizeFails, Call
<1>2. UNCHANGED <<Pending, Replied>>
  <2>1. CASE UNCHANGED <<cmd, reply>>
    BY <1>1, <2>1 DEF Pending, Replied, Apart
  <2>2. CASE \E x : Answer(c, x)
    BY <1>1, <2>2, OtherAnswered DEF IInv
  <2>3. ASSUME NEW x, Call(c, x)
        PROVE  UNCHANGED <<Pending, Replied>>
    BY <1>1, <2>3, TheClientIsOne DEF Call, Pending, Replied, Apart, IInv, Types, ClientTypes
  <2>4. Work(c) => UNCHANGED <<cmd, reply>> \/ \E x : Answer(c, x)
    BY DEF Work, Exist, Get, Delete, Set, SetResizeFails
  <2> QED BY <2>1, <2>2, <2>3, <2>4
<1>3. CASE UNCHANGED history \/ ~Apart
  <2>1. CASE UNCHANGED history
    BY <1>1, <1>2, <2>1, MapKept DEF Map!mapVars
  <2>2. CASE ~Apart
    <3>1. UNCHANGED <<Seen, Kept>>
      BY <1>1, <2>2, SeenKept, KeptKept
    <3> QED BY <1>2, <3>1 DEF Map!mapVars
  <2> QED BY <1>3, <2>1, <2>2
<1>4. ASSUME Apart, Delete(c) \/ Set(c)
      PROVE  [Map!MapNext]_Map!mapVars
  <2> DEFINE k == cmd[c][2]
  <2>1. cmd[c] # << >> /\ c # TheClient
    BY <1>4 DEF Delete, Set, Is
  <2>2. k \in Keys /\ k \notin uses[TheClient]
    BY <1>4, <2>1, CommandFacts, TheClientIsOne DEF Apart, IInv
  <2>3. \A j \in Keys : j \in uses[TheClient] => latest'[j] = latest[j]
    BY <1>4, <2>2 DEF Delete, Set, IInv, Types
  <2>4. UNCHANGED Seen
    BY <1>1, <2>3, SeenKept
  <2>5. CASE lost' = lost \ {k}
    <3>1. UNCHANGED Kept
      BY <1>1, <2>2, <2>3, <2>5, KeptKept DEF Left
    <3> QED BY <1>2, <2>4, <3>1 DEF Map!mapVars
  <2>6. CASE Delete(c) /\ ~Present(kv, k)
    <3>1. latest[k] = Absent /\ lost' = (lost \cup InSlot0(k)) \ {k}
          /\ latest' = [latest EXCEPT ![k] = Absent]
      BY <2>2, <2>6, PresentOf DEF Delete
    <3>2. UNCHANGED latest
      BY <2>2, <3>1 DEF IInv, Types
    <3>3. Kept' \in Map!Forgotten
      BY <1>1, <2>2, <3>1, <3>2, FileForgets
    <3> QED BY <1>2, <2>4, <3>3 DEF Map!Forget, Map!MapNext
  <2>7. ~(Delete(c) /\ ~Present(kv, k)) => lost' = lost \ {k}
    <3>1. Present(kv, k) => InSlot0(k) = {}
      BY <1>4, <2>2, PresentApart
    <3>2. (lost \cup {}) \ {k} = lost \ {k}
      OBVIOUS
    <3> QED BY <1>4, <3>1, <3>2 DEF Delete, Set
  <2> QED BY <2>5, <2>6, <2>7
<1>5. ~(Delete(c) \/ Set(c)) => UNCHANGED history
  BY DEF Work, Exist, Get, SetResizeFails, Call
<1> QED BY <1>3, <1>4, <1>5

\* The steps of the client itself.
LEMMA MapOwn ==
  ASSUME IInv, IInv', Apart, NEW c \in Clients, c = TheClient,
         Work(c) \/ \E x \in Commands(c) : Call(c, x)
  PROVE  [Map!MapNext]_Map!mapVars
<1> DEFINE k == cmd[c][2]
<1>1. UNCHANGED uses
  BY DEF Work, Exist, Get, Delete, Set, SetResizeFails, Call
<1>2. ASSUME NEW x \in Commands(c), Call(c, x)
      PROVE  Map!MapNext
  <2>1. Pending = << >> /\ Pending' = x /\ Replied' = << >>
    BY <1>1, <1>2 DEF Call, Pending, Replied, Apart, IInv, Types, ClientTypes
  <2>2. UNCHANGED <<Seen, Kept>>
    BY <1>1, <1>2, MapKept DEF Call
  <2>3. x \in Map!Commands
    BY DEF Commands, Map!Commands, IInv, Types, ClientTypes
  <2> QED BY <2>1, <2>2, <2>3 DEF Map!MapNext, Map!Invoke
<1>3. CASE Exist(c)
  <2>1. cmd[c] # << >> /\ k \in Keys /\ Is(c, "get") /\ UNCHANGED history
    BY <1>3, CommandFacts DEF Exist, Is, IInv
  <2>2. CASE ~Present(kv, k)
    <3>1. latest[k] = Absent
      BY <2>1, <2>2, PresentOf
    <3> QED BY <1>1, <1>3, <2>1, <2>2, <3>1, MapGet DEF Exist, Map!MapNext
  <2>3. CASE Present(kv, k)
    <3>1. UNCHANGED <<cmd, reply>>
      BY <1>3, <2>3 DEF Exist
    <3>2. UNCHANGED <<Seen, Kept>>
      BY <1>1, <2>1, MapKept
    <3> QED BY <1>1, <3>1, <3>2 DEF Map!mapVars, Pending, Replied, Apart
  <2> QED BY <2>2, <2>3
<1>4. CASE Get(c)
  <2>1. cmd[c] # << >> /\ k \in Keys /\ Is(c, "get") /\ exists[c] /\ UNCHANGED history
    BY <1>4, CommandFacts DEF Get, Is, IInv
  <2>2. latest[k] # Absent
    BY <2>1 DEF IInv, KnowsItsKeys
  <2>3. Present(kv, k)
    BY <2>1, <2>2, PresentOf
  <2>4. Answer(c, IF kv[k].first # -1 THEN cache[kv[k].first].val ELSE Slot(kv[k].second).val)
    BY <1>4, <2>3 DEF Get
  <2>5. Slot(kv[k].second).val = latest[k]
    <3>1. store \in Seq(StoredType) /\ kv[k] \in EntryType
      BY <2>1 DEF IInv, Types, IndexTypes, FileTypes
    <3>2. kv[k].second \in Nat \cup {-1} /\ Len(store) \in Nat
      BY <3>1, LenProperties DEF EntryType
    <3>3. kv[k].second + 1 \in 1 .. Len(store) /\ store[kv[k].second + 1].val = latest[k]
      BY <2>1, <2>2 DEF IInv, EntryNamesRecord
    <3> QED BY <3>2, <3>3 DEF Slot
  <2>6. kv[k].first # -1 => cache[kv[k].first].val = latest[k]
    BY <2>1, <2>2 DEF IInv, CachedIsCurrent
  <2>7. Answer(c, latest[k])
    BY <2>4, <2>5, <2>6
  <2> QED BY <1>1, <2>1, <2>2, <2>7, MapGet DEF Map!MapNext
<1>5. CASE Delete(c)
  <2>1. /\ cmd[c] # << >> /\ Is(c, "del") /\ Answer(c, Ok) /\ k \in Keys
        /\ latest' = [latest EXCEPT ![k] = Absent]
        /\ lost' = (lost \cup InSlot0(k)) \ {k}
    BY <1>5, CommandFacts DEF Delete, Is, IInv
  <2>2. cmd[c][3] = Absent
    BY <2>1, CommandForm DEF IInv
  <2>3. CASE latest[k] = Absent
    BY <1>1, <2>1, <2>3, MapDeleteAbsent DEF Map!MapNext
  <2>4. CASE latest[k] # Absent
    <3>1. lost' = lost \ {k}
      BY <2>1, <2>4, NoneInSlot0
    <3> QED BY <1>1, <2>1, <2>2, <3>1, MapSet DEF Map!MapNext
  <2> QED BY <2>3, <2>4
<1>6. CASE Set(c)
  <2>1. /\ cmd[c] # << >> /\ Is(c, "set") /\ Answer(c, Ok) /\ k \in Keys
        /\ latest' = [latest EXCEPT ![k] = cmd[c][3]]
        /\ lost' = (IF Present(kv, k) THEN lost \cup InSlot0(k) ELSE lost) \ {k}
    BY <1>6, CommandFacts DEF Set, Is, IInv
  <2>2. lost' = lost \ {k}
    BY <2>1, PresentApart
  <2> QED BY <1>1, <2>1, <2>2, MapSet DEF Map!MapNext
<1>7. CASE SetResizeFails(c)
  <2>1. cmd[c] # << >> /\ Is(c, "set") /\ Answer(c, Error) /\ UNCHANGED history
    BY <1>7 DEF SetResizeFails, Is
  <2>2. Pending = cmd[c] /\ Pending' = << >> /\ Replied' = Error
    BY <1>1, <2>1, ItsAnswer DEF IInv
  <2>3. UNCHANGED <<Seen, Kept>>
    BY <1>1, <2>1, MapKept
  <2> QED BY <2>1, <2>2, <2>3 DEF Is, Map!Refuse, Map!MapNext
<1> QED BY <1>2, <1>3, <1>4, <1>5, <1>6, <1>7 DEF Work

\* After a crash between two methods the client finds what the file kept.
LEMMA MapCrash ==
  ASSUME IInv, IInv', Crash
  PROVE  [Map!MapNext]_Map!mapVars
<1>1. /\ UNCHANGED <<uses, reply>> /\ cmd' = [c \in Clients |-> << >>]
      /\ latest' = Left /\ lost' = {}
  BY DEF Crash, Start, Left
<1>2. Left' = latest'
  BY <1>1 DEF Left
<1>3. Apart' = Apart /\ ItsKeys' = ItsKeys
  BY <1>1 DEF Apart, ItsKeys
<1>4. MapOf(latest)' = MapOf(Left) /\ MapOf(Left)' = MapOf(Left)
  BY <1>1, <1>2, <1>3 DEF MapOf
<1>5. Seen' = Kept' /\ Kept' = Kept
  BY <1>4, MapBefore
<1>6. Pending' = << >> /\ Replied' = Replied
  BY <1>1, TheClientIsOne DEF Pending, Replied, Apart
<1> QED BY <1>5, <1>6 DEF Map!MapNext, Map!Crash

\* A crash inside Set costs the key of the set its value, and no other key.
LEMMA MapCrashInSet ==
  ASSUME IInv, IInv', NEW c \in Clients, CrashInSet(c)
  PROVE  [Map!MapNext]_Map!mapVars
<1> DEFINE k == cmd[c][2]
           g == lost \cup {k} \cup InSlot0(k)
<1>1. /\ cmd[c] # << >> /\ Is(c, "set") /\ Present(kv, k)
      /\ UNCHANGED <<uses, reply>> /\ cmd' = [d \in Clients |-> << >>]
      /\ latest' = [j \in Keys |-> IF j \in g THEN Absent ELSE latest[j]] /\ lost' = {}
  BY DEF CrashInSet, Start, Is
<1>2. k \in Keys /\ k \in uses[c]
  BY <1>1, CommandFacts DEF IInv
<1>3. Pending' = << >> /\ Replied' = Replied
  BY <1>1, TheClientIsOne DEF Pending, Replied, Apart
<1>4. Left' = latest'
  BY <1>1 DEF Left
<1>5. Apart' = Apart /\ ItsKeys' = ItsKeys
  BY <1>1 DEF Apart, ItsKeys
<1>6. Apart => latest' = [j \in Keys |-> IF j = k THEN Absent ELSE Left[j]]
  <2>1. Apart => g = lost \cup {k}
    BY <1>1, <1>2, PresentApart
  <2> QED BY <1>1, <2>1 DEF Left
<1>7. Seen' = Kept'
  BY <1>4, MapBefore DEF MapOf
<1>8. CASE Apart /\ c = TheClient
  <2>1. MapOf(Left)' = [MapOf(Left) EXCEPT ![k] = Absent]
    BY <1>4, <1>5, <1>6, <1>8 DEF MapOf
  <2>2. Kept' = [Kept EXCEPT ![k] = Absent]
    BY <2>1, MapBefore
  <2>3. Pending = cmd[c] /\ Pending # << >> /\ Pending[1] = "set" /\ Pending[2] = k
    BY <1>1, <1>8 DEF Pending, Is
  <2> QED BY <1>3, <1>7, <2>2, <2>3 DEF Map!MapNext, Map!Crash
<1>9. CASE ~(Apart /\ c = TheClient)
  <2>1. Apart => k \notin uses[TheClient]
    BY <1>2, <1>9, TheClientIsOne DEF Apart
  <2>2. \A j \in Keys : Apart /\ j \in uses[TheClient] => Left'[j] = Left[j]
    BY <1>4, <1>6, <2>1
  <2>3. UNCHANGED Kept
    BY <1>1, <2>2, KeptKept
  <2> QED BY <1>3, <1>7, <2>3 DEF Map!MapNext, Map!Crash
<1> QED BY <1>8, <1>9

\* A client whose keys no other client uses sees a key-value map, whatever it and
\* the others delete and wherever the process dies: what the file may lose is in
\* Forgotten and Crash of KVMap.
THEOREM Refinement == Spec => ImplementsMap
<1>1. Init => Map!MapInit
  <2> SUFFICES ASSUME Init PROVE Map!MapInit
    OBVIOUS
  <2>1. Seen = [k \in Keys |-> Absent] /\ Kept = [k \in Keys |-> Absent]
    <3>1. IInv
      BY InitIInv
    <3>2. Seen = MapOf(latest) /\ Kept = MapOf(Left)
      BY <3>1, MapIsLatest
    <3>3. MapOf(latest) = [k \in Keys |-> Absent] /\ MapOf(Left) = [k \in Keys |-> Absent]
      BY DEF Init, MapOf, Left
    <3> QED BY <3>2, <3>3
  <2>2. Pending = << >> /\ Replied = Ok
    BY TheClientIsOne DEF Init, Pending, Replied
  <2> QED BY <2>1, <2>2 DEF Map!MapInit
<1>2. IInv /\ IInv' /\ [Next]_vars => [Map!MapNext]_Map!mapVars
  <2> SUFFICES ASSUME IInv, IInv', [Next]_vars PROVE [Map!MapNext]_Map!mapVars
    OBVIOUS
  <2>1. ASSUME NEW c \in Clients, Work(c) \/ \E x \in Commands(c) : Call(c, x)
        PROVE  [Map!MapNext]_Map!mapVars
    BY <2>1, MapOther, MapOwn
  <2>2. ASSUME NEW c \in Clients, CrashInSet(c)
        PROVE  [Map!MapNext]_Map!mapVars
    BY <2>2, MapCrashInSet
  <2>3. CASE UNCHANGED vars
    <3>1. UNCHANGED <<Seen, Kept>>
      BY <2>3, MapKept DEF vars
    <3> QED BY <2>3, <3>1 DEF vars, Map!mapVars, Pending, Replied, Apart
  <2> QED BY <2>1, <2>2, <2>3, MapCrash DEF Next
<1> QED BY Invariant, <1>1, <1>2, PTL DEF Spec, ImplementsMap, Map!MapSpec
=============================================================================
