------------------------- MODULE SimpleKVStoreProofs -------------------------
(***************************************************************************)
(* What a store of any size keeps, for every number of keys, values,       *)
(* files, writes, failed appends and crashes, and for every interleaving   *)
(* of diskIO with the rebuildFile threads: its types and the bounds of its *)
(* arrays; which keys have an index entry; that the active file can be     *)
(* written unless the process died between the two writes to manFile or    *)
(* two threads rebuilt one DataNode; and, before the first fault, crash or *)
(* such clash, that the index says of every key what its last record in    *)
(* the active file says.  And that it is a key-value map where the code    *)
(* can be one.                                                             *)
(*                                                                         *)
(* Presence talks of the index alone, but what a restart puts there is     *)
(* what manFile, KVDBFile and the records say: the invariant follows the   *)
(* three through check() (FilesInOrder), keeps the DataNode of the active  *)
(* file (ActiveApart, RebuildsBehind) and the new one of a compaction      *)
(* (NewApart) out of the hands of other threads, and counts the DataNodes, *)
(* so that each new one is not in use (NodesCounted).  Undeleted says when *)
(* a deleted DataNode, whose memory and descriptor number may be another   *)
(* one's by then, is used by nobody: as long as no two threads rebuild the *)
(* same one.                                                               *)
(*                                                                         *)
(* FreshestWins needs more: that no other DataNode and no other name leads *)
(* to the inode of the active file (InodeApart), so that every record in   *)
(* it is one diskIO appended, and that the index follows the file record   *)
(* by record (LogIndexed).                                                 *)
(*                                                                         *)
(* The last part shows that the store is the key-value map of KVMap, under *)
(* the conditions named there (MapConditions, Prompt).  MapInv says which  *)
(* DataNodes and inodes a file has and that no other has them, how far a   *)
(* compaction has copied its file (Copying), that the index names the      *)
(* place of the one record of each key that is set (Current, EntriesLead), *)
(* and so that a reader and a restart find the same records.  Prompt makes *)
(* every thread rebuild a file of its own, so that nothing clashes.        *)
(***************************************************************************)
EXTENDS SimpleKVStore, FiniteSetTheorems, SequenceTheorems, TLAPS

WriteSteps == {"check", "manNum", "manName", "append", "finish", "index"}
Writes == ({"set"} \X Keys \X Values) \cup ({"del"} \X Keys \X {Deleted})
Gets == {"get"} \X Keys \X {Deleted}
Records == {TornRecord} \cup [key : Keys, val : Values \cup {Deleted}]
DataNode == [inode : Inodes \cup {None}, totalOffset : Nat,
             fd : {"none", "open", "closed", "freed"}, pos : Nat]
IoState == [pc : WriteSteps \cup {"ready", "lookup", "seek", "read"},
            cmd : Writes \cup Gets \cup {<< >>}, node : 0 .. 2 * MAXFILE, offset : Nat]
RebuildSteps == {"seek", "read", "seekEnd", "write", "cas", "swap"}
RebuildState == [pc : RebuildSteps \cup {"idle", "start", "rename", "reopen", "free", "done"},
                 slot : 0 .. MAXFILE - 1, old : 0 .. 2 * MAXFILE, new : 0 .. 2 * MAXFILE,
                 offset : Nat, rec : Records, newOffset : Nat]

NodeTypes ==
  /\ node \in [Nodes -> DataNode]
  /\ \A n \in Nodes : /\ node[n].fd = "none" => node[n] = NoNode
                      /\ node[n].fd = "open" => node[n].inode \in Inodes

DiskTypes ==
  /\ disk \in [Inodes -> Seq(Records)]
  /\ dir \in [Files -> Inodes \cup {None}]
  /\ tmp \in [Files -> Inodes \cup {None}]
  /\ \A f \in 1 .. fileNum : dir[f] \in Inodes

IoTypes ==
  /\ io \in IoState
  /\ io.pc \in WriteSteps => io.cmd \in Writes
  /\ io.pc = "lookup" => io.cmd \in Gets
  /\ io.pc \in {"finish", "index"} => io.node \in Nodes

IndexTypes ==
  /\ index \in [Keys -> (Nodes \X Nat) \cup {None}]
  /\ latest = [k \in Keys |-> latest[k]]

ListTypes ==
  /\ OFFLIMIT \in DOMAIN Bounds
  /\ fileNum \in 0 .. MAXFILE
  /\ fileList \in [Files -> 0 .. 2 * MAXFILE]
  /\ manifest \in [num : 0 .. MAXFILE, names : 0 .. MAXFILE]
  /\ reb \in [Rebuilds -> RebuildState]

\* The process died between the two writes to manFile: the last file has no
\* name, and nothing is ever appended to its DataNode.
HalfManifest ==
  /\ fileNum > 0
  /\ manifest.num = fileNum /\ manifest.names = fileNum - 1
  /\ node[Active].fd = "closed" /\ node[Active].totalOffset = 0
  /\ io.pc \notin {"manNum", "manName", "finish", "index"}
  /\ \A r \in Rebuilds : reb[r].pc = "idle"

\* How far check() has come with the files and manFile.
FilesInOrder ==
  \/ HalfManifest
  \/ /\ fileNum > 0 => IsOpen(Active) \/ clashed
     /\ \/ io.pc = "manNum" /\ fileNum > 0 /\ manifest.num = fileNum - 1 /\ manifest.names = fileNum - 1
        \/ io.pc = "manName" /\ fileNum > 0 /\ manifest.num = fileNum /\ manifest.names = fileNum - 1
        \/ io.pc \notin {"manNum", "manName"} /\ manifest.num = fileNum /\ manifest.names = fileNum

Running(r) == reb[r].pc \notin {"idle", "start", "done"}

\* check() has a free place in fileList, and the appending goes to the active file.
AppendsToActive ==
  /\ io.pc = "check" /\ NeedsFile => fileNum < MAXFILE
  /\ io.pc \in {"manNum", "manName", "append", "finish"} => fileNum > 0
  /\ io.pc = "finish" => io.node = Active

\* The files have DataNodes, and that of the active file is no other's.
ActiveApart ==
  /\ \A f \in 1 .. fileNum : fileList[f] \in Nodes /\ node[fileList[f]].fd # "none"
  /\ \A f \in 1 .. fileNum - 1 : fileList[f] # Active

\* A rebuildFile thread works on files before the active one ...
RebuildsBehind ==
  \A r \in Rebuilds :
    /\ reb[r].pc # "idle" => r < fileNum
    /\ reb[r].pc # "idle" /\ io.pc \in {"manNum", "manName"} => r < fileNum - 1
    /\ Running(r) =>
         /\ reb[r].slot \in 1 .. fileNum - 1
         /\ reb[r].old \in Nodes /\ reb[r].old # Active /\ node[reb[r].old].fd # "none"
         /\ reb[r].new \in Nodes /\ reb[r].new # Active /\ node[reb[r].new].fd # "none"

\* ... and nobody else writes to its new DataNode before it is in fileList.
NewApart ==
  \A r \in Rebuilds : reb[r].pc \in RebuildSteps =>
    /\ \A f \in 1 .. fileNum : fileList[f] # reb[r].new
    /\ \A q \in Rebuilds : Running(q) =>
         /\ reb[q].old # reb[r].new
         /\ q # r => reb[q].new # reb[r].new
    /\ reb[r].pc = "cas" => node[reb[r].new].totalOffset > 0

\* While no two threads rebuild one DataNode, no DataNode is used after its delete:
\* a thread takes its old one out of fileList before it deletes it.
Undeleted ==
  ~clashed =>
    /\ \A f \in 1 .. fileNum : node[fileList[f]].fd # "freed"
    /\ \A f, g \in 1 .. fileNum : fileList[f] = fileList[g] => f = g
    /\ \A r \in Rebuilds : Running(r) =>
         /\ node[reb[r].old].fd # "freed"
         /\ \A q \in Rebuilds : Running(q) /\ reb[q].old = reb[r].old => q = r
         /\ \/ /\ reb[r].pc \in RebuildSteps
               /\ fileList[reb[r].slot] = reb[r].old
               /\ node[reb[r].new].fd # "freed"
            \/ /\ reb[r].pc \notin RebuildSteps
               /\ \A f \in 1 .. fileNum : fileList[f] # reb[r].old

\* A DataNode is allocated for a file or by a rebuildFile thread.
Allocated == {n \in Nodes : node[n].fd # "none"}
Started == {r \in Rebuilds : reb[r].pc \notin {"idle", "start"}}
NodesCounted == Cardinality(Allocated) <= fileNum + Cardinality(Started)

Types == ListTypes /\ NodeTypes /\ DiskTypes /\ IoTypes /\ IndexTypes
IInv == /\ Types /\ FilesInOrder /\ AppendsToActive /\ ActiveApart /\ RebuildsBehind
        /\ NewApart /\ Undeleted /\ NodesCounted /\ Presence

-----------------------------------------------------------------------------
\* Least of a set of numbers that is not empty is its least element.
LEMMA LeastIsMember ==
  ASSUME NEW S \in SUBSET Nat, S # {}
  PROVE  Least(S) \in S /\ \A y \in S : Least(S) <= y
<1>1. IsWellFoundedOn(OpToRel(<, Nat), Nat)
  BY NatLessThanWellFounded
<1>2. PICK m \in S : \A n \in S : <<n, m>> \notin OpToRel(<, Nat)
  BY <1>1, WFMin
<1>3. \A n \in S : ~(n < m)
  BY <1>2 DEF OpToRel
<1>4. \E x \in S : \A y \in S : x <= y
  BY <1>3
<1> QED BY <1>4 DEF Least

\* A subset of an interval is finite and no larger than the interval.
LEMMA CardinalityBound ==
  ASSUME NEW n \in Nat, NEW S, S \subseteq 1 .. n
  PROVE  IsFiniteSet(S) /\ Cardinality(S) \in 0 .. n
<1>1. IsFiniteSet(1 .. n) /\ Cardinality(1 .. n) = n
  BY FS_Interval
<1>2. S \in SUBSET (1 .. n)
  OBVIOUS
<1>3. IsFiniteSet(S) /\ Cardinality(S) <= Cardinality(1 .. n)
  BY <1>1, <1>2, FS_Subset
<1>4. Cardinality(S) \in Nat
  BY <1>3, FS_CardinalityType
<1> QED BY <1>1, <1>3, <1>4

LEMMA InitIInv == Init => IInv
<1> SUFFICES ASSUME Init PROVE IInv
  OBVIOUS
<1> USE StoreAssumption DEF Init, Files, Nodes, Inodes, Rebuilds, NoNode, IdleIo, IdleRebuild
<1>1. Types
  BY DEF Types, ListTypes, NodeTypes, DiskTypes, IoTypes, IndexTypes, DataNode, IoState,
         RebuildState, Records, WriteSteps
<1>2. NodesCounted
  <2>1. Allocated = {} /\ Started = {}
    BY DEF Allocated, Started
  <2> QED BY <2>1, FS_EmptySet DEF NodesCounted
<1>3. FilesInOrder /\ AppendsToActive /\ ActiveApart /\ RebuildsBehind /\ NewApart /\ Undeleted
  BY DEF FilesInOrder, AppendsToActive, ActiveApart, RebuildsBehind, NewApart, Undeleted,
         RebuildSteps, Running
<1> QED BY <1>1, <1>2, <1>3 DEF IInv, Presence

-----------------------------------------------------------------------------
(* The diskIO thread *)

\* What a step of diskIO outside of check() has to respect.
DescriptorsKept ==
  \A n \in Nodes : /\ node'[n].fd = node[n].fd
                   /\ node'[n].totalOffset >= node[n].totalOffset

\* Such a step keeps what is said of files, DataNodes and threads.
LEMMA DiskIOStep ==
  ASSUME IInv, NodeTypes', DescriptorsKept,
         UNCHANGED <<OFFLIMIT, fileNum, fileList, manifest, reb, clashed>>,
         {io.pc, io'.pc} \cap {"manNum", "manName"} = {},
         io'.pc \in {"finish", "index"} => IsOpen(Active),
         fileNum > 0 /\ ~IsOpen(Active) => node'[Active].totalOffset = node[Active].totalOffset
  PROVE  (FilesInOrder /\ ActiveApart /\ RebuildsBehind /\ NewApart /\ Undeleted /\ NodesCounted)'
<1> USE DEF IInv
<1>1. FilesInOrder'
  <2>1. CASE HalfManifest
    <3>1. node[Active].fd = "closed"
      BY <2>1 DEF HalfManifest
    <3>2. ~IsOpen(Active)
      BY <3>1 DEF IsOpen
    <3>3. Active \in Nodes
      BY <2>1 DEF HalfManifest, ActiveApart, Active, Types, ListTypes
    <3> QED BY <2>1, <3>2, <3>3 DEF FilesInOrder, HalfManifest, Active, DescriptorsKept
  <2>2. CASE ~HalfManifest
    <3>1. fileNum > 0 => IsOpen(Active) \/ clashed
      BY <2>2 DEF FilesInOrder
    <3>2. fileNum > 0 => IsOpen(Active)' \/ clashed'
      <4>1. fileNum > 0 => Active \in Nodes
        BY DEF ActiveApart, Active, Types, ListTypes
      <4> QED BY <3>1, <4>1 DEF IsOpen, Active, DescriptorsKept
    <3> QED BY <2>2, <3>2 DEF FilesInOrder
  <2> QED BY <2>1, <2>2
<1>2. ActiveApart' /\ RebuildsBehind'
  BY DEF ActiveApart, RebuildsBehind, Active, DescriptorsKept, Running
<1>3. NewApart'
  <2>1. \A r \in Rebuilds : reb[r].pc = "cas" => reb[r].new \in Nodes
    BY DEF RebuildsBehind, Running
  <2>2. \A n \in Nodes : node[n].totalOffset \in Nat /\ node'[n].totalOffset \in Nat
    BY DEF Types, NodeTypes, DataNode
  <2> QED BY <2>1, <2>2 DEF NewApart, DescriptorsKept, Running
<1>4. NodesCounted'
  <2>1. Allocated' = Allocated /\ Started' = Started
    BY DEF Allocated, Started, DescriptorsKept
  <2> QED BY <2>1 DEF NodesCounted
<1>5. Undeleted'
  <2>1. \A f \in 1 .. fileNum : fileList[f] \in Nodes
    BY DEF ActiveApart
  <2>2. \A r \in Rebuilds : Running(r) => reb[r].old \in Nodes /\ reb[r].new \in Nodes
    BY DEF RebuildsBehind
  <2> QED BY <2>1, <2>2 DEF Undeleted, Running, DescriptorsKept
<1> QED BY <1>1, <1>2, <1>3, <1>4, <1>5

\* A step that leaves index and latest alone keeps Presence.
LEMMA PresenceKept ==
  ASSUME IInv, UNCHANGED <<index, latest>>
  PROVE  IndexTypes' /\ Presence'
BY DEF IInv, Types, IndexTypes, Presence

\* The steps that change no file and no index entry.
LEMMA QuietStep ==
  ASSUME IInv, IoTypes', NodeTypes',
         UNCHANGED <<mem, disk, dir, tmp, manifest, reb, latest, clashed>>,
         \A n \in Nodes : UNCHANGED <<node[n].fd, node[n].totalOffset>>,
         io.pc \notin {"manNum", "manName"},
         io'.pc \notin {"manNum", "manName", "finish", "index"},
         io'.pc = "check" /\ NeedsFile => fileNum < MAXFILE,
         io'.pc = "append" => fileNum > 0
  PROVE  IInv'
<1> USE DEF mem
<1>1. ListTypes' /\ DiskTypes'
  BY DEF IInv, Types, ListTypes, DiskTypes
<1>2. IndexTypes' /\ Presence'
  BY PresenceKept
<1>3. DescriptorsKept
  BY DEF DescriptorsKept, IInv, Types, NodeTypes, DataNode
<1>0. fileNum > 0 => Active \in Nodes
  BY DEF IInv, Types, ListTypes, ActiveApart, Active
<1>4. (FilesInOrder /\ ActiveApart /\ RebuildsBehind /\ NewApart /\ Undeleted /\ NodesCounted)'
  BY <1>0, <1>3, DiskIOStep DEF IInv, FilesInOrder
<1>5. AppendsToActive'
  BY <1>0 DEF IInv, AppendsToActive, NeedsFile, Active
<1> QED BY <1>1, <1>2, <1>4, <1>5 DEF IInv, Types

LEMMA CallWriteIInv ==
  ASSUME IInv, NEW cmd \in Writes, CallWrite(cmd) PROVE IInv'
<1> USE DEF IInv, CallWrite
<1>1. io' = [pc |-> "check", cmd |-> cmd, node |-> 0, offset |-> 0]
  BY DEF IdleIo
<1>2. IoTypes'
  BY <1>1, StoreAssumption DEF IoTypes, IoState, WriteSteps
<1>3. NodeTypes'
  BY DEF Types, NodeTypes
<1> QED BY <1>1, <1>2, <1>3, QuietStep

LEMMA CallGetIInv ==
  ASSUME IInv, NEW k \in Keys, CallGet(k) PROVE IInv'
<1> USE DEF IInv, CallGet
<1>1. io' = [pc |-> "lookup", cmd |-> <<"get", k, Deleted>>, node |-> 0, offset |-> 0]
  BY DEF IdleIo
<1>2. IoTypes'
  BY <1>1, StoreAssumption DEF IoTypes, IoState, WriteSteps, Gets
<1>3. NodeTypes'
  BY DEF Types, NodeTypes
<1> QED BY <1>1, <1>2, <1>3, QuietStep DEF counters

\* A command that comes to its end.
LEMMA Idle == io' = IdleIo => IoTypes' /\ io'.pc = "ready"
BY StoreAssumption DEF IoTypes, IoState, IdleIo, WriteSteps

\* The position a get copies out of the index.
LEMMA SeekTypes ==
  ASSUME IInv, NEW n \in Nodes, NEW o \in Nat,
         io' = [io EXCEPT !.pc = "seek", !.node = n, !.offset = o]
  PROVE  IoTypes' /\ io'.pc = "seek"
<1>1. n \in 0 .. 2 * MAXFILE
  BY StoreAssumption DEF Nodes
<1> QED BY <1>1 DEF IInv, Types, IoTypes, IoState, WriteSteps

LEMMA GetLookupIInv == ASSUME IInv, GetLookup PROVE IInv'
<1> DEFINE k == io.cmd[2]
<1> USE DEF IInv, GetLookup
<1>1. NodeTypes'
  BY DEF Types, NodeTypes
<1>2. CASE index[k] = None
  BY <1>1, <1>2, Idle, QuietStep DEF Finish, counters
<1>3. CASE index[k] # None
  <2>1. io' = [io EXCEPT !.pc = "seek", !.node = index[k][1], !.offset = index[k][2]]
    BY <1>3
  <2>2. k \in Keys
    <3>1. io.cmd \in Gets
      BY DEF Types, IoTypes
    <3> QED BY <3>1 DEF Gets
  <2>3. index[k][1] \in Nodes /\ index[k][2] \in Nat
    <3>1. index[k] \in Nodes \X Nat
      BY <2>2, <1>3 DEF Types, IndexTypes
    <3> QED BY <3>1
  <2>4. IoTypes' /\ io'.pc = "seek"
    BY <2>1, <2>3, SeekTypes
  <2> QED BY <1>1, <2>4, QuietStep DEF counters
<1> QED BY <1>2, <1>3

\* lseek moves the position of a descriptor, and nothing else.
LEMMA PosMoved ==
  ASSUME IInv, NEW n, NEW p \in Nat, node' = [node EXCEPT ![n].pos = p],
         n \in Nodes => IsOpen(n)
  PROVE  /\ NodeTypes'
         /\ \A m \in Nodes : UNCHANGED <<node[m].fd, node[m].totalOffset>>
BY DEF IInv, Types, NodeTypes, DataNode, IsOpen, NoNode

\* Whatever a DataNode stands for is a DataNode.
LEMMA StandsForNodes ==
  ASSUME NEW n \in Nodes
  PROVE  StandsFor(n) \subseteq Nodes /\ n \in StandsFor(n)
BY DEF StandsFor

LEMMA GetSeekIInv == ASSUME IInv, GetSeek PROVE IInv'
<1> USE DEF GetSeek
<1>1. ASSUME NEW n \in StandsFor(io.node), IsOpen(n),
             node' = [node EXCEPT ![n].pos = io.offset],
             io' = [io EXCEPT !.pc = "read", !.node = n]
      PROVE  IInv'
  <2>1. n \in 0 .. 2 * MAXFILE
    BY StoreAssumption DEF IInv, Types, IoTypes, IoState, StandsFor, Nodes
  <2>2. IoTypes' /\ io'.pc = "read" /\ io.offset \in Nat
    BY <1>1, <2>1 DEF IInv, Types, IoTypes, IoState, WriteSteps
  <2> QED BY <1>1, <2>2, PosMoved, QuietStep DEF mem, counters
<1>2. ASSUME io' = IdleIo, UNCHANGED node PROVE IInv'
  BY <1>2, Idle, QuietStep DEF IInv, Types, NodeTypes, counters
<1> QED BY <1>1, <1>2 DEF Finish

LEMMA GetReadIInv == ASSUME IInv, GetRead PROVE IInv'
<1> USE DEF GetRead
<1>1. io' = IdleIo
  BY DEF Finish
<1>2. ASSUME NEW n \in Nodes, IsOpen(n), node' = [node EXCEPT ![n].pos = node[n].pos + 1]
      PROVE  IInv'
  <2>1. node[n].pos + 1 \in Nat
    BY DEF IInv, Types, NodeTypes, DataNode
  <2> QED BY <1>1, <1>2, <2>1, Idle, PosMoved, QuietStep DEF counters
<1>3. ASSUME node' = node PROVE IInv'
  BY <1>1, <1>3, Idle, QuietStep DEF IInv, Types, NodeTypes, counters
<1>4. PICK n \in StandsFor(io.node) : node' = IF IsOpen(n) THEN [node EXCEPT ![n].pos = @ + 1] ELSE node
  OBVIOUS
<1>5. CASE IsOpen(n) /\ n \in Nodes
  BY <1>2, <1>4, <1>5
<1>6. CASE ~(IsOpen(n) /\ n \in Nodes)
  BY <1>3, <1>4, <1>6 DEF IInv, Types, NodeTypes
<1> QED BY <1>5, <1>6

LEMMA CheckSkipIInv == ASSUME IInv, CheckSkip PROVE IInv'
<1> USE DEF CheckSkip
<1>1. IoTypes' /\ io'.pc = "append"
  BY DEF IInv, Types, IoTypes, IoState, WriteSteps
<1> QED BY <1>1, QuietStep DEF IInv, Types, NodeTypes, NeedsFile, counters

LEMMA AppendFaultIInv == ASSUME IInv, AppendFault PROVE IInv'
<1> USE DEF AppendFault
<1> QED BY Idle, QuietStep DEF IInv, Types, NodeTypes, Finish

\* A file gets other records.
LEMMA FileWritten ==
  ASSUME IInv, NEW i \in Inodes, NEW s \in Seq(Records), disk' = [disk EXCEPT ![i] = s],
         UNCHANGED <<fileNum, dir, tmp>>
  PROVE  DiskTypes'
BY DEF IInv, Types, DiskTypes

\* A record written over another, or past the end of the sequence.
LEMMA Overwritten ==
  ASSUME NEW S, NEW s \in Seq(S), NEW i, NEW e \in S
  PROVE  [s EXCEPT ![i] = e] \in Seq(S)
<1>1. CASE i \in 1 .. Len(s)
  BY <1>1, ExceptSeq
<1>2. CASE i \notin 1 .. Len(s)
  <2>1. DOMAIN s = 1 .. Len(s) /\ s = [j \in 1 .. Len(s) |-> s[j]]
    BY LenProperties
  <2>2. [s EXCEPT ![i] = e] = s
    BY <1>2, <2>1
  <2> QED BY <2>2
<1> QED BY <1>1, <1>2

\* totalOffset changes, and the descriptors stay.
LEMMA OffsetMoved ==
  ASSUME IInv, NEW n \in Nodes, NEW t \in Nat, node' = [node EXCEPT ![n].totalOffset = t],
         node[n].fd # "none"
  PROVE  /\ NodeTypes'
         /\ node'[n].totalOffset = t
         /\ \A m \in Nodes : /\ node'[m].fd = node[m].fd
                             /\ m # n => node'[m] = node[m]
BY DEF IInv, Types, NodeTypes, DataNode

LEMMA ActiveNode == IInv /\ fileNum > 0 => Active \in Nodes
BY DEF IInv, Types, ListTypes, ActiveApart, Active

\* AppendStart puts a torn record at the end, AppendFinish completes it.
LEMMA AppendStartIInv == ASSUME IInv, AppendStart PROVE IInv'
<1> USE DEF AppendStart
<1>1. NodeTypes' /\ UNCHANGED node
  BY DEF IInv, Types, NodeTypes
<1>2. CASE ~IsOpen(Active)
  BY <1>1, <1>2, Idle, QuietStep DEF Finish, counters
<1>3. CASE IsOpen(Active)
  <2> DEFINE i == node[Active].inode
  <2>1. fileNum > 0 /\ Active \in Nodes
    BY ActiveNode DEF IInv, AppendsToActive
  <2>2. i \in Inodes /\ node[Active].totalOffset \in Nat
    BY <1>3, <2>1 DEF IInv, Types, NodeTypes, IsOpen, DataNode
  <2>3. Append(disk[i], TornRecord) \in Seq(Records)
    BY <2>2, AppendProperties DEF IInv, Types, DiskTypes, Records
  <2>4. DiskTypes'
    <3>1. disk' = [disk EXCEPT ![i] = Append(disk[i], TornRecord)]
      BY <1>3
    <3> QED BY <2>2, <2>3, <3>1, FileWritten DEF mem
  <2>5. io' = [io EXCEPT !.pc = "finish", !.node = Active, !.offset = node[Active].totalOffset]
    BY <1>3
  <2>6. IoTypes' /\ io'.pc = "finish" /\ io'.node = Active
    <3>1. Active \in 0 .. 2 * MAXFILE
      BY <2>1, StoreAssumption DEF Nodes
    <3> QED BY <2>1, <2>2, <2>5, <3>1 DEF IInv, Types, IoTypes, IoState, WriteSteps
  <2>7. ListTypes' /\ IndexTypes' /\ Presence'
    BY PresenceKept DEF IInv, Types, ListTypes, mem
  <2>8. DescriptorsKept
    BY DEF DescriptorsKept, IInv, Types, NodeTypes, DataNode
  <2>9. (FilesInOrder /\ ActiveApart /\ RebuildsBehind /\ NewApart /\ Undeleted /\ NodesCounted)'
    BY <1>1, <1>3, <2>6, <2>8, DiskIOStep DEF mem, counters
  <2>10. AppendsToActive'
    BY <2>1, <2>6 DEF AppendsToActive, Active, mem
  <2> QED BY <1>1, <2>4, <2>6, <2>7, <2>9, <2>10 DEF IInv, Types
<1> QED BY <1>2, <1>3

LEMMA AppendFinishIInv == ASSUME IInv, AppendFinish PROVE IInv'
<1> DEFINE i == node[io.node].inode
           d == disk[i]
           rec == Record(io.cmd[2], io.cmd[3])
<1> USE DEF AppendFinish
<1>1. fileNum > 0 /\ Active \in Nodes /\ io.node = Active
  BY ActiveNode DEF IInv, AppendsToActive
<1>0. ASSUME ~IsOpen(Active) PROVE IInv'
  <2>1. io' = IdleIo /\ UNCHANGED <<disk, node>>
    BY <1>0, <1>1 DEF Finish
  <2> QED BY <2>1, Idle, QuietStep DEF IInv, Types, NodeTypes, counters
<1> SUFFICES ASSUME IsOpen(Active) PROVE IInv'
  BY <1>0
<1>2. IsOpen(Active)
  OBVIOUS
<1>3. i \in Inodes
  BY <1>1, <1>2 DEF IInv, Types, NodeTypes, IsOpen
<1>4. rec \in Records
  <2>1. io.cmd \in Writes
    BY DEF IInv, Types, IoTypes, WriteSteps
  <2>2. io.cmd[2] \in Keys /\ io.cmd[3] \in Values \cup {Deleted}
    BY <2>1 DEF Writes
  <2> QED BY <2>2 DEF Records, Record
<1>5. DiskTypes'
  <2>1. d \in Seq(Records)
    BY <1>3 DEF IInv, Types, DiskTypes
  <2>2. [d EXCEPT ![Len(d)] = rec] \in Seq(Records)
    BY <1>4, <2>1, Overwritten
  <2>3. disk' = [disk EXCEPT ![i] = [d EXCEPT ![Len(d)] = rec]]
    BY <1>1, <1>2
  <2> QED BY <1>3, <2>2, <2>3, FileWritten DEF mem
<1>6. NodeTypes' /\ DescriptorsKept
  <2>1. node' = [node EXCEPT ![Active].totalOffset = node[Active].totalOffset + 1]
    BY <1>1, <1>2
  <2>2. node[Active].totalOffset + 1 \in Nat
    BY <1>1 DEF IInv, Types, NodeTypes, DataNode
  <2>3. NodeTypes'
    BY <1>1, <1>2, <2>1, <2>2, OffsetMoved DEF IsOpen
  <2>4. DescriptorsKept
    BY <1>1, <1>2, <2>1, <2>2, OffsetMoved DEF IInv, Types, NodeTypes, DataNode, IsOpen, DescriptorsKept
  <2> QED BY <2>3, <2>4
<1>7. IoTypes' /\ io'.pc = "index"
  BY <1>1, <1>2 DEF IInv, Types, IoTypes, IoState, WriteSteps
<1>8. ListTypes' /\ IndexTypes' /\ Presence'
  BY PresenceKept DEF IInv, Types, ListTypes, mem
<1>9. (FilesInOrder /\ ActiveApart /\ RebuildsBehind /\ NewApart /\ Undeleted /\ NodesCounted)'
  BY <1>2, <1>6, <1>7, DiskIOStep DEF mem, counters
<1>10. AppendsToActive'
  BY <1>7 DEF AppendsToActive
<1> QED BY <1>5, <1>6, <1>7, <1>8, <1>9, <1>10 DEF IInv, Types

LEMMA UpdateIndexIInv == ASSUME IInv, UpdateIndex PROVE IInv'
<1> DEFINE k == io.cmd[2]
           e == IF io.cmd[1] = "set" THEN <<io.node, io.offset>> ELSE None
<1> USE DEF UpdateIndex
<1>1. io.cmd \in Writes
  BY DEF IInv, Types, IoTypes, WriteSteps
<1>2. k \in Keys
  BY <1>1 DEF Writes
<1>3. \/ io.cmd[1] = "set" /\ io.cmd[3] \in Values
      \/ io.cmd[1] # "set" /\ io.cmd[3] = Deleted
  BY <1>1 DEF Writes
<1>4. <<io.node, io.offset>> \in Nodes \X Nat
  BY DEF IInv, Types, IoTypes, IoState
<1>5. IndexTypes'
  <2>1. e \in (Nodes \X Nat) \cup {None}
    BY <1>4
  <2>2. index' = [index EXCEPT ![k] = e]
    OBVIOUS
  <2> QED BY <2>1, <2>2 DEF IInv, Types, IndexTypes
<1>6. Presence'
  <2>1. e = None <=> io.cmd[3] = Deleted
    <3>1. <<io.node, io.offset>> \in Nat \X Nat
      BY <1>4 DEF Nodes
    <3> QED BY <1>3, <3>1, StoreAssumption
  <2>2. index' = [index EXCEPT ![k] = e] /\ latest' = [latest EXCEPT ![k] = io.cmd[3]]
    OBVIOUS
  <2> QED BY <2>1, <2>2 DEF IInv, Presence, Types, IndexTypes
<1>7. IoTypes' /\ io'.pc = "ready"
  BY Idle DEF Finish
<1>8. ListTypes' /\ DiskTypes' /\ NodeTypes'
  BY DEF IInv, Types, ListTypes, DiskTypes, NodeTypes
<1>9. DescriptorsKept
  BY DEF DescriptorsKept, IInv, Types, NodeTypes, DataNode
<1>10. (FilesInOrder /\ ActiveApart /\ RebuildsBehind /\ NewApart /\ Undeleted /\ NodesCounted)'
  BY <1>7, <1>8, <1>9, DiskIOStep DEF counters
<1>11. AppendsToActive'
  BY <1>7 DEF AppendsToActive
<1> QED BY <1>5, <1>6, <1>7, <1>8, <1>10, <1>11 DEF IInv, Types

-----------------------------------------------------------------------------
(* Free DataNodes and inodes *)

\* While not every DataNode is in use, NewNode is not.
LEMMA FreeNode ==
  ASSUME IInv, Cardinality(Allocated) < 2 * MAXFILE
  PROVE  NewNode \in Nodes /\ node[NewNode] = NoNode
<1>1. IsFiniteSet(Nodes) /\ Cardinality(Nodes) = 2 * MAXFILE
  BY FS_Interval, StoreAssumption DEF Nodes
<1>2. PICK n \in Nodes : n \notin Allocated
  <2>1. Allocated # Nodes
    BY <1>1, StoreAssumption
  <2> QED BY <2>1 DEF Allocated
<1>3. node[n] = NoNode
  BY <1>2 DEF Allocated, IInv, Types, NodeTypes
<1>4. {m \in Nodes : node[m] = NoNode} \in SUBSET Nat
  BY DEF Nodes
<1>5. NewNode \in {m \in Nodes : node[m] = NoNode}
  BY <1>3, <1>4, LeastIsMember DEF NewNode
<1> QED BY <1>5

\* Everything that names an inode, in one list.
Naming ==
  [j \in 1 .. 4 * MAXFILE |->
     IF j <= MAXFILE THEN dir[j]
     ELSE IF j <= 2 * MAXFILE THEN tmp[j - MAXFILE]
     ELSE node[j - 2 * MAXFILE].inode]

\* There is always an inode that no name and no DataNode refers to.
LEMMA FreeInode ==
  /\ NewInode \in Inodes
  /\ \A f \in Files : NewInode # dir[f] /\ NewInode # tmp[f]
  /\ \A n \in Nodes : node[n].inode # NewInode
<1> DEFINE S == 1 .. 4 * MAXFILE
           T == {Naming[j] : j \in S}
           F == {i \in Inodes : /\ \A f \in Files : i \notin {dir[f], tmp[f]}
                                /\ \A n \in Nodes : node[n].inode # i}
<1>1. IsFiniteSet(S) /\ Cardinality(S) = 4 * MAXFILE
  BY FS_Interval, StoreAssumption
<1>2. IsFiniteSet(T) /\ Cardinality(T) <= Cardinality(S)
  <2>1. Naming \in Surjection(S, T)
    BY DEF Surjection, Naming
  <2> QED BY <1>1, <2>1, FS_Surjection
<1>3. IsFiniteSet(Inodes) /\ Cardinality(Inodes) = 4 * MAXFILE + 1
  BY FS_Interval, StoreAssumption DEF Inodes
<1>4. PICK i \in Inodes : i \notin T
  <2>1. SUFFICES ASSUME Inodes \subseteq T PROVE FALSE
    OBVIOUS
  <2>2. Cardinality(Inodes) <= Cardinality(T)
    BY <1>2, <2>1, FS_Subset
  <2>3. Cardinality(T) \in Nat
    BY <1>2, FS_CardinalityType
  <2> QED BY <1>1, <1>2, <1>3, <2>2, <2>3, StoreAssumption
<1>5. i \in F
  <2>1. ASSUME NEW f \in Files PROVE i # dir[f] /\ i # tmp[f]
    <3>1. f \in S /\ Naming[f] = dir[f]
      BY StoreAssumption DEF Naming, Files
    <3>2. MAXFILE + f \in S /\ Naming[MAXFILE + f] = tmp[f]
      BY StoreAssumption DEF Naming, Files
    <3> QED BY <1>4, <3>1, <3>2
  <2>2. ASSUME NEW n \in Nodes PROVE node[n].inode # i
    <3>1. 2 * MAXFILE + n \in S /\ Naming[2 * MAXFILE + n] = node[n].inode
      BY StoreAssumption DEF Naming, Nodes
    <3> QED BY <1>4, <3>1
  <2> QED BY <2>1, <2>2
<1>6. F \in SUBSET Nat
  BY DEF Inodes
<1>7. NewInode \in F
  BY <1>5, <1>6, LeastIsMember DEF NewInode
<1> QED BY <1>7

\* At most MAXFILE - 1 rebuildFile threads are started between two crashes.
LEMMA StartedFinite ==
  IsFiniteSet(Started) /\ Cardinality(Started) \in 0 .. MAXFILE - 1
BY StoreAssumption, CardinalityBound DEF Started, Rebuilds

LEMMA StartedNotAll ==
  ASSUME NEW r \in Rebuilds, r \notin Started
  PROVE  Cardinality(Started) < MAXFILE - 1
<1>1. Started \cup {r} \subseteq 1 .. MAXFILE - 1 /\ MAXFILE - 1 \in Nat
  BY StoreAssumption DEF Started, Rebuilds
<1>2. Cardinality(Started \cup {r}) \in 0 .. MAXFILE - 1
  BY <1>1, CardinalityBound
<1>3. Cardinality(Started \cup {r}) = Cardinality(Started) + 1
  BY StartedFinite, FS_AddElement
<1> QED BY <1>2, <1>3, StartedFinite, StoreAssumption

-----------------------------------------------------------------------------
(* check(): a new active file and the two writes to manFile *)

LEMMA AllocatedFinite ==
  IsFiniteSet(Allocated) /\ Cardinality(Allocated) \in Nat
<1>1. Allocated \subseteq 1 .. 2 * MAXFILE /\ 2 * MAXFILE \in Nat
  BY StoreAssumption DEF Allocated, Nodes
<1>2. IsFiniteSet(Allocated)
  BY <1>1, CardinalityBound
<1> QED BY <1>2, FS_CardinalityType

\* new DataNode(path)
LEMMA NewDataNode ==
  ASSUME NEW i \in Inodes
  PROVE  /\ [NoNode EXCEPT !.inode = i, !.fd = "open"] \in DataNode
         /\ [NoNode EXCEPT !.inode = i, !.fd = "open"].inode = i
         /\ [NoNode EXCEPT !.inode = i, !.fd = "open"].fd = "open"
         /\ [NoNode EXCEPT !.fd = "closed"] \in DataNode
         /\ [NoNode EXCEPT !.fd = "closed"].fd = "closed"
BY DEF NoNode, DataNode

\* A DataNode that was not allocated is.
LEMMA NodeAdded ==
  ASSUME IInv, NEW n \in Nodes, NEW d \in DataNode, d.fd \in {"open", "closed"},
         d.fd = "open" => d.inode \in Inodes, node[n] = NoNode,
         node' = [node EXCEPT ![n] = d]
  PROVE  /\ NodeTypes'
         /\ node'[n] = d
         /\ \A m \in Nodes : m # n => node'[m] = node[m]
         /\ Cardinality(Allocated') = Cardinality(Allocated) + 1
<1>1. NodeTypes' /\ node'[n] = d /\ \A m \in Nodes : m # n => node'[m] = node[m]
  BY DEF IInv, Types, NodeTypes
<1>2. Allocated' = Allocated \cup {n} /\ n \notin Allocated
  BY <1>1 DEF Allocated, NoNode
<1> QED BY <1>1, <1>2, AllocatedFinite, FS_AddElement

LEMMA CheckCreateIInv == ASSUME IInv, CheckCreate PROVE IInv'
<1> DEFINE f == fileNum + 1
           i == IF dir[f] = None THEN NewInode ELSE dir[f]
           n == NewNode
           d == [NoNode EXCEPT !.inode = i, !.fd = "open"]
<1> USE DEF CheckCreate
<1>1. fileNum \in Nat /\ f \in Files /\ fileNum < MAXFILE
  BY StoreAssumption DEF IInv, Types, ListTypes, AppendsToActive, Files
<1>2. i \in Inodes
  BY <1>1, FreeInode DEF IInv, Types, DiskTypes
<1>3. Cardinality(Allocated) \in Nat /\ Cardinality(Allocated) < 2 * MAXFILE
  BY <1>1, AllocatedFinite, StartedFinite, StoreAssumption DEF IInv, NodesCounted
<1>4. n \in Nodes /\ node[n] = NoNode
  BY <1>3, FreeNode
<1>5. d \in DataNode /\ d.fd = "open" /\ d.inode = i
  BY <1>2, NewDataNode
<1>6. /\ NodeTypes' /\ node'[n] = d
      /\ \A m \in Nodes : m # n => node'[m] = node[m]
      /\ Cardinality(Allocated') = Cardinality(Allocated) + 1
  <2>1. node' = [node EXCEPT ![n] = d]
    OBVIOUS
  <2> QED BY <1>2, <1>4, <1>5, <2>1, NodeAdded
<1>7. fileNum' = f /\ fileList' = [fileList EXCEPT ![f] = n] /\ fileList'[f] = n
  BY <1>1 DEF IInv, Types, ListTypes
<1>8. ListTypes'
  BY <1>1, <1>4, <1>7, StoreAssumption DEF IInv, Types, ListTypes, Nodes
<1>9. DiskTypes'
  <2>1. disk' = [disk EXCEPT ![i] = << >>] /\ dir' = [dir EXCEPT ![f] = i] /\ tmp' = tmp
    OBVIOUS
  <2>2. << >> \in Seq(Records)
    OBVIOUS
  <2> QED BY <1>1, <1>2, <1>7, <2>1, <2>2 DEF IInv, Types, DiskTypes
<1>10. IoTypes' /\ io'.pc = "manNum" /\ io.pc = "check"
  BY DEF IInv, Types, IoTypes, IoState, WriteSteps
<1>11. IndexTypes' /\ Presence'
  BY PresenceKept
<1>12. FilesInOrder'
  <2>1. ~HalfManifest
    BY StoreAssumption DEF HalfManifest, NeedsFile, IInv, Types, ListTypes
  <2>2. Active' = n /\ IsOpen(Active)'
    BY <1>5, <1>6, <1>7 DEF Active, IsOpen
  <2> QED BY <1>1, <1>7, <1>10, <2>1, <2>2 DEF IInv, FilesInOrder
<1>13. AppendsToActive'
  BY <1>1, <1>7, <1>10 DEF AppendsToActive
<1>14. ActiveApart'
  <2>1. ASSUME NEW g \in 1 .. fileNum
        PROVE  /\ fileList'[g] = fileList[g] /\ fileList[g] \in Nodes /\ fileList[g] # n
               /\ node'[fileList[g]].fd # "none"
    <3>1. fileList[g] \in Nodes /\ node[fileList[g]].fd # "none"
      BY <2>1 DEF IInv, ActiveApart
    <3>2. fileList[g] # n
      BY <1>4, <3>1 DEF NoNode
    <3> QED BY <1>1, <1>6, <1>7, <3>1, <3>2 DEF IInv, Types, ListTypes, Files
  <2>2. Active' = n /\ node'[n].fd # "none"
    BY <1>5, <1>6, <1>7 DEF Active
  <2> QED BY <1>1, <1>4, <1>7, <2>1, <2>2 DEF ActiveApart
<1>15. RebuildsBehind'
  <2>1. Active' = n
    BY <1>7 DEF Active
  <2>2. ASSUME NEW r \in Rebuilds, Running(r)
        PROVE  /\ reb[r].slot \in 1 .. fileNum
               /\ reb[r].old \in Nodes /\ reb[r].old # n /\ node'[reb[r].old].fd # "none"
               /\ reb[r].new \in Nodes /\ reb[r].new # n /\ node'[reb[r].new].fd # "none"
    <3>1. /\ reb[r].slot \in 1 .. fileNum - 1
          /\ reb[r].old \in Nodes /\ node[reb[r].old].fd # "none"
          /\ reb[r].new \in Nodes /\ node[reb[r].new].fd # "none"
      BY <2>2 DEF IInv, RebuildsBehind
    <3>2. reb[r].old # n /\ reb[r].new # n
      BY <3>1, <1>4 DEF NoNode
    <3> QED BY <1>1, <1>6, <3>1, <3>2
  <2>3. \A r \in Rebuilds : reb[r].pc # "idle" => r < fileNum
    BY DEF IInv, RebuildsBehind
  <2> QED BY <1>1, <1>7, <2>1, <2>2, <2>3 DEF RebuildsBehind, Running, Rebuilds
<1>16. NewApart'
  <2>1. ASSUME NEW r \in Rebuilds, reb[r].pc \in RebuildSteps
        PROVE  reb[r].new \in Nodes /\ reb[r].new # n
    <3>1. Running(r)
      BY <2>1 DEF Running, RebuildSteps
    <3>2. reb[r].new \in Nodes /\ node[reb[r].new].fd # "none"
      BY <3>1 DEF IInv, RebuildsBehind
    <3> QED BY <1>4, <3>2 DEF NoNode
  <2>2. \A g \in 1 .. f : (g \in 1 .. fileNum /\ fileList'[g] = fileList[g]) \/ g = f
    BY <1>1, <1>7 DEF IInv, Types, ListTypes, Files
  <2> QED BY <1>1, <1>6, <1>7, <2>1, <2>2 DEF IInv, NewApart, Running
<1>17. NodesCounted'
  <2>1. Started' = Started
    BY DEF Started
  <2> QED BY <1>1, <1>3, <1>6, <1>7, <2>1, StartedFinite DEF IInv, NodesCounted
<1>18. Undeleted'
  <2>1. ASSUME NEW g \in 1 .. fileNum
        PROVE  /\ fileList'[g] = fileList[g] /\ fileList[g] # n
               /\ node'[fileList[g]] = node[fileList[g]]
    <3>1. fileList[g] \in Nodes /\ node[fileList[g]].fd # "none"
      BY <2>1 DEF IInv, ActiveApart
    <3>2. fileList[g] # n
      BY <1>4, <3>1 DEF NoNode
    <3> QED BY <1>1, <1>6, <1>7, <3>1, <3>2 DEF IInv, Types, ListTypes, Files
  <2>2. ASSUME NEW r \in Rebuilds, Running(r)
        PROVE  /\ reb[r].slot \in 1 .. fileNum /\ reb[r].old # n
               /\ node'[reb[r].old] = node[reb[r].old] /\ node'[reb[r].new] = node[reb[r].new]
    <3>1. /\ reb[r].slot \in 1 .. fileNum - 1
          /\ reb[r].old \in Nodes /\ node[reb[r].old].fd # "none"
          /\ reb[r].new \in Nodes /\ node[reb[r].new].fd # "none"
      BY <2>2 DEF IInv, RebuildsBehind
    <3>2. reb[r].old # n /\ reb[r].new # n
      BY <3>1, <1>4 DEF NoNode
    <3> QED BY <1>1, <1>6, <3>1, <3>2
  <2>3. clashed' = clashed /\ reb' = reb /\ \A r : Running(r)' = Running(r)
    BY DEF counters, Running
  <2>4. fileList'[f] = n /\ node'[n].fd = "open" /\ 1 .. fileNum' = (1 .. fileNum) \cup {f}
    <3>1. fileNum' = fileNum + 1 /\ f = fileNum + 1
      BY <1>7
    <3>2. 1 .. fileNum' = (1 .. fileNum) \cup {f}
      BY ONLY <1>1, <3>1
    <3> QED BY <1>5, <1>6, <1>7, <3>2
  <2> HIDE DEF CheckCreate, f, n, d, i
  <2> QED BY <2>1, <2>2, <2>3, <2>4 DEF IInv, Undeleted
<1> QED BY <1>6, <1>8, <1>9, <1>10, <1>11, <1>12, <1>13, <1>14, <1>15, <1>16, <1>17, <1>18 DEF IInv, Types

LEMMA CheckManifestNumIInv == ASSUME IInv, CheckManifestNum PROVE IInv'
<1> USE DEF IInv, CheckManifestNum, mem
<1>1. ListTypes' /\ NodeTypes' /\ DiskTypes'
  BY DEF Types, ListTypes, NodeTypes, DiskTypes
<1>2. IoTypes' /\ io'.pc = "manName"
  BY DEF Types, IoTypes, IoState, WriteSteps
<1>3. IndexTypes' /\ Presence'
  BY PresenceKept
<1>4. FilesInOrder'
  <2>1. manifest'.num = fileNum /\ manifest'.names = manifest.names
    BY DEF Types, ListTypes
  <2> QED BY <1>2, <2>1 DEF FilesInOrder, HalfManifest, Active, IsOpen, counters
<1>5. (AppendsToActive /\ ActiveApart /\ RebuildsBehind /\ NewApart /\ Undeleted)'
  BY <1>2 DEF AppendsToActive, ActiveApart, RebuildsBehind, NewApart, Undeleted, Active, Running, counters
<1>6. NodesCounted'
  BY DEF NodesCounted, Allocated, Started
<1> QED BY <1>1, <1>2, <1>3, <1>4, <1>5, <1>6 DEF Types

LEMMA CheckManifestNameIInv == ASSUME IInv, CheckManifestName PROVE IInv'
<1> USE DEF IInv, CheckManifestName, mem
<1>1. /\ fileNum > 0 /\ manifest.num = fileNum /\ manifest.names = fileNum - 1
      /\ (IsOpen(Active) \/ clashed) /\ ~HalfManifest
  BY DEF FilesInOrder, HalfManifest
<1>2. IoTypes' /\ io'.pc = "append"
  BY DEF Types, IoTypes, IoState, WriteSteps
<1>3. /\ manifest' \in [num : 0 .. MAXFILE, names : 0 .. MAXFILE]
      /\ manifest'.num = fileNum /\ manifest'.names = fileNum
  BY <1>1, StoreAssumption DEF Types, ListTypes
<1>4. /\ reb' \in [Rebuilds -> RebuildState]
      /\ \A r \in Rebuilds : \/ reb'[r] = reb[r]
                             \/ r = fileNum - 1 /\ reb[r].pc = "idle" /\ reb'[r].pc = "start"
  <2>1. CASE fileNum > 1
    <3> DEFINE q == fileNum - 1
               t == [reb[q] EXCEPT !.pc = "start"]
    <3>1. q \in Rebuilds
      BY <2>1, StoreAssumption DEF Rebuilds, Types, ListTypes
    <3>2. reb[q].pc = "idle"
      BY <3>1 DEF RebuildsBehind, Rebuilds
    <3>3. t \in RebuildState /\ t.pc = "start"
      BY <3>1 DEF Types, ListTypes, RebuildState
    <3>4. reb' = [reb EXCEPT ![q] = t]
      BY <2>1
    <3>5. reb \in [Rebuilds -> RebuildState]
      BY DEF Types, ListTypes
    <3> HIDE DEF t
    <3> QED BY <3>1, <3>2, <3>3, <3>4, <3>5
  <2>2. CASE ~(fileNum > 1)
    BY <2>2 DEF Types, ListTypes
  <2> QED BY <2>1, <2>2
<1>5. Types'
  BY <1>2, <1>3, <1>4, PresenceKept DEF Types, ListTypes, NodeTypes, DiskTypes
<1>6. FilesInOrder'
  BY <1>1, <1>2, <1>3 DEF FilesInOrder, Active, IsOpen, counters
<1>7. AppendsToActive' /\ ActiveApart'
  BY <1>1, <1>2 DEF AppendsToActive, ActiveApart, Active
<1>8. RebuildsBehind'
  <2>1. ASSUME NEW r \in Rebuilds, reb'[r].pc # "idle" PROVE r < fileNum
    BY <1>1, <1>4, <2>1 DEF RebuildsBehind, Types, ListTypes, Rebuilds
  <2>2. ASSUME NEW r \in Rebuilds, Running(r)' PROVE Running(r) /\ reb'[r] = reb[r]
    BY <1>4, <2>2 DEF Running
  <2> QED BY <1>2, <2>1, <2>2 DEF RebuildsBehind, Active
<1>9. NewApart'
  <2>1. ASSUME NEW r \in Rebuilds, Running(r)' PROVE Running(r) /\ reb'[r] = reb[r]
    BY <1>4, <2>1 DEF Running
  <2>2. \A r \in Rebuilds : reb'[r].pc \in RebuildSteps => Running(r)'
    BY DEF Running, RebuildSteps
  <2>3. ASSUME NEW r \in Rebuilds, reb'[r].pc \in RebuildSteps PROVE Running(r) /\ reb'[r] = reb[r]
    BY ONLY <2>1, <2>2, <2>3
  <2>4. UNCHANGED <<fileNum, fileList, node>> /\ NewApart
    OBVIOUS
  <2> QED BY ONLY <2>1, <2>3, <2>4 DEF NewApart
<1>10. NodesCounted'
  <2>1. Started' = Started
    BY <1>4 DEF Started
  <2> QED BY <2>1 DEF NodesCounted, Allocated
<1>11. Undeleted'
  <2>1. ASSUME NEW r \in Rebuilds, Running(r)' PROVE Running(r) /\ reb'[r] = reb[r]
    BY <1>4, <2>1 DEF Running
  <2>2. UNCHANGED <<fileNum, fileList, node, clashed>> /\ Undeleted
    BY DEF counters
  <2> QED BY ONLY <2>1, <2>2 DEF Undeleted
<1> QED BY <1>5, <1>6, <1>7, <1>8, <1>9, <1>10, <1>11, PresenceKept

-----------------------------------------------------------------------------
(* The rebuildFile threads *)

\* A step of the thread r after its first moves on to a state t ...
MovesOn(r, t) ==
  /\ t \in RebuildState
  /\ reb' = [reb EXCEPT ![r] = t]
  /\ t.pc \notin {"idle", "start"}
  /\ t.pc # "done" => t.slot = reb[r].slot /\ t.old = reb[r].old /\ t.new = reb[r].new
  /\ \/ fileList' = fileList /\ (t.pc \in RebuildSteps <=> reb[r].pc \in RebuildSteps)
     \/ /\ reb[r].pc = "swap" /\ t.pc = "rename"
        /\ fileList' = [fileList EXCEPT ![reb[r].slot] = reb[r].new]
  /\ UNCHANGED <<OFFLIMIT, fileNum, manifest, io, clashed>>

\* ... and changes no DataNodes but its two, unless a second delete hits another.
OthersKept(r, t) ==
  /\ \A n \in Nodes : node[n].fd = "none" <=> node'[n].fd = "none"
  /\ \A n \in Nodes \ {reb[r].old, reb[r].new} :
       /\ node'[n].fd = node[n].fd \/ clashed
       /\ node'[n].totalOffset = node[n].totalOffset
  /\ \A n \in Nodes : node'[n].fd = "freed" =>
       node[n].fd = "freed" \/ clashed \/ (t.pc = "done" /\ n = reb[r].old)
  /\ t.pc = "cas" => node'[reb[r].new].totalOffset > 0

LEMMA RebuildStep ==
  ASSUME IInv, NEW r \in Rebuilds, NodeTypes', DiskTypes', IndexTypes', Presence',
         Running(r), NEW t, MovesOn(r, t), OthersKept(r, t)
  PROVE  IInv'
<1> USE DEF IInv, MovesOn, OthersKept
<1>1. reb'[r] = t /\ \A q \in Rebuilds : q # r => reb'[q] = reb[q]
  BY DEF Types, ListTypes
<1>2. /\ reb[r].slot \in 1 .. fileNum - 1 /\ fileNum \in Nat /\ fileNum > 0
      /\ reb[r].old \in Nodes /\ reb[r].old # Active /\ node[reb[r].old].fd # "none"
      /\ reb[r].new \in Nodes /\ reb[r].new # Active /\ node[reb[r].new].fd # "none"
  BY StoreAssumption DEF RebuildsBehind, Types, ListTypes
<1>3. \A f \in 1 .. fileNum :
        \/ fileList'[f] = fileList[f]
        \/ /\ f \in 1 .. fileNum - 1 /\ reb[r].pc = "swap" /\ t.pc = "rename"
           /\ fileList'[f] = reb[r].new
  <2>1. CASE fileList' = fileList
    BY <2>1
  <2>2. CASE reb[r].pc = "swap" /\ t.pc = "rename" /\ fileList' = [fileList EXCEPT ![reb[r].slot] = reb[r].new]
    BY <1>2, <2>2 DEF Types, ListTypes, Files
  <2> QED BY <2>1, <2>2
<1>4. Active' = Active /\ Active \in Nodes
  <2>1. fileNum' = fileNum /\ fileNum \in 1 .. fileNum /\ fileNum \notin 1 .. fileNum - 1
    BY <1>2
  <2> QED BY <1>2, <1>3, <2>1, ActiveNode DEF Active
<1>5. /\ node'[Active].fd = node[Active].fd \/ clashed
      /\ node'[Active].totalOffset = node[Active].totalOffset
  BY <1>2, <1>4
<1>6. ListTypes' /\ IoTypes'
  <2>1. fileList' \in [Files -> 0 .. 2 * MAXFILE]
    <3>1. reb[r].slot \in Files /\ reb[r].new \in 0 .. 2 * MAXFILE
      BY <1>2, StoreAssumption DEF Types, ListTypes, Nodes, Files
    <3>2. CASE fileList' = fileList
      BY <3>2 DEF Types, ListTypes
    <3>3. CASE fileList' = [fileList EXCEPT ![reb[r].slot] = reb[r].new]
      BY <3>1, <3>3 DEF Types, ListTypes
    <3> QED BY <3>2, <3>3
  <2> QED BY <2>1 DEF Types, ListTypes, IoTypes
<1>7. FilesInOrder'
  <2>1. ~HalfManifest
    BY DEF HalfManifest, Running
  <2> QED BY <1>4, <1>5, <2>1 DEF FilesInOrder, IsOpen
<1>8. AppendsToActive'
  <2>1. OFFLIMIT' = OFFLIMIT /\ fileNum' = fileNum /\ io' = io
    OBVIOUS
  <2> QED BY <1>4, <1>5, <2>1 DEF AppendsToActive, NeedsFile
<1>9. ActiveApart'
  BY <1>2, <1>3, <1>4 DEF ActiveApart
<1>10. ASSUME NEW q \in Rebuilds
       PROVE  /\ reb'[q].pc # "idle" => reb[q].pc # "idle"
              /\ reb'[q].pc \in RebuildSteps => reb[q].pc \in RebuildSteps
              /\ Running(q)' => /\ Running(q)
                               /\ reb'[q].slot = reb[q].slot
                               /\ reb'[q].old = reb[q].old /\ reb'[q].new = reb[q].new
  BY <1>1 DEF Running, RebuildSteps
<1>11. RebuildsBehind'
  BY <1>4, <1>10 DEF RebuildsBehind
<1>12. NewApart'
  <2>1. ASSUME NEW q \in Rebuilds, reb'[q].pc \in RebuildSteps
        PROVE  Running(q)' /\ reb[q].pc \in RebuildSteps /\ reb'[q].new = reb[q].new
    BY <1>10, <2>1 DEF Running, RebuildSteps
  <2>2. ASSUME NEW q \in Rebuilds, reb'[q].pc = "cas"
        PROVE  node'[reb'[q].new].totalOffset > 0
    <3>1. CASE q = r
      BY <1>1, <2>2, <3>1
    <3>2. CASE q # r
      <4>1. reb'[q] = reb[q] /\ reb[q].pc = "cas"
        BY <1>1, <2>2, <3>2
      <4>2. /\ node[reb[q].new].totalOffset > 0
            /\ reb[q].new # reb[r].new /\ reb[q].new # reb[r].old
        BY <3>2, <4>1 DEF NewApart, RebuildSteps
      <4>3. reb[q].new \in Nodes
        BY <4>1 DEF RebuildsBehind, Running
      <4> QED BY <4>1, <4>2, <4>3
    <3> QED BY <3>1, <3>2
  <2>3. ASSUME NEW q \in Rebuilds, reb'[q].pc \in RebuildSteps, NEW f \in 1 .. fileNum
        PROVE  fileList'[f] # reb[q].new
    <3>1. fileList[f] # reb[q].new
      BY <2>1, <2>3 DEF NewApart
    <3>2. ASSUME t.pc = "rename" PROVE reb[q].new # reb[r].new
      <4>1. q # r
        BY <1>1, <2>3, <3>2 DEF RebuildSteps
      <4> QED BY <2>1, <2>3, <4>1 DEF NewApart
    <3> QED BY <1>3, <3>1, <3>2
  <2>4. fileNum' = fileNum
    OBVIOUS
  <2> QED BY <1>10, <2>1, <2>2, <2>3, <2>4 DEF NewApart
<1>13. NodesCounted'
  <2>1. Started' = Started
    BY <1>1 DEF Started, Running
  <2>2. Allocated' = Allocated
    BY <1>2 DEF Allocated
  <2> QED BY <2>1, <2>2 DEF NodesCounted
<1>14. Undeleted'
  <2> SUFFICES ASSUME ~clashed PROVE Undeleted'
    BY DEF Undeleted
  <2>1. /\ \A f \in 1 .. fileNum : fileList[f] \in Nodes /\ node[fileList[f]].fd # "freed"
        /\ \A f, g \in 1 .. fileNum : fileList[f] = fileList[g] => f = g
    BY DEF Undeleted, ActiveApart
  <2>2. ASSUME NEW q \in Rebuilds, Running(q)
        PROVE  /\ reb[q].old \in Nodes /\ reb[q].new \in Nodes
               /\ reb[q].slot \in 1 .. fileNum
               /\ node[reb[q].old].fd # "freed"
               /\ q # r => reb[q].old # reb[r].old
               /\ \/ /\ reb[q].pc \in RebuildSteps
                     /\ fileList[reb[q].slot] = reb[q].old
                     /\ node[reb[q].new].fd # "freed"
                  \/ /\ reb[q].pc \notin RebuildSteps
                     /\ \A f \in 1 .. fileNum : fileList[f] # reb[q].old
    BY <2>2 DEF Undeleted, RebuildsBehind, Types, ListTypes
  <2>3. ASSUME NEW n \in Nodes, node'[n].fd = "freed"
        PROVE  node[n].fd = "freed" \/ (t.pc = "done" /\ n = reb[r].old)
    BY <2>3
  <2>4. ASSUME NEW q \in Rebuilds, reb[q].pc \in RebuildSteps
        PROVE  /\ Running(q)
               /\ \A f \in 1 .. fileNum : fileList[f] # reb[q].new
               /\ reb[r].old # reb[q].new
    <3>1. Running(q)
      BY <2>4 DEF Running, RebuildSteps
    <3> QED BY <2>4, <3>1 DEF NewApart
  <2>5. t.pc = "done" => \A f \in 1 .. fileNum : fileList[f] # reb[r].old
    <3>1. t.pc = "done" => reb[r].pc \notin RebuildSteps
      BY DEF RebuildSteps
    <3> QED BY <2>2, <3>1
  <2>6. ASSUME NEW f \in 1 .. fileNum, node'[fileList'[f]].fd = "freed" PROVE FALSE
    <3>1. CASE fileList'[f] = fileList[f]
      BY <2>1, <2>3, <2>5, <2>6, <3>1
    <3>2. CASE t.pc = "rename" /\ reb[r].pc = "swap" /\ fileList'[f] = reb[r].new
      BY <1>2, <2>2, <2>3, <2>6, <3>2 DEF RebuildSteps
    <3> QED BY <1>3, <3>1, <3>2 DEF RebuildSteps
  <2>7. ASSUME NEW f \in 1 .. fileNum, NEW g \in 1 .. fileNum, fileList'[f] = fileList'[g] PROVE f = g
    <3>1. CASE fileList' = fileList
      BY <2>1, <2>7, <3>1
    <3>2. CASE reb[r].pc = "swap" /\ fileList' = [fileList EXCEPT ![reb[r].slot] = reb[r].new]
      <4>1. \A h \in 1 .. fileNum : fileList'[h] = IF h = reb[r].slot THEN reb[r].new ELSE fileList[h]
        BY <1>2, <3>2, StoreAssumption DEF Types, ListTypes, Files
      <4>2. \A h \in 1 .. fileNum : fileList[h] # reb[r].new
        BY <2>4, <3>2 DEF RebuildSteps
      <4> QED BY <2>1, <2>7, <4>1, <4>2
    <3> QED BY <3>1, <3>2
  <2>8. ASSUME NEW q \in Rebuilds, Running(q)'
        PROVE  /\ node'[reb'[q].old].fd # "freed"
               /\ \A p \in Rebuilds : Running(p)' /\ reb'[p].old = reb'[q].old => p = q
    <3>1. Running(q) /\ reb'[q].old = reb[q].old /\ (t.pc = "done" => q # r)
      BY <1>1, <1>10, <2>8 DEF Running
    <3>2. \A p \in Rebuilds : Running(p)' => Running(p) /\ reb'[p].old = reb[p].old
      BY <1>10
    <3> QED BY <2>2, <2>3, <3>1, <3>2 DEF Undeleted
  <2>9. ASSUME NEW q \in Rebuilds, Running(q)'
        PROVE  \/ /\ reb'[q].pc \in RebuildSteps
                  /\ fileList'[reb'[q].slot] = reb'[q].old
                  /\ node'[reb'[q].new].fd # "freed"
               \/ /\ reb'[q].pc \notin RebuildSteps
                  /\ \A f \in 1 .. fileNum : fileList'[f] # reb'[q].old
    <3>1. /\ Running(q) /\ reb'[q].slot = reb[q].slot
          /\ reb'[q].old = reb[q].old /\ reb'[q].new = reb[q].new
      BY <1>10, <2>9
    <3>2. CASE reb[q].pc \in RebuildSteps /\ reb'[q].pc \in RebuildSteps
      <4>1. node'[reb[q].new].fd # "freed"
        BY <2>2, <2>3, <2>4, <3>1, <3>2
      <4>2. fileList'[reb[q].slot] = reb[q].old
        <5>1. CASE fileList' = fileList
          BY <2>2, <3>1, <3>2, <5>1
        <5>2. CASE reb[r].pc = "swap" /\ t.pc = "rename" /\ fileList' = [fileList EXCEPT ![reb[r].slot] = reb[r].new]
          <6>1. q # r
            BY <1>1, <3>2, <5>2 DEF RebuildSteps
          <6>2. reb[q].slot # reb[r].slot
            BY <2>2, <3>1, <3>2, <5>2, <6>1 DEF RebuildSteps
          <6> QED BY <2>2, <3>1, <3>2, <5>2, <6>2
        <5> QED BY <5>1, <5>2
      <4> QED BY <3>1, <3>2, <4>1, <4>2
    <3>3. CASE reb[q].pc \in RebuildSteps /\ reb'[q].pc \notin RebuildSteps
      <4>1. q = r /\ reb[r].pc = "swap" /\ fileList' = [fileList EXCEPT ![reb[r].slot] = reb[r].new]
        BY <1>1, <3>3
      <4>2. \A h \in 1 .. fileNum : fileList'[h] = IF h = reb[r].slot THEN reb[r].new ELSE fileList[h]
        BY <1>2, <4>1, StoreAssumption DEF Types, ListTypes, Files
      <4>3. fileList[reb[r].slot] = reb[r].old /\ reb[r].slot \in 1 .. fileNum /\ reb[r].new # reb[r].old
        BY <2>2, <2>4, <3>1, <3>3, <4>1
      <4> QED BY <2>1, <3>1, <3>3, <4>1, <4>2, <4>3
    <3>4. CASE reb[q].pc \notin RebuildSteps
      <4>1. reb'[q].pc \notin RebuildSteps
        BY <1>10, <3>4
      <4>2. \A f \in 1 .. fileNum : fileList[f] # reb[q].old
        BY <2>2, <3>1, <3>4
      <4>3. reb[r].pc = "swap" => reb[r].new # reb[q].old
        BY <3>1, <3>4 DEF NewApart, RebuildSteps
      <4> QED BY <1>3, <3>1, <4>1, <4>2, <4>3
    <3> QED BY <3>2, <3>3, <3>4
  <2>10. fileNum' = fileNum
    OBVIOUS
  <2> QED BY <2>6, <2>7, <2>8, <2>9, <2>10 DEF Undeleted
<1> QED BY <1>6, <1>7, <1>8, <1>9, <1>11, <1>12, <1>13, <1>14 DEF Types

\* What a running rebuildFile thread works on.
LEMMA RunningTypes ==
  ASSUME IInv, NEW r \in Rebuilds, Running(r)
  PROVE  /\ reb[r] \in RebuildState
         /\ reb[r].old \in Nodes /\ node[reb[r].old].fd # "none"
         /\ reb[r].new \in Nodes /\ node[reb[r].new].fd # "none"
         /\ reb[r].slot \in Files /\ reb[r].slot < fileNum /\ reb[r].slot \in 1 .. fileNum
         /\ node[reb[r].old] \in DataNode /\ node[reb[r].new] \in DataNode
         /\ fileNum > 1 /\ Active # reb[r].new /\ Active # reb[r].old
<1>1. /\ reb \in [Rebuilds -> RebuildState] /\ node \in [Nodes -> DataNode]
      /\ fileNum \in 0 .. MAXFILE
  BY DEF IInv, Types, ListTypes, NodeTypes
<1>2. /\ reb[r].slot \in 1 .. fileNum - 1
      /\ reb[r].old \in Nodes /\ reb[r].old # Active /\ node[reb[r].old].fd # "none"
      /\ reb[r].new \in Nodes /\ reb[r].new # Active /\ node[reb[r].new].fd # "none"
  BY DEF IInv, RebuildsBehind
<1>3. reb[r].slot \in Files /\ reb[r].slot < fileNum /\ reb[r].slot \in 1 .. fileNum /\ fileNum > 1
  BY ONLY <1>1, <1>2, StoreAssumption DEF Files
<1> QED BY <1>1, <1>2, <1>3

\* A step of rebuildFile is a step of its thread to a new state t.
LEMMA ThreadStep ==
  ASSUME IInv, NEW r \in Rebuilds, Running(r), NodeTypes',
         UNCHANGED <<OFFLIMIT, fileNum, fileList, manifest, io, index, latest, disk, dir, tmp, clashed>>,
         NEW t \in RebuildState, reb' = [reb EXCEPT ![r] = t],
         t.pc \in RebuildSteps <=> reb[r].pc \in RebuildSteps,
         t.pc \notin {"idle", "start", "done", "cas"},
         t.slot = reb[r].slot, t.old = reb[r].old, t.new = reb[r].new,
         \A n \in Nodes : UNCHANGED <<node[n].fd, node[n].totalOffset>>
  PROVE  IInv'
<1>1. DiskTypes' /\ IndexTypes' /\ Presence'
  BY PresenceKept DEF IInv, Types, DiskTypes
<1>2. MovesOn(r, t) /\ OthersKept(r, t)
  BY DEF MovesOn, OthersKept
<1> QED BY <1>1, <1>2, RebuildStep

\* The fields a step of the thread leaves alone.
LEMMA ThreadState ==
  ASSUME NEW s \in RebuildState, NEW p \in RebuildSteps \cup {"rename", "reopen", "free"}
  PROVE  LET t == [s EXCEPT !.pc = p]
         IN  /\ t \in RebuildState /\ t.pc = p
             /\ t.slot = s.slot /\ t.old = s.old /\ t.new = s.new
BY DEF RebuildState, RebuildSteps

LEMMA OldNodes ==
  ASSUME IInv, NEW r \in Rebuilds, Running(r)
  PROVE  Old(r) \subseteq Nodes
BY RunningTypes, StandsForNodes DEF Old

\* A thread goes on to its swap.
LEMMA ReadsNoMore ==
  ASSUME IInv, NEW r \in Rebuilds, reb[r].pc \in {"seek", "read"},
         reb' = [reb EXCEPT ![r].pc = "swap"],
         UNCHANGED <<mem, node, disk, dir, tmp, manifest, io, reply, latest, counters>>
  PROVE  IInv'
<1> DEFINE t == [reb[r] EXCEPT !.pc = "swap"]
<1>1. Running(r) /\ reb[r].pc \in RebuildSteps
  BY DEF Running, RebuildSteps
<1>2. reb[r] \in RebuildState /\ reb' = [reb EXCEPT ![r] = t]
  BY <1>1, RunningTypes
<1>3. /\ t \in RebuildState /\ t.pc = "swap"
      /\ t.slot = reb[r].slot /\ t.old = reb[r].old /\ t.new = reb[r].new
  BY <1>2, ThreadState DEF RebuildSteps
<1>4. NodeTypes' /\ \A m \in Nodes : UNCHANGED <<node[m].fd, node[m].totalOffset>>
  BY DEF IInv, Types, NodeTypes
<1> HIDE DEF t
<1> QED BY <1>1, <1>2, <1>3, <1>4, ThreadStep DEF mem, counters, RebuildSteps

LEMMA RebuildSeekIInv == ASSUME IInv, NEW r \in Rebuilds, RebuildSeek(r) PROVE IInv'
<1> USE DEF RebuildSeek
<1>1. Running(r) /\ reb[r].pc \in RebuildSteps
  BY DEF Running, RebuildSteps
<1>2. reb[r] \in RebuildState /\ reb[r].offset \in Nat /\ Old(r) \subseteq Nodes
  BY <1>1, RunningTypes, OldNodes DEF RebuildState
<1>3. ASSUME NEW n \in Old(r), IsOpen(n), node' = [node EXCEPT ![n].pos = reb[r].offset],
             reb' = [reb EXCEPT ![r].pc = "read"]
      PROVE  IInv'
  <2> DEFINE t == [reb[r] EXCEPT !.pc = "read"]
  <2>1. reb' = [reb EXCEPT ![r] = t]
    BY <1>3
  <2>2. /\ t \in RebuildState /\ t.pc = "read"
        /\ t.slot = reb[r].slot /\ t.old = reb[r].old /\ t.new = reb[r].new
    BY <1>2, ThreadState DEF RebuildSteps
  <2>3. NodeTypes' /\ \A m \in Nodes : UNCHANGED <<node[m].fd, node[m].totalOffset>>
    BY <1>2, <1>3, PosMoved
  <2> HIDE DEF t
  <2> QED BY <1>1, <2>1, <2>2, <2>3, ThreadStep DEF mem, counters, RebuildSteps
<1>4. ASSUME UNCHANGED node, reb' = [reb EXCEPT ![r].pc = "swap"] PROVE IInv'
  BY <1>4, ReadsNoMore
<1> QED BY <1>3, <1>4

LEMMA RebuildReadIInv == ASSUME IInv, NEW r \in Rebuilds, RebuildRead(r) PROVE IInv'
<1> DEFINE o == node[reb[r].new].totalOffset
<1> USE DEF RebuildRead
<1>1. Running(r) /\ reb[r].pc \in RebuildSteps
  BY DEF Running, RebuildSteps
<1>2. reb[r] \in RebuildState /\ o \in Nat /\ Old(r) \subseteq Nodes
  BY <1>1, RunningTypes, OldNodes DEF DataNode
<1>3. ASSUME UNCHANGED node, reb' = [reb EXCEPT ![r].pc = "swap"] PROVE IInv'
  BY <1>3, ReadsNoMore
<1>4. ASSUME NEW n \in Old(r), IsOpen(n), ~(node[n].pos >= Len(Data(n))),
             reb' = [reb EXCEPT ![r].pc = "seekEnd", ![r].rec = Data(n)[node[n].pos + 1],
                                ![r].newOffset = o],
             node' = [node EXCEPT ![n].pos = node[n].pos + 1]
      PROVE  IInv'
  <2> DEFINE p == node[n].pos
             rec == Data(n)[p + 1]
             t == [reb[r] EXCEPT !.pc = "seekEnd", !.rec = rec, !.newOffset = o]
  <2>0. p \in Nat /\ n \in Nodes
    BY <1>2 DEF IInv, Types, NodeTypes, DataNode
  <2>1. reb' = [reb EXCEPT ![r] = t]
    BY <1>4
  <2>2. rec \in Records
    <3>1. Data(n) \in Seq(Records)
      BY <1>4, <2>0 DEF IInv, Types, NodeTypes, DiskTypes, IsOpen, Data
    <3>2. p + 1 \in 1 .. Len(Data(n))
      BY <1>4, <2>0, <3>1, LenProperties
    <3> QED BY <3>1, <3>2, ElementOfSeq
  <2>3. /\ t \in RebuildState /\ t.pc = "seekEnd"
        /\ t.slot = reb[r].slot /\ t.old = reb[r].old /\ t.new = reb[r].new
    <3> HIDE DEF rec, o
    <3> QED BY <1>2, <2>2 DEF RebuildState, RebuildSteps
  <2>4. NodeTypes' /\ \A m \in Nodes : UNCHANGED <<node[m].fd, node[m].totalOffset>>
    <3>1. p + 1 \in Nat
      BY <2>0
    <3> QED BY <1>4, <2>0, <3>1, PosMoved
  <2> HIDE DEF t
  <2> QED BY <1>1, <2>1, <2>3, <2>4, ThreadStep DEF mem, counters, RebuildSteps
<1> QED BY <1>3, <1>4

\* The next record of the old file.
LEMMA SkippedState ==
  ASSUME NEW s \in RebuildState
  PROVE  LET t == [s EXCEPT !.pc = "seek", !.offset = @ + 1]
         IN  /\ t \in RebuildState /\ t.pc = "seek"
             /\ t.slot = s.slot /\ t.old = s.old /\ t.new = s.new
<1>1. s.offset + 1 \in Nat
  BY DEF RebuildState
<1>2. [s EXCEPT !.pc = "seek", !.offset = @ + 1] = [s EXCEPT !.pc = "seek", !.offset = s.offset + 1]
  BY DEF RebuildState
<1> DEFINE o == s.offset + 1
<1> HIDE DEF o
<1>3. LET t == [s EXCEPT !.pc = "seek", !.offset = o]
      IN  /\ t \in RebuildState /\ t.pc = "seek"
          /\ t.slot = s.slot /\ t.old = s.old /\ t.new = s.new
  <2>1. o \in Nat
    BY <1>1 DEF o
  <2> QED BY <2>1 DEF RebuildState, RebuildSteps
<1> QED BY <1>2, <1>3 DEF o

\* A thread goes on to the next record.
LEMMA SkippedIInv ==
  ASSUME IInv, NEW r \in Rebuilds, reb[r].pc \in {"seekEnd", "write"}, reb' = Skipped(r),
         UNCHANGED <<mem, node, disk, dir, tmp, manifest, io, reply, latest, counters>>
  PROVE  IInv'
<1> DEFINE t == [reb[r] EXCEPT !.pc = "seek", !.offset = @ + 1]
<1>1. Running(r) /\ reb[r].pc \in RebuildSteps
  BY DEF Running, RebuildSteps
<1>2. reb[r] \in RebuildState
  BY <1>1, RunningTypes
<1>3. reb' = [reb EXCEPT ![r] = t]
  <2>1. reb \in [Rebuilds -> RebuildState]
    BY DEF IInv, Types, ListTypes
  <2> QED BY <2>1 DEF Skipped
<1>4. /\ t \in RebuildState /\ t.pc = "seek"
      /\ t.slot = reb[r].slot /\ t.old = reb[r].old /\ t.new = reb[r].new
  BY <1>2, SkippedState
<1>5. NodeTypes' /\ \A m \in Nodes : UNCHANGED <<node[m].fd, node[m].totalOffset>>
  BY DEF IInv, Types, NodeTypes
<1> HIDE DEF t
<1> QED BY <1>1, <1>3, <1>4, <1>5, ThreadStep DEF mem, counters, RebuildSteps

LEMMA RebuildSeekEndIInv == ASSUME IInv, NEW r \in Rebuilds, RebuildSeekEnd(r) PROVE IInv'
<1> DEFINE n == reb[r].new
<1> USE DEF RebuildSeekEnd
<1>1. Running(r) /\ reb[r].pc \in RebuildSteps
  BY DEF Running, RebuildSteps
<1>2. n \in Nodes /\ reb[r] \in RebuildState
  BY <1>1, RunningTypes
<1>3. CASE IsOpen(n)
  <2> DEFINE t == [reb[r] EXCEPT !.pc = "write"]
  <2>1. node' = [node EXCEPT ![n].pos = Len(Data(n))] /\ reb' = [reb EXCEPT ![r] = t]
    BY <1>3
  <2>2. /\ t \in RebuildState /\ t.pc = "write"
        /\ t.slot = reb[r].slot /\ t.old = reb[r].old /\ t.new = reb[r].new
    BY <1>2, ThreadState DEF RebuildSteps
  <2>3. Len(Data(n)) \in Nat
    <3>1. Data(n) \in Seq(Records)
      BY <1>2, <1>3 DEF IInv, Types, NodeTypes, DiskTypes, IsOpen, Data
    <3> QED BY <3>1, LenProperties
  <2>4. NodeTypes' /\ \A m \in Nodes : UNCHANGED <<node[m].fd, node[m].totalOffset>>
    BY <1>2, <1>3, <2>1, <2>3, PosMoved
  <2> HIDE DEF t
  <2> QED BY <1>1, <2>1, <2>2, <2>4, ThreadStep DEF mem, counters, RebuildSteps
<1>4. CASE ~IsOpen(n)
  BY <1>4, SkippedIInv
<1> QED BY <1>3, <1>4

\* A write through a descriptor, or nowhere.
LEMMA DiskKept ==
  ASSUME IInv, NEW i, NEW s, i \in Inodes => s \in Seq(Records), disk' = [disk EXCEPT ![i] = s],
         UNCHANGED <<fileNum, dir, tmp>>
  PROVE  DiskTypes'
<1>1. CASE i \in Inodes
  BY <1>1, FileWritten
<1>2. CASE i \notin Inodes
  <2>1. disk' = disk
    BY <1>2 DEF IInv, Types, DiskTypes
  <2> QED BY <2>1 DEF IInv, Types, DiskTypes
<1> QED BY <1>1, <1>2

\* The new DataNode after appendRecord.
LEMMA WrittenNode ==
  ASSUME NEW e \in DataNode
  PROVE  LET d == [e EXCEPT !.pos = e.pos + 1, !.totalOffset = e.totalOffset + 1]
         IN  d \in DataNode /\ d.fd = e.fd /\ d.inode = e.inode /\ d.totalOffset > 0
<1> DEFINE p == e.pos + 1
           o == e.totalOffset + 1
<1>1. p \in Nat /\ o \in Nat /\ o > 0
  BY DEF DataNode
<1> HIDE DEF p, o
<1>2. LET d == [e EXCEPT !.pos = p, !.totalOffset = o]
      IN  d \in DataNode /\ d.fd = e.fd /\ d.inode = e.inode /\ d.totalOffset = o
  BY <1>1 DEF DataNode
<1> QED BY <1>1, <1>2 DEF p, o

LEMMA RebuildWriteIInv == ASSUME IInv, NEW r \in Rebuilds, RebuildWrite(r) PROVE IInv'
<1> DEFINE n == reb[r].new
           i == node[n].inode
           t == [reb[r] EXCEPT !.pc = "cas"]
           d == [node[n] EXCEPT !.pos = node[n].pos + 1, !.totalOffset = node[n].totalOffset + 1]
<1> USE DEF RebuildWrite
<1>0. CASE ~IsOpen(n)
  BY <1>0, SkippedIInv
<1> SUFFICES ASSUME IsOpen(n) PROVE IInv'
  BY <1>0
<1>1. Running(r) /\ reb[r].pc \in RebuildSteps
  BY DEF Running, RebuildSteps
<1>2. /\ n \in Nodes /\ reb[r] \in RebuildState /\ reb[r].rec \in Records
      /\ node[n] \in DataNode /\ node[n].fd # "none" /\ node[n].pos \in Nat
  BY <1>1, RunningTypes DEF RebuildState, DataNode
<1>3. reb' = [reb EXCEPT ![r] = t] /\ node' = [node EXCEPT ![n] = d]
  BY <1>2 DEF IInv, Types, NodeTypes
<1>4. /\ t \in RebuildState /\ t.pc = "cas"
      /\ t.slot = reb[r].slot /\ t.old = reb[r].old /\ t.new = reb[r].new
  BY <1>2, ThreadState DEF RebuildSteps
<1>5. /\ d \in DataNode /\ d.fd = node[n].fd /\ d.inode = node[n].inode
      /\ d.totalOffset > 0
  <2> HIDE DEF n
  <2> QED BY <1>2, WrittenNode
<1>6. /\ NodeTypes' /\ node'[n] = d
      /\ \A m \in Nodes : m # n => node'[m] = node[m]
  <2> HIDE DEF n, d
  <2> QED BY <1>2, <1>3, <1>5 DEF IInv, Types, NodeTypes
<1>7. DiskTypes'
  <2> DEFINE s == WriteAt(disk[i], node[n].pos, reb[r].rec)
  <2>1. ASSUME i \in Inodes PROVE s \in Seq(Records)
    <3>1. disk[i] \in Seq(Records)
      BY <2>1 DEF IInv, Types, DiskTypes
    <3> QED BY <1>2, <3>1, Overwritten, AppendProperties DEF WriteAt
  <2>2. disk' = [disk EXCEPT ![i] = s]
    OBVIOUS
  <2> QED BY <2>1, <2>2, DiskKept DEF mem
<1>8. IndexTypes' /\ Presence'
  BY PresenceKept DEF mem
<1>9. OthersKept(r, t)
  <2> HIDE DEF d, t
  <2> QED BY <1>2, <1>4, <1>5, <1>6 DEF OthersKept, RebuildSteps
<1>10. MovesOn(r, t)
  BY <1>1, <1>3, <1>4 DEF MovesOn, mem, counters, RebuildSteps
<1> HIDE DEF t, RebuildWrite
<1> QED BY <1>1, <1>6, <1>7, <1>8, <1>9, <1>10, RebuildStep

LEMMA RebuildCompareAndSetIInv ==
  ASSUME IInv, NEW r \in Rebuilds, RebuildCompareAndSet(r) PROVE IInv'
<1> DEFINE n == reb[r].new
           k == reb[r].rec.key
           t == [reb[r] EXCEPT !.pc = "seek", !.offset = @ + 1]
<1> USE DEF RebuildCompareAndSet
<1>1. Running(r) /\ reb[r].pc \in RebuildSteps
  BY DEF Running, RebuildSteps
<1>2. /\ n \in Nodes /\ reb[r] \in RebuildState /\ reb[r].newOffset \in Nat
      /\ reb[r].offset \in Nat
      /\ node[n] \in DataNode /\ node[n].fd # "none"
  BY <1>1, RunningTypes DEF RebuildState
<1>3. reb' = [reb EXCEPT ![r] = t]
  BY DEF IInv, Types, ListTypes
<1>4. /\ t \in RebuildState /\ t.pc = "seek"
      /\ t.slot = reb[r].slot /\ t.old = reb[r].old /\ t.new = reb[r].new
  BY <1>2, SkippedState
<1>5. NodeTypes' /\ \A m \in Nodes : /\ node'[m].fd = node[m].fd
                                     /\ m # n => node'[m] = node[m]
  <2>1. CASE UNCHANGED node
    BY <2>1 DEF IInv, Types, NodeTypes
  <2>2. CASE node' = [node EXCEPT ![n].totalOffset = @ - 1]
    <3>1. node[n].totalOffset - 1 \in Nat
      BY <1>2 DEF IInv, NewApart, RebuildSteps, DataNode
    <3>2. node' = [node EXCEPT ![n].totalOffset = node[n].totalOffset - 1]
      BY <2>2
    <3> QED BY <1>2, <3>1, <3>2, OffsetMoved
  <2> QED BY <2>1, <2>2
<1>6. DiskTypes'
  BY DEF IInv, Types, DiskTypes
<1>7. IndexTypes' /\ Presence'
  <2>1. CASE UNCHANGED index
    BY <2>1, PresenceKept
  <2>2. ASSUME NEW m \in Old(r), IsCurrent(r, m), index' = [index EXCEPT ![k] = MovedPosition(r)]
        PROVE  IndexTypes' /\ Presence'
    <3> DEFINE p == MovedPosition(r)
    <3>1. p \in Nodes \X Nat /\ p # None
      BY <1>2, StoreAssumption DEF MovedPosition, Nodes
    <3>2. index[k] # None
      <4>1. <<m, reb[r].offset>> \in Nat \X Nat
        BY <1>1, <1>2, OldNodes DEF Nodes
      <4> QED BY <2>2, <4>1, StoreAssumption DEF IsCurrent
    <3>3. index' = [index EXCEPT ![k] = p] /\ latest' = latest
      BY <2>2
    <3> HIDE DEF p, k
    <3> QED BY <3>1, <3>2, <3>3 DEF IInv, Types, IndexTypes, Presence
  <2> QED BY <2>1, <2>2
<1>8. OthersKept(r, t)
  <2> HIDE DEF t
  <2> QED BY <1>4, <1>5 DEF OthersKept
<1>9. MovesOn(r, t)
  BY <1>1, <1>3, <1>4 DEF MovesOn, RebuildSteps, counters
<1> HIDE DEF t, RebuildCompareAndSet
<1> QED BY <1>1, <1>5, <1>6, <1>7, <1>8, <1>9, RebuildStep

LEMMA RebuildSwapIInv == ASSUME IInv, NEW r \in Rebuilds, RebuildSwap(r) PROVE IInv'
<1> DEFINE n == reb[r].new
           i == node[n].inode
           t == [reb[r] EXCEPT !.pc = "rename"]
<1> USE DEF RebuildSwap
<1>1. Running(r)
  BY DEF Running
<1>2. n \in Nodes /\ reb[r] \in RebuildState /\ node[n].fd # "none" /\ node[n] \in DataNode
  BY <1>1, RunningTypes
<1>3. /\ t \in RebuildState /\ t.pc = "rename"
      /\ t.slot = reb[r].slot /\ t.old = reb[r].old /\ t.new = reb[r].new
  BY <1>2, ThreadState
<1>4. NodeTypes' /\ \A m \in Nodes : node'[m] = IF m = n THEN [node[n] EXCEPT !.fd = "closed"] ELSE node[m]
  <2> HIDE DEF n
  <2> QED BY <1>2 DEF IInv, Types, NodeTypes, DataNode, n
<1>5. DiskTypes'
  <2>1. CASE IsOpen(n)
    <3> DEFINE s == SubSeq(disk[i], 1, KeptLength(n))
    <3>1. i \in Inodes /\ node[n].totalOffset \in Nat
      BY <1>2, <2>1 DEF IInv, Types, NodeTypes, IsOpen, DataNode
    <3>2. disk[i] \in Seq(Records) /\ Len(disk[i]) \in Nat
      BY <3>1, LenProperties DEF IInv, Types, DiskTypes
    <3>3. KeptLength(n) \in 0 .. Len(disk[i])
      BY <3>1, <3>2 DEF KeptLength, Shorter, Data
    <3>4. s \in Seq(Records)
      BY <3>2, <3>3, SubSeqProperties
    <3>5. disk' = [disk EXCEPT ![i] = s]
      BY <2>1
    <3> HIDE DEF s
    <3> QED BY <3>1, <3>4, <3>5, FileWritten
  <2>2. CASE ~IsOpen(n)
    BY <2>2 DEF IInv, Types, DiskTypes
  <2> QED BY <2>1, <2>2
<1>6. IndexTypes' /\ Presence'
  BY PresenceKept
<1>7. OthersKept(r, t)
  <2>1. [node[n] EXCEPT !.fd = "closed"].fd = "closed"
    BY <1>2 DEF DataNode
  <2> HIDE DEF t
  <2> QED BY <1>2, <1>3, <1>4, <2>1 DEF OthersKept
<1>8. MovesOn(r, t)
  BY <1>3 DEF MovesOn, RebuildSteps, counters
<1> HIDE DEF t, RebuildSwap
<1> QED BY <1>1, <1>4, <1>5, <1>6, <1>7, <1>8, RebuildStep

LEMMA RebuildRenameIInv == ASSUME IInv, NEW r \in Rebuilds, RebuildRename(r) PROVE IInv'
<1> DEFINE s == reb[r].slot
           t == [reb[r] EXCEPT !.pc = "reopen"]
<1> USE DEF RebuildRename
<1>1. Running(r)
  BY DEF Running
<1>2. s \in Files /\ reb[r] \in RebuildState
  BY <1>1, RunningTypes
<1>3. /\ t \in RebuildState /\ t.pc = "reopen"
      /\ t.slot = reb[r].slot /\ t.old = reb[r].old /\ t.new = reb[r].new
  BY <1>2, ThreadState
<1>4. NodeTypes' /\ node' = node
  BY DEF IInv, Types, NodeTypes
<1>5. DiskTypes'
  <2>1. fileNum' = fileNum
    BY DEF mem
  <2>2. ASSUME NEW f \in RenameTargets(r), tmp[s] # None, dir' = [dir EXCEPT ![f] = tmp[s]],
               tmp' = [tmp EXCEPT ![s] = None]
        PROVE  DiskTypes'
    <3>1. f \in Files
      BY <1>2, StoreAssumption DEF RenameTargets, Files, IInv, Types, ListTypes
    <3> HIDE DEF s
    <3> QED BY <1>2, <2>1, <2>2, <3>1 DEF IInv, Types, DiskTypes
  <2>3. CASE UNCHANGED <<dir, tmp>>
    BY <2>1, <2>3 DEF IInv, Types, DiskTypes
  <2> QED BY <2>2, <2>3
<1>6. IndexTypes' /\ Presence'
  BY PresenceKept DEF mem
<1>7. MovesOn(r, t) /\ OthersKept(r, t)
  BY <1>3, <1>4 DEF MovesOn, OthersKept, RebuildSteps, mem, counters
<1> HIDE DEF t, RebuildRename
<1> QED BY <1>1, <1>4, <1>5, <1>6, <1>7, RebuildStep

LEMMA RebuildReopenIInv == ASSUME IInv, NEW r \in Rebuilds, RebuildReopen(r) PROVE IInv'
<1> DEFINE n == reb[r].new
           i == dir[reb[r].slot]
           t == [reb[r] EXCEPT !.pc = "free"]
           d == [node[n] EXCEPT !.inode = i, !.fd = "open", !.pos = 0]
<1> USE DEF RebuildReopen
<1>1. Running(r)
  BY DEF Running
<1>2. /\ n \in Nodes /\ reb[r] \in RebuildState /\ node[n] \in DataNode /\ node[n].fd # "none"
      /\ reb[r].slot \in 1 .. fileNum
  BY <1>1, RunningTypes
<1>3. i \in Inodes
  BY <1>2 DEF IInv, Types, DiskTypes
<1>4. /\ t \in RebuildState /\ t.pc = "free"
      /\ t.slot = reb[r].slot /\ t.old = reb[r].old /\ t.new = reb[r].new
  BY <1>2, ThreadState
<1>5. d \in DataNode /\ d.fd = "open" /\ d.inode = i
  <2> HIDE DEF n, i
  <2> QED BY <1>2, <1>3 DEF DataNode
<1>6. /\ NodeTypes' /\ (node'[n] = d \/ node'[n] = node[n])
      /\ \A m \in Nodes : m # n => node'[m] = node[m]
  <2>1. node' = [node EXCEPT ![n] = d] \/ node' = node
    OBVIOUS
  <2> HIDE DEF n, d, i
  <2> QED BY <1>2, <1>3, <1>5, <2>1 DEF IInv, Types, NodeTypes
<1>7. DiskTypes' /\ IndexTypes' /\ Presence'
  BY PresenceKept DEF mem, IInv, Types, DiskTypes
<1>8. OthersKept(r, t)
  <2> HIDE DEF d, i, t
  <2> QED BY <1>2, <1>4, <1>5, <1>6 DEF OthersKept
<1>9. MovesOn(r, t)
  BY <1>4 DEF MovesOn, RebuildSteps, mem, counters
<1> HIDE DEF t, RebuildReopen
<1> QED BY <1>1, <1>6, <1>7, <1>8, <1>9, RebuildStep

LEMMA RebuildFreeIInv == ASSUME IInv, NEW r \in Rebuilds, RebuildFree(r) PROVE IInv'
<1> DEFINE n == reb[r].old
           t == [IdleRebuild EXCEPT !.pc = "done"]
           d == [NoNode EXCEPT !.fd = "freed"]
<1> USE DEF RebuildFree
<1>1. Running(r)
  BY DEF Running
<1>2. n \in Nodes
  BY <1>1, RunningTypes
<1>3. t \in RebuildState /\ t.pc = "done"
  BY StoreAssumption DEF IdleRebuild, RebuildState, Records, RebuildSteps
<1>4. d \in DataNode /\ d.fd = "freed"
  BY DEF NoNode, DataNode
<1>5. /\ NodeTypes'
      /\ \A m \in Nodes : /\ node[m].fd = "none" <=> node'[m].fd = "none"
                          /\ \/ node'[m] = node[m]
                             \/ m = n
                             \/ clashed /\ node'[m].totalOffset = node[m].totalOffset
  <2>1. node[n] \in DataNode /\ node[n].fd # "none" /\ (node[n].fd = "freed" => clashed)
    BY <1>1, RunningTypes DEF IInv, Undeleted
  <2>2. CASE node' = [node EXCEPT ![n] = d]
    <3> HIDE DEF n, d
    <3> QED BY <1>2, <1>4, <2>1, <2>2 DEF IInv, Types, NodeTypes
  <2>3. ASSUME NEW m \in StandsFor(n) \ {n}, NEW s \in {"closed", "freed"}, node[n].fd = "freed",
               node' = [node EXCEPT ![m].fd = s]
        PROVE  /\ NodeTypes'
               /\ \A k \in Nodes : /\ node[k].fd = "none" <=> node'[k].fd = "none"
                                   /\ \/ node'[k] = node[k]
                                      \/ clashed /\ node'[k].totalOffset = node[k].totalOffset
    <3>1. m \in Nodes /\ node[m].fd \in {"open", "closed"}
      BY <2>3 DEF StandsFor
    <3> QED BY <2>1, <2>3, <3>1 DEF IInv, Types, NodeTypes, DataNode
  <2>4. CASE node' = node
    BY <2>4 DEF IInv, Types, NodeTypes
  <2> QED BY <2>2, <2>3, <2>4
<1>6. DiskTypes' /\ IndexTypes' /\ Presence'
  BY PresenceKept DEF mem, IInv, Types, DiskTypes
<1>7. OthersKept(r, t)
  <2> HIDE DEF t, RebuildFree
  <2> QED BY <1>3, <1>5 DEF OthersKept
<1>8. MovesOn(r, t)
  BY <1>3 DEF MovesOn, RebuildSteps, mem, counters
<1> HIDE DEF t, RebuildFree
<1> QED BY <1>1, <1>5, <1>6, <1>7, <1>8, RebuildStep

LEMMA RebuildStartIInv == ASSUME IInv, NEW r \in Rebuilds, RebuildStart(r) PROVE IInv'
<1> DEFINE s == fileNum - 1
           i == IF tmp[s] = None THEN NewInode ELSE tmp[s]
           n == NewNode
           t == [IdleRebuild EXCEPT !.pc = "seek", !.slot = s, !.old = fileList[s], !.new = n]
<1> USE DEF RebuildStart, RebuildSlot
<1>1. /\ fileNum \in Nat /\ fileNum > 1 /\ fileNum <= MAXFILE /\ s \in Files /\ s \in 1 .. fileNum - 1
      /\ ~HalfManifest
  <2>1. reb[r].pc = "start"
    OBVIOUS
  <2> HIDE DEF RebuildStart
  <2>2. r < fileNum /\ r \in 1 .. MAXFILE - 1 /\ fileNum \in 0 .. MAXFILE
    BY <2>1 DEF IInv, Types, ListTypes, RebuildsBehind, Rebuilds
  <2>3. ~HalfManifest
    BY <2>1 DEF HalfManifest
  <2> QED BY <2>2, <2>3, StoreAssumption DEF Files
<1>2. i \in Inodes
  BY <1>1, FreeInode DEF IInv, Types, DiskTypes
<1>3. r \notin Started /\ Cardinality(Started) < MAXFILE - 1
  BY StartedNotAll DEF Started
<1>4. n \in Nodes /\ node[n] = NoNode
  <2>1. Cardinality(Allocated) < 2 * MAXFILE
    BY <1>1, <1>3, AllocatedFinite, StartedFinite, StoreAssumption DEF IInv, NodesCounted
  <2> QED BY <2>1, FreeNode
<1>5. /\ NodeTypes' /\ node'[n].fd # "none"
      /\ \A m \in Nodes : m # n => node'[m] = node[m]
      /\ Cardinality(Allocated') = Cardinality(Allocated) + 1
  <2>1. CASE node' = [node EXCEPT ![n] = [NoNode EXCEPT !.inode = i, !.fd = "open"]]
    <3> DEFINE d == [NoNode EXCEPT !.inode = i, !.fd = "open"]
    <3>1. d \in DataNode /\ d.fd = "open" /\ d.inode \in Inodes
      BY <1>2, NewDataNode
    <3>2. node' = [node EXCEPT ![n] = d]
      BY <2>1
    <3> HIDE DEF d, n, i
    <3> QED BY <1>4, <3>1, <3>2, NodeAdded
  <2>2. CASE node' = [node EXCEPT ![n] = [NoNode EXCEPT !.fd = "closed"]]
    BY <1>2, <1>4, <2>2, NewDataNode, NodeAdded
  <2> QED BY <2>1, <2>2
<1>6. DiskTypes'
  <2>1. fileNum' = fileNum /\ dir' = dir
    BY DEF mem
  <2>2. CASE tmp' = [tmp EXCEPT ![s] = i] /\ disk' = [disk EXCEPT ![i] = << >>]
    <3>1. << >> \in Seq(Records)
      OBVIOUS
    <3> HIDE DEF s, i
    <3> QED BY <1>1, <1>2, <2>1, <2>2, <3>1 DEF IInv, Types, DiskTypes
  <2>3. CASE UNCHANGED <<tmp, disk>>
    BY <2>1, <2>3 DEF IInv, Types, DiskTypes
  <2> QED BY <2>2, <2>3
<1>7. fileList[s] \in Nodes /\ fileList[s] # Active /\ node[fileList[s]].fd # "none" /\ fileList[s] # n
  <2>1. fileList[s] \in Nodes /\ fileList[s] # Active /\ node[fileList[s]].fd # "none"
    BY <1>1 DEF IInv, ActiveApart
  <2> QED BY <1>4, <2>1 DEF NoNode
<1>8. Active \in Nodes /\ Active # n /\ node'[Active] = node[Active]
  <2>1. Active \in Nodes /\ node[Active].fd # "none"
    BY <1>1, ActiveNode DEF IInv, ActiveApart, Active
  <2> QED BY <1>4, <1>5, <2>1 DEF NoNode
<1>9. t \in RebuildState /\ t.pc = "seek" /\ t.slot = s /\ t.old = fileList[s] /\ t.new = n
  <2>1. s \in 0 .. MAXFILE - 1 /\ fileList[s] \in 0 .. 2 * MAXFILE /\ n \in 0 .. 2 * MAXFILE
    BY <1>1, <1>4, <1>7, StoreAssumption DEF Nodes
  <2> HIDE DEF s, n
  <2> QED BY <2>1 DEF IdleRebuild, RebuildState, RebuildSteps, Records
<1>10. reb' = [reb EXCEPT ![r] = t]
  OBVIOUS
<1> HIDE DEF t
<1>11. reb'[r] = t /\ \A q \in Rebuilds : q # r => reb'[q] = reb[q]
  BY <1>10 DEF IInv, Types, ListTypes
<1>12. /\ UNCHANGED <<OFFLIMIT, fileNum, fileList, index, manifest, io, latest>> /\ Active' = Active
       /\ clashed => clashed'
       /\ ~clashed' => /\ ~clashed
                       /\ \A q \in Rebuilds : Running(q) => reb[q].old # fileList[s]
  BY DEF mem, Active, Running
<1> HIDE DEF RebuildStart
<1>13. ListTypes' /\ IoTypes' /\ IndexTypes' /\ Presence'
  BY <1>9, <1>10, <1>12, PresenceKept DEF IInv, Types, ListTypes, IoTypes
<1>14. FilesInOrder' /\ AppendsToActive'
  BY <1>1, <1>8, <1>12 DEF IInv, FilesInOrder, AppendsToActive, NeedsFile, IsOpen
<1>15. \A m \in Nodes : node[m].fd # "none" => m # n /\ node'[m] = node[m]
  BY <1>4, <1>5 DEF NoNode
<1>16. ActiveApart'
  BY <1>12, <1>15 DEF IInv, ActiveApart
<1>17. RebuildsBehind'
  <2>1. ASSUME NEW q \in Rebuilds, q # r PROVE reb'[q] = reb[q] /\ Running(q)' = Running(q)
    BY <1>11, <2>1 DEF Running
  <2>2. \A q \in Rebuilds : reb'[q].pc # "idle" => reb[q].pc # "idle"
    <3>1. reb[r].pc # "idle"
      BY DEF RebuildStart
    <3> QED BY <1>11, <3>1
  <2>3. ASSUME NEW q \in Rebuilds, Running(q)'
        PROVE  /\ reb'[q].slot \in 1 .. fileNum - 1
               /\ reb'[q].old \in Nodes /\ reb'[q].old # Active /\ node'[reb'[q].old].fd # "none"
               /\ reb'[q].new \in Nodes /\ reb'[q].new # Active /\ node'[reb'[q].new].fd # "none"
    <3>1. CASE q = r
      BY <1>1, <1>4, <1>5, <1>7, <1>8, <1>9, <1>11, <1>15, <3>1
    <3>2. CASE q # r
      BY <1>15, <2>1, <2>3, <3>2 DEF IInv, RebuildsBehind
    <3> QED BY <3>1, <3>2
  <2> QED BY <1>12, <2>2, <2>3 DEF IInv, RebuildsBehind
<1>18. NewApart'
  <2>1. ASSUME NEW q \in Rebuilds, q # r, Running(q)'
        PROVE  reb'[q] = reb[q] /\ Running(q) /\ reb[q].new \in Nodes /\ reb[q].old # n /\ reb[q].new # n
               /\ node'[reb[q].new] = node[reb[q].new]
    <3>1. reb'[q] = reb[q] /\ Running(q)
      BY <1>11, <2>1 DEF Running
    <3> QED BY <1>15, <3>1 DEF IInv, RebuildsBehind
  <2>2. ASSUME NEW q \in Rebuilds, q # r, reb'[q].pc \in RebuildSteps
        PROVE  Running(q)' /\ reb[q].pc \in RebuildSteps
    BY <1>11, <2>2 DEF Running, RebuildSteps
  <2>3. \A f \in 1 .. fileNum : fileList[f] # n
    BY <1>15 DEF IInv, ActiveApart
  <2>4. ASSUME NEW q \in Rebuilds, q # r, reb'[q].pc \in RebuildSteps
        PROVE  /\ \A f \in 1 .. fileNum : fileList[f] # reb[q].new
               /\ fileList[s] # reb[q].new
    BY <1>1, <2>2, <2>4 DEF IInv, NewApart
  <2>5. reb'[r].new = n /\ reb'[r].old = fileList[s] /\ reb'[r].pc = "seek"
    BY <1>9, <1>11
  <2>6. ASSUME NEW q \in Rebuilds, q # r, reb'[q].pc \in RebuildSteps,
               NEW p \in Rebuilds, p # r, Running(p)'
        PROVE  reb'[p].old # reb'[q].new /\ (p # q => reb'[p].new # reb'[q].new)
    BY <2>1, <2>2, <2>6 DEF IInv, NewApart
  <2>7. ASSUME NEW q \in Rebuilds, q # r, reb'[q].pc = "cas" PROVE node'[reb'[q].new].totalOffset > 0
    BY <2>1, <2>2, <2>7 DEF IInv, NewApart, RebuildSteps
  <2> HIDE DEF s, n
  <2>8. ASSUME NEW q \in Rebuilds, q # r, reb'[q].pc \in RebuildSteps
        PROVE  reb'[q].new = reb[q].new /\ reb[q].new # n
    BY <2>1, <2>2, <2>8
  <2> QED BY <1>7, <1>12, <2>1, <2>3, <2>4, <2>5, <2>6, <2>7, <2>8 DEF NewApart
<1>19. NodesCounted'
  <2>1. Started' = Started \cup {r}
    BY <1>9, <1>11 DEF Started
  <2>2. Cardinality(Started') = Cardinality(Started) + 1
    BY <1>3, <2>1, StartedFinite, FS_AddElement
  <2> QED BY <1>1, <1>5, <1>12, <2>2, AllocatedFinite, StartedFinite, StoreAssumption DEF IInv, NodesCounted
<1>20. Undeleted'
  <2> SUFFICES ASSUME ~clashed' PROVE Undeleted'
    BY DEF Undeleted
  <2>1. /\ \A f \in 1 .. fileNum : /\ fileList[f] \in Nodes /\ node[fileList[f]].fd # "none"
                                   /\ node[fileList[f]].fd # "freed"
        /\ \A f, g \in 1 .. fileNum : fileList[f] = fileList[g] => f = g
    BY <1>12 DEF IInv, Undeleted, ActiveApart
  <2>2. \A f \in 1 .. fileNum : node'[fileList[f]].fd # "freed"
    BY <1>15, <2>1
  <2>3. ASSUME NEW q \in Rebuilds, q # r, Running(q)'
        PROVE  /\ reb'[q] = reb[q] /\ Running(q) /\ reb[q].old # fileList[s]
               /\ node'[reb[q].old] = node[reb[q].old] /\ node'[reb[q].new] = node[reb[q].new]
    <3>1. reb'[q] = reb[q] /\ Running(q)
      BY <1>11, <2>3 DEF Running
    <3> QED BY <1>12, <1>15, <3>1 DEF IInv, RebuildsBehind
  <2>4. /\ reb'[r].pc = "seek" /\ reb'[r].old = fileList[s] /\ reb'[r].slot = s
        /\ reb'[r].new = n /\ node'[n].fd \in {"open", "closed"} /\ s \in 1 .. fileNum
    <3>1. node'[n].fd \in {"open", "closed"}
      BY <1>4, NewDataNode, <1>2 DEF RebuildStart, IInv, Types, NodeTypes
    <3> QED BY <1>1, <1>9, <1>11, <3>1
  <2> HIDE DEF s, n
  <2> QED BY <1>12, <2>1, <2>2, <2>3, <2>4 DEF IInv, Undeleted, RebuildSteps
<1> QED BY <1>5, <1>6, <1>13, <1>14, <1>16, <1>17, <1>18, <1>19, <1>20 DEF IInv, Types

-----------------------------------------------------------------------------
(* The restart *)

\* A set of numbers that is not empty and has a bound has a greatest element.
LEMMA GreatestNumber ==
  ASSUME NEW S \in SUBSET Nat, S # {}, NEW b \in Nat, \A n \in S : n <= b
  PROVE  \E m \in S : \A n \in S : n <= m
<1> DEFINE T == {b - n : n \in S}
<1>1. T \in SUBSET Nat /\ T # {}
  <2>1. \A n \in S : b - n \in Nat
    OBVIOUS
  <2>2. PICK n \in S : TRUE
    OBVIOUS
  <2>3. b - n \in T
    OBVIOUS
  <2> QED BY <2>1, <2>3
<1>2. Least(T) \in T /\ \A y \in T : Least(T) <= y
  BY <1>1, LeastIsMember
<1>3. PICK m \in S : Least(T) = b - m
  BY <1>2
<1>4. ASSUME NEW n \in S PROVE n <= m
  <2>1. b - m <= b - n
    BY <1>2, <1>3
  <2> QED BY <2>1
<1> QED BY <1>4

\* The last of the positions is the greatest offset in the greatest file.
LEMMA LastPositionIsMember ==
  ASSUME NEW S \in SUBSET (Files \X Nat), S # {},
         \A f \in Files : \E b \in Nat : \A p \in S : p[1] = f => p[2] <= b
  PROVE  LastPosition(S) \in S
<1> DEFINE F == {f \in Files : \E p \in S : p[1] = f}
<1>1. F \in SUBSET Nat /\ F # {} /\ MAXFILE \in Nat /\ \A f \in F : f <= MAXFILE
  BY StoreAssumption DEF Files
<1>2. PICK f \in F : \A g \in F : g <= f
  BY <1>1, GreatestNumber
<1> DEFINE O == {o \in Nat : <<f, o>> \in S}
<1>3. O \in SUBSET Nat /\ O # {}
  <2>1. PICK p \in S : p[1] = f
    BY <1>2
  <2>2. p = <<f, p[2]>> /\ p[2] \in Nat
    BY <2>1
  <2> QED BY <2>2
<1>4. PICK b \in Nat : \A p \in S : p[1] = f => p[2] <= b
  BY <1>2
<1>5. \A o \in O : o <= b
  BY <1>4
<1>6. PICK o \in O : \A q \in O : q <= o
  BY <1>3, <1>5, GreatestNumber
<1>7. <<f, o>> \in S
  BY <1>6
<1>8. ASSUME NEW p \in S PROVE p[1] < f \/ (p[1] = f /\ p[2] <= o)
  <2>1. p = <<p[1], p[2]>> /\ p[1] \in Files /\ p[2] \in Nat
    OBVIOUS
  <2>2. p[1] <= f /\ p[1] \in Nat /\ f \in Nat
    BY <1>2, <2>1 DEF Files
  <2>3. ASSUME p[1] = f PROVE p[2] <= o
    BY <1>6, <2>1, <2>3
  <2> QED BY <2>2, <2>3
<1>9. \E a \in S : \A p \in S : p[1] < a[1] \/ (p[1] = a[1] /\ p[2] <= a[2])
  <2>1. <<f, o>>[1] = f /\ <<f, o>>[2] = o
    OBVIOUS
  <2> QED BY <1>7, <1>8, <2>1
<1> QED BY <1>9 DEF LastPosition

\* initlization reads no more records than the file has.
LEMMA ScanLengthBound ==
  ASSUME NEW d \in Seq(Records)
  PROVE  ScanLength(d) \in 0 .. Len(d)
<1> DEFINE S == {j \in DOMAIN d : d[j].val = Torn} \cup {Len(d) + 1}
<1>1. Len(d) \in Nat /\ DOMAIN d = 1 .. Len(d)
  BY LenProperties
<1>2. S \in SUBSET Nat /\ S # {} /\ \A j \in S : j \in 1 .. Len(d) + 1
  BY <1>1
<1>3. Least(S) \in 1 .. Len(d) + 1
  <2> HIDE DEF S
  <2> QED BY <1>2, LeastIsMember
<1> QED BY <1>1, <1>3 DEF ScanLength

\* What initlization finds in a file that has a name.
LEMMA RecoveredFile ==
  ASSUME IInv, NEW f \in Files, Named(f)
  PROVE  /\ f <= fileNum /\ dir[f] \in Inodes
         /\ Recovered(f) \in Seq(Records) /\ Len(Recovered(f)) \in Nat
         /\ \A o \in DOMAIN Recovered(f) : /\ o \in 1 .. Len(Recovered(f))
                                           /\ Recovered(f)[o] = disk[dir[f]][o]
<1> DEFINE d == disk[dir[f]]
<1>1. f \in 1 .. fileNum
  BY StoreAssumption
     DEF IInv, Types, ListTypes, FilesInOrder, HalfManifest, Named, Files
<1>2. dir[f] \in Inodes
  BY <1>1 DEF IInv, Types, DiskTypes
<1>3. d \in Seq(Records)
  BY <1>2 DEF IInv, Types, DiskTypes
<1>4. ScanLength(d) \in 0 .. Len(d) /\ Len(d) \in Nat
  BY <1>3, ScanLengthBound, LenProperties
<1>5. /\ SubSeq(d, 1, ScanLength(d)) \in Seq(Records)
      /\ Len(SubSeq(d, 1, ScanLength(d))) = ScanLength(d)
      /\ \A o \in 1 .. ScanLength(d) : SubSeq(d, 1, ScanLength(d))[o] = d[o]
  <2> HIDE DEF d
  <2>1. ScanLength(d) \in Nat
    BY <1>4
  <2> QED BY <1>3, <1>4, <2>1, SubSeqProperties
<1>6. DOMAIN Recovered(f) = 1 .. Len(Recovered(f))
  BY <1>5, LenProperties DEF Recovered
<1> QED BY <1>1, <1>2, <1>4, <1>5, <1>6 DEF Recovered

\* The positions of the records of a key that initlization finds.
LEMMA RecoveredPositionsTypes ==
  ASSUME IInv, NEW k, NEW p \in RecoveredPositions(k)
  PROVE  \E f \in Files, o \in Nat \ {0} :
           /\ Named(f) /\ p = <<f, o - 1>> /\ o \in DOMAIN Recovered(f)
           /\ Recovered(f)[o].key = k /\ Recovered(f)[o].val # Deleted
<1>1. PICK f \in {g \in Files : Named(g)} :
        p \in {<<f, o - 1>> : o \in {i \in DOMAIN Recovered(f) :
                                       Recovered(f)[i].key = k /\ Recovered(f)[i].val # Deleted}}
  BY DEF RecoveredPositions
<1>2. PICK o \in DOMAIN Recovered(f) :
        /\ Recovered(f)[o].key = k /\ Recovered(f)[o].val # Deleted
        /\ p = <<f, o - 1>>
  BY <1>1
<1>3. o \in Nat \ {0}
  BY RecoveredFile
<1> QED BY <1>2, <1>3

\* The restart gives a key an entry exactly when it finds a value of it.
LEMMA RecoveredEntry ==
  ASSUME IInv, NEW k, RecoveredPositions(k) # {}
  PROVE  /\ LastPosition(RecoveredPositions(k)) \in Files \X Nat
         /\ RecoveredValue(k) # Deleted
<1> DEFINE S == RecoveredPositions(k)
<1>1. S \in SUBSET (Files \X Nat)
  <2>1. ASSUME NEW p \in S PROVE p \in Files \X Nat
    <3>1. PICK f \in Files, o \in Nat \ {0} : p = <<f, o - 1>>
      BY RecoveredPositionsTypes
    <3>2. o - 1 \in Nat
      OBVIOUS
    <3> QED BY <3>1, <3>2
  <2> QED BY <2>1
<1>2. ASSUME NEW f \in Files PROVE \E b \in Nat : \A p \in S : p[1] = f => p[2] <= b
  <2>1. CASE ~Named(f)
    <3>1. ASSUME NEW p \in S PROVE p[1] # f
      <4>1. PICK g \in Files, o \in Nat \ {0} : Named(g) /\ p = <<g, o - 1>>
        BY RecoveredPositionsTypes
      <4>2. p[1] = g
        BY <4>1
      <4> QED BY <2>1, <4>1, <4>2
    <3> QED BY <3>1
  <2>2. CASE Named(f)
    <3> DEFINE b == Len(Recovered(f))
    <3>1. b \in Nat
      BY <2>2, RecoveredFile
    <3>2. ASSUME NEW p \in S, p[1] = f PROVE p[2] <= b
      <4>1. PICK g \in Files, o \in Nat \ {0} : p = <<g, o - 1>> /\ o \in DOMAIN Recovered(g)
        BY RecoveredPositionsTypes
      <4>2. g = f /\ p[2] = o - 1
        BY <3>2, <4>1
      <4>3. o \in 1 .. b
        BY <2>2, <4>1, <4>2, RecoveredFile
      <4> HIDE DEF b
      <4> QED BY <3>1, <4>2, <4>3
    <3> QED BY <3>1, <3>2
  <2> QED BY <2>1, <2>2
<1>3. LastPosition(S) \in S
  <2>1. S # {}
    OBVIOUS
  <2> HIDE DEF S
  <2> QED BY <1>1, <1>2, <2>1, LastPositionIsMember
<1>4. PICK f \in Files, o \in Nat \ {0} :
        /\ Named(f) /\ LastPosition(S) = <<f, o - 1>> /\ o \in DOMAIN Recovered(f)
        /\ Recovered(f)[o].val # Deleted
  BY <1>3, RecoveredPositionsTypes
<1>5. Recovered(f)[o] = disk[dir[f]][o]
  BY <1>4, RecoveredFile
<1>6. RecoveredValue(k) = disk[dir[LastPosition(S)[1]]][LastPosition(S)[2] + 1].val
  BY DEF RecoveredValue
<1>7. LastPosition(S)[1] = f /\ LastPosition(S)[2] + 1 = o
  <2>1. <<f, o - 1>>[1] = f /\ <<f, o - 1>>[2] = o - 1 /\ o - 1 + 1 = o
    OBVIOUS
  <2> HIDE DEF S
  <2> QED BY <1>4, <2>1
<1> HIDE DEF S
<1> QED BY <1>1, <1>3, <1>4, <1>5, <1>6, <1>7 DEF S

\* The restart builds everything anew from manFile and the files.
LEMMA RestartIInv == ASSUME IInv, Restart PROVE IInv'
<1> USE DEF Restart
<1>1. /\ manifest \in [num : 0 .. MAXFILE, names : 0 .. MAXFILE]
      /\ manifest.num \in Nat /\ manifest.names \in Nat /\ fileNum \in Nat
      /\ manifest.names <= manifest.num /\ manifest.num <= fileNum
      /\ manifest.num <= MAXFILE /\ manifest.num <= manifest.names + 1
  <2>1. manifest \in [num : 0 .. MAXFILE, names : 0 .. MAXFILE] /\ fileNum \in 0 .. MAXFILE
    BY DEF IInv, Types, ListTypes
  <2> QED BY <2>1, StoreAssumption DEF IInv, FilesInOrder, HalfManifest
<1>2. /\ fileNum' = manifest.num
      /\ fileList' = [f \in Files |-> IF f <= manifest.num THEN f ELSE 0]
      /\ node' = [n \in Nodes |-> RecoveredNode(n)]
      /\ io' = IdleIo /\ reb' = [r \in Rebuilds |-> IdleRebuild]
      /\ UNCHANGED <<OFFLIMIT, disk, dir, tmp, manifest>>
  OBVIOUS
<1>3. /\ index' = [k \in Keys |-> IF RecoveredPositions(k) = {} THEN None
                                  ELSE LastPosition(RecoveredPositions(k))]
      /\ latest' = [k \in Keys |-> RecoveredValue(k)]
  OBVIOUS
<1> HIDE DEF Restart
<1>4. ListTypes'
  <2>1. IdleRebuild \in RebuildState
    BY StoreAssumption DEF IdleRebuild, RebuildState, Records
  <2>2. fileList' \in [Files -> 0 .. 2 * MAXFILE]
    BY <1>2, StoreAssumption DEF Files
  <2>3. OFFLIMIT' \in DOMAIN Bounds /\ fileNum' \in 0 .. MAXFILE
    BY <1>1, <1>2 DEF IInv, Types, ListTypes
  <2> QED BY <1>1, <1>2, <2>1, <2>2, <2>3 DEF ListTypes
<1>5. ASSUME NEW n \in Nodes
      PROVE  /\ RecoveredNode(n) \in DataNode
             /\ n > manifest.num => RecoveredNode(n) = NoNode
             /\ n <= manifest.num => RecoveredNode(n).fd # "none"
             /\ n <= manifest.num /\ ~Named(n) =>
                  RecoveredNode(n).fd = "closed" /\ RecoveredNode(n).totalOffset = 0
             /\ n <= manifest.num /\ Named(n) =>
                  RecoveredNode(n).fd = "open" /\ RecoveredNode(n).inode \in Inodes
  <2>0. n \in Nat /\ NoNode \in DataNode
    BY DEF Nodes, NoNode, DataNode
  <2>1. CASE n > manifest.num
    <3>1. RecoveredNode(n) = NoNode
      BY <2>1 DEF RecoveredNode
    <3>2. ~(n <= manifest.num)
      BY <1>1, <2>0, <2>1
    <3> QED BY <2>0, <3>1, <3>2
  <2>2. CASE ~(n > manifest.num) /\ ~Named(n)
    BY <1>1, <2>0, <2>2, NewDataNode DEF RecoveredNode, NoNode, DataNode
  <2>3. CASE ~(n > manifest.num) /\ Named(n)
    <3>1. n \in Files
      BY <1>1, <2>3, StoreAssumption DEF Files, Nodes
    <3>2. dir[n] \in Inodes /\ Len(Recovered(n)) \in Nat
      BY <2>3, <3>1, RecoveredFile
    <3> QED BY <1>1, <2>0, <2>3, <3>2 DEF RecoveredNode, DataNode
  <2> QED BY <2>1, <2>2, <2>3
<1>6. NodeTypes'
  <2>1. \A n \in Nodes : node'[n] = RecoveredNode(n)
    BY <1>2
  <2>2. NoNode.fd = "none"
    BY DEF NoNode
  <2>3. \A n \in Nodes : n \in Nat
    BY DEF Nodes
  <2>4. \A n \in Nodes : RecoveredNode(n).fd = "none" => RecoveredNode(n) = NoNode
    BY <1>1, <1>5, <2>3
  <2>5. \A n \in Nodes : RecoveredNode(n).fd = "open" => RecoveredNode(n).inode \in Inodes
    BY <1>1, <1>5, <2>2, <2>3
  <2> QED BY <1>2, <1>5, <2>1, <2>4, <2>5 DEF NodeTypes
<1>7. DiskTypes'
  BY <1>1, <1>2 DEF IInv, Types, DiskTypes
<1>8. IoTypes' /\ io'.pc = "ready"
  BY <1>2, Idle
<1>9. IndexTypes' /\ Presence'
  <2>1. ASSUME NEW k \in Keys
        PROVE  /\ index'[k] \in (Nodes \X Nat) \cup {None}
               /\ index'[k] = None <=> latest'[k] = Deleted
    <3>1. CASE RecoveredPositions(k) = {}
      BY <1>3, <3>1 DEF RecoveredValue
    <3>2. CASE RecoveredPositions(k) # {}
      <4>1. LastPosition(RecoveredPositions(k)) \in Files \X Nat /\ RecoveredValue(k) # Deleted
        BY <3>2, RecoveredEntry
      <4>2. Files \X Nat \subseteq Nodes \X Nat /\ Nodes \X Nat \subseteq Nat \X Nat
        BY StoreAssumption DEF Files, Nodes
      <4>3. index'[k] = LastPosition(RecoveredPositions(k)) /\ latest'[k] = RecoveredValue(k)
        BY <1>3, <3>2
      <4> QED BY <4>1, <4>2, <4>3, StoreAssumption
    <3> QED BY <3>1, <3>2
  <2> QED BY <1>3, <2>1 DEF IndexTypes, Presence
<1>10. \A f \in 1 .. manifest.num : f \in Files /\ f \in Nodes /\ fileList'[f] = f
  BY <1>1, <1>2, StoreAssumption DEF Files, Nodes
<1>11. fileNum' > 0 => /\ Active' = manifest.num /\ manifest.num \in Nodes
                       /\ node'[Active'] = RecoveredNode(manifest.num)
  BY <1>1, <1>2, <1>10 DEF Active
<1>12. \A r \in Rebuilds : reb'[r].pc = "idle"
  BY <1>2 DEF IdleRebuild
<1>13. FilesInOrder'
  <2>1. CASE manifest.num = 0
    BY <1>1, <1>2, <1>8, <2>1 DEF FilesInOrder
  <2>2. CASE manifest.num > 0 /\ manifest.names = manifest.num
    <3>1. Named(manifest.num)
      BY <1>1, <2>2 DEF Named
    <3>2. IsOpen(Active)'
      BY <1>1, <1>2, <1>5, <1>11, <2>2, <3>1 DEF IsOpen
    <3> QED BY <1>1, <1>2, <1>8, <2>2, <3>2 DEF FilesInOrder
  <2>3. CASE manifest.num > 0 /\ manifest.names # manifest.num
    <3>1. ~Named(manifest.num) /\ manifest.names = manifest.num - 1
      BY <1>1, <2>3 DEF Named
    <3>2. RecoveredNode(manifest.num).fd = "closed" /\ RecoveredNode(manifest.num).totalOffset = 0
      BY <1>1, <1>2, <1>5, <1>11, <2>3, <3>1
    <3>3. HalfManifest'
      BY <1>1, <1>2, <1>8, <1>11, <1>12, <2>3, <3>1, <3>2 DEF HalfManifest
    <3> QED BY <3>3 DEF FilesInOrder
  <2> QED BY <1>1, <2>1, <2>2, <2>3
<1>14. AppendsToActive'
  BY <1>8 DEF AppendsToActive
<1>15. ActiveApart'
  <2>1. \A f \in 1 .. manifest.num : node'[f].fd # "none"
    BY <1>1, <1>2, <1>5, <1>10
  <2>2. ASSUME NEW f \in 1 .. manifest.num - 1 PROVE fileList'[f] # Active'
    <3>1. f \in 1 .. manifest.num /\ f # manifest.num /\ manifest.num > 0
      BY <1>1
    <3> QED BY <1>2, <1>10, <1>11, <3>1
  <2> QED BY <1>2, <1>10, <2>1, <2>2 DEF ActiveApart
<1>16. RebuildsBehind' /\ NewApart'
  BY <1>12 DEF RebuildsBehind, NewApart, RebuildSteps, Running
<1>17. NodesCounted'
  <2>1. Allocated' = 1 .. manifest.num
    <3>1. \A n \in Nodes : node'[n].fd # "none" <=> n \in 1 .. manifest.num
      BY <1>1, <1>2, <1>5 DEF NoNode, Nodes
    <3> QED BY <1>10, <3>1 DEF Allocated
  <2>2. Cardinality(1 .. manifest.num) = manifest.num
    BY <1>1, FS_Interval
  <2>3. Started' = {}
    BY <1>12 DEF Started
  <2>4. Cardinality(Started') = 0
    BY <2>3, FS_EmptySet
  <2> QED BY <1>1, <1>2, <2>1, <2>2, <2>4 DEF NodesCounted
<1>18. Undeleted'
  <2>1. \A f \in 1 .. manifest.num : node'[f].fd # "freed"
    BY <1>1, <1>2, <1>5, <1>10
  <2> QED BY <1>2, <1>10, <1>12, <2>1 DEF Undeleted, Running
<1> QED BY <1>4, <1>6, <1>7, <1>8, <1>9, <1>13, <1>14, <1>15, <1>16, <1>17, <1>18 DEF IInv, Types

-----------------------------------------------------------------------------
LEMMA StutterIInv == ASSUME IInv, UNCHANGED vars PROVE IInv'
BY DEF IInv, Types, ListTypes, NodeTypes, DiskTypes, IoTypes, IndexTypes, FilesInOrder, HalfManifest,
       AppendsToActive, ActiveApart, RebuildsBehind, NewApart, Undeleted, NodesCounted, Presence,
       Allocated, Started, Running, NeedsFile, Active, IsOpen, vars, mem, counters

LEMMA NextIInv == ASSUME IInv, [Next]_vars PROVE IInv'
<1>1. ASSUME NEW k \in Bound.keys,
             CallGet(k) \/ CallWrite(<<"del", k, Deleted>>)
             \/ \E v \in Values : CallWrite(<<"set", k, v>>)
      PROVE  IInv'
  <2>1. k \in Keys
    BY StoreAssumption DEF IInv, Types, ListTypes, Bound
  <2>2. <<"del", k, Deleted>> \in Writes /\ \A v \in Values : <<"set", k, v>> \in Writes
    BY <2>1 DEF Writes
  <2> QED BY <1>1, <2>1, <2>2, CallGetIInv, CallWriteIInv
<1>2. CASE DiskIO
  BY <1>2, GetLookupIInv, GetSeekIInv, GetReadIInv, CheckSkipIInv, CheckCreateIInv,
     CheckManifestNumIInv, CheckManifestNameIInv, AppendStartIInv, AppendFinishIInv,
     UpdateIndexIInv DEF DiskIO
<1>3. CASE AppendFault
  BY <1>3, AppendFaultIInv
<1>4. ASSUME NEW r \in Rebuilds, RebuildFile(r) PROVE IInv'
  BY <1>4, RebuildStartIInv, RebuildSeekIInv, RebuildReadIInv, RebuildSeekEndIInv,
     RebuildWriteIInv, RebuildCompareAndSetIInv, RebuildSwapIInv, RebuildRenameIInv,
     RebuildReopenIInv, RebuildFreeIInv DEF RebuildFile
<1>5. ASSUME CrashRestart \/ \E r \in Rebuilds : RebuildAborts(r) PROVE IInv'
  BY <1>5, RestartIInv DEF CrashRestart, RebuildAborts
<1>6. CASE UNCHANGED vars
  BY <1>6, StutterIInv
<1> QED BY <1>1, <1>2, <1>3, <1>4, <1>5, <1>6 DEF Next

\* The inductive invariant holds in every state of the store.
THEOREM Invariant == Spec => []IInv
<1>1. Init => IInv
  BY InitIInv
<1>2. IInv /\ [Next]_vars => IInv'
  BY NextIInv
<1> QED BY <1>1, <1>2, PTL DEF Spec

\* A key has an index entry exactly when its last command completed since the
\* server started was a set, or it had none and the start found it: saveVal,
\* delKey and the compareAndSet of any rebuildFile thread, of one that goes on with
\* a deleted DataNode too, never bring a deleted key back and never drop one.
THEOREM IndexKnowsWhatIsSet == Spec => []Presence
BY Invariant, PTL DEF IInv

\* The active file is open unless the process died after check() wrote the
\* number of files to manFile and before it wrote the name of the last, or two
\* threads rebuilt one DataNode: what a thread deletes once is never the DataNode
\* of the active file.
THEOREM HalfManifestOnly == Spec => []WritableUnlessHalfManifest
<1>1. IInv => WritableUnlessHalfManifest
  BY StoreAssumption
     DEF IInv, FilesInOrder, HalfManifest, WritableUnlessHalfManifest, Types, ListTypes
<1> QED BY <1>1, Invariant, PTL

-----------------------------------------------------------------------------
(* The types of the store that IInv leaves open *)

Unused == \A f \in Files : f > fileNum => fileList[f] = 0
\* A get reads a descriptor that was open when it moved its position.
Reading ==
  /\ io.pc \in {"seek", "read"} => io.node \in Nodes
  /\ io.pc = "read" => node[io.node].fd # "none"

Replies == reply \in Values \cup {Deleted, Ok, Fail, Garbage, << >>}

-----------------------------------------------------------------------------
(* The active file and the index, from the first start to the first crash *)

ActiveInode == dir[fileNum]
Log == disk[ActiveInode]

\* No name and no DataNode but those of the active file refer to its inode,
\* and nothing is there yet of the files to come.
InodeApart ==
  /\ \A f \in Files : f > fileNum => dir[f] = None
  /\ fileNum > 0 =>
       /\ node[Active].inode = ActiveInode
       /\ \A f \in Files : tmp[f] # ActiveInode /\ (f # fileNum => dir[f] # ActiveInode)
       /\ \A n \in Nodes : n # Active => node[n].inode # ActiveInode

\* The records of the active file whose command is done with the index.
Appending == io.pc \in {"finish", "index"}
Indexed == IF Appending THEN Len(Log) - 1 ELSE Len(Log)

LastAmong(k, o, n) ==
  /\ o \in 1 .. n
  /\ Log[o].key = k
  /\ \A j \in o + 1 .. n : Log[j].key # k

EntryFor(o) == IF Log[o].val = Deleted THEN None ELSE <<Active, o - 1>>

LogIndexed ==
  faults = 0 /\ fileNum > 0 =>
    /\ node[Active].totalOffset = IF io.pc = "finish" THEN Len(Log) - 1 ELSE Len(Log)
    /\ Appending => Len(Log) > 0 /\ io.node = Active /\ io.offset = Len(Log) - 1
    /\ io.pc = "index" => Log[Len(Log)] = Record(io.cmd[2], io.cmd[3])
    /\ \A k \in Keys : \A o \in 1 .. Indexed : LastAmong(k, o, Indexed) => index[k] = EntryFor(o)

FreshInv ==
  /\ faults \in Nat /\ crashes \in Nat
  /\ crashes = 0 /\ ~clashed => InodeApart /\ LogIndexed

-----------------------------------------------------------------------------
\* A step that leaves the active file, its inode and the entries that lead to
\* it alone.
LEMMA FreshStep ==
  ASSUME IInv, InodeApart, LogIndexed, UNCHANGED <<fileNum, faults>>,
         \A f \in Files : f > fileNum => dir'[f] = dir[f],
         fileNum > 0 =>
           /\ Active' = Active /\ dir'[fileNum] = ActiveInode /\ disk'[ActiveInode] = Log
           /\ node'[Active].inode = node[Active].inode
           /\ node'[Active].totalOffset = node[Active].totalOffset
           /\ \A f \in Files : /\ tmp'[f] = tmp[f] \/ tmp'[f] # ActiveInode
                               /\ f # fileNum => dir'[f] = dir[f] \/ dir'[f] # ActiveInode
           /\ \A n \in Nodes : n # Active =>
                node'[n].inode = node[n].inode \/ node'[n].inode # ActiveInode,
         io' = io \/ (~Appending /\ ~Appending'),
         \A k \in Keys : \/ index'[k] = index[k]
                         \/ \E n \in Nodes, o \in Nat : n # Active /\ index[k] = <<n, o>>
  PROVE  InodeApart' /\ LogIndexed'
<1>1. InodeApart'
  <2>1. CASE fileNum = 0
    BY <2>1 DEF InodeApart
  <2>2. CASE fileNum > 0
    BY <2>2 DEF InodeApart, ActiveInode
  <2> QED BY <2>1, <2>2 DEF IInv, Types, ListTypes
<1>2. LogIndexed'
  <2>1. SUFFICES ASSUME faults = 0, fileNum > 0 PROVE LogIndexed'
    BY DEF LogIndexed
  <2>2. Log' = Log /\ Active' = Active /\ ActiveInode' = ActiveInode
    BY <2>1 DEF Log, ActiveInode
  <2>3. Indexed' = Indexed /\ Appending' = Appending
    BY <2>2 DEF Indexed, Appending
  <2>4. ASSUME NEW k \in Keys, NEW o \in 1 .. Indexed, LastAmong(k, o, Indexed)
        PROVE  index'[k] = EntryFor(o)
    <3>1. index[k] = EntryFor(o)
      BY <2>1, <2>4 DEF LogIndexed
    <3>2. index[k] = None \/ index[k] = <<Active, o - 1>>
      BY <3>1 DEF EntryFor
    <3>3. ASSUME NEW n \in Nodes, NEW q \in Nat, n # Active, index[k] = <<n, q>> PROVE FALSE
      <4>1. <<n, q>> \in Nat \X Nat
        BY DEF Nodes
      <4> QED BY <3>2, <3>3, <4>1, StoreAssumption
    <3> QED BY <3>1, <3>3
  <2>5. \A k, o : LastAmong(k, o, Indexed)' <=> LastAmong(k, o, Indexed)
    BY <2>2, <2>3 DEF LastAmong
  <2>6. \A o : EntryFor(o)' = EntryFor(o)
    BY <2>2 DEF EntryFor
  <2>7. \A k \in Keys : \A o \in 1 .. Indexed' : LastAmong(k, o, Indexed)' => index'[k] = EntryFor(o)'
    BY <2>3, <2>4, <2>5, <2>6
  <2>8. /\ node'[Active].totalOffset = IF io'.pc = "finish" THEN Len(Log) - 1 ELSE Len(Log)
        /\ Appending' => Len(Log) > 0 /\ io'.node = Active /\ io'.offset = Len(Log) - 1
        /\ io'.pc = "index" => Log[Len(Log)] = Record(io'.cmd[2], io'.cmd[3])
    BY <2>1 DEF LogIndexed, Appending
  <2> QED BY <2>2, <2>7, <2>8 DEF LogIndexed
<1> QED BY <1>1, <1>2

\* A step of diskIO that only reads.
LEMMA FreshRead ==
  ASSUME IInv, InodeApart, LogIndexed, UNCHANGED <<mem, disk, dir, tmp, faults>>,
         \A n \in Nodes : UNCHANGED <<node[n].inode, node[n].totalOffset>>,
         ~Appending, ~Appending'
  PROVE  InodeApart' /\ LogIndexed'
<1>1. Active' = Active /\ (fileNum > 0 => Active \in Nodes)
  BY ActiveNode DEF Active, mem
<1> QED BY <1>1, FreshStep DEF mem, ActiveInode, Log

\* A position moves.
LEMMA InodesStay ==
  ASSUME IInv, NEW n, NEW p, node' = [node EXCEPT ![n].pos = p]
  PROVE  \A m \in Nodes : UNCHANGED <<node[m].inode, node[m].totalOffset>>
BY DEF IInv, Types, NodeTypes, DataNode

LEMMA DiskIOFresh ==
  ASSUME IInv, InodeApart, LogIndexed,
         \/ \E k \in Keys : CallGet(k)
         \/ \E cmd : CallWrite(cmd)
         \/ GetLookup \/ GetSeek \/ GetRead \/ CheckSkip
  PROVE  InodeApart' /\ LogIndexed'
<1>1. io.pc \notin {"finish", "index"} /\ UNCHANGED <<mem, disk, dir, tmp, faults>>
  BY DEF CallWrite, CallGet, GetLookup, GetSeek, GetRead, CheckSkip, counters
<1>2. io' = IdleIo \/ \E p, c, n, o : /\ p \notin {"finish", "index"}
                                      /\ io' = [pc |-> p, cmd |-> c, node |-> n, offset |-> o]
  <2>0. io = [pc |-> io.pc, cmd |-> io.cmd, node |-> io.node, offset |-> io.offset]
    BY DEF IInv, Types, IoTypes, IoState
  <2>1. ASSUME NEW k, NEW cmd, CallWrite(cmd) \/ CallGet(k)
        PROVE  \E p, c : /\ p \notin {"finish", "index"}
                         /\ io' = [pc |-> p, cmd |-> c, node |-> 0, offset |-> 0]
    BY <2>1 DEF CallWrite, CallGet, IdleIo
  <2>2. CASE GetLookup
    BY <2>0, <2>2 DEF GetLookup, Finish
  <2>3. CASE GetSeek \/ GetRead \/ CheckSkip
    BY <2>0, <2>3 DEF GetSeek, GetRead, CheckSkip, Finish
  <2> QED BY <2>1, <2>2, <2>3
<1>3. ~Appending /\ ~Appending'
  BY <1>1, <1>2 DEF Appending, IdleIo
<1>4. node' = node \/ (\E n, p : node' = [node EXCEPT ![n].pos = p])
  BY DEF CallWrite, CallGet, GetLookup, GetSeek, GetRead, CheckSkip
<1>5. \A n \in Nodes : UNCHANGED <<node[n].inode, node[n].totalOffset>>
  BY <1>4, InodesStay
<1> QED BY <1>1, <1>3, <1>5, FreshRead

\* check() creates an empty file on an inode of its own.
LEMMA CheckCreateFresh ==
  ASSUME IInv, InodeApart, LogIndexed, CheckCreate PROVE InodeApart' /\ LogIndexed'
<1> DEFINE f == fileNum + 1
           n == NewNode
           i == NewInode
           d == [NoNode EXCEPT !.inode = i, !.fd = "open"]
<1>1. fileNum \in Nat /\ f \in Files /\ fileNum < MAXFILE
  BY StoreAssumption DEF CheckCreate, IInv, Types, ListTypes, AppendsToActive, Files
<1>2. dir[f] = None
  BY <1>1 DEF InodeApart
<1>3. /\ fileNum' = f /\ fileList' = [fileList EXCEPT ![f] = n]
      /\ node' = [node EXCEPT ![n] = d]
      /\ dir' = [dir EXCEPT ![f] = i] /\ disk' = [disk EXCEPT ![i] = << >>] /\ tmp' = tmp
      /\ io' = [io EXCEPT !.pc = "manNum"] /\ index' = index
  BY <1>2 DEF CheckCreate
<1>4. /\ i \in Inodes
      /\ \A g \in Files : i # dir[g] /\ i # tmp[g]
      /\ \A m \in Nodes : node[m].inode # i
  BY FreeInode
<1>5. n \in Nodes
  <2>1. Cardinality(Allocated) < 2 * MAXFILE
    BY <1>1, AllocatedFinite, StartedFinite, StoreAssumption DEF IInv, NodesCounted
  <2> QED BY <2>1, FreeNode
<1>6. d.inode = i /\ d.totalOffset = 0
  BY DEF NoNode
<1> HIDE DEF i, n, d
<1>7. /\ Active' = n /\ node'[n] = d /\ dir'[f] = i /\ disk'[i] = << >>
      /\ \A m \in Nodes : m # n => node'[m] = node[m]
      /\ \A g \in Files : g # f => dir'[g] = dir[g]
      /\ ActiveInode' = i /\ Log' = << >>
  <2>1. fileList'[f] = n /\ node'[n] = d /\ dir'[f] = i /\ disk'[i] = << >>
    BY <1>1, <1>3, <1>4, <1>5 DEF IInv, Types, ListTypes, NodeTypes, DiskTypes
  <2>2. /\ \A m \in Nodes : m # n => node'[m] = node[m]
        /\ \A g \in Files : g # f => dir'[g] = dir[g]
    BY <1>3 DEF IInv, Types, NodeTypes, DiskTypes
  <2> QED BY <1>3, <2>1, <2>2 DEF Active, ActiveInode, Log
<1>8. InodeApart'
  BY <1>1, <1>3, <1>4, <1>6, <1>7 DEF InodeApart, Files
<1>9. io'.pc = "manNum"
  BY <1>3 DEF IInv, Types, IoTypes, IoState
<1>10. Indexed' = 0 /\ ~Appending' /\ Len(Log') = 0
  BY <1>7, <1>9 DEF Indexed, Appending
<1> QED BY <1>6, <1>7, <1>8, <1>9, <1>10 DEF LogIndexed

\* The rest of check()
LEMMA CheckManifestFresh ==
  ASSUME IInv, InodeApart, LogIndexed, CheckManifestNum \/ CheckManifestName
  PROVE  InodeApart' /\ LogIndexed'
<1>1. UNCHANGED <<mem, node, disk, dir, tmp, faults>>
  BY DEF CheckManifestNum, CheckManifestName, counters
<1>2. ~Appending /\ ~Appending'
  BY DEF CheckManifestNum, CheckManifestName, Appending, IInv, Types, IoTypes, IoState
<1> QED BY <1>1, <1>2, FreshRead

LEMMA FailedFresh ==
  ASSUME IInv, InodeApart, LogIndexed, faults \in Nat, AppendFault
  PROVE  InodeApart' /\ LogIndexed'
<1>1. UNCHANGED <<fileNum, fileList, node, dir, tmp>> /\ faults' > 0
  <2>1. faults' = faults + 1 /\ UNCHANGED <<fileNum, fileList, node, dir, tmp>>
    BY DEF AppendFault, mem
  <2> QED BY <2>1
<1> QED BY <1>1 DEF InodeApart, LogIndexed, Active, ActiveInode

\* appendRecord puts a torn record at the end of the active file ...
LEMMA AppendStartFresh ==
  ASSUME IInv, InodeApart, LogIndexed, AppendStart PROVE InodeApart' /\ LogIndexed'
<1> DEFINE i == ActiveInode
           d == Append(Log, TornRecord)
<1>1. UNCHANGED <<fileNum, fileList, index, node, dir, tmp, faults>> /\ ~Appending
  BY DEF AppendStart, mem, counters, Appending
<1>2. InodeApart'
  BY <1>1 DEF InodeApart, Active, ActiveInode
<1>3. CASE ~IsOpen(Active)
  <2>1. UNCHANGED <<mem, node, disk, dir, tmp, faults>> /\ io' = IdleIo
    BY <1>3 DEF AppendStart, Finish, counters
  <2> QED BY <1>1, <2>1, FreshRead DEF Appending, IdleIo
<1>4. CASE IsOpen(Active)
  <2>1. fileNum > 0 /\ Active \in Nodes /\ node[Active].inode = i /\ i \in Inodes /\ Active' = Active
    <3>1. fileNum > 0 /\ Active \in Nodes
      BY ActiveNode DEF IInv, AppendsToActive, AppendStart
    <3> QED BY <1>1, <1>4, <3>1 DEF InodeApart, IInv, Types, NodeTypes, IsOpen, Active
  <2>2. disk' = [disk EXCEPT ![i] = d]
    BY <1>4, <2>1 DEF AppendStart, Log
  <2>3. Log' = d /\ Log \in Seq(Records)
    BY <1>1, <2>1, <2>2 DEF Log, ActiveInode, IInv, Types, DiskTypes
  <2>4. /\ Len(Log) \in Nat /\ Len(d) = Len(Log) + 1
        /\ \A o \in 1 .. Len(Log) : d[o] = Log[o]
    BY <2>3, LenProperties, AppendProperties
  <2>5. io'.pc = "finish" /\ io'.node = Active /\ io'.offset = node[Active].totalOffset
    BY <1>4 DEF AppendStart, IInv, Types, IoTypes, IoState
  <2>6. Indexed' = Indexed /\ Indexed = Len(Log) /\ Appending'
    BY <1>1, <2>3, <2>4, <2>5 DEF Indexed, Appending
  <2>7. ASSUME faults = 0 PROVE node[Active].totalOffset = Len(Log)
    BY <1>1, <2>1, <2>7 DEF LogIndexed, Appending
  <2> HIDE DEF d, i
  <2>8. ASSUME NEW k, NEW o, LastAmong(k, o, Indexed)' PROVE LastAmong(k, o, Indexed) /\ EntryFor(o)' = EntryFor(o)
    BY <1>1, <2>1, <2>3, <2>4, <2>6, <2>8 DEF LastAmong, EntryFor
  <2>9. ASSUME faults = 0, NEW k \in Keys, NEW o \in 1 .. Indexed', LastAmong(k, o, Indexed)'
        PROVE  index'[k] = EntryFor(o)'
    BY <1>1, <2>1, <2>6, <2>8, <2>9 DEF LogIndexed
  <2> QED BY <1>1, <1>2, <2>1, <2>3, <2>4, <2>5, <2>7, <2>9 DEF LogIndexed
<1> QED BY <1>3, <1>4

\* ... and completes it.
LEMMA AppendFinishFresh ==
  ASSUME IInv, InodeApart, LogIndexed, faults = 0, ~clashed, AppendFinish
  PROVE  InodeApart' /\ LogIndexed'
<1> DEFINE i == ActiveInode
           rec == Record(io.cmd[2], io.cmd[3])
           d == [Log EXCEPT ![Len(Log)] = rec]
<1>1. UNCHANGED <<fileNum, fileList, index, dir, tmp, faults>> /\ Appending /\ io.pc = "finish"
  BY DEF AppendFinish, mem, counters, Appending
<1>2. /\ fileNum > 0 /\ Active \in Nodes /\ node[Active].inode = i /\ i \in Inodes
      /\ Active' = Active /\ io.node = Active /\ IsOpen(Active)
  <2>1. fileNum > 0 /\ Active \in Nodes /\ io.node = Active
    BY <1>1, ActiveNode DEF IInv, AppendsToActive
  <2>2. IsOpen(Active)
    BY <1>1, <2>1 DEF IInv, FilesInOrder, HalfManifest
  <2> QED BY <1>1, <2>1, <2>2 DEF InodeApart, IInv, Types, NodeTypes, IsOpen, Active
<1>3. disk' = [disk EXCEPT ![i] = d]
  BY <1>2 DEF AppendFinish, Log
<1>4. Log' = d /\ Log \in Seq(Records)
  BY <1>1, <1>2, <1>3 DEF Log, ActiveInode, IInv, Types, DiskTypes
<1>5. /\ node[Active].totalOffset = Len(Log) - 1 /\ Len(Log) \in Nat /\ Len(Log) > 0
      /\ io.offset = Len(Log) - 1
  BY <1>1, <1>2, <1>4, LenProperties DEF LogIndexed
<1>6. Len(d) = Len(Log) /\ d[Len(Log)] = rec /\ \A o \in 1 .. Len(Log) - 1 : d[o] = Log[o]
  <2>1. rec \in Records
    <3>1. io.cmd \in Writes
      BY <1>1 DEF IInv, Types, IoTypes, WriteSteps
    <3>2. io.cmd[2] \in Keys /\ io.cmd[3] \in Values \cup {Deleted}
      BY <3>1 DEF Writes
    <3> QED BY <3>2 DEF Records, Record
  <2> HIDE DEF rec
  <2>2. Len(Log) \in 1 .. Len(Log)
    BY <1>5
  <2> QED BY <1>4, <1>5, <2>1, <2>2, ExceptSeq
<1>7. io' = [io EXCEPT !.pc = "index"]
  BY <1>2 DEF AppendFinish
<1>8. io'.pc = "index" /\ io'.node = Active /\ io'.offset = Len(Log) - 1 /\ io'.cmd = io.cmd
  BY <1>2, <1>5, <1>7 DEF IInv, Types, IoTypes, IoState
<1>9. node' = [node EXCEPT ![Active].totalOffset = node[Active].totalOffset + 1]
  BY <1>2 DEF AppendFinish
<1>10. /\ node'[Active].totalOffset = Len(Log)
       /\ \A n \in Nodes : node'[n].inode = node[n].inode
  <2> DEFINE t == node[Active].totalOffset + 1
  <2>1. t = Len(Log)
    BY <1>5
  <2> HIDE DEF t
  <2> QED BY <1>2, <1>9, <2>1 DEF IInv, Types, NodeTypes, DataNode, t
<1>11. InodeApart'
  BY <1>1, <1>2, <1>10 DEF InodeApart, ActiveInode, Active
<1>12. Indexed' = Indexed /\ Indexed = Len(Log) - 1 /\ Appending'
  BY <1>1, <1>4, <1>6, <1>8 DEF Indexed, Appending
<1> HIDE DEF d, i, rec
<1>13. ASSUME NEW k, NEW o, LastAmong(k, o, Indexed)'
       PROVE  LastAmong(k, o, Indexed) /\ EntryFor(o)' = EntryFor(o)
  <2>1. o \in 1 .. Len(Log) - 1 /\ \A j \in 1 .. Len(Log) - 1 : Log'[j] = Log[j]
    BY <1>4, <1>6, <1>12, <1>13 DEF LastAmong
  <2>2. LastAmong(k, o, Indexed)
    BY <1>5, <1>12, <1>13, <2>1 DEF LastAmong
  <2>3. EntryFor(o)' = EntryFor(o)
    BY <1>2, <2>1 DEF EntryFor
  <2> QED BY <2>2, <2>3
<1>14. ASSUME NEW k \in Keys, NEW o \in 1 .. Indexed', LastAmong(k, o, Indexed)'
       PROVE  index'[k] = EntryFor(o)'
  BY <1>1, <1>2, <1>12, <1>13, <1>14 DEF LogIndexed
<1>15. Log'[Len(Log')] = Record(io'.cmd[2], io'.cmd[3])
  BY <1>4, <1>6, <1>8 DEF rec
<1> QED BY <1>2, <1>4, <1>5, <1>6, <1>8, <1>10, <1>11, <1>14, <1>15 DEF LogIndexed

\* saveVal and delKey: the entry of the key leads to its record, the last one.
LEMMA UpdateIndexFresh ==
  ASSUME IInv, InodeApart, LogIndexed, faults = 0, UpdateIndex
  PROVE  InodeApart' /\ LogIndexed'
<1> DEFINE k == io.cmd[2]
           v == io.cmd[3]
           e == IF io.cmd[1] = "set" THEN <<io.node, io.offset>> ELSE None
<1>1. /\ UNCHANGED <<fileNum, fileList, node, disk, dir, tmp, faults>>
      /\ Appending /\ io.pc = "index" /\ io' = IdleIo /\ ~Appending'
      /\ index' = [index EXCEPT ![k] = e]
  BY DEF UpdateIndex, counters, Appending, Finish, IdleIo
<1>2. InodeApart' /\ Log' = Log /\ Active' = Active
  BY <1>1 DEF InodeApart, ActiveInode, Active, Log
<1>3. CASE fileNum = 0
  BY <1>1, <1>3 DEF LogIndexed, InodeApart, ActiveInode, Active, Log
<1>4. CASE fileNum > 0
  <2>1. /\ node[Active].totalOffset = Len(Log)
        /\ Len(Log) > 0 /\ io.node = Active /\ io.offset = Len(Log) - 1
        /\ Log[Len(Log)] = Record(k, v)
        /\ \A q \in Keys : \A o \in 1 .. Indexed : LastAmong(q, o, Indexed) => index[q] = EntryFor(o)
    BY <1>1, <1>4 DEF LogIndexed
  <2>2. Log \in Seq(Records) /\ Len(Log) \in Nat
    <3>1. ActiveInode \in Inodes
      BY <1>4 DEF ActiveInode, IInv, Types, ListTypes, DiskTypes
    <3> QED BY <3>1, LenProperties DEF Log, IInv, Types, DiskTypes
  <2>3. Indexed = Len(Log) - 1 /\ Indexed' = Len(Log)
    BY <1>1, <1>2 DEF Indexed, Appending
  <2>4. /\ k \in Keys
        /\ \/ io.cmd[1] = "set" /\ v # Deleted
           \/ io.cmd[1] # "set" /\ v = Deleted
    <3>1. io.cmd \in Writes
      BY <1>1 DEF IInv, Types, IoTypes, WriteSteps
    <3> QED BY <3>1, StoreAssumption DEF Writes
  <2>5. Log[Len(Log)].key = k /\ Log[Len(Log)].val = v
    BY <2>1 DEF Record
  <2>6. e = EntryFor(Len(Log))
    BY <2>1, <2>4, <2>5 DEF EntryFor
  <2>7. index'[k] = EntryFor(Len(Log)) /\ \A q \in Keys : q # k => index'[q] = index[q]
    BY <1>1, <2>4, <2>6 DEF IInv, Types, IndexTypes
  <2> HIDE DEF k, v, e
  <2>8. ASSUME NEW q \in Keys, NEW o \in 1 .. Len(Log), LastAmong(q, o, Len(Log))
        PROVE  index'[q] = EntryFor(o)
    <3>1. CASE o = Len(Log)
      BY <2>5, <2>7, <2>8, <3>1 DEF LastAmong
    <3>2. CASE o # Len(Log)
      <4>1. Len(Log) \in o + 1 .. Len(Log) /\ o \in 1 .. Len(Log) - 1
        BY <2>2, <3>2
      <4>2. q # k
        BY <2>5, <2>8, <4>1 DEF LastAmong
      <4>3. LastAmong(q, o, Len(Log) - 1)
        BY <2>2, <2>8, <4>1 DEF LastAmong
      <4> QED BY <2>1, <2>3, <2>7, <4>1, <4>2, <4>3
    <3> QED BY <3>1, <3>2
  <2>9. /\ \A q, o, n : LastAmong(q, o, n)' <=> LastAmong(q, o, n)
        /\ \A o : EntryFor(o)' = EntryFor(o)
    BY <1>2 DEF LastAmong, EntryFor
  <2>10. \A q \in Keys : \A o \in 1 .. Indexed' : LastAmong(q, o, Indexed)' => index'[q] = EntryFor(o)'
    BY <2>3, <2>8, <2>9
  <2>11. node'[Active'].totalOffset = Len(Log') /\ io'.pc \notin {"finish", "index"}
    BY <1>1, <1>2, <2>1 DEF Appending
  <2> QED BY <1>1, <1>2, <2>10, <2>11 DEF LogIndexed
<1> QED BY <1>2, <1>3, <1>4 DEF IInv, Types, ListTypes

\* A rebuildFile thread works on other files and other inodes, and
\* compareAndSet moves only entries that lead to the DataNode it read.
\* Until two threads rebuild one DataNode, a thread uses its own two and no other.
LEMMA OwnOldNode ==
  ASSUME IInv, ~clashed, NEW r \in Rebuilds, Running(r)
  PROVE  /\ node[reb[r].old].fd # "freed"
         /\ Old(r) \subseteq {reb[r].old}
         /\ reb[r].pc \in RebuildSteps => Old(r) = {reb[r].old}
         /\ RenameTargets(r) = {reb[r].slot}
<1>1. node[reb[r].old].fd # "freed"
  BY DEF IInv, Undeleted
<1>2. StandsFor(reb[r].old) = {reb[r].old}
  BY <1>1 DEF StandsFor
<1>3. reb[r].pc \in RebuildSteps => reb[r].old # reb[r].new
  BY DEF IInv, NewApart
<1> QED BY <1>1, <1>2, <1>3 DEF Old, RenameTargets

LEMMA RebuildFresh ==
  ASSUME IInv, InodeApart, LogIndexed, ~clashed, NEW r \in Rebuilds, RebuildFile(r)
  PROVE  InodeApart' /\ LogIndexed'
<1>1. UNCHANGED <<fileNum, faults>> /\ io' = io
  BY DEF RebuildFile, RebuildStart, RebuildSeek, RebuildRead, RebuildSeekEnd, RebuildWrite,
         RebuildCompareAndSet, RebuildSwap, RebuildRename, RebuildReopen, RebuildFree, mem, counters
<1>2. /\ fileNum > 1 /\ fileNum \in Nat /\ ActiveInode \in Inodes
      /\ Active \in Nodes /\ node[Active].fd # "none" /\ node[Active].inode = ActiveInode
  <2>1. reb[r].pc # "idle"
    BY DEF RebuildFile, RebuildStart, RebuildSeek, RebuildRead, RebuildSeekEnd, RebuildWrite,
           RebuildCompareAndSet, RebuildSwap, RebuildRename, RebuildReopen, RebuildFree
  <2>2. r < fileNum /\ r \in Nat /\ r > 0 /\ fileNum \in 0 .. MAXFILE
    BY <2>1, StoreAssumption DEF IInv, RebuildsBehind, Rebuilds, Types, ListTypes
  <2>3. fileNum > 1 /\ fileNum \in Nat
    BY <2>2, StoreAssumption
  <2>4. Active \in Nodes /\ node[Active].fd # "none" /\ ActiveInode \in Inodes
    BY <2>3, ActiveNode DEF IInv, ActiveApart, Active, ActiveInode, Types, DiskTypes
  <2> QED BY <2>3, <2>4 DEF InodeApart
<1>3. /\ \A f \in Files : tmp[f] # ActiveInode /\ (f # fileNum => dir[f] # ActiveInode)
      /\ \A n \in Nodes : n # Active => node[n].inode # ActiveInode
      /\ fileNum \in Files /\ None # ActiveInode
  <2>1. fileNum \in Files
    BY <1>2, StoreAssumption DEF Files, IInv, Types, ListTypes
  <2>2. None # ActiveInode
    BY <1>2, StoreAssumption DEF Inodes
  <2>3. fileNum > 0
    BY <1>2
  <2> QED BY <2>1, <2>2, <2>3 DEF InodeApart
<1> DEFINE new == reb[r].new
           old == reb[r].old
           s == reb[r].slot
<1>4. ASSUME Running(r)
      PROVE  /\ new \in Nodes /\ new # Active /\ old \in Nodes /\ old # Active
             /\ s \in Files /\ s # fileNum /\ s < fileNum
  BY <1>2, <1>4, RunningTypes
<1>5. CASE RebuildStart(r)
  <2> DEFINE q == fileNum - 1
             i == IF tmp[q] = None THEN NewInode ELSE tmp[q]
  <2>1. q \in Files /\ q # fileNum
    BY <1>2, <1>3, StoreAssumption DEF Files
  <2>2. i # ActiveInode
    BY <1>2, <1>3, <2>1, FreeInode DEF ActiveInode
  <2>3. NewNode # Active
    <3>1. Cardinality(Allocated) < 2 * MAXFILE
      <4>1. r \notin Started
        BY <1>5 DEF RebuildStart, Started
      <4> QED BY <1>2, <4>1, AllocatedFinite, StartedFinite, StartedNotAll, StoreAssumption
              DEF IInv, NodesCounted, Types, ListTypes
    <3> QED BY <1>2, <3>1, FreeNode DEF NoNode
  <2>4. /\ Active' = Active /\ dir' = dir /\ index' = index
        /\ \/ tmp' = [tmp EXCEPT ![q] = i] /\ disk' = [disk EXCEPT ![i] = << >>]
           \/ UNCHANGED <<tmp, disk>>
        /\ \/ node' = [node EXCEPT ![NewNode] = [NoNode EXCEPT !.inode = i, !.fd = "open"]]
           \/ node' = [node EXCEPT ![NewNode] = [NoNode EXCEPT !.fd = "closed"]]
    BY <1>5 DEF RebuildStart, RebuildSlot, mem, Active
  <2>5. /\ [NoNode EXCEPT !.inode = i, !.fd = "open"].inode = i
        /\ [NoNode EXCEPT !.fd = "closed"].inode = None
    BY DEF NoNode
  <2> HIDE DEF i, q
  <2>6. \A f \in Files : tmp'[f] = tmp[f] \/ tmp'[f] # ActiveInode
    BY <2>2, <2>4 DEF IInv, Types, DiskTypes
  <2>7. disk'[ActiveInode] = Log
    BY <1>2, <2>2, <2>4 DEF IInv, Types, DiskTypes, Log
  <2>8. \A n \in Nodes : \/ node'[n] = node[n]
                         \/ n # Active /\ node'[n].inode # ActiveInode
    BY <1>3, <2>2, <2>3, <2>4, <2>5 DEF IInv, Types, NodeTypes
  <2> QED BY <1>1, <1>2, <2>4, <2>6, <2>7, <2>8, FreshStep DEF ActiveInode
\* The steps that move one position only.
<1>6. CASE RebuildSeek(r) \/ RebuildRead(r) \/ RebuildSeekEnd(r)
  <2>1. UNCHANGED <<mem, disk, dir, tmp>>
    BY <1>6 DEF RebuildSeek, RebuildRead, RebuildSeekEnd
  <2>2. node' = node \/ \E n, p : node' = [node EXCEPT ![n].pos = p]
    BY <1>6 DEF RebuildSeek, RebuildRead, RebuildSeekEnd
  <2>3. \A n \in Nodes : UNCHANGED <<node[n].inode, node[n].totalOffset>>
    BY <2>2, InodesStay
  <2> QED BY <1>1, <1>2, <2>1, <2>3, FreshStep DEF mem, ActiveInode, Log, Active
<1>7. CASE RebuildWrite(r) /\ IsOpen(new)
  <2>1. new \in Nodes /\ new # Active
    BY <1>4, <1>7 DEF RebuildWrite, Running
  <2> DEFINE i == node[new].inode
             x == WriteAt(disk[i], node[new].pos, reb[r].rec)
             e == [node[new] EXCEPT !.pos = node[new].pos + 1,
                                    !.totalOffset = node[new].totalOffset + 1]
  <2>2. UNCHANGED <<mem, dir, tmp>> /\ disk' = [disk EXCEPT ![i] = x]
    BY <1>7 DEF RebuildWrite
  <2>3. node' = [node EXCEPT ![new] = e] /\ e.inode = i
    BY <1>7, <2>1 DEF RebuildWrite, IInv, Types, NodeTypes, DataNode
  <2>4. i # ActiveInode
    BY <1>3, <2>1
  <2> HIDE DEF new, x, i, e
  <2>5. disk'[ActiveInode] = Log
    BY <2>2, <2>4 DEF Log, IInv, Types, DiskTypes
  <2>6. /\ node'[Active] = node[Active]
        /\ \A n \in Nodes : node'[n].inode = node[n].inode
    BY <1>2, <2>1, <2>3 DEF IInv, Types, NodeTypes, i
  <2> QED BY <1>1, <1>2, <2>2, <2>5, <2>6, FreshStep DEF mem, ActiveInode, Active
<1>14. CASE RebuildWrite(r) /\ ~IsOpen(new)
  <2>1. UNCHANGED <<mem, disk, dir, tmp, node>>
    BY <1>14 DEF RebuildWrite
  <2> QED BY <1>1, <1>2, <2>1, FreshStep DEF mem, ActiveInode, Log, Active
<1>8. CASE RebuildCompareAndSet(r)
  <2>1. new \in Nodes /\ new # Active /\ old \in Nodes /\ old # Active
    BY <1>4, <1>8 DEF RebuildCompareAndSet, Running
  <2>5. Old(r) = {old}
    BY <1>8, OwnOldNode DEF RebuildCompareAndSet, Running, RebuildSteps
  <2>2. /\ UNCHANGED <<fileNum, fileList, disk, dir, tmp>>
        /\ node' = node \/ \E x : node' = [node EXCEPT ![new].totalOffset = x]
        /\ \/ index' = index
           \/ IsCurrent(r, old) /\ index' = [index EXCEPT ![reb[r].rec.key] = MovedPosition(r)]
    BY <1>8, <2>5 DEF RebuildCompareAndSet
  <2>3. /\ node'[Active] = node[Active]
        /\ \A n \in Nodes : node'[n].inode = node[n].inode
    <3>1. node \in [Nodes -> DataNode]
      BY DEF IInv, Types, NodeTypes
    <3>2. CASE node' = node
      BY <3>2
    <3>3. ASSUME NEW x, node' = [node EXCEPT ![new].totalOffset = x]
          PROVE  /\ node'[Active] = node[Active]
                 /\ \A n \in Nodes : node'[n].inode = node[n].inode
      <4> HIDE DEF new
      <4> QED BY <1>2, <2>1, <3>1, <3>3 DEF DataNode
    <3> QED BY <2>2, <3>2, <3>3
  <2>4. \A k \in Keys : \/ index'[k] = index[k]
                        \/ \E n \in Nodes, o \in Nat : n # Active /\ index[k] = <<n, o>>
    <3>1. reb[r].offset \in Nat
      BY DEF IInv, Types, ListTypes, RebuildState
    <3>2. CASE index' = index
      BY <3>2
    <3>3. CASE IsCurrent(r, old) /\ index' = [index EXCEPT ![reb[r].rec.key] = MovedPosition(r)]
      BY <2>1, <3>1, <3>3 DEF IsCurrent, IInv, Types, IndexTypes
    <3> QED BY <2>2, <3>2, <3>3
  <2> QED BY <1>1, <1>2, <2>2, <2>3, <2>4, FreshStep DEF ActiveInode, Active, Log
<1>9. CASE RebuildSwap(r)
  <2>1. new \in Nodes /\ new # Active /\ s \in Files /\ s # fileNum
    BY <1>4, <1>9 DEF RebuildSwap, Running
  <2> DEFINE i == node[new].inode
  <2>2. /\ UNCHANGED <<fileNum, index, dir, tmp>>
        /\ disk' = disk \/ \E x : disk' = [disk EXCEPT ![i] = x]
        /\ fileList' = [fileList EXCEPT ![s] = new]
        /\ node' = [node EXCEPT ![new].fd = "closed"]
    BY <1>9 DEF RebuildSwap
  <2>3. i # ActiveInode
    BY <1>3, <2>1
  <2> HIDE DEF new, i, s
  <2>4. disk'[ActiveInode] = Log
    BY <1>2, <2>2, <2>3 DEF Log, IInv, Types, DiskTypes
  <2>5. Active' = Active
    BY <2>1, <2>2 DEF Active, IInv, Types, ListTypes
  <2>6. /\ node'[Active] = node[Active]
        /\ \A n \in Nodes : node'[n].inode = node[n].inode
    BY <1>2, <2>1, <2>2 DEF IInv, Types, NodeTypes, DataNode
  <2> QED BY <1>1, <1>2, <2>2, <2>4, <2>5, <2>6, FreshStep DEF ActiveInode
<1>10. CASE RebuildRename(r)
  <2>1. s \in Files /\ s # fileNum /\ s < fileNum
    BY <1>4, <1>10 DEF RebuildRename, Running
  <2>2. /\ UNCHANGED <<mem, node, disk>>
        /\ \/ UNCHANGED <<dir, tmp>>
           \/ dir' = [dir EXCEPT ![s] = tmp[s]] /\ tmp' = [tmp EXCEPT ![s] = None]
    BY <1>10, OwnOldNode DEF RebuildRename, Running
  <2> HIDE DEF s
  <2>3. /\ \A f \in Files : tmp'[f] = tmp[f] \/ tmp'[f] # ActiveInode
        /\ \A f \in Files : dir'[f] = dir[f] \/ (f < fileNum /\ dir'[f] # ActiveInode)
    BY <1>3, <2>1, <2>2 DEF IInv, Types, DiskTypes
  <2>4. dir'[fileNum] = dir[fileNum]
    BY <1>3, <2>1, <2>2 DEF IInv, Types, DiskTypes
  <2>5. \A f \in Files : f > fileNum => dir'[f] = dir[f]
    BY <1>2, <2>3 DEF Files
  <2> QED BY <1>1, <1>2, <2>2, <2>3, <2>4, <2>5, FreshStep DEF mem, ActiveInode, Active, Log
<1>11. CASE RebuildReopen(r)
  <2>1. new \in Nodes /\ new # Active /\ s \in Files /\ s # fileNum
    BY <1>4, <1>11 DEF RebuildReopen, Running
  <2> DEFINE e == [node[new] EXCEPT !.inode = dir[s], !.fd = "open", !.pos = 0]
  <2>2. UNCHANGED <<mem, disk, dir, tmp>> /\ node' = [node EXCEPT ![new] = e]
    BY <1>11, OwnOldNode DEF RebuildReopen, Running
  <2>3. e.inode # ActiveInode
    BY <1>3, <2>1 DEF IInv, Types, NodeTypes, DataNode
  <2> HIDE DEF new, e, s
  <2>4. \A n \in Nodes : \/ node'[n] = node[n]
                         \/ n # Active /\ node'[n].inode # ActiveInode
    BY <2>1, <2>2, <2>3 DEF IInv, Types, NodeTypes
  <2> QED BY <1>1, <1>2, <2>2, <2>4, FreshStep DEF mem, ActiveInode, Active, Log
<1>12. CASE RebuildFree(r)
  <2>1. old \in Nodes /\ old # Active
    BY <1>4, <1>12 DEF RebuildFree, Running
  <2> DEFINE e == [NoNode EXCEPT !.fd = "freed"]
  <2>2. UNCHANGED <<mem, disk, dir, tmp>> /\ node' = [node EXCEPT ![old] = e]
    BY <1>12, OwnOldNode DEF RebuildFree, Running
  <2>3. e.inode # ActiveInode
    BY <1>3 DEF NoNode
  <2> HIDE DEF old, e
  <2>4. \A n \in Nodes : \/ node'[n] = node[n]
                         \/ n # Active /\ node'[n].inode # ActiveInode
    BY <2>1, <2>2, <2>3 DEF IInv, Types, NodeTypes
  <2> QED BY <1>1, <1>2, <2>2, <2>4, FreshStep DEF mem, ActiveInode, Active, Log
<1> QED BY <1>5, <1>6, <1>7, <1>14, <1>8, <1>9, <1>10, <1>11, <1>12 DEF RebuildFile

LEMMA NextFresh == ASSUME IInv, FreshInv, [Next]_vars PROVE FreshInv'
<1>1. /\ faults' \in Nat /\ crashes' \in Nat
      /\ crashes' = 0 /\ ~clashed' => crashes = 0 /\ ~clashed
  <2>1. \/ UNCHANGED <<faults, crashes>> /\ (clashed => clashed')
        \/ AppendFault \/ Restart
    BY DEF Next, DiskIO, CallGet, CallWrite, GetLookup, GetSeek, GetRead, CheckSkip, CheckCreate,
           CheckManifestNum, CheckManifestName, AppendStart, AppendFinish, UpdateIndex, RebuildFile,
           RebuildStart, RebuildSeek, RebuildRead, RebuildSeekEnd, RebuildWrite,
           RebuildCompareAndSet, RebuildSwap, RebuildRename, RebuildReopen, RebuildFree, RebuildAborts,
           CrashRestart, counters, vars
  <2>2. CASE UNCHANGED <<faults, crashes>> /\ (clashed => clashed')
    BY <2>2 DEF FreshInv
  <2>3. CASE AppendFault
    BY <2>3 DEF FreshInv, AppendFault
  <2>4. CASE Restart
    BY <2>4 DEF FreshInv, Restart
  <2> QED BY <2>1, <2>2, <2>3, <2>4
<1> SUFFICES ASSUME crashes' = 0, ~clashed' PROVE InodeApart' /\ LogIndexed'
  BY <1>1 DEF FreshInv
<1>2. crashes = 0 /\ ~clashed /\ InodeApart /\ LogIndexed /\ faults \in Nat
  BY <1>1 DEF FreshInv
<1>3. ASSUME NEW k \in Bound.keys,
             CallGet(k) \/ CallWrite(<<"del", k, Deleted>>)
             \/ \E v \in Values : CallWrite(<<"set", k, v>>)
      PROVE  InodeApart' /\ LogIndexed'
  <2>1. k \in Keys
    BY StoreAssumption DEF IInv, Types, ListTypes, Bound
  <2> QED BY <1>2, <1>3, <2>1, DiskIOFresh
\* After a failed append nothing is said of the log; the steps that append
\* leave the inodes alone.
<1>4. CASE AppendFinish \/ UpdateIndex
  <2>1. CASE faults = 0
    BY <1>2, <1>4, <2>1, AppendFinishFresh, UpdateIndexFresh
  <2>2. CASE faults # 0
    <3>1. /\ UNCHANGED <<fileNum, fileList, dir, tmp, faults>>
          /\ node' = node \/ \E n, x : node' = [node EXCEPT ![n].totalOffset = x]
      BY <1>4 DEF AppendFinish, UpdateIndex, mem, counters
    <3>2. node \in [Nodes -> DataNode] /\ (fileNum > 0 => Active \in Nodes)
      BY ActiveNode DEF IInv, Types, NodeTypes
    <3>3. ASSUME NEW n, NEW x, node' = [node EXCEPT ![n].totalOffset = x]
          PROVE  \A m \in Nodes : node'[m].inode = node[m].inode
      BY <3>2, <3>3 DEF DataNode
    <3>4. \A m \in Nodes : node'[m].inode = node[m].inode
      BY <3>1, <3>3
    <3> QED BY <1>2, <2>2, <3>1, <3>2, <3>4 DEF InodeApart, LogIndexed, Active, ActiveInode
  <2> QED BY <2>1, <2>2
<1>5. CASE DiskIO
  BY <1>2, <1>4, <1>5, DiskIOFresh, CheckCreateFresh, CheckManifestFresh, AppendStartFresh DEF DiskIO
<1>6. CASE AppendFault
  BY <1>2, <1>6, FailedFresh
<1>7. ASSUME NEW r \in Rebuilds, RebuildFile(r) PROVE InodeApart' /\ LogIndexed'
  BY <1>2, <1>7, RebuildFresh
<1>8. ASSUME CrashRestart \/ \E r \in Rebuilds : RebuildAborts(r) PROVE InodeApart' /\ LogIndexed'
  <2>1. crashes' = crashes + 1
    BY <1>8 DEF CrashRestart, RebuildAborts, Restart
  <2> QED BY <1>2, <2>1
<1>9. CASE UNCHANGED vars
  BY <1>2, <1>9 DEF vars, mem, counters, InodeApart, LogIndexed, LastAmong, EntryFor, Indexed, Appending,
                    Active, ActiveInode, Log
<1> QED BY <1>3, <1>5, <1>6, <1>7, <1>8, <1>9 DEF Next

LEMMA InitFresh == Init => FreshInv
BY DEF Init, FreshInv, InodeApart, LogIndexed, Files

\* A record of the active file that LastInActive finds is the last of its key.
LEMMA FreshLog == IInv /\ FreshInv => FreshestWins
<1> SUFFICES ASSUME IInv, FreshInv, io.pc = "ready", fileNum > 0, faults = 0, crashes = 0,
                    ~clashed, NEW k \in Keys, NEW o \in DOMAIN Data(Active), LastInActive(k, o)
             PROVE  index[k] = IF Data(Active)[o].val = Deleted THEN None ELSE <<Active, o - 1>>
  BY DEF FreshestWins
<1>1. Data(Active) = Log /\ ActiveInode \in Inodes
  BY DEF Data, Log, FreshInv, InodeApart, ActiveInode, IInv, Types, ListTypes, DiskTypes
<1>2. DOMAIN Log = 1 .. Len(Log)
  BY <1>1, LenProperties DEF Log, IInv, Types, DiskTypes
<1>3. Indexed = Len(Log)
  BY DEF Indexed, Appending
<1>4. LastAmong(k, o, Indexed)
  BY <1>1, <1>2, <1>3 DEF LastAmong, LastInActive
<1>5. index[k] = EntryFor(o)
  BY <1>2, <1>1, <1>3, <1>4 DEF FreshInv, LogIndexed
<1> QED BY <1>1, <1>5 DEF EntryFor

-----------------------------------------------------------------------------
\* No DataNode is in fileList past the last file.
LEMMA NextUnused == ASSUME IInv, Unused, [Next]_vars PROVE Unused'
<1>1. fileNum \in 0 .. MAXFILE /\ fileList \in [Files -> 0 .. 2 * MAXFILE]
  BY DEF IInv, Types, ListTypes
<1>2. \/ UNCHANGED <<fileNum, fileList>>
      \/ CheckCreate \/ Restart \/ \E r \in Rebuilds : RebuildSwap(r)
  BY DEF Next, DiskIO, CallGet, CallWrite, GetLookup, GetSeek, GetRead, CheckSkip, AppendFault,
         CheckManifestNum, CheckManifestName, AppendStart, AppendFinish, UpdateIndex, RebuildFile,
         RebuildStart, RebuildSeek, RebuildRead, RebuildSeekEnd, RebuildWrite,
         RebuildCompareAndSet, RebuildRename, RebuildReopen, RebuildFree, RebuildAborts, CrashRestart,
         mem, vars
<1>3. CASE UNCHANGED <<fileNum, fileList>>
  BY <1>3 DEF Unused
<1>4. CASE CheckCreate
  <2>1. fileNum' = fileNum + 1 /\ fileList' = [fileList EXCEPT ![fileNum + 1] = NewNode]
    BY <1>4 DEF CheckCreate
  <2> QED BY <1>1, <2>1, StoreAssumption DEF Unused, Files
<1>5. CASE Restart
  BY <1>5 DEF Restart, Unused, IInv, Types, ListTypes, Files
<1>6. ASSUME NEW r \in Rebuilds, RebuildSwap(r) PROVE Unused'
  <2>1. fileNum' = fileNum /\ fileList' = [fileList EXCEPT ![reb[r].slot] = reb[r].new]
    BY <1>6 DEF RebuildSwap
  <2>2. reb[r].slot \in Files /\ reb[r].slot < fileNum
    BY <1>6, RunningTypes DEF RebuildSwap, Running
  <2> QED BY <1>1, <2>1, <2>2, StoreAssumption DEF Unused, Files
<1> QED BY <1>2, <1>3, <1>4, <1>5, <1>6

\* A record before the first torn one has a value.
LEMMA ScannedRecord ==
  ASSUME NEW d \in Seq(Records), NEW p \in Nat, p < ScanLength(d)
  PROVE  d[p + 1].val \in Values \cup {Deleted}
<1> DEFINE S == {j \in DOMAIN d : d[j].val = Torn} \cup {Len(d) + 1}
<1>1. Len(d) \in Nat /\ DOMAIN d = 1 .. Len(d)
  BY LenProperties
<1>2. S \in SUBSET Nat /\ S # {}
  BY <1>1
<1>3. ScanLength(d) = Least(S) - 1 /\ Least(S) \in Nat /\ \A j \in S : Least(S) <= j
  <2>1. ScanLength(d) = Least(S) - 1
    BY DEF ScanLength
  <2> HIDE DEF S
  <2> QED BY <1>2, <2>1, LeastIsMember
<1>4. p + 1 \in DOMAIN d
  BY <1>1, ScanLengthBound
<1>5. d[p + 1].val # Torn
  <2>1. p + 1 < Least(S)
    BY <1>3
  <2>2. p + 1 \notin S
    <3> HIDE DEF S
    <3> QED BY <1>3, <2>1
  <2> QED BY <1>4, <2>2
<1>6. d[p + 1] \in Records
  BY <1>1, <1>4, ElementOfSeq
<1> QED BY <1>5, <1>6 DEF Records, TornRecord

\* A DataNode that is allocated stays so until the process dies.
LEMMA FdKept ==
  ASSUME IInv, [Next]_vars, ~Restart, NEW n \in Nodes, node[n].fd # "none"
  PROVE  node'[n].fd # "none"
<1>1. node \in [Nodes -> DataNode]
  BY DEF IInv, Types, NodeTypes
<1>2. ASSUME NEW m, NEW x, NEW y,
             \/ node' = [node EXCEPT ![m].pos = x]
             \/ node' = [node EXCEPT ![m].totalOffset = x]
             \/ node' = [node EXCEPT ![m].pos = x, ![m].totalOffset = y]
      PROVE  node'[n].fd # "none"
  BY <1>1, <1>2 DEF DataNode
<1>3. ASSUME NEW m, NEW x, node' = [node EXCEPT ![m] = x], x.fd # "none"
      PROVE  node'[n].fd # "none"
  BY <1>1, <1>3
<1>4. CASE UNCHANGED node
  BY <1>4
<1>5. CASE GetSeek \/ GetRead \/ AppendFinish
  BY <1>2, <1>4, <1>5 DEF GetSeek, GetRead, AppendFinish
<1>6. CASE CheckCreate
  <2>1. [NoNode EXCEPT !.inode = IF dir[fileNum + 1] = None THEN NewInode ELSE dir[fileNum + 1],
                       !.fd = "open"].fd = "open"
    BY DEF NoNode
  <2> QED BY <1>3, <1>6, <2>1 DEF CheckCreate
<1>7. ASSUME NEW r \in Rebuilds, RebuildFile(r) PROVE node'[n].fd # "none"
  <2>1. CASE RebuildSeek(r) \/ RebuildRead(r) \/ RebuildSeekEnd(r)
    BY <1>2, <1>4, <2>1 DEF RebuildSeek, RebuildRead, RebuildSeekEnd
  <2>2. CASE RebuildWrite(r)
    <3>1. \/ node' = [node EXCEPT ![reb[r].new].pos = @ + 1, ![reb[r].new].totalOffset = @ + 1]
          \/ UNCHANGED node
      BY <2>2 DEF RebuildWrite
    <3> QED BY <1>1, <3>1 DEF DataNode
  <2>8. CASE RebuildCompareAndSet(r)
    <3>1. \/ UNCHANGED node
          \/ node' = [node EXCEPT ![reb[r].new].totalOffset = @ - 1]
      BY <2>8 DEF RebuildCompareAndSet
    <3> QED BY <1>2, <1>4, <3>1
  <2>3. CASE RebuildStart(r)
    <3>1. \A x : [NoNode EXCEPT !.inode = x, !.fd = "open"].fd # "none"
      BY DEF NoNode
    <3>2. [NoNode EXCEPT !.fd = "closed"].fd # "none"
      BY DEF NoNode
    <3>3. \E x : node' = [node EXCEPT ![NewNode] = x] /\ x.fd # "none"
      <4>1. \/ \E x : node' = [node EXCEPT ![NewNode] = [NoNode EXCEPT !.inode = x, !.fd = "open"]]
            \/ node' = [node EXCEPT ![NewNode] = [NoNode EXCEPT !.fd = "closed"]]
        BY <2>3 DEF RebuildStart
      <4> QED BY <3>1, <3>2, <4>1
    <3> QED BY <1>3, <3>3
  <2>4. CASE RebuildSwap(r)
    <3>1. node' = [node EXCEPT ![reb[r].new].fd = "closed"]
      BY <2>4 DEF RebuildSwap
    <3> QED BY <1>1, <3>1 DEF DataNode
  <2>5. CASE RebuildReopen(r)
    <3>1. \/ node' = [node EXCEPT ![reb[r].new] = [@ EXCEPT !.inode = dir[reb[r].slot],
                                                            !.fd = "open", !.pos = 0]]
          \/ UNCHANGED node
      BY <2>5 DEF RebuildReopen
    <3> QED BY <1>1, <3>1 DEF DataNode
  <2>6. CASE RebuildFree(r)
    <3>1. [NoNode EXCEPT !.fd = "freed"].fd # "none"
      BY DEF NoNode
    <3>2. ASSUME NEW m, NEW x \in {"closed", "freed"}, node' = [node EXCEPT ![m].fd = x]
          PROVE  node'[n].fd # "none"
      BY <1>1, <3>2 DEF DataNode
    <3> QED BY <1>3, <1>4, <2>6, <3>1, <3>2 DEF RebuildFree
  <2>7. CASE RebuildRename(r)
    BY <1>4, <2>7 DEF RebuildRename
  <2> QED BY <1>7, <2>1, <2>2, <2>3, <2>4, <2>5, <2>6, <2>7, <2>8 DEF RebuildFile
<1> QED
  BY <1>4, <1>5, <1>6, <1>7 DEF Next, DiskIO, CallGet, CallWrite, GetLookup, CheckSkip, AppendFault,
     CheckManifestNum, CheckManifestName, AppendStart, UpdateIndex, RebuildAborts, CrashRestart, vars

LEMMA NextReading == ASSUME IInv, Reading, [Next]_vars PROVE Reading'
<1>1. CASE Restart
  BY <1>1 DEF Restart, IdleIo, Reading
<1>2. CASE GetLookup
  <2>1. CASE index[io.cmd[2]] = None
    BY <1>2, <2>1 DEF GetLookup, Finish, IdleIo, Reading
  <2>2. CASE index[io.cmd[2]] # None
    <3>1. io' = [io EXCEPT !.pc = "seek", !.node = index[io.cmd[2]][1],
                           !.offset = index[io.cmd[2]][2]]
      BY <1>2, <2>2 DEF GetLookup
    <3>2. io.cmd[2] \in Keys
      BY <1>2 DEF GetLookup, IInv, Types, IoTypes, Gets
    <3>3. index[io.cmd[2]] \in Nodes \X Nat
      BY <3>2, <2>2 DEF IInv, Types, IndexTypes
    <3>4. io'.pc = "seek" /\ io'.node = index[io.cmd[2]][1]
      BY <3>1 DEF IInv, Types, IoTypes, IoState
    <3> QED BY <3>3, <3>4 DEF Reading
  <2> QED BY <2>1, <2>2
<1>3. CASE GetSeek
  <2>0. io.node \in Nodes
    BY <1>3 DEF GetSeek, Reading
  <2>1. ASSUME NEW n \in StandsFor(io.node), IsOpen(n), node' = [node EXCEPT ![n].pos = io.offset],
               io' = [io EXCEPT !.pc = "read", !.node = n]
        PROVE  Reading'
    <3>1. io'.pc = "read" /\ io'.node = n /\ n \in Nodes
      BY <2>0, <2>1, StandsForNodes DEF IInv, Types, IoTypes, IoState
    <3>2. node'[n].fd # "none"
      BY <2>1, <3>1 DEF IInv, Types, NodeTypes, DataNode, IsOpen
    <3> QED BY <3>1, <3>2 DEF Reading
  <2>2. ASSUME io' = IdleIo PROVE Reading'
    BY <2>2 DEF IdleIo, Reading
  <2> QED BY <1>3, <2>1, <2>2 DEF GetSeek, Finish
<1>4. CASE ~Restart /\ ~GetLookup /\ ~GetSeek
  <2>1. io' = io \/ io'.pc \notin {"seek", "read"}
    <3>1. io \in IoState
      BY DEF IInv, Types, IoTypes
    <3>2. CASE DiskIO \/ AppendFault
      <4>1. CASE GetRead \/ UpdateIndex \/ AppendFault
        BY <4>1 DEF GetRead, UpdateIndex, AppendFault, Finish, IdleIo
      <4>2. CASE CheckSkip \/ CheckCreate \/ CheckManifestNum \/ CheckManifestName
        BY <3>1, <4>2 DEF CheckSkip, CheckCreate, CheckManifestNum, CheckManifestName, IoState
      <4>3. CASE AppendStart
        <5>1. \/ io' = [io EXCEPT !.pc = "finish", !.node = Active, !.offset = node[Active].totalOffset]
              \/ io' = IdleIo
          BY <4>3 DEF AppendStart, Finish
        <5>3. IdleIo.pc = "ready"
          BY DEF IdleIo
        <5>2. ASSUME NEW n, NEW o, io' = [io EXCEPT !.pc = "finish", !.node = n, !.offset = o]
              PROVE  io'.pc = "finish"
          BY <3>1, <5>2 DEF IoState
        <5> QED BY <5>1, <5>2, <5>3, Zenon
      <4>4. CASE AppendFinish
        <5>1. io' = [io EXCEPT !.pc = "index"] \/ io' = IdleIo
          BY <4>4 DEF AppendFinish, Finish
        <5> QED BY <3>1, <5>1 DEF IoState, IdleIo
      <4> QED BY <1>4, <3>2, <4>1, <4>2, <4>3, <4>4 DEF DiskIO
    <3>3. ASSUME NEW r \in Rebuilds, RebuildFile(r) PROVE io' = io
      BY <3>3 DEF RebuildFile, RebuildStart, RebuildSeek, RebuildRead, RebuildSeekEnd, RebuildWrite,
         RebuildFree, RebuildCompareAndSet, RebuildSwap, RebuildRename, RebuildReopen
    <3>4. ASSUME NEW k \in Bound.keys,
                 CallGet(k) \/ CallWrite(<<"del", k, Deleted>>)
                 \/ \E v \in Values : CallWrite(<<"set", k, v>>)
          PROVE  io'.pc \notin {"seek", "read"}
      BY <3>4 DEF CallGet, CallWrite, IdleIo
    <3> QED BY <1>4, <3>2, <3>3, <3>4 DEF Next, RebuildAborts, CrashRestart, vars
  <2> QED BY <1>4, <2>1, FdKept DEF Reading
<1> QED BY <1>1, <1>2, <1>3, <1>4

LEMMA NextReplies == ASSUME IInv, Reading, Replies, [Next]_vars PROVE Replies'
<1>1. reply' \in {reply, << >>, Ok, Fail, Garbage} \/ GetRead
  BY DEF Next, DiskIO, CallGet, CallWrite, GetLookup, GetSeek, CheckSkip, CheckCreate, AppendFault,
         CheckManifestNum, CheckManifestName, AppendStart, AppendFinish, UpdateIndex, RebuildFile,
         RebuildStart, RebuildSeek, RebuildRead, RebuildSeekEnd, RebuildWrite, CrashRestart,
         RebuildAborts, Restart,
         RebuildCompareAndSet, RebuildSwap, RebuildRename, RebuildReopen, RebuildFree, vars, Finish,
         UpdateReply
<1>2. CASE GetRead
  <2>1. PICK n \in StandsFor(io.node) : reply' \in ReadResults(n)
    BY <1>2 DEF GetRead, Finish
  <2>2. CASE reply' \in {Fail, Garbage}
    BY <2>2 DEF Replies
  <2>3. CASE reply' \notin {Fail, Garbage}
    <3>1. /\ node[n].fd \notin {"freed", "closed"} /\ ~(node[n].pos >= Len(Data(n)))
          /\ ~(node[n].pos >= ScanLength(Data(n)))
          /\ reply' = Data(n)[node[n].pos + 1].val
      BY <2>1, <2>3 DEF ReadResults
    <3>2. n \in Nodes /\ node[n] \in DataNode /\ node[n].fd # "none"
      BY <1>2, StandsForNodes DEF GetRead, Reading, StandsFor, IInv, Types, NodeTypes
    <3>3. node[n].fd = "open"
      BY <3>1, <3>2 DEF DataNode
    <3>4. Data(n) \in Seq(Records) /\ node[n].pos \in Nat
      BY <3>2, <3>3 DEF Data, DataNode, IInv, Types, NodeTypes, DiskTypes
    <3>5. node[n].pos < ScanLength(Data(n))
      <4>1. ScanLength(Data(n)) \in Nat
        BY <3>4, ScanLengthBound
      <4> QED BY <3>1, <3>4, <4>1
    <3>6. reply' \in Values \cup {Deleted}
      <4> QED BY <3>1, <3>4, <3>5, ScannedRecord
    <3> QED BY <3>6 DEF Replies
  <2> QED BY <2>2, <2>3
<1> QED BY <1>1, <1>2 DEF Replies

LEMMA InitReplies == Init => Unused /\ Reading /\ Replies
BY DEF Init, Unused, Reading, Replies, IdleIo, Files

\* The parts of TypeOK.
LEMMA TypesHold == IInv /\ Unused /\ Replies => TypeOK
<1> SUFFICES ASSUME IInv, Unused, Replies PROVE TypeOK
  OBVIOUS
<1> USE DEF IInv, Types
<1>1. fileNum \in 0 .. MAXFILE /\ manifest.num \in 0 .. MAXFILE /\ manifest.names \in 0 .. MAXFILE
  BY DEF ListTypes
<1>2. \A f \in Files : fileList[f] \in IF f <= fileNum THEN Nodes ELSE {0}
  BY <1>1 DEF Unused, ActiveApart, Files
<1>3. \A n \in Nodes : /\ node[n].inode \in Inodes \cup {None}
                       /\ {node[n].totalOffset, node[n].pos} \subseteq Nat
                       /\ node[n].fd \in {"none", "open", "closed", "freed"}
                       /\ node[n].fd = "open" => node[n].inode # None
  BY StoreAssumption DEF NodeTypes, DataNode, Inodes
<1>4. ASSUME NEW i \in Inodes, NEW j \in DOMAIN disk[i]
      PROVE  disk[i][j] = TornRecord \/ disk[i][j] \in [key : Keys, val : Values \cup {Deleted}]
  <2>1. disk[i] \in Seq(Records)
    BY DEF DiskTypes
  <2>2. disk[i][j] \in Records
    BY <2>1, LenProperties, ElementOfSeq
  <2> QED BY <2>2 DEF Records
<1>5. \A r \in Rebuilds : reb[r].slot \in 0 .. MAXFILE - 1
  BY DEF ListTypes, RebuildState
<1> QED BY <1>1, <1>2, <1>3, <1>4, <1>5 DEF TypeOK, DiskTypes, IndexTypes, Positions, Replies

\* Every variable keeps its type, and fileList, fileNum and the files a
\* rebuildFile thread works on stay within MAXFILE.
THEOREM TypeCorrect == Spec => []TypeOK
<1>1. Init => IInv /\ Unused /\ Reading /\ Replies
  BY InitIInv, InitReplies
<1>2. IInv /\ Unused /\ Reading /\ Replies /\ [Next]_vars => (IInv /\ Unused /\ Reading /\ Replies)'
  BY NextIInv, NextUnused, NextReading, NextReplies
<1>3. IInv /\ Unused /\ Reading /\ Replies => TypeOK
  BY TypesHold
<1> QED BY <1>1, <1>2, <1>3, PTL DEF Spec

\* As long as no append failed, nothing crashed and no two threads have rebuilt one
\* DataNode, the last record of a key in the active file is what the index says of
\* the key: no compareAndSet of a rebuildFile thread, however late, moves an entry
\* that diskIO has renewed (simplekvstore.h:118).  A thread that goes on with a
\* deleted DataNode could: its address may be that of the active file's.
THEOREM FreshEntriesWin == Spec => []FreshestWins
<1>1. Init => IInv /\ FreshInv
  BY InitIInv, InitFresh
<1>2. IInv /\ FreshInv /\ [Next]_vars => (IInv /\ FreshInv)'
  BY NextIInv, NextFresh
<1>3. IInv /\ FreshInv => FreshestWins
  BY FreshLog
<1> QED BY <1>1, <1>2, <1>3, PTL DEF Spec

-----------------------------------------------------------------------------
(***************************************************************************)
(* The store as a key-value map.                                           *)
(*                                                                         *)
(* ImplementsMap does not hold of every store: each condition excludes a   *)
(* case in which the code loses a value or answers with another one.  The  *)
(* runs store_stale, store_late_rebuild and store_get_race show three of   *)
(* them; after a failed append the offsets of the file are wrong, a crash  *)
(* within a record leaves one that initlization stops at, and without      *)
(* ./tmpDir the index still names the DataNode that rebuildFile deletes.   *)
(***************************************************************************)

MapConditions ==
  /\ Overwrites # "any"
  /\ TmpOpens \subseteq {TRUE}
  /\ "finish" \notin CrashAt
  /\ \A o \in DOMAIN Bounds : Bounds[o].MaxFaults = 0 /\ Bounds[o].getRebuilds \subseteq {0}
  /\ Torn \notin Values \cup {Deleted}

\* A rebuildFile thread reads fileNum before the next rotation changes it.
Prompt == \A r \in Rebuilds : reb[r].pc = "start" => r = fileNum - 1

-----------------------------------------------------------------------------
(* What the files, their DataNodes and the index have to do with each other *)

Compacting(f) == f \in Rebuilds /\ Running(f)
Listed == 1 .. fileNum
FileData(f) == disk[dir[f]]

\* The DataNodes and the inodes of file f.
OwnsNode(f, n) ==
  \/ f \in Listed /\ n = fileList[f]
  \/ Compacting(f) /\ n \in {reb[f].old, reb[f].new}
Owns(f, i) == i \in {dir[f], tmp[f]} \/ \E n \in Nodes : OwnsNode(f, n) /\ node[n].inode = i

FilesApart ==
  /\ \A f, g \in Files : f # g => \A n \in Nodes : ~(OwnsNode(f, n) /\ OwnsNode(g, n))
  /\ \A f, g \in Files : f # g => \A i \in Inodes : ~(Owns(f, i) /\ Owns(g, i))
  /\ \A f \in Files : dir[f] # None => dir[f] # tmp[f]

\* A file that is not compacted has an open DataNode on its inode.
Opened(f) ==
  /\ f < fileNum => IsOpen(fileList[f])
  /\ IsOpen(fileList[f]) => node[fileList[f]].inode = dir[f]

\* How many records of file f its new file has.
Copied(f) == IF reb[f].pc = "cas" THEN reb[f].offset + 1 ELSE reb[f].offset

Copying(f) ==
  LET r == reb[f]
      d == FileData(f)
      c == Copied(f) IN
  /\ r.slot = f /\ r.old # r.new
  /\ r.pc \in RebuildSteps =>
       /\ fileList[f] = r.old /\ IsOpen(r.old) /\ node[r.old].inode = dir[f]
       /\ IsOpen(r.new) /\ node[r.new].inode = tmp[f] /\ node[r.new].totalOffset = c
       /\ tmp[f] # None
       /\ c <= Len(d) /\ Len(disk[tmp[f]]) = c
       /\ \A o \in 1 .. c : disk[tmp[f]][o] = d[o]
  /\ r.pc \in {"seekEnd", "write", "cas"} =>
       r.offset < Len(d) /\ r.newOffset = r.offset /\ r.rec = d[r.offset + 1]
  /\ r.pc = "read" => node[r.old].pos = r.offset
  /\ r.pc = "write" => node[r.new].pos = r.offset
  /\ r.pc \in {"swap", "rename", "reopen", "free"} => r.offset = Len(d)
  /\ r.pc \in {"rename", "reopen", "free"} => fileList[f] = r.new
  /\ r.pc = "rename" =>
       node[r.new].inode = tmp[f] /\ tmp[f] # None /\ disk[tmp[f]] = d
  /\ r.pc \in {"reopen", "free"} => node[r.new].inode = dir[f]
  /\ r.pc = "free" => IsOpen(r.new)

FilesStored ==
  \A f \in Listed : IF Compacting(f) THEN Copying(f) ELSE Opened(f)

\* The records of f before a torn one that diskIO is about to complete.
Clean(f) == IF f = fileNum /\ io.pc = "finish" THEN Len(FileData(f)) - 1 ELSE Len(FileData(f))
Known(f) == IF f = fileNum /\ Appending THEN Len(FileData(f)) - 1 ELSE Len(FileData(f))

RecordsWhole ==
  /\ \A f \in Listed : \A o \in 1 .. Clean(f) : FileData(f)[o].val # Torn
  /\ manifest.names < fileNum => FileData(fileNum) = << >>

Appends ==
  /\ ~clashed
  /\ fileNum > 0 /\ IsOpen(Active) => node[Active].totalOffset = Clean(fileNum)
  /\ Appending =>
       /\ fileNum > 0 /\ Len(FileData(fileNum)) > 0
       /\ io.node = Active /\ io.offset = Len(FileData(fileNum)) - 1
       /\ IsOpen(Active)
  /\ io.pc = "finish" => FileData(fileNum)[Len(FileData(fileNum))] = TornRecord
  /\ io.pc = "index" =>
       FileData(fileNum)[Len(FileData(fileNum))] = Record(io.cmd[2], io.cmd[3])

\* Record o of file f is of a set of k.
SetsKey(f, o, k) ==
  FileData(f)[o].key = k /\ FileData(f)[o].val # Deleted

\* Where record o of file f is for a reader.
Place(f, o) ==
  <<IF Compacting(f) THEN IF o <= reb[f].offset THEN reb[f].new ELSE reb[f].old
    ELSE fileList[f], o - 1>>

\* A key that a file to be compacted has a record of has no other.
SetOnce ==
  \A f, g \in Listed : \A o \in 1 .. Clean(f), p \in 1 .. Clean(g) : \A k \in Keys :
    f < MAXFILE /\ SetsKey(f, o, k) /\ SetsKey(g, p, k) => f = g /\ o = p

Current ==
  \A f \in Listed : \A o \in 1 .. Known(f) : \A k \in Keys :
    f < MAXFILE /\ SetsKey(f, o, k) => index[k] = Place(f, o)

EntriesLead ==
  \A k \in Keys : index[k] # None =>
    \E f \in Listed : \E o \in 1 .. Known(f) : SetsKey(f, o, k) /\ index[k] = Place(f, o)

\* What is set again or deleted is in the last file, and a get reads where the
\* index says.
Allowed ==
  io.pc \in WriteSteps =>
    \/ index[io.cmd[2]] = None
    \/ fileNum = MAXFILE /\ index[io.cmd[2]][1] = Active

GetsAlone ==
  io.pc \in {"lookup", "seek", "read"} =>
    /\ io.cmd \in Gets
    /\ \A r \in Rebuilds : reb[r].pc \in {"idle", "done"}
    /\ io.pc \in {"seek", "read"} => index[io.cmd[2]] = <<io.node, io.offset>>
    /\ io.pc = "read" => node[io.node].pos = io.offset

TaskKnown == faults \in Nat /\ (io.pc = "ready" => io.cmd = << >>)

\* The invariant of the files and records, and that of the index over them.
FileInv == FilesApart /\ FilesStored /\ RecordsWhole /\ Appends
RecordInv == SetOnce /\ Current /\ EntriesLead
MapInv == FileInv /\ RecordInv /\ Allowed /\ GetsAlone /\ TaskKnown

-----------------------------------------------------------------------------
\* The files in the list have inodes, records and DataNodes.
FileTypes ==
  \A f \in Listed : /\ f \in Files /\ dir[f] \in Inodes /\ fileList[f] \in Nodes
                    /\ FileData(f) \in Seq(Records) /\ Len(FileData(f)) \in Nat

LEMMA FilesTyped == IInv => FileTypes
<1> SUFFICES ASSUME IInv, NEW f \in Listed
             PROVE  /\ f \in Files /\ dir[f] \in Inodes /\ fileList[f] \in Nodes
                    /\ FileData(f) \in Seq(Records) /\ Len(FileData(f)) \in Nat
  BY DEF FileTypes
<1>1. f \in Files /\ dir[f] \in Inodes /\ fileList[f] \in Nodes
  <2>1. f \in Files
    BY StoreAssumption DEF IInv, Types, ListTypes, Listed, Files
  <2>2. dir[f] \in Inodes
    BY DEF IInv, Types, DiskTypes, Listed
  <2>3. fileList[f] \in Nodes
    BY DEF IInv, ActiveApart, Listed
  <2> QED BY <2>1, <2>2, <2>3
<1>2. FileData(f) \in Seq(Records)
  BY <1>1 DEF IInv, Types, DiskTypes, FileData
<1> QED BY <1>1, <1>2, LenProperties

\* What a step leaves of file g.  The descriptor of a file that is not
\* compacted moves when a get reads it.
Untouched(g) ==
  /\ UNCHANGED <<dir[g], tmp[g], fileList[g]>>
  /\ g \in Rebuilds => UNCHANGED Running(g) /\ (Running(g) => UNCHANGED reb[g])
  /\ g \in Listed' <=> g \in Listed
  /\ \A n \in Nodes : OwnsNode(g, n) =>
       /\ UNCHANGED <<node[n].inode, node[n].fd>>
       /\ Compacting(g) => UNCHANGED node[n]
  /\ \A i \in Inodes : Owns(g, i) => UNCHANGED disk[i]

LEMMA UntouchedFacts ==
  ASSUME IInv, NEW g \in Files, Untouched(g)
  PROVE  /\ Compacting(g)' <=> Compacting(g)
         /\ \A n \in Nodes : OwnsNode(g, n)' <=> OwnsNode(g, n)
         /\ \A i : Owns(g, i)' <=> Owns(g, i)
         /\ g \in Listed => UNCHANGED FileData(g)
         /\ g \in Listed /\ Compacting(g) /\ Copying(g) => Copying(g)'
<1>1. Compacting(g)' <=> Compacting(g)
  BY DEF Untouched, Compacting
<1>2. \A n \in Nodes : OwnsNode(g, n)' <=> OwnsNode(g, n)
  BY <1>1 DEF Untouched, Compacting, OwnsNode
<1>3. \A i : Owns(g, i)' <=> Owns(g, i)
  BY <1>2 DEF Untouched, Owns
<1>4. g \in Listed => UNCHANGED FileData(g)
  <2>1. g \in Listed => dir[g] \in Inodes
    BY FilesTyped DEF FileTypes
  <2> QED BY <2>1 DEF Untouched, Owns, FileData
<1>5. ASSUME g \in Listed, Compacting(g), Copying(g) PROVE Copying(g)'
  <2>1. reb'[g] = reb[g] /\ g \in Rebuilds
    BY <1>5 DEF Untouched, Compacting
  <2>2. reb[g].old \in Nodes /\ reb[g].new \in Nodes
    BY <1>5, RunningTypes DEF Compacting
  <2>3. UNCHANGED node[reb[g].old] /\ UNCHANGED node[reb[g].new]
    <3>1. \A n \in Nodes : OwnsNode(g, n) => UNCHANGED node[n]
      BY <1>5 DEF Untouched
    <3>2. OwnsNode(g, reb[g].old) /\ OwnsNode(g, reb[g].new)
      BY <1>5 DEF OwnsNode
    <3> QED BY <2>1, <2>2, <3>1, <3>2
  <2>4. tmp[g] # None => tmp[g] \in Inodes
    BY DEF IInv, Types, DiskTypes
  <2>5. tmp[g] # None => UNCHANGED disk[tmp[g]]
    BY <2>4 DEF Untouched, Owns
  <2>6. UNCHANGED <<dir[g], tmp[g], fileList[g]>>
    BY DEF Untouched
  <2>7. UNCHANGED Copied(g)
    BY <2>1 DEF Copied
  <2> QED BY <1>4, <1>5, <2>1, <2>3, <2>5, <2>6, <2>7 DEF Copying, IsOpen
<1> QED BY <1>1, <1>2, <1>3, <1>4, <1>5

\* A step on file f, with DataNodes and inodes that no other file has.
LEMMA StepOnFile ==
  ASSUME IInv, IInv', FilesApart, FilesStored, NEW f \in Files,
         \A g \in Files : g # f => Untouched(g),
         \A g \in Files : g # f /\ g < fileNum' /\ ~(g < fileNum) => IsOpen(fileList[g]),
         \A n \in Nodes : OwnsNode(f, n)' => OwnsNode(f, n) \/ \A g \in Files : ~OwnsNode(g, n),
         \A i \in Inodes : Owns(f, i)' => Owns(f, i) \/ \A g \in Files : ~Owns(g, i),
         dir'[f] # None => dir'[f] # tmp'[f],
         f \in Listed' => IF Compacting(f)' THEN Copying(f)' ELSE Opened(f)'
  PROVE  FilesApart' /\ FilesStored'
<1>1. \A g, h \in Files : g # h => \A n \in Nodes : ~(OwnsNode(g, n)' /\ OwnsNode(h, n)')
  BY UntouchedFacts DEF FilesApart
<1>2. \A g, h \in Files : g # h => \A i \in Inodes : ~(Owns(g, i)' /\ Owns(h, i)')
  BY UntouchedFacts DEF FilesApart
<1>3. \A g \in Files : dir'[g] # None => dir'[g] # tmp'[g]
  BY DEF FilesApart, Untouched
<1>4. ASSUME NEW g \in Listed', g # f
      PROVE  IF Compacting(g)' THEN Copying(g)' ELSE Opened(g)'
  <2>1. g \in Files /\ g \in Listed
    <3>1. IInv' => FileTypes'
      BY FilesTyped, PTL
    <3> QED BY <1>4, <3>1 DEF FileTypes, Untouched
  <2>2. IF Compacting(g) THEN Copying(g) ELSE Opened(g)
    BY <2>1 DEF FilesStored
  <2>3. CASE Compacting(g)
    BY <1>4, <2>1, <2>2, <2>3, UntouchedFacts
  <2>4. CASE ~Compacting(g)
    <3>1. ~Compacting(g)' /\ UNCHANGED <<dir[g], fileList[g]>>
      BY <1>4, <2>1, <2>4, UntouchedFacts DEF Untouched
    <3>2. fileList[g] \in Nodes
      BY <2>1, FilesTyped DEF FileTypes
    <3>3. UNCHANGED <<node[fileList[g]].inode, node[fileList[g]].fd>>
      BY <1>4, <2>1, <3>2 DEF Untouched, OwnsNode
    <3> QED BY <1>4, <2>1, <2>2, <2>4, <3>1, <3>3 DEF Opened, IsOpen
  <2> QED BY <2>3, <2>4
<1>5. FilesStored'
  BY <1>4 DEF FilesStored
<1> QED BY <1>1, <1>2, <1>3, <1>5 DEF FilesApart

-----------------------------------------------------------------------------
(* The records of the files and the index *)

\* diskIO appends to the last file only, and to no other record than the last.
LEMMA CleanFacts ==
  ASSUME IInv, RecordsWhole, Appends, NEW f \in Listed
  PROVE  /\ f \in Files /\ Len(FileData(f)) \in Nat /\ FileData(f) \in Seq(Records)
         /\ Clean(f) \in 0 .. Len(FileData(f)) /\ Known(f) \in 0 .. Clean(f)
         /\ io.pc # "index" => Known(f) = Clean(f)
         /\ f # fileNum => Clean(f) = Len(FileData(f)) /\ Known(f) = Len(FileData(f))
         /\ \A o \in 1 .. Clean(f) : /\ FileData(f)[o].key \in Keys
                                     /\ FileData(f)[o].val \in Values \cup {Deleted}
<1>1. f \in Files /\ Len(FileData(f)) \in Nat /\ FileData(f) \in Seq(Records)
  BY FilesTyped DEF FileTypes
<1>2. /\ Clean(f) \in 0 .. Len(FileData(f)) /\ Known(f) \in 0 .. Clean(f)
      /\ io.pc # "index" => Known(f) = Clean(f)
      /\ f # fileNum => Clean(f) = Len(FileData(f)) /\ Known(f) = Len(FileData(f))
  BY <1>1 DEF Clean, Known, Appends, Appending
<1>3. ASSUME NEW o \in 1 .. Clean(f)
      PROVE  FileData(f)[o].key \in Keys /\ FileData(f)[o].val \in Values \cup {Deleted}
  <2>1. FileData(f)[o] \in Records
    BY <1>1, <1>2, ElementOfSeq
  <2>2. FileData(f)[o].val # Torn
    BY DEF RecordsWhole
  <2> QED BY <2>1, <2>2 DEF Records, TornRecord
<1> QED BY <1>1, <1>2, <1>3

\* A reader finds a record where Place says.
LEMMA PlaceHolds ==
  ASSUME IInv, FilesStored, RecordsWhole, Appends, NEW f \in Listed, NEW o \in 1 .. Known(f)
  PROVE  /\ Place(f, o)[1] \in Nodes /\ Place(f, o)[2] = o - 1 /\ o \in Nat
         /\ node[Place(f, o)[1]].inode # None
         /\ o <= Len(Data(Place(f, o)[1]))
         /\ Data(Place(f, o)[1])[o] = FileData(f)[o]
         /\ OwnsNode(f, Place(f, o)[1])
         /\ ~Compacting(f) => IsOpen(Place(f, o)[1])
<1>1. /\ f \in Files /\ Len(FileData(f)) \in Nat /\ o \in Nat /\ o > 0 /\ o <= Len(FileData(f))
      /\ dir[f] \in Inodes /\ fileList[f] \in Nodes
  <2>1. Known(f) \in 0 .. Len(FileData(f))
    BY CleanFacts
  <2> QED BY <2>1, FilesTyped DEF FileTypes
<1>2. None \notin Inodes
  BY StoreAssumption DEF Inodes
<1>3. CASE ~Compacting(f)
  <2>1. Place(f, o) = <<fileList[f], o - 1>>
    BY <1>3 DEF Place
  <2>2. IsOpen(fileList[f])
    <3>1. CASE f < fileNum
      BY <1>3, <3>1 DEF FilesStored, Opened
    <3>2. CASE f = fileNum
      <4>1. manifest.names >= fileNum \/ io.pc \in {"manNum", "manName"}
        <5>1. ~(manifest.names < fileNum)
          BY <1>1, <3>2 DEF RecordsWhole
        <5> QED BY <5>1, <3>2, StoreAssumption DEF IInv, Types, ListTypes, Listed
      <4>2. ~HalfManifest
        BY <4>1, StoreAssumption DEF HalfManifest, IInv, Types, ListTypes
      <4> QED BY <3>2, <4>2 DEF IInv, FilesInOrder, Active, Listed, Appends
    <3> QED BY <3>1, <3>2, StoreAssumption DEF Listed, IInv, Types, ListTypes
  <2>3. node[fileList[f]].inode = dir[f]
    BY <1>3, <2>2 DEF FilesStored, Opened
  <2> QED BY <1>1, <1>2, <1>3, <2>1, <2>2, <2>3 DEF Data, FileData, OwnsNode
<1>4. CASE Compacting(f)
  <2>1. /\ Copying(f) /\ reb[f].pc \in RebuildSteps \cup {"rename", "reopen", "free"}
        /\ reb[f].old \in Nodes /\ reb[f].new \in Nodes /\ reb[f].offset \in Nat
    <3>1. f \in Rebuilds /\ Running(f)
      BY <1>4 DEF Compacting
    <3> QED BY <1>4, <3>1, RunningTypes DEF FilesStored, RebuildState, Running
  <2>2. CASE o <= reb[f].offset
    <3>1. Place(f, o) = <<reb[f].new, o - 1>>
      BY <1>4, <2>2 DEF Place
    <3>2. CASE reb[f].pc \in RebuildSteps
      <4>1. o <= Copied(f) /\ Copied(f) \in Nat
        BY <1>1, <2>1, <2>2 DEF Copied
      <4>2. /\ node[reb[f].new].inode = tmp[f] /\ tmp[f] # None
            /\ Len(disk[tmp[f]]) = Copied(f) /\ disk[tmp[f]][o] = FileData(f)[o]
        BY <1>1, <2>1, <3>2, <4>1 DEF Copying
      <4> QED BY <1>1, <1>4, <2>1, <3>1, <4>1, <4>2 DEF Data, OwnsNode
    <3>3. CASE reb[f].pc \notin RebuildSteps
      <4>1. node[reb[f].new].inode # None /\ Data(reb[f].new) = FileData(f)
        BY <1>1, <1>2, <2>1, <3>3 DEF Copying, Data, FileData
      <4> QED BY <1>1, <1>4, <2>1, <3>1, <4>1 DEF OwnsNode
    <3> QED BY <3>2, <3>3
  <2>3. CASE o > reb[f].offset
    <3>1. Place(f, o) = <<reb[f].old, o - 1>>
      BY <1>1, <1>4, <2>1, <2>3 DEF Place
    <3>2. reb[f].pc \in RebuildSteps
      BY <1>1, <2>1, <2>3 DEF Copying
    <3>3. node[reb[f].old].inode = dir[f]
      BY <2>1, <3>2 DEF Copying
    <3> QED BY <1>1, <1>2, <1>4, <2>1, <3>1, <3>3 DEF Data, FileData, OwnsNode
  <2> QED BY <1>1, <2>1, <2>2, <2>3
<1> QED BY <1>3, <1>4

\* The value of a key is in the record of its last set.
Entered(k, f, o) == o \in 1 .. Known(f) /\ SetsKey(f, o, k) /\ index[k] = Place(f, o)

LEMMA ValueOf ==
  ASSUME IInv, FilesStored, RecordsWhole, Appends, NEW k \in Keys, NEW f \in Listed, NEW o,
         Entered(k, f, o)
  PROVE  ValueAt(k) = FileData(f)[o].val
<1>1. o \in 1 .. Known(f) /\ SetsKey(f, o, k) /\ index[k] = Place(f, o)
  BY DEF Entered
<1>2. index[k] # None
  <2>1. Place(f, o) \in Nat \X Nat
    <3>1. Place(f, o)[1] \in Nodes /\ o \in Nat /\ o > 0
      BY <1>1, PlaceHolds
    <3> QED BY <3>1 DEF Place, Nodes
  <2> QED BY <1>1, <2>1, StoreAssumption
<1>3. /\ node[index[k][1]].inode # None
      /\ index[k][2] + 1 = o /\ index[k][2] < Len(Data(index[k][1]))
      /\ Data(index[k][1])[index[k][2] + 1] = FileData(f)[o]
  <2>1. /\ index[k][2] = o - 1 /\ o \in Nat /\ o <= Len(Data(index[k][1]))
        /\ node[index[k][1]].inode # None
        /\ Data(index[k][1])[o] = FileData(f)[o]
    BY <1>1, PlaceHolds
  <2>2. Len(Data(index[k][1])) \in Nat
    <3>1. index[k][1] \in Nodes
      BY <1>1, PlaceHolds
    <3> QED BY <2>1, <3>1, LenProperties DEF Data, IInv, Types, NodeTypes, DataNode, DiskTypes
  <2> QED BY <2>1, <2>2
<1> QED BY <1>1, <1>2, <1>3 DEF ValueAt, SetsKey

\* A step that changes no record of a set that the index knows, and moves an
\* entry only with its record.
KnownFollow ==
  /\ \A f \in Listed :
       /\ f \in Listed' /\ UNCHANGED Known(f)
       /\ \A o \in 1 .. Known(f) : UNCHANGED FileData(f)[o]
  /\ \A f \in Listed' : f \notin Listed => Known(f)' = 0
  /\ \A k \in Keys : index[k] = None => index'[k] = None
  /\ \A k \in Keys : \A f \in Listed : \A o \in 1 .. Known(f) :
       Entered(k, f, o) => index'[k] = Place(f, o)'

\* ... and none that a restart finds.
CleanFollow ==
  /\ \A f \in Listed :
       /\ f \in Listed' /\ UNCHANGED Clean(f)
       /\ \A o \in 1 .. Clean(f) : UNCHANGED FileData(f)[o]
  /\ \A f \in Listed' : f \notin Listed => Clean(f)' = 0

LEMMA EntryFollows ==
  ASSUME KnownFollow, NEW k \in Keys, NEW f \in Listed, NEW o, Entered(k, f, o)
  PROVE  /\ Entered(k, f, o)' /\ f \in Listed'
         /\ FileData(f)'[o].val = FileData(f)[o].val
<1>1. o \in 1 .. Known(f)
  BY DEF Entered
<1>2. f \in Listed' /\ Known(f)' = Known(f) /\ FileData(f)'[o] = FileData(f)[o]
  BY <1>1 DEF KnownFollow
<1>3. index'[k] = Place(f, o)'
  BY <1>1 DEF KnownFollow
<1> QED BY <1>1, <1>2, <1>3 DEF Entered, SetsKey

LEMMA EntriesFollow ==
  ASSUME Current, EntriesLead, KnownFollow
  PROVE  Current' /\ EntriesLead'
<1>1. \A f \in Listed : \A o \in 1 .. Known(f) : \A k : SetsKey(f, o, k)' <=> SetsKey(f, o, k)
  BY DEF KnownFollow, SetsKey
<1>2. \A f \in Listed' : Known(f)' # 0 => f \in Listed
  BY DEF KnownFollow
<1>3. \A f \in Listed : Known(f)' = Known(f)
  BY DEF KnownFollow
<1>4. Current'
  <2> SUFFICES ASSUME NEW f \in Listed', NEW o \in 1 .. Known(f)', NEW k \in Keys,
                      f < MAXFILE, SetsKey(f, o, k)'
               PROVE  index'[k] = Place(f, o)'
    BY DEF Current
  <2>1. f \in Listed /\ o \in 1 .. Known(f)
    BY <1>2, <1>3
  <2>2. Entered(k, f, o)
    BY <1>1, <2>1 DEF Current, Entered
  <2> QED BY <2>1, <2>2 DEF KnownFollow
<1>5. EntriesLead'
  <2> SUFFICES ASSUME NEW k \in Keys, index'[k] # None
               PROVE  \E f \in Listed' : \E o \in 1 .. Known(f)' :
                        SetsKey(f, o, k)' /\ index'[k] = Place(f, o)'
    BY DEF EntriesLead
  <2>1. PICK f \in Listed : \E o \in 1 .. Known(f) : Entered(k, f, o)
    BY DEF KnownFollow, EntriesLead, Entered
  <2>2. PICK o \in 1 .. Known(f) : Entered(k, f, o)
    BY <2>1
  <2> QED BY <2>2, EntryFollows DEF Entered
<1> QED BY <1>4, <1>5

LEMMA SetsFollow == ASSUME SetOnce, CleanFollow PROVE SetOnce'
<1>1. \A f \in Listed : \A o \in 1 .. Clean(f) : \A k : SetsKey(f, o, k)' <=> SetsKey(f, o, k)
  BY DEF CleanFollow, SetsKey
<1>2. \A f \in Listed' : Clean(f)' # 0 => f \in Listed
  BY DEF CleanFollow
<1>3. \A f \in Listed : Clean(f)' = Clean(f)
  BY DEF CleanFollow
<1> SUFFICES ASSUME NEW f \in Listed', NEW g \in Listed',
                    NEW o \in 1 .. Clean(f)', NEW p \in 1 .. Clean(g)', NEW k \in Keys,
                    f < MAXFILE, SetsKey(f, o, k)', SetsKey(g, p, k)'
             PROVE  f = g /\ o = p
  BY DEF SetOnce
<1>4. f \in Listed /\ g \in Listed
  BY <1>2
<1> QED BY <1>1, <1>3, <1>4 DEF SetOnce

\* What a reader finds of each key.
EntryValues ==
  \A k \in Keys : /\ index[k] = None => ValueAt(k) = Deleted
                  /\ \A f \in Listed : \A o : Entered(k, f, o) => ValueAt(k) = FileData(f)[o].val

LEMMA EntryValue == IInv /\ FileInv => EntryValues
<1> SUFFICES ASSUME IInv, FileInv PROVE EntryValues
  OBVIOUS
<1>1. \A k \in Keys : \A f \in Listed : \A o : Entered(k, f, o) => ValueAt(k) = FileData(f)[o].val
  BY ValueOf DEF FileInv
<1>2. \A k \in Keys : index[k] = None => ValueAt(k) = Deleted
  BY DEF ValueAt
<1> QED BY <1>1, <1>2 DEF EntryValues

LEMMA MapFollows ==
  ASSUME IInv, IInv', FileInv, FileInv', EntriesLead, KnownFollow
  PROVE  \A k \in Keys : ValueAt(k)' = ValueAt(k)
<1>1. EntryValues
  BY EntryValue
<1>2. IInv' /\ FileInv' => EntryValues'
  BY EntryValue, PTL
<1>3. EntryValues'
  BY <1>2
<1> SUFFICES ASSUME NEW k \in Keys PROVE ValueAt(k)' = ValueAt(k)
  OBVIOUS
<1>4. CASE index[k] = None
  BY <1>1, <1>3, <1>4 DEF EntryValues, KnownFollow
<1>5. CASE index[k] # None
  <2>1. PICK f \in Listed : \E o \in 1 .. Known(f) : Entered(k, f, o)
    BY <1>5 DEF EntriesLead, Entered
  <2>2. PICK o \in 1 .. Known(f) : Entered(k, f, o)
    BY <2>1
  <2>3. Entered(k, f, o)' /\ f \in Listed' /\ FileData(f)'[o].val = FileData(f)[o].val
    BY <2>2, EntryFollows
  <2> QED BY <1>1, <1>3, <2>2, <2>3 DEF EntryValues
<1> QED BY <1>4, <1>5

-----------------------------------------------------------------------------
(* What a restart would find *)

SetPositions(k) ==
  {p \in Files \X Nat : /\ p[1] \in Listed /\ Named(p[1])
                        /\ p[2] + 1 \in 1 .. Clean(p[1]) /\ SetsKey(p[1], p[2] + 1, k)}

\* initlization reads a file up to the record that diskIO has not completed.
LEMMA ScanIsClean ==
  ASSUME IInv, RecordsWhole, Appends, NEW f \in Listed
  PROVE  ScanLength(FileData(f)) = Clean(f)
<1> DEFINE d == FileData(f)
           S == {j \in DOMAIN d : d[j].val = Torn} \cup {Len(d) + 1}
<1>1. /\ d \in Seq(Records) /\ Len(d) \in Nat /\ Clean(f) \in 0 .. Len(d) /\ f \in Files
      /\ DOMAIN d = 1 .. Len(d)
  BY CleanFacts, LenProperties
<1>2. Clean(f) + 1 \in S
  <2>1. CASE Clean(f) = Len(d)
    BY <2>1
  <2>2. CASE Clean(f) # Len(d)
    <3>1. f = fileNum /\ io.pc = "finish" /\ Clean(f) = Len(d) - 1
      BY <2>2 DEF Clean
    <3>2. d[Len(d)].val = Torn
      BY <3>1 DEF Appends, TornRecord
    <3>3. Len(d) \in DOMAIN d /\ Clean(f) + 1 = Len(d)
      BY <1>1, <3>1
    <3> QED BY <3>2, <3>3
  <2> QED BY <2>1, <2>2
<1>3. \A j \in S : Clean(f) + 1 <= j
  <2> SUFFICES ASSUME NEW j \in S PROVE Clean(f) + 1 <= j
    OBVIOUS
  <2>1. j \in 1 .. Len(d) + 1
    BY <1>1
  <2>2. j \in 1 .. Clean(f) => d[j].val # Torn
    BY DEF RecordsWhole
  <2>3. j \in 1 .. Clean(f) => j \in DOMAIN d /\ j # Len(d) + 1
    BY <1>1
  <2> QED BY <1>1, <2>1, <2>2, <2>3
<1>4. S \in SUBSET Nat /\ S # {}
  BY <1>1
<1>5. Least(S) = Clean(f) + 1
  <2>1. Least(S) \in S /\ \A y \in S : Least(S) <= y
    <3> HIDE DEF S
    <3> QED BY <1>4, LeastIsMember
  <2>2. Clean(f) + 1 \in Nat
    BY <1>1
  <2>3. Least(S) \in Nat
    <3> HIDE DEF S
    <3> QED BY <1>4, <2>1
  <2>4. Least(S) <= Clean(f) + 1 /\ Clean(f) + 1 <= Least(S)
    <3> HIDE DEF S
    <3> QED BY <1>2, <1>3, <2>1
  <2> HIDE DEF S
  <2> QED BY <2>2, <2>3, <2>4
<1>6. ScanLength(d) = Least(S) - 1
  BY DEF ScanLength
<1> QED BY <1>1, <1>5, <1>6

LEMMA RecoveredIsClean ==
  ASSUME IInv, RecordsWhole, Appends, NEW f \in Files, Named(f)
  PROVE  /\ f \in Listed
         /\ DOMAIN Recovered(f) = 1 .. Clean(f) /\ Len(Recovered(f)) = Clean(f)
         /\ \A o \in 1 .. Clean(f) : Recovered(f)[o] = FileData(f)[o]
<1>1. f \in Listed
  BY RecoveredFile, StoreAssumption DEF Listed, Files, IInv, Types, ListTypes
<1>2. ScanLength(disk[dir[f]]) = Clean(f) /\ Clean(f) \in 0 .. Len(FileData(f))
      /\ FileData(f) \in Seq(Records) /\ Len(FileData(f)) \in Nat
  BY <1>1, ScanIsClean, CleanFacts DEF FileData
<1>3. /\ SubSeq(FileData(f), 1, Clean(f)) \in Seq(Records)
      /\ Len(SubSeq(FileData(f), 1, Clean(f))) = Clean(f)
      /\ \A o \in 1 .. Clean(f) : SubSeq(FileData(f), 1, Clean(f))[o] = FileData(f)[o]
  <2>1. Clean(f) \in Nat /\ 1 \in Nat
    BY <1>2
  <2>2. \A o \in 1 .. Clean(f) : FileData(f)[o] \in Records
    BY <1>2, ElementOfSeq
  <2> QED BY <1>2, <2>1, <2>2, SubSeqProperties
<1>4. Recovered(f) = SubSeq(FileData(f), 1, Clean(f))
  BY <1>2 DEF Recovered, FileData
<1> QED BY <1>1, <1>3, <1>4, LenProperties

PositionsKnown == \A k \in Keys : RecoveredPositions(k) = SetPositions(k)

LEMMA PositionsAre == IInv /\ RecordsWhole /\ Appends => PositionsKnown
<1> SUFFICES ASSUME IInv, RecordsWhole, Appends, NEW k \in Keys
             PROVE  RecoveredPositions(k) = SetPositions(k)
  BY DEF PositionsKnown
<1>1. ASSUME NEW p \in RecoveredPositions(k) PROVE p \in SetPositions(k)
  <2>1. PICK f \in Files, o \in Nat \ {0} :
           /\ Named(f) /\ p = <<f, o - 1>> /\ o \in DOMAIN Recovered(f)
           /\ Recovered(f)[o].key = k /\ Recovered(f)[o].val # Deleted
    BY RecoveredPositionsTypes
  <2>2. p \in Files \X Nat /\ p[1] = f /\ p[2] + 1 = o
    BY <2>1
  <2>3. f \in Listed /\ o \in 1 .. Clean(f) /\ SetsKey(f, o, k)
    BY <2>1, RecoveredIsClean DEF SetsKey
  <2> QED BY <2>1, <2>2, <2>3 DEF SetPositions
<1>2. ASSUME NEW p \in SetPositions(k) PROVE p \in RecoveredPositions(k)
  <2>1. /\ p \in Files \X Nat /\ p[1] \in Listed /\ Named(p[1])
        /\ p[2] + 1 \in 1 .. Clean(p[1]) /\ SetsKey(p[1], p[2] + 1, k)
    BY DEF SetPositions
  <2> DEFINE f == p[1]
             o == p[2] + 1
  <2>2. f \in Files /\ o \in DOMAIN Recovered(f) /\ Recovered(f)[o].key = k
        /\ Recovered(f)[o].val # Deleted
    BY <2>1, RecoveredIsClean DEF SetsKey
  <2>3. p = <<f, o - 1>>
    BY <2>1
  <2> HIDE DEF f, o
  <2> QED BY <2>1, <2>2, <2>3 DEF RecoveredPositions, f
<1> QED BY <1>1, <1>2

\* The value a restart finds is that of the record at the last position.
ValuesKnown ==
  \A k \in Keys :
    LET S == SetPositions(k)
        p == LastPosition(S)
    IN  IF S = {} THEN RecoveredValue(k) = Deleted
        ELSE p \in S /\ RecoveredValue(k) = FileData(p[1])[p[2] + 1].val

LEMMA ValuesAre == IInv /\ RecordsWhole /\ Appends => ValuesKnown
<1> SUFFICES ASSUME IInv, RecordsWhole, Appends PROVE ValuesKnown
  OBVIOUS
<1> SUFFICES ASSUME NEW k \in Keys
             PROVE  LET S == SetPositions(k)
                        p == LastPosition(S)
                    IN  IF S = {} THEN RecoveredValue(k) = Deleted
                        ELSE p \in S /\ RecoveredValue(k) = FileData(p[1])[p[2] + 1].val
  BY DEF ValuesKnown
<1> DEFINE S == SetPositions(k)
<1>1. RecoveredPositions(k) = S
  BY PositionsAre DEF PositionsKnown
<1>2. CASE S = {}
  BY <1>1, <1>2 DEF RecoveredValue
<1>3. CASE S # {}
  <2>1. S \in SUBSET (Files \X Nat)
    BY DEF SetPositions
  <2>2. ASSUME NEW f \in Files PROVE \E b \in Nat : \A p \in S : p[1] = f => p[2] <= b
    <3>1. CASE f \in Listed
      <4>1. Clean(f) \in Nat
        BY <3>1, CleanFacts
      <4>2. \A p \in S : p[1] = f => p[2] <= Clean(f)
        <5> SUFFICES ASSUME NEW p \in S, p[1] = f PROVE p[2] <= Clean(f)
          OBVIOUS
        <5>1. p[2] + 1 \in 1 .. Clean(f) /\ p[2] \in Nat
          BY DEF SetPositions
        <5> QED BY <4>1, <5>1
      <4> HIDE DEF S
      <4> QED BY <4>1, <4>2
    <3>2. CASE f \notin Listed
      <4>1. \A p \in S : p[1] # f
        BY <3>2 DEF SetPositions
      <4> HIDE DEF S
      <4> QED BY <4>1
    <3> QED BY <3>1, <3>2
  <2>3. LastPosition(S) \in S
    <3> HIDE DEF S
    <3> QED BY <1>3, <2>1, <2>2, LastPositionIsMember
  <2>4. RecoveredValue(k) = disk[dir[LastPosition(S)[1]]][LastPosition(S)[2] + 1].val
    <3> HIDE DEF S
    <3> QED BY <1>1, <1>3 DEF RecoveredValue
  <2> QED BY <1>3, <2>3, <2>4 DEF FileData
<1> QED BY <1>2, <1>3

\* A step that keeps the records that a restart finds keeps what it finds.
LEMMA DurableOf ==
  ASSUME IInv, IInv', FileInv, FileInv', NEW k \in Keys,
         SetPositions(k)' = SetPositions(k),
         \A f \in Listed : \A o \in 1 .. Clean(f) : UNCHANGED FileData(f)[o]
  PROVE  RecoveredValue(k)' = RecoveredValue(k)
<1>1. ValuesKnown
  BY ValuesAre DEF FileInv
<1>2. IInv' /\ RecordsWhole' /\ Appends' => ValuesKnown'
  BY ValuesAre, PTL
<1>3. ValuesKnown'
  BY <1>2 DEF FileInv
<1> DEFINE S == SetPositions(k)
           p == LastPosition(S)
<1>4. S' = S
  OBVIOUS
<1>5. CASE S = {}
  BY <1>1, <1>3, <1>4, <1>5 DEF ValuesKnown
<1>6. CASE S # {}
  <2>1. p \in S /\ RecoveredValue(k) = FileData(p[1])[p[2] + 1].val /\ p' = p
    <3>1. p' = p
      <4> HIDE DEF S
      <4> QED BY <1>4 DEF LastPosition
    <3> QED BY <1>1, <1>6, <3>1 DEF ValuesKnown
  <2>2. PICK q \in Files \X Nat : q = p
    BY <2>1 DEF SetPositions
  <2>3. (RecoveredValue(k) = FileData(p[1])[p[2] + 1].val)'
    <3> HIDE DEF S
    <3> QED BY <1>3, <1>4, <1>6 DEF ValuesKnown, S
  <2>4. RecoveredValue(k)' = FileData(q[1])'[q[2] + 1].val
    BY <2>1, <2>2, <2>3 DEF FileData
  <2>5. q[1] \in Listed /\ q[2] + 1 \in 1 .. Clean(q[1])
    BY <2>1, <2>2 DEF SetPositions
  <2>6. FileData(q[1])'[q[2] + 1] = FileData(q[1])[q[2] + 1]
    BY <2>5
  <2> HIDE DEF p
  <2> QED BY <2>1, <2>2, <2>4, <2>6
<1> QED BY <1>5, <1>6

LEMMA DurableFollows ==
  ASSUME IInv, IInv', FileInv, FileInv', CleanFollow,
         \A f \in Listed : (Named(f)' <=> Named(f)) \/ Clean(f) = 0
  PROVE  \A k \in Keys : RecoveredValue(k)' = RecoveredValue(k)
<1> SUFFICES ASSUME NEW k \in Keys PROVE RecoveredValue(k)' = RecoveredValue(k)
  OBVIOUS
<1> DEFINE S == SetPositions(k)
<1>1. S' = S
  <2>1. ASSUME NEW q \in Files \X Nat PROVE q \in S' <=> q \in S
    <3> DEFINE f == q[1]
               o == q[2] + 1
    <3>1. CASE f \in Listed
      <4>1. f \in Listed' /\ Clean(f)' = Clean(f)
        BY <3>1 DEF CleanFollow
      <4>2. o \in 1 .. Clean(f) => (SetsKey(f, o, k)' <=> SetsKey(f, o, k))
        BY <3>1 DEF CleanFollow, SetsKey
      <4>3. o \in 1 .. Clean(f) => (Named(f)' <=> Named(f))
        BY <3>1
      <4> QED BY <3>1, <4>1, <4>2, <4>3 DEF SetPositions
    <3>2. CASE f \notin Listed
      <4>1. f \in Listed' => Clean(f)' = 0
        BY <3>2 DEF CleanFollow
      <4> QED BY <3>2, <4>1 DEF SetPositions
    <3> QED BY <3>1, <3>2
  <2>2. S' \subseteq Files \X Nat /\ S \subseteq Files \X Nat
    BY DEF SetPositions
  <2> HIDE DEF S
  <2> QED BY <2>1, <2>2
<1>2. \A f \in Listed : \A o \in 1 .. Clean(f) : UNCHANGED FileData(f)[o]
  BY DEF CleanFollow
<1> HIDE DEF S
<1> QED BY <1>1, <1>2, DurableOf DEF S

\* The record that diskIO has completed is the last one a restart finds.
Stored == io.pc = "index" /\ io.cmd[1] = "set" => RecoveredValue(io.cmd[2]) = io.cmd[3]

LEMMA StoredValue == IInv /\ FileInv => Stored
<1> SUFFICES ASSUME IInv, FileInv, io.pc = "index", io.cmd[1] = "set"
             PROVE  RecoveredValue(io.cmd[2]) = io.cmd[3]
  BY DEF Stored
<1> DEFINE k == io.cmd[2]
           S == SetPositions(k)
           d == FileData(fileNum)
           p == <<fileNum, Len(d) - 1>>
<1>1. k \in Keys /\ io.cmd[3] \in Values /\ io.cmd[3] # Deleted
  BY StoreAssumption DEF IInv, Types, IoTypes, WriteSteps, Writes
<1>2. /\ fileNum \in Files /\ fileNum \in Listed /\ Named(fileNum)
      /\ Len(d) \in Nat /\ Len(d) > 0 /\ Clean(fileNum) = Len(d)
  <2>1. fileNum \in Nat /\ fileNum > 0 /\ fileNum <= MAXFILE /\ Len(d) > 0
    BY StoreAssumption DEF FileInv, Appends, Appending, IInv, Types, ListTypes
  <2>2. fileNum \in Listed
    BY <2>1 DEF Listed
  <2>3. Named(fileNum)
    BY <2>1, StoreAssumption DEF IInv, FilesInOrder, HalfManifest, Named
  <2> QED BY <2>2, <2>3, <2>1, FilesTyped DEF FileTypes, Clean
<1>3. d[Len(d)] = Record(k, io.cmd[3])
  BY DEF FileInv, Appends
<1>4. p \in S
  <2>1. p \in Files \X Nat /\ p[1] = fileNum /\ p[2] + 1 = Len(d)
    BY <1>2
  <2>2. SetsKey(fileNum, Len(d), k)
    BY <1>1, <1>3 DEF SetsKey, Record
  <2> HIDE DEF p, d
  <2> QED BY <1>2, <2>1, <2>2 DEF SetPositions
<1>5. \A b \in S : b[1] \in Nat /\ b[2] \in Nat /\ (b[1] < p[1] \/ (b[1] = p[1] /\ b[2] <= p[2]))
  <2> SUFFICES ASSUME NEW b \in S
               PROVE  /\ b[1] \in Nat /\ b[2] \in Nat
                      /\ b[1] < p[1] \/ (b[1] = p[1] /\ b[2] <= p[2])
    OBVIOUS
  <2>1. b \in Files \X Nat /\ b[1] \in Listed /\ b[2] + 1 \in 1 .. Clean(b[1])
    BY DEF SetPositions
  <2>2. b[1] \in Nat /\ b[2] \in Nat /\ b[1] <= fileNum
    BY <2>1 DEF Listed, Files
  <2>3. CASE b[1] = fileNum
    <3>1. b[2] + 1 \in 1 .. Len(d)
      BY <1>2, <2>1, <2>3
    <3> HIDE DEF d
    <3> QED BY <1>2, <2>2, <2>3, <3>1
  <2>4. CASE b[1] # fileNum
    <3> HIDE DEF d
    <3>1. fileNum \in Nat
      BY <1>2 DEF Files
    <3> QED BY <2>2, <2>4, <3>1
  <2> QED BY <2>3, <2>4
<1>6. LastPosition(S) = p
  <2> DEFINE a == LastPosition(S)
  <2>1. a \in S /\ \A b \in S : b[1] < a[1] \/ (b[1] = a[1] /\ b[2] <= a[2])
    <3> HIDE DEF S, p
    <3> QED BY <1>4, <1>5 DEF LastPosition
  <2>2. a \in Files \X Nat /\ p \in Files \X Nat
    BY <1>4, <2>1 DEF SetPositions
  <2>3. a[1] = p[1] /\ a[2] = p[2]
    <3> HIDE DEF S, p, a
    <3> QED BY <1>4, <1>5, <2>1
  <2>4. a = p
    <3> HIDE DEF a, p
    <3> QED BY <2>2, <2>3
  <2> QED BY <2>4
<1>7. RecoveredValue(k) = FileData(p[1])[p[2] + 1].val
  <2>1. ValuesKnown
    BY ValuesAre DEF FileInv
  <2> HIDE DEF S, p
  <2> QED BY <1>1, <1>4, <1>6, <2>1 DEF ValuesKnown, S
<1>8. p[1] = fileNum /\ p[2] + 1 = Len(d)
  BY <1>2
<1> HIDE DEF p
<1> QED BY <1>3, <1>7, <1>8 DEF Record

\* A step that the clients cannot see.
SameMap ==
  /\ \A k \in Keys : ValueAt(k)' = ValueAt(k)
  /\ \A k \in Keys : RecoveredValue(k)' = RecoveredValue(k)

LEMMA FollowStep ==
  ASSUME IInv, IInv', FileInv, FileInv', RecordInv, KnownFollow, CleanFollow,
         \A f \in Listed : (Named(f)' <=> Named(f)) \/ Clean(f) = 0
  PROVE  RecordInv' /\ SameMap
BY EntriesFollow, SetsFollow, MapFollows, DurableFollows DEF RecordInv, SameMap

-----------------------------------------------------------------------------
(* The steps that change no file *)

\* Only positions that nobody uses change, and threads that do not run.
LEMMA QuietMap ==
  ASSUME IInv, IInv', MapInv, UNCHANGED <<fileNum, fileList, index, disk, dir, tmp, clashed>>,
         \A n \in Nodes : UNCHANGED <<node[n].inode, node[n].fd, node[n].totalOffset>>,
         \A r \in Rebuilds : Running(r)' <=> Running(r),
         \A r \in Rebuilds : Running(r) => UNCHANGED reb[r],
         UNCHANGED node \/ \A r \in Rebuilds : ~Running(r),
         manifest'.names < fileNum => manifest.names < fileNum,
         \A f \in Listed : (Named(f)' <=> Named(f)) \/ Clean(f) = 0,
         ~Appending, ~Appending'
  PROVE  FileInv' /\ RecordInv' /\ SameMap
<1>1. Listed' = Listed /\ \A f : UNCHANGED FileData(f)
  BY DEF Listed, FileData
<1>2. \A f \in Files : Compacting(f)' <=> Compacting(f)
  BY DEF Compacting
<1>3. \A f : \A n : OwnsNode(f, n)' <=> OwnsNode(f, n)
  BY <1>1 DEF Compacting, OwnsNode
<1>4. \A f : \A i : Owns(f, i)' <=> Owns(f, i)
  BY <1>3 DEF Owns
<1>5. FilesApart'
  BY <1>3, <1>4 DEF MapInv, FileInv, FilesApart
<1>6. FilesStored'
  <2> SUFFICES ASSUME NEW f \in Listed
               PROVE  IF Compacting(f)' THEN Copying(f)' ELSE Opened(f)'
    BY <1>1 DEF FilesStored
  <2>1. f \in Files /\ fileList[f] \in Nodes
    BY FilesTyped DEF FileTypes
  <2>2. CASE Compacting(f)
    <3>1. f \in Rebuilds /\ Running(f) /\ Copying(f) /\ UNCHANGED node /\ UNCHANGED reb[f]
      BY <2>2 DEF MapInv, FileInv, FilesStored, Compacting
    <3>2. Copying(f)'
      BY <1>1, <3>1 DEF Copying, Copied, IsOpen
    <3> QED BY <1>2, <2>1, <2>2, <3>2
  <2>3. CASE ~Compacting(f)
    <3>1. Opened(f)
      BY <2>3 DEF MapInv, FileInv, FilesStored
    <3> QED BY <1>2, <2>1, <2>3, <3>1 DEF Opened, IsOpen
  <2> QED BY <2>2, <2>3
<1>7. \A f \in Listed : /\ UNCHANGED <<Clean(f), Known(f)>>
                        /\ Clean(f) = Len(FileData(f)) /\ Known(f) = Len(FileData(f))
  BY <1>1 DEF Clean, Known, Appending
<1>8. RecordsWhole'
  BY <1>1, <1>7 DEF MapInv, FileInv, RecordsWhole
<1>9. Appends'
  <2>1. fileNum > 0 => Active \in Nodes /\ fileNum \in Listed
    BY ActiveNode, StoreAssumption DEF Listed, IInv, Types, ListTypes
  <2> QED BY <1>7, <2>1 DEF MapInv, FileInv, Appends, Appending, Active, IsOpen
<1>10. \A f \in Listed : \A o : Place(f, o)' = Place(f, o)
  <2> SUFFICES ASSUME NEW f \in Listed, NEW o PROVE Place(f, o)' = Place(f, o)
    OBVIOUS
  <2>1. f \in Files
    BY FilesTyped DEF FileTypes
  <2> QED BY <1>2, <2>1 DEF Place, Compacting
<1>11. KnownFollow /\ CleanFollow
  BY <1>1, <1>7, <1>10 DEF KnownFollow, CleanFollow, Entered
<1>12. FileInv'
  BY <1>5, <1>6, <1>8, <1>9 DEF FileInv
<1> QED BY <1>11, <1>12, FollowStep DEF MapInv

-----------------------------------------------------------------------------
(* What the steps are of the key-value map *)

MapStep == [Map!MapNext]_(Map!mapVars)

LEMMA MapIsSame ==
  ASSUME SameMap
  PROVE  /\ [k \in Keys |-> ValueAt(k)]' = [k \in Keys |-> ValueAt(k)]
         /\ [k \in Keys |-> RecoveredValue(k)]' = [k \in Keys |-> RecoveredValue(k)]
BY DEF SameMap

LEMMA MapStutters ==
  ASSUME SameMap, UNCHANGED <<io.cmd, reply>>
  PROVE  MapStep
BY MapIsSame DEF MapStep, Map!mapVars

LEMMA MapInvoked ==
  ASSUME SameMap, io.cmd = << >>, io'.cmd \in Writes \cup Gets, reply' = << >>
  PROVE  MapStep
<1>1. io'.cmd \in Map!Commands
  BY DEF Writes, Gets, Map!Commands
<1>2. Map!Invoke(io'.cmd)
  BY MapIsSame DEF Map!Invoke
<1> QED BY <1>1, <1>2 DEF MapStep, Map!MapNext

LEMMA MapRefuses ==
  ASSUME SameMap, io.cmd \in Writes, io'.cmd = << >>, reply' = Fail
  PROVE  MapStep
<1>1. io.cmd # << >> /\ io.cmd[1] # "get"
  BY DEF Writes
<1>2. Map!Refuse
  BY <1>1, MapIsSame DEF Map!Refuse
<1> QED BY <1>2 DEF MapStep, Map!MapNext

LEMMA MapAnswersGet ==
  ASSUME SameMap, io.cmd \in Gets, io'.cmd = << >>,
         reply' = IF ValueAt(io.cmd[2]) = Deleted THEN Fail ELSE ValueAt(io.cmd[2])
  PROVE  MapStep
<1>1. io.cmd # << >> /\ io.cmd[1] = "get" /\ io.cmd[2] \in Keys
  BY DEF Gets
<1>2. reply' = Map!Answer(io.cmd)
  BY <1>1 DEF Map!Answer
<1>3. Map!Apply
  BY <1>1, <1>2, MapIsSame DEF Map!Apply, Map!Effect
<1> QED BY <1>3 DEF MapStep, Map!MapNext

-----------------------------------------------------------------------------
(* The commands, gets, and check() without a new file *)

\* A step of diskIO that changes no file: what is left of the invariant.
LEMMA QuietDiskIO ==
  ASSUME IInv, IInv', MapInv, UNCHANGED <<fileNum, fileList, index, disk, dir, tmp, reb, faults, clashed>>,
         \A n \in Nodes : UNCHANGED <<node[n].inode, node[n].fd, node[n].totalOffset>>,
         UNCHANGED node \/ \A r \in Rebuilds : ~Running(r),
         UNCHANGED manifest.names, ~Appending, ~Appending',
         Allowed', GetsAlone', io'.pc = "ready" => io'.cmd = << >>
  PROVE  MapInv' /\ SameMap
<1>1. \A r \in Rebuilds : (Running(r)' <=> Running(r)) /\ UNCHANGED reb[r]
  BY DEF Running
<1>2. FileInv' /\ RecordInv' /\ SameMap
  BY <1>1, QuietMap DEF Named
<1>3. TaskKnown'
  BY DEF MapInv, TaskKnown
<1> QED BY <1>2, <1>3 DEF MapInv

LEMMA CallWriteMap ==
  ASSUME IInv, IInv', MapInv, MapConditions, NEW cmd \in Writes, CallWrite(cmd)
  PROVE  MapInv' /\ MapStep
<1> USE DEF CallWrite
<1>1. /\ io'.pc = "check" /\ io'.cmd = cmd /\ io.pc = "ready" /\ io.cmd = << >>
      /\ UNCHANGED <<fileNum, fileList, index, node, disk, dir, tmp, reb, faults, clashed, manifest>>
  BY DEF IdleIo, mem, MapInv, TaskKnown
<1>2. Allowed'
  <2>1. index[cmd[2]] # None => fileNum = MAXFILE /\ index[cmd[2]][1] = Active
    BY DEF MayOverwrite, MapConditions
  <2> QED BY <1>1, <2>1 DEF Allowed, Active
<1>3. GetsAlone'
  BY <1>1 DEF GetsAlone
<1>4. MapInv' /\ SameMap
  BY <1>1, <1>2, <1>3, QuietDiskIO DEF Appending
<1>5. MapStep
  BY <1>1, <1>4, MapInvoked
<1> QED BY <1>4, <1>5

LEMMA CallGetMap ==
  ASSUME IInv, IInv', MapInv, MapConditions, NEW k \in Keys, CallGet(k)
  PROVE  MapInv' /\ MapStep
<1> USE DEF CallGet
<1>1. /\ io'.pc = "lookup" /\ io'.cmd = <<"get", k, Deleted>> /\ io.pc = "ready" /\ io.cmd = << >>
      /\ UNCHANGED <<fileNum, fileList, index, node, disk, dir, tmp, reb, faults, clashed, manifest>>
  BY DEF IdleIo, mem, MapInv, TaskKnown, counters
<1>2. \A r \in Rebuilds : reb[r].pc \in {"idle", "done"}
  <2>1. Cardinality(RunningRebuilds) = 0
    BY DEF MapConditions, Bound, IInv, Types, ListTypes
  <2>2. IsFiniteSet(RunningRebuilds)
    BY StoreAssumption, CardinalityBound DEF RunningRebuilds, Rebuilds
  <2>3. RunningRebuilds = {}
    BY <2>1, <2>2, FS_EmptySet
  <2> QED BY <2>3 DEF RunningRebuilds
<1>3. Allowed'
  BY <1>1 DEF Allowed, WriteSteps
<1>4. io'.cmd \in Gets
  BY <1>1 DEF Gets
<1>5. GetsAlone'
  BY <1>1, <1>2, <1>4 DEF GetsAlone
<1>6. MapInv' /\ SameMap
  BY <1>1, <1>3, <1>5, QuietDiskIO DEF Appending
<1>7. MapStep
  BY <1>1, <1>4, <1>6, MapInvoked
<1> QED BY <1>6, <1>7

\* What a get finds when no file is compacted.
LEMMA GetsFind ==
  ASSUME IInv, MapInv, io.pc \in {"lookup", "seek", "read"}, index[io.cmd[2]] # None
  PROVE  LET n == index[io.cmd[2]][1]
             o == index[io.cmd[2]][2]
         IN  /\ index[io.cmd[2]] = <<n, o>> /\ n \in Nodes /\ o \in Nat
             /\ IsOpen(n) /\ o < ScanLength(Data(n)) /\ o < Len(Data(n))
             /\ Data(n)[o + 1].val = ValueAt(io.cmd[2])
             /\ ValueAt(io.cmd[2]) # Deleted
<1> DEFINE k == io.cmd[2]
<1>1. k \in Keys /\ \A r \in Rebuilds : ~Running(r)
  BY DEF MapInv, GetsAlone, Gets, Running
<1>2. PICK f \in Listed : \E o \in 1 .. Known(f) : Entered(k, f, o)
  BY <1>1 DEF MapInv, RecordInv, EntriesLead, Entered
<1>3. PICK o \in 1 .. Known(f) : Entered(k, f, o)
  BY <1>2
<1>4. FileInv /\ f \in Files /\ Known(f) = Clean(f) /\ o \in Nat /\ o > 0 /\ o <= Clean(f)
      /\ Clean(f) \in Nat /\ Len(FileData(f)) \in Nat /\ Clean(f) <= Len(FileData(f))
  BY <1>3, CleanFacts DEF MapInv, FileInv
<1>5. ~Compacting(f)
  BY <1>1 DEF Compacting
<1>6. index[k] = <<fileList[f], o - 1>>
  BY <1>3, <1>5 DEF Entered, Place
<1>7. /\ IsOpen(fileList[f]) /\ fileList[f] \in Nodes
  <2>1. Place(f, o)[1] = fileList[f]
    BY <1>5 DEF Place
  <2>2. FilesStored /\ RecordsWhole /\ Appends
    BY <1>4 DEF FileInv
  <2>3. IsOpen(Place(f, o)[1]) /\ Place(f, o)[1] \in Nodes
    BY <1>5, <2>2, PlaceHolds
  <2> QED BY <2>1, <2>3
<1>8. Data(fileList[f]) = FileData(f)
  BY <1>4, <1>5, <1>7 DEF FileInv, FilesStored, Opened, Data, FileData
<1>9. ScanLength(FileData(f)) = Clean(f)
  BY <1>4, ScanIsClean DEF FileInv
<1>10. ValueAt(k) = FileData(f)[o].val /\ ValueAt(k) # Deleted
  <2>1. EntryValues
    BY <1>4, EntryValue
  <2> QED BY <1>1, <1>3, <2>1 DEF EntryValues, Entered, SetsKey
<1>11. o - 1 \in Nat /\ o - 1 < Clean(f) /\ o - 1 + 1 = o /\ o - 1 < Len(FileData(f))
  BY <1>4
<1> HIDE DEF k
<1>12. index[k][1] = fileList[f] /\ index[k][2] = o - 1
  BY <1>6
<1> QED BY <1>6, <1>7, <1>8, <1>9, <1>10, <1>11, <1>12 DEF k

LEMMA GetLookupMap ==
  ASSUME IInv, IInv', MapInv, GetLookup
  PROVE  MapInv' /\ MapStep
<1> DEFINE k == io.cmd[2]
<1> USE DEF GetLookup
<1>1. /\ io.pc = "lookup" /\ k \in Keys /\ io.cmd \in Gets
      /\ UNCHANGED <<fileNum, fileList, index, node, disk, dir, tmp, reb, faults, clashed, manifest>>
  BY DEF mem, counters, MapInv, GetsAlone, Gets
<1>2. CASE index[k] = None
  <2>1. io'.pc = "ready" /\ io'.cmd = << >> /\ reply' = Fail
    BY <1>2 DEF Finish, IdleIo
  <2>2. MapInv' /\ SameMap
    BY <1>1, <2>1, QuietDiskIO DEF Appending, Allowed, GetsAlone, WriteSteps
  <2>3. ValueAt(k) = Deleted
    BY <1>2 DEF ValueAt
  <2> QED BY <1>1, <2>1, <2>2, <2>3, MapAnswersGet
<1>3. CASE index[k] # None
  <2>1. index[k] = <<index[k][1], index[k][2]>>
    BY <1>1, <1>3, GetsFind
  <2>2. /\ io'.pc = "seek" /\ io'.cmd = io.cmd /\ index[k] = <<io'.node, io'.offset>>
        /\ reply' = reply
    BY <1>3, <2>1 DEF IInv, Types, IoTypes, IoState
  <2>3. GetsAlone'
    BY <1>1, <2>2 DEF MapInv, GetsAlone
  <2>4. MapInv' /\ SameMap
    BY <1>1, <2>2, <2>3, QuietDiskIO DEF Appending, Allowed, WriteSteps
  <2> QED BY <2>2, <2>4, MapStutters
<1> QED BY <1>2, <1>3

\* A DataNode that was not deleted is used as itself.
LEMMA OpenStandsAlone == ASSUME NEW n, IsOpen(n) PROVE StandsFor(n) = {n}
BY DEF StandsFor, IsOpen

\* While no file is compacted a get has its descriptor to itself.
LEMMA GetSeekMap ==
  ASSUME IInv, IInv', MapInv, GetSeek
  PROVE  MapInv' /\ MapStep
<1> DEFINE k == io.cmd[2]
<1> USE DEF GetSeek
<1>1. /\ io.pc = "seek" /\ io.cmd \in Gets /\ index[k] = <<io.node, io.offset>> /\ index[k] # None
      /\ \A r \in Rebuilds : reb[r].pc \in {"idle", "done"}
      /\ UNCHANGED <<fileNum, fileList, index, disk, dir, tmp, reb, faults, clashed, manifest>>
  <2>1. io.pc = "seek" /\ index[k] = <<io.node, io.offset>> /\ io.cmd \in Gets
        /\ \A r \in Rebuilds : reb[r].pc \in {"idle", "done"}
    BY DEF MapInv, GetsAlone
  <2>2. io.node \in Nat /\ io.offset \in Nat
    BY StoreAssumption DEF IInv, Types, IoTypes, IoState
  <2> QED BY <2>1, <2>2, StoreAssumption DEF mem, counters
<1>2. IsOpen(io.node) /\ io.node \in Nodes /\ StandsFor(io.node) = {io.node}
  <2>1. IsOpen(io.node) /\ io.node \in Nodes
    BY <1>1, GetsFind
  <2> QED BY <2>1, OpenStandsAlone
<1>3. /\ node' = [node EXCEPT ![io.node].pos = io.offset]
      /\ io' = [io EXCEPT !.pc = "read", !.node = io.node]
      /\ reply' = reply
  BY <1>2
<1>4. /\ io'.pc = "read" /\ UNCHANGED <<io.cmd, io.node, io.offset>>
      /\ node'[io.node].pos = io.offset
  BY <1>2, <1>3 DEF IInv, Types, IoTypes, IoState, NodeTypes, DataNode
<1>5. \A n \in Nodes : UNCHANGED <<node[n].inode, node[n].fd, node[n].totalOffset>>
  BY <1>2, <1>3 DEF IInv, Types, NodeTypes, DataNode
<1>6. GetsAlone' /\ Allowed'
  BY <1>1, <1>4 DEF GetsAlone, Allowed, WriteSteps
<1>7. MapInv' /\ SameMap
  BY <1>1, <1>4, <1>5, <1>6, QuietDiskIO DEF Appending, Running
<1> QED BY <1>3, <1>4, <1>7, MapStutters

LEMMA GetReadMap ==
  ASSUME IInv, IInv', MapInv, GetRead
  PROVE  MapInv' /\ MapStep
<1> DEFINE k == io.cmd[2]
           n == io.node
<1> USE DEF GetRead
<1>1. /\ io.pc = "read" /\ io.cmd \in Gets /\ index[k] = <<io.node, io.offset>> /\ index[k] # None
      /\ \A r \in Rebuilds : reb[r].pc \in {"idle", "done"}
      /\ node[n].pos = io.offset /\ io.offset \in Nat
      /\ UNCHANGED <<fileNum, fileList, index, disk, dir, tmp, reb, faults, clashed, manifest>>
  <2>1. /\ io.pc = "read" /\ index[k] = <<io.node, io.offset>> /\ io.cmd \in Gets
        /\ \A r \in Rebuilds : reb[r].pc \in {"idle", "done"}
        /\ node[n].pos = io.offset
    BY DEF MapInv, GetsAlone
  <2>2. io.node \in Nat /\ io.offset \in Nat
    BY StoreAssumption DEF IInv, Types, IoTypes, IoState
  <2> QED BY <2>1, <2>2, StoreAssumption DEF mem, counters
<1>2. /\ n \in Nodes /\ IsOpen(n) /\ io.offset < ScanLength(Data(n)) /\ io.offset < Len(Data(n))
      /\ Data(n)[io.offset + 1].val = ValueAt(k) /\ ValueAt(k) # Deleted
  BY <1>1, GetsFind
<1>3. ReadResults(n) = {ValueAt(k)}
  <2>1. ScanLength(Data(n)) \in Nat /\ Len(Data(n)) \in Nat
    <3>1. Data(n) \in Seq(Records)
      BY <1>2 DEF Data, IsOpen, IInv, Types, NodeTypes, DiskTypes
    <3> QED BY <3>1, ScanLengthBound, LenProperties
  <2>2. node[n].fd = "open"
    BY <1>2 DEF IsOpen
  <2> QED BY <1>1, <1>2, <2>1, <2>2 DEF ReadResults
<1>4. StandsFor(n) = {n}
  BY <1>2, OpenStandsAlone
<1>7. io'.pc = "ready" /\ io'.cmd = << >> /\ reply' = ValueAt(k)
  BY <1>3, <1>4 DEF Finish, IdleIo
<1>5. \A m \in Nodes : UNCHANGED <<node[m].inode, node[m].fd, node[m].totalOffset>>
  BY <1>2, <1>4 DEF IInv, Types, NodeTypes, DataNode
<1>6. MapInv' /\ SameMap
  BY <1>1, <1>5, <1>7, QuietDiskIO DEF Appending, Running, GetsAlone, Allowed, WriteSteps
<1> QED BY <1>1, <1>2, <1>6, <1>7, MapAnswersGet

LEMMA CheckSkipMap ==
  ASSUME IInv, IInv', MapInv, CheckSkip
  PROVE  MapInv' /\ MapStep
<1>1. /\ io.pc = "check" /\ io'.pc = "append" /\ io'.cmd = io.cmd /\ reply' = reply
      /\ UNCHANGED <<fileNum, fileList, index, node, disk, dir, tmp, reb, faults, clashed, manifest>>
  BY DEF CheckSkip, IInv, Types, IoTypes, IoState, mem, counters
<1>2. Allowed' /\ GetsAlone'
  BY <1>1 DEF MapInv, Allowed, GetsAlone, WriteSteps, Active
<1>3. MapInv' /\ SameMap
  BY <1>1, <1>2, QuietDiskIO DEF Appending
<1> QED BY <1>1, <1>3, MapStutters

LEMMA CheckManifestNumMap ==
  ASSUME IInv, IInv', MapInv, CheckManifestNum
  PROVE  MapInv' /\ MapStep
<1>1. /\ io.pc = "manNum" /\ io'.pc = "manName" /\ io'.cmd = io.cmd /\ reply' = reply
      /\ UNCHANGED <<fileNum, fileList, index, node, disk, dir, tmp, reb, faults, clashed, manifest.names>>
  BY DEF CheckManifestNum, IInv, Types, ListTypes, IoTypes, IoState, mem, counters
<1>2. Allowed' /\ GetsAlone'
  BY <1>1 DEF MapInv, Allowed, GetsAlone, WriteSteps, Active
<1>3. MapInv' /\ SameMap
  BY <1>1, <1>2, QuietDiskIO DEF Appending
<1> QED BY <1>1, <1>3, MapStutters

\* The name of a new file is written while there is nothing in it, and the
\* thread started does not run yet.
LEMMA CheckManifestNameMap ==
  ASSUME IInv, IInv', MapInv, CheckManifestName
  PROVE  MapInv' /\ MapStep
<1>1. /\ io.pc = "manName" /\ io'.pc = "append" /\ io'.cmd = io.cmd /\ reply' = reply
      /\ UNCHANGED <<fileNum, fileList, index, node, disk, dir, tmp, faults, clashed>>
      /\ manifest'.names = manifest.names + 1
  BY DEF CheckManifestName, IInv, Types, ListTypes, IoTypes, IoState, mem, counters
<1>2. manifest.names = fileNum - 1 /\ fileNum > 0 /\ fileNum \in 0 .. MAXFILE
  BY <1>1, StoreAssumption DEF IInv, Types, ListTypes, FilesInOrder, HalfManifest
<1>3. \A r \in Rebuilds : reb'[r] = reb[r] \/ (reb[r].pc = "idle" /\ reb'[r].pc = "start")
  <2>1. \A r \in Rebuilds : reb[r].pc # "idle" => r < fileNum - 1
    BY <1>1 DEF IInv, RebuildsBehind
  <2>2. CASE fileNum > 1
    <3> DEFINE q == fileNum - 1
    <3>1. q \in Rebuilds
      BY <1>2, <2>2, StoreAssumption DEF Rebuilds
    <3>2. reb[q].pc = "idle"
      BY <2>1, <3>1 DEF Rebuilds
    <3>3. reb' = [reb EXCEPT ![q].pc = "start"]
      BY <2>2 DEF CheckManifestName
    <3> HIDE DEF q
    <3> QED BY <3>1, <3>2, <3>3 DEF IInv, Types, ListTypes, RebuildState
  <2>3. CASE ~(fileNum > 1)
    BY <2>3 DEF CheckManifestName
  <2> QED BY <2>2, <2>3
<1>4. \A r \in Rebuilds : /\ Running(r)' <=> Running(r)
                          /\ Running(r) => UNCHANGED reb[r]
  BY <1>3 DEF Running
<1>5. \A f \in Listed : (Named(f)' <=> Named(f)) \/ Clean(f) = 0
  <2>1. FileData(fileNum) = << >>
    BY <1>2, StoreAssumption DEF MapInv, FileInv, RecordsWhole
  <2>2. Clean(fileNum) = 0
    BY <1>1, <2>1 DEF Clean
  <2>3. \A f \in Listed : f # fileNum => f <= fileNum - 1 /\ f <= fileNum
    BY <1>2, StoreAssumption DEF Listed
  <2> QED BY <1>1, <1>2, <2>2, <2>3, StoreAssumption DEF Named
<1>6. Allowed' /\ GetsAlone' /\ TaskKnown'
  BY <1>1 DEF MapInv, Allowed, GetsAlone, WriteSteps, Active, TaskKnown
<1>7. FileInv' /\ RecordInv' /\ SameMap
  <2>1. manifest'.names < fileNum => manifest.names < fileNum
    BY <1>1, <1>2, StoreAssumption
  <2>2. \A n \in Nodes : UNCHANGED <<node[n].inode, node[n].fd, node[n].totalOffset>>
    BY <1>1
  <2> QED BY <1>1, <1>4, <1>5, <2>1, <2>2, QuietMap DEF Appending
<1>8. MapInv'
  BY <1>6, <1>7 DEF MapInv
<1> QED BY <1>1, <1>7, <1>8, MapStutters

-----------------------------------------------------------------------------
(* check() with a new file *)

LEMMA CheckCreateMap ==
  ASSUME IInv, IInv', MapInv, CheckCreate
  PROVE  MapInv' /\ MapStep
<1>0. fileNum < MAXFILE /\ fileNum \in 0 .. MAXFILE /\ NeedsFile
  BY DEF CheckCreate, IInv, Types, ListTypes, AppendsToActive
<1>00. PICK f \in Files : f = fileNum + 1
  BY <1>0, StoreAssumption DEF Files
<1> DEFINE i == IF dir[f] = None THEN NewInode ELSE dir[f]
           n == NewNode
           d == [NoNode EXCEPT !.inode = i, !.fd = "open"]
<1>1. /\ io.pc = "check" /\ io'.pc = "manNum" /\ io'.cmd = io.cmd /\ reply' = reply
      /\ UNCHANGED <<tmp, manifest, index, reb, faults, clashed>>
      /\ fileNum < MAXFILE /\ f \in Files /\ fileNum \in Nat /\ fileNum' = f /\ NeedsFile
      /\ f = fileNum + 1 /\ f \in Nat
      /\ fileNum \in 0 .. MAXFILE
  BY <1>0, <1>00, StoreAssumption DEF CheckCreate, IInv, Types, IoTypes, IoState, counters, Files
<1>2. i \in Inodes /\ FileInv /\ RecordInv
  BY <1>1, FreeInode DEF IInv, Types, DiskTypes, MapInv
<1>3. n \in Nodes /\ node[n] = NoNode
  <2>1. Cardinality(Allocated) \in Nat /\ Cardinality(Allocated) < 2 * MAXFILE
    BY <1>1, AllocatedFinite, StartedFinite, StoreAssumption DEF IInv, NodesCounted
  <2> QED BY <2>1, FreeNode
<1>4. /\ node'[n].inode = i /\ node'[n].fd = "open" /\ node'[n].totalOffset = 0
      /\ \A m \in Nodes : m # n => node'[m] = node[m]
  BY <1>00, <1>3 DEF CheckCreate, NoNode, IInv, Types, NodeTypes
<1>5. /\ fileList'[f] = n /\ \A g \in Files : g # f => fileList'[g] = fileList[g]
      /\ dir'[f] = i /\ \A g \in Files : g # f => dir'[g] = dir[g]
      /\ disk'[i] = << >> /\ \A j \in Inodes : j # i => disk'[j] = disk[j]
  BY <1>00, <1>1, <1>2, <1>3 DEF CheckCreate, IInv, Types, ListTypes, DiskTypes
<1>7. \A g \in Files : ~OwnsNode(g, n)
  <2> SUFFICES ASSUME NEW g \in Files, OwnsNode(g, n) PROVE FALSE
    OBVIOUS
  <2>1. node[n].fd = "none"
    BY <1>3 DEF NoNode
  <2>2. \A h \in Listed : fileList[h] # n
    BY <2>1 DEF IInv, ActiveApart, Listed
  <2>3. \A r \in Rebuilds : Running(r) => reb[r].old # n /\ reb[r].new # n
    BY <2>1, RunningTypes
  <2> QED BY <2>2, <2>3 DEF OwnsNode, Compacting
<1>8. \A g \in Files : g # f => ~Owns(g, i)
  <2>1. CASE dir[f] = None
    <3>1. i = NewInode
      BY <2>1
    <3> QED BY <3>1, FreeInode DEF Owns
  <2>2. CASE dir[f] # None
    <3>1. i = dir[f] /\ Owns(f, i)
      BY <2>2 DEF Owns
    <3> QED BY <1>1, <1>2, <3>1 DEF FileInv, FilesApart
  <2> QED BY <2>1, <2>2
<1>9. ~Compacting(f) /\ ~Compacting(f)'
  BY <1>1, StoreAssumption DEF Compacting, Running, IInv, RebuildsBehind, Rebuilds
<1>10. \A g \in Files : g # f => Untouched(g)
  <2> SUFFICES ASSUME NEW g \in Files, g # f PROVE Untouched(g)
    OBVIOUS
  <2>1. g \in Listed' <=> g \in Listed
    BY <1>1 DEF Listed, Files
  <2>2. \A m \in Nodes : OwnsNode(g, m) => node'[m] = node[m]
    BY <1>4, <1>7
  <2>3. \A j \in Inodes : Owns(g, j) => disk'[j] = disk[j]
    BY <1>5, <1>8
  <2> QED BY <1>1, <1>5, <2>1, <2>2, <2>3 DEF Untouched, Running
<1>11. FilesApart' /\ FilesStored'
  <2>1. \A g \in Files : g # f /\ g < fileNum' /\ ~(g < fileNum) => IsOpen(fileList[g])
    <3>1. fileNum > 0 => IsOpen(Active)
      BY <1>1, StoreAssumption
         DEF IInv, FilesInOrder, HalfManifest, NeedsFile, Types, ListTypes, MapInv, FileInv, Appends
    <3>2. \A g \in Files : g # f /\ g < fileNum' /\ ~(g < fileNum) => g = fileNum /\ fileNum > 0
      BY <1>1 DEF Files
    <3> QED BY <3>1, <3>2 DEF Active
  <2>2. \A m \in Nodes : OwnsNode(f, m)' => m = n
    BY <1>5, <1>9 DEF OwnsNode
  <2>3. \A j \in Inodes : Owns(f, j)' => Owns(f, j) \/ \A g \in Files : ~Owns(g, j)
    <3> SUFFICES ASSUME NEW j \in Inodes, Owns(f, j)'
                 PROVE  Owns(f, j) \/ \A g \in Files : ~Owns(g, j)
      OBVIOUS
    <3>1. j = i \/ j = tmp[f]
      BY <1>1, <1>4, <1>5, <2>2 DEF Owns
    <3>2. CASE j = tmp[f]
      BY <3>2 DEF Owns
    <3>3. CASE j = i
      BY <1>8, <3>3
    <3> QED BY <3>1, <3>2, <3>3
  <2>4. dir'[f] # None => dir'[f] # tmp'[f]
    BY <1>1, <1>2, <1>5, FreeInode DEF FileInv, FilesApart
  <2>5. Opened(f)'
    BY <1>1, <1>4, <1>5 DEF Opened
  <2>6. \A m \in Nodes : OwnsNode(f, m)' => OwnsNode(f, m) \/ \A g \in Files : ~OwnsNode(g, m)
    BY <1>7, <2>2
  <2> QED BY <1>1, <1>2, <1>9, <1>10, <2>1, <2>3, <2>4, <2>5, <2>6, StepOnFile DEF FileInv
<1>12. /\ FileData(f)' = << >> /\ f \notin Listed
       /\ \A g \in Listed : g \in Files /\ g # f /\ UNCHANGED FileData(g)
       /\ \A g \in Listed' : g \in Listed \/ g = f
       /\ \A g \in Listed : g \in Listed'
  <2>1. FileData(f)' = << >> /\ f \notin Listed
    BY <1>1, <1>5 DEF FileData, Listed
  <2>2. \A g \in Listed : g \in Files /\ g # f
    BY <2>1, FilesTyped DEF FileTypes
  <2>3. \A g \in Listed : UNCHANGED FileData(g)
    BY <1>10, <2>2, UntouchedFacts
  <2> QED BY <1>1, <2>1, <2>2, <2>3 DEF Listed
<1>13. /\ \A g \in Listed : UNCHANGED <<Clean(g), Known(g)>>
       /\ \A g \in Listed' : Clean(g)' = Len(FileData(g)') /\ Known(g)' = Len(FileData(g)')
       /\ \A g \in Listed : Clean(g) = Len(FileData(g))
  BY <1>1, <1>12 DEF Clean, Known, Appending
<1>14. RecordsWhole'
  <2>1. \A g \in Listed' : \A o \in 1 .. Clean(g)' : FileData(g)'[o].val # Torn
    <3> SUFFICES ASSUME NEW g \in Listed', NEW o \in 1 .. Clean(g)'
                 PROVE  FileData(g)'[o].val # Torn
      OBVIOUS
    <3>1. g \in Listed
      BY <1>12, <1>13
    <3> QED BY <1>2, <1>12, <1>13, <3>1 DEF FileInv, RecordsWhole
  <2>2. FileData(fileNum)' = << >>
    BY <1>1, <1>12 DEF FileData
  <2> QED BY <2>1, <2>2 DEF RecordsWhole
<1>15. Appends'
  <2>1. Active' = n /\ Clean(fileNum)' = 0
    BY <1>1, <1>5, <1>12 DEF Active, Clean, FileData
  <2> QED BY <1>1, <1>4, <2>1 DEF Appends, Appending, MapInv, FileInv
<1>16. \A g \in Listed : \A o : Place(g, o)' = Place(g, o)
  <2> SUFFICES ASSUME NEW g \in Listed, NEW o PROVE Place(g, o)' = Place(g, o)
    OBVIOUS
  <2>1. g \in Files /\ g # f
    BY <1>12
  <2> QED BY <1>1, <1>5, <2>1 DEF Place, Compacting, Running
<1>17. KnownFollow /\ CleanFollow
  <2>1. \A g \in Listed' : g \notin Listed => Clean(g)' = 0 /\ Known(g)' = 0
    BY <1>12, <1>13
  <2> QED BY <1>1, <1>12, <1>13, <1>16, <2>1 DEF KnownFollow, CleanFollow, Entered
<1>18. FileInv'
  BY <1>11, <1>14, <1>15 DEF FileInv
<1>19. RecordInv' /\ SameMap
  <2>1. \A g \in Listed : Named(g)' <=> Named(g)
    BY <1>1 DEF Named
  <2> QED BY <1>2, <1>17, <1>18, <2>1, FollowStep
<1>20. Allowed' /\ GetsAlone' /\ TaskKnown'
  <2>1. index[io.cmd[2]] = None
    BY <1>1 DEF MapInv, Allowed, WriteSteps
  <2> QED BY <1>1, <2>1 DEF MapInv, Allowed, GetsAlone, WriteSteps, TaskKnown
<1> QED BY <1>1, <1>18, <1>19, <1>20, MapStutters DEF MapInv

-----------------------------------------------------------------------------
(* appendRecord and saveVal, delKey *)

\* The file that diskIO writes to.
ActiveFile ==
  /\ fileNum \in Files /\ fileNum \in Listed /\ Active \in Nodes /\ ~Compacting(fileNum)
  /\ OwnsNode(fileNum, Active) /\ node[Active].inode = dir[fileNum]
  /\ dir[fileNum] \in Inodes /\ Owns(fileNum, dir[fileNum])
  /\ Data(Active) = FileData(fileNum) /\ Named(fileNum)

LEMMA ActiveIsFile ==
  IInv /\ FileInv /\ io.pc \in {"append", "finish", "index"} /\ fileNum > 0 /\ IsOpen(Active)
    => ActiveFile
<1> SUFFICES ASSUME IInv, FileInv, io.pc \in {"append", "finish", "index"}, fileNum > 0,
                    IsOpen(Active)
             PROVE  ActiveFile
  OBVIOUS
<1>1. fileNum \in Nat /\ fileNum <= MAXFILE
  BY StoreAssumption DEF IInv, Types, ListTypes
<1>2. fileNum \in Listed
  BY <1>1 DEF Listed
<1>3. fileNum \in Files /\ Active \in Nodes /\ dir[fileNum] \in Inodes
  BY <1>2, FilesTyped DEF FileTypes, Active
<1>4. ~Compacting(fileNum)
  BY <1>1 DEF Compacting, Running, IInv, RebuildsBehind
<1>5. node[Active].inode = dir[fileNum]
  BY <1>2, <1>4 DEF FileInv, FilesStored, Opened, Active
<1>6. ~HalfManifest
  BY DEF HalfManifest, IsOpen
<1>7. Named(fileNum)
  BY <1>1, <1>6, StoreAssumption DEF IInv, FilesInOrder, Named
<1> QED BY <1>2, <1>3, <1>4, <1>5, <1>7 DEF ActiveFile, OwnsNode, Owns, Active, Data, FileData

\* A write to that file.
LEMMA ActiveWritten ==
  ASSUME IInv, IInv', MapInv, ActiveFile, UNCHANGED <<fileNum, fileList, dir, tmp, reb>>,
         \A i \in Inodes : i # dir[fileNum] => UNCHANGED disk[i],
         \A n \in Nodes : n # Active => UNCHANGED node[n],
         node'[Active].inode = node[Active].inode, node'[Active].fd = node[Active].fd
  PROVE  /\ FilesApart' /\ FilesStored'
         /\ Listed' = Listed
         /\ \A g \in Listed : g # fileNum => UNCHANGED FileData(g)
         /\ \A g \in Listed : \A o : Place(g, o)' = Place(g, o)
<1>1. PICK f \in Files : f = fileNum
  BY DEF ActiveFile
<1>2. Listed' = Listed /\ f \in Listed
  BY <1>1 DEF Listed, ActiveFile
<1>3. \A g \in Files : (Compacting(g)' <=> Compacting(g)) /\ (Running(g)' <=> Running(g))
  BY DEF Compacting, Running
<1>4. \A g \in Files : g # f => Untouched(g)
  <2> SUFFICES ASSUME NEW g \in Files, g # f PROVE Untouched(g)
    OBVIOUS
  <2>1. \A n \in Nodes : OwnsNode(g, n) => n # Active
    BY <1>1 DEF ActiveFile, MapInv, FileInv, FilesApart
  <2>2. \A i \in Inodes : Owns(g, i) => i # dir[fileNum]
    BY <1>1 DEF ActiveFile, MapInv, FileInv, FilesApart
  <2> QED BY <1>2, <2>1, <2>2 DEF Untouched, Running
<1>5. \A n : OwnsNode(f, n)' <=> OwnsNode(f, n)
  BY <1>2, <1>3 DEF OwnsNode, Compacting
<1>6. \A i : Owns(f, i)' <=> Owns(f, i)
  <2>1. \A n \in Nodes : node'[n].inode = node[n].inode
    OBVIOUS
  <2> QED BY <1>5, <2>1 DEF Owns
<1>7. ~Compacting(f)' /\ Opened(f)'
  <2>1. ~Compacting(f) /\ node[Active].inode = dir[f] /\ ~(f < fileNum)
    BY <1>1 DEF ActiveFile, Listed
  <2>2. fileList[f] = Active
    BY <1>1 DEF Active
  <2> QED BY <1>3, <2>1, <2>2 DEF Opened
<1>8. FilesApart' /\ FilesStored'
  <2>1. dir'[f] # None => dir'[f] # tmp'[f]
    BY DEF MapInv, FileInv, FilesApart
  <2>2. \A g \in Files : g # f /\ g < fileNum' /\ ~(g < fileNum) => IsOpen(fileList[g])
    OBVIOUS
  <2> QED BY <1>4, <1>5, <1>6, <1>7, <2>1, <2>2, StepOnFile DEF MapInv, FileInv
<1>9. \A g \in Listed : g # fileNum => UNCHANGED FileData(g)
  <2>1. \A g \in Listed : g \in Files
    BY FilesTyped DEF FileTypes
  <2> QED BY <1>1, <1>4, <2>1, UntouchedFacts
<1>10. \A g \in Listed : \A o : Place(g, o)' = Place(g, o)
  <2> SUFFICES ASSUME NEW g \in Listed, NEW o PROVE Place(g, o)' = Place(g, o)
    OBVIOUS
  <2>1. g \in Files
    BY FilesTyped DEF FileTypes
  <2> QED BY <1>3, <2>1 DEF Place, Compacting
<1> QED BY <1>2, <1>8, <1>9, <1>10

LEMMA AppendStartMap ==
  ASSUME IInv, IInv', MapInv, AppendStart
  PROVE  MapInv' /\ MapStep
<1>1. /\ io.pc = "append" /\ io.cmd \in Writes /\ fileNum > 0
      /\ UNCHANGED <<fileNum, fileList, index, node, dir, tmp, reb, faults, clashed, manifest>>
  BY DEF AppendStart, IInv, Types, IoTypes, WriteSteps, AppendsToActive, mem, counters
<1>2. CASE ~IsOpen(Active)
  <2>1. io'.pc = "ready" /\ io'.cmd = << >> /\ reply' = Fail /\ disk' = disk
    BY <1>2 DEF AppendStart, Finish, IdleIo
  <2>2. MapInv' /\ SameMap
    BY <1>1, <2>1, QuietDiskIO DEF Appending, Allowed, GetsAlone, WriteSteps
  <2> QED BY <1>1, <2>1, <2>2, MapRefuses
<1>3. CASE IsOpen(Active)
  <2>1. ActiveFile
    BY <1>1, <1>3, ActiveIsFile DEF MapInv
  <2>2. PICK f \in Files : f = fileNum
    BY <2>1 DEF ActiveFile
  <2> DEFINE d == FileData(f)
  <2>3. /\ disk' = [disk EXCEPT ![dir[f]] = Append(d, TornRecord)] /\ reply' = reply
        /\ io'.pc = "finish" /\ io'.cmd = io.cmd /\ io'.node = Active
        /\ io'.offset = node[Active].totalOffset
    <3>1. node[Active].inode = dir[f]
      BY <2>1, <2>2 DEF ActiveFile
    <3> QED BY <1>3, <3>1 DEF AppendStart, FileData, IInv, Types, IoTypes, IoState
  <2>4. dir[f] \in Inodes /\ f \in Listed /\ d \in Seq(Records) /\ Len(d) \in Nat /\ Active \in Nodes
    BY <2>1, <2>2, FilesTyped DEF ActiveFile, FileTypes
  <2>5. /\ FilesApart' /\ FilesStored' /\ Listed' = Listed
        /\ \A g \in Listed : g # f => UNCHANGED FileData(g)
        /\ \A g \in Listed : \A o : Place(g, o)' = Place(g, o)
    <3>1. \A i \in Inodes : i # dir[fileNum] => disk'[i] = disk[i]
      BY <2>2, <2>3 DEF IInv, Types, DiskTypes
    <3> QED BY <1>1, <2>1, <2>2, <3>1, ActiveWritten
  <2>6. /\ FileData(f)' = Append(d, TornRecord) /\ Len(FileData(f)') = Len(d) + 1
        /\ \A o \in 1 .. Len(d) : FileData(f)'[o] = d[o]
        /\ FileData(f)'[Len(d) + 1] = TornRecord
    <3>1. FileData(f)' = Append(d, TornRecord)
      BY <1>1, <2>3, <2>4 DEF FileData, IInv, Types, DiskTypes
    <3>2. TornRecord \in Records
      BY DEF Records
    <3> HIDE DEF d
    <3> QED BY <2>4, <3>1, <3>2, AppendProperties
  <2>7. /\ Clean(f) = Len(d) /\ Known(f) = Len(d) /\ Clean(f)' = Len(d) /\ Known(f)' = Len(d)
    BY <1>1, <2>2, <2>3, <2>4, <2>6 DEF Clean, Known, Appending
  <2>8. \A g \in Listed : g # f => UNCHANGED <<Clean(g), Known(g)>>
    BY <1>1, <2>2, <2>5 DEF Clean, Known
  <2>9. RecordsWhole'
    <3>1. \A g \in Listed : \A o \in 1 .. Clean(g)' : FileData(g)'[o].val # Torn
      <4> SUFFICES ASSUME NEW g \in Listed, NEW o \in 1 .. Clean(g)' PROVE FileData(g)'[o].val # Torn
        OBVIOUS
      <4>1. Clean(g)' = Clean(g) /\ FileData(g)'[o] = FileData(g)[o]
        BY <2>5, <2>6, <2>7, <2>8
      <4> QED BY <4>1 DEF MapInv, FileInv, RecordsWhole
    <3>2. ~(manifest'.names < fileNum')
      BY <1>1, <2>1, StoreAssumption DEF ActiveFile, Named, IInv, Types, ListTypes
    <3> QED BY <2>5, <3>1, <3>2 DEF RecordsWhole
  <2>10. Appends'
    <3>1. node[Active].totalOffset = Len(d)
      BY <1>1, <1>3, <2>2, <2>7 DEF MapInv, FileInv, Appends
    <3>2. FileData(fileNum)' = FileData(f)' /\ Clean(fileNum)' = Clean(f)' /\ Active' = Active
      BY <1>1, <2>2 DEF FileData, Clean, Active
    <3>3. IsOpen(Active)'
      BY <1>1, <1>3 DEF IsOpen, Active
    <3> HIDE DEF d
    <3>4. ~clashed'
      BY <1>1 DEF MapInv, FileInv, Appends
    <3> QED BY <1>1, <2>3, <2>4, <2>6, <2>7, <3>1, <3>2, <3>3, <3>4 DEF Appends, Appending
  <2>11. KnownFollow /\ CleanFollow
    <3>1. \A g \in Listed : \A o \in 1 .. Clean(g) : FileData(g)'[o] = FileData(g)[o]
      BY <2>5, <2>6, <2>7
    <3>2. \A g \in Listed : Known(g) <= Clean(g) /\ Known(g) \in Nat /\ Clean(g) \in Nat
      BY CleanFacts DEF MapInv, FileInv
    <3>3. \A g \in Listed : UNCHANGED <<Clean(g), Known(g)>>
      BY <2>7, <2>8
    <3> QED BY <1>1, <2>5, <3>1, <3>2, <3>3 DEF KnownFollow, CleanFollow, Entered
  <2>12. FileInv'
    BY <2>5, <2>9, <2>10 DEF FileInv
  <2>13. RecordInv' /\ SameMap
    <3>1. \A g \in Listed : Named(g)' <=> Named(g)
      BY <1>1 DEF Named
    <3> QED BY <2>11, <2>12, <3>1, FollowStep DEF MapInv
  <2>14. Allowed' /\ GetsAlone' /\ TaskKnown'
    BY <1>1, <2>3 DEF MapInv, Allowed, GetsAlone, WriteSteps, TaskKnown, Active
  <2> QED BY <2>3, <2>12, <2>13, <2>14, MapStutters DEF MapInv
<1> QED BY <1>2, <1>3

\* The record is complete: a set is in the files, and not yet in the index.
AppendFinishFacts(f, d) ==
  /\ f \in Files /\ f = fileNum /\ f \in Listed /\ d = FileData(f) /\ d \in Seq(Records)
  /\ Len(d) \in Nat /\ Len(d) > 0
  /\ io.pc = "finish" /\ io'.pc = "index" /\ io'.cmd = io.cmd /\ io.cmd \in Writes
  /\ io'.node = io.node /\ io'.offset = io.offset /\ reply' = reply
  /\ ActiveFile /\ IsOpen(Active)
  /\ UNCHANGED <<fileNum, fileList, index, dir, tmp, reb, faults, clashed, manifest>>
  /\ Listed' = Listed
  /\ \A g \in Listed : g # f => UNCHANGED FileData(g)
  /\ \A g \in Listed : \A o : Place(g, o)' = Place(g, o)
  /\ Len(FileData(f)') = Len(d)
  /\ \A o \in 1 .. Len(d) - 1 : FileData(f)'[o] = d[o]
  /\ FileData(f)'[Len(d)] = Record(io.cmd[2], io.cmd[3])
  /\ node'[Active].totalOffset = Len(d) /\ node'[Active].fd = node[Active].fd
  /\ Clean(f) = Len(d) - 1 /\ Known(f) = Len(d) - 1
  /\ Clean(f)' = Len(d) /\ Known(f)' = Len(d) - 1
  /\ \A g \in Listed : g # f => UNCHANGED <<Clean(g), Known(g)>>

LEMMA AppendFinishIs ==
  ASSUME IInv, IInv', MapInv, AppendFinish
  PROVE  /\ FilesApart' /\ FilesStored'
         /\ \E f \in Files : \E d \in Seq(Records) : AppendFinishFacts(f, d)
<1>0. IsOpen(io.node)
  BY DEF AppendFinish, MapInv, FileInv, Appends, Appending
<1>1. /\ io.pc = "finish" /\ io.cmd \in Writes /\ fileNum > 0 /\ io.node = Active
      /\ io'.pc = "index" /\ io'.cmd = io.cmd /\ io'.node = io.node /\ io'.offset = io.offset
      /\ UNCHANGED <<fileNum, fileList, index, dir, tmp, reb, faults, clashed, manifest, reply>>
  BY <1>0 DEF AppendFinish, IInv, Types, IoTypes, IoState, WriteSteps, AppendsToActive, mem, counters
<1>2. IsOpen(Active)
  BY <1>1 DEF MapInv, FileInv, Appends, Appending
<1>3. ActiveFile
  BY <1>1, <1>2, ActiveIsFile DEF MapInv
<1>4. PICK f \in Files : f = fileNum
  BY <1>3 DEF ActiveFile
<1>5. f \in Listed /\ FileData(f) \in Seq(Records) /\ Len(FileData(f)) \in Nat
      /\ dir[f] \in Inodes /\ Active \in Nodes /\ Len(FileData(f)) > 0
  BY <1>1, <1>3, <1>4, FilesTyped DEF ActiveFile, FileTypes, MapInv, FileInv, Appends, Appending
<1>6. PICK d \in Seq(Records) : d = FileData(f)
  BY <1>5
<1> DEFINE rec == Record(io.cmd[2], io.cmd[3])
<1>7. disk' = [disk EXCEPT ![dir[f]] = [d EXCEPT ![Len(d)] = rec]]
  BY <1>0, <1>1, <1>3, <1>4, <1>6 DEF AppendFinish, ActiveFile, FileData, IInv, Types, DiskTypes
<1>8. /\ node'[Active].totalOffset = node[Active].totalOffset + 1
      /\ node'[Active].inode = node[Active].inode /\ node'[Active].fd = node[Active].fd
      /\ \A n \in Nodes : n # Active => node'[n] = node[n]
  BY <1>0, <1>1, <1>5 DEF AppendFinish, IInv, Types, NodeTypes, DataNode
<1>9. /\ FilesApart' /\ FilesStored' /\ Listed' = Listed
      /\ \A g \in Listed : g # f => UNCHANGED FileData(g)
      /\ \A g \in Listed : \A o : Place(g, o)' = Place(g, o)
  <2>1. \A i \in Inodes : i # dir[fileNum] => disk'[i] = disk[i]
    BY <1>4, <1>7 DEF IInv, Types, DiskTypes
  <2> QED BY <1>1, <1>3, <1>4, <1>8, <2>1, ActiveWritten
<1>10. /\ FileData(f)' = [d EXCEPT ![Len(d)] = rec] /\ Len(FileData(f)') = Len(d)
       /\ \A o \in 1 .. Len(d) - 1 : FileData(f)'[o] = d[o]
       /\ FileData(f)'[Len(d)] = rec
  <2>1. FileData(f)' = [d EXCEPT ![Len(d)] = rec]
    BY <1>1, <1>5, <1>7 DEF FileData, IInv, Types, DiskTypes
  <2>2. DOMAIN d = 1 .. Len(d) /\ Len(d) \in Nat /\ Len(d) > 0
    BY <1>5, <1>6, LenProperties
  <2>3. rec \in Records
    BY <1>1 DEF Records, Record, Writes
  <2>4. [d EXCEPT ![Len(d)] = rec] \in Seq(Records)
    BY <2>3, Overwritten
  <2>5. DOMAIN [d EXCEPT ![Len(d)] = rec] = 1 .. Len(d)
    BY <2>2
  <2>6. Len([d EXCEPT ![Len(d)] = rec]) = Len(d)
    BY <2>2, <2>4, <2>5, LenProperties
  <2>7. \A o \in 1 .. Len(d) - 1 : [d EXCEPT ![Len(d)] = rec][o] = d[o]
    <3>1. \A n \in Nat : \A o \in 1 .. n - 1 : o \in 1 .. n /\ o # n
      OBVIOUS
    <3>2. \A o \in 1 .. Len(d) - 1 : o \in 1 .. Len(d) /\ o # Len(d)
      BY <2>2, <3>1
    <3>3. \A o \in 1 .. Len(d) - 1 : o \in DOMAIN d /\ o # Len(d)
      BY <2>2, <3>2, Zenon
    <3> HIDE DEF rec
    <3> QED BY <3>3
  <2>8. [d EXCEPT ![Len(d)] = rec][Len(d)] = rec
    <3> HIDE DEF rec
    <3> QED BY <2>2
  <2> HIDE DEF rec
  <2> QED BY <2>1, <2>6, <2>7, <2>8
<1>11. /\ Clean(f) = Len(d) - 1 /\ Known(f) = Len(d) - 1
       /\ Clean(f)' = Len(d) /\ Known(f)' = Len(d) - 1
  BY <1>1, <1>4, <1>6, <1>10 DEF Clean, Known, Appending
<1>12. \A g \in Listed : g # f => UNCHANGED <<Clean(g), Known(g)>>
  BY <1>1, <1>4, <1>9 DEF Clean, Known
<1>13. node'[Active].totalOffset = Len(d)
  <2>1. node[Active].totalOffset = Clean(f)
    BY <1>1, <1>2, <1>4 DEF MapInv, FileInv, Appends
  <2> QED BY <1>5, <1>6, <1>8, <1>11, <2>1
<1>14. AppendFinishFacts(f, d)
  BY <1>1, <1>2, <1>3, <1>4, <1>5, <1>6, <1>8, <1>9, <1>10, <1>11, <1>12, <1>13
     DEF AppendFinishFacts
<1> QED BY <1>9, <1>14

LEMMA AppendFinishFiles ==
  ASSUME IInv, IInv', MapInv, MapConditions, FilesApart', FilesStored', NEW f, NEW d,
         AppendFinishFacts(f, d)
  PROVE  FileInv'
<1> USE DEF AppendFinishFacts
<1>1. RecordsWhole'
  <2>1. io.cmd[3] \in Values \cup {Deleted}
    BY DEF Writes
  <2>2. ASSUME NEW g \in Listed, NEW o \in 1 .. Clean(g)' PROVE FileData(g)'[o].val # Torn
    <3>1. CASE g # f
      BY <2>2, <3>1 DEF MapInv, FileInv, RecordsWhole
    <3>2. CASE g = f /\ o # Len(d)
      <4>1. o \in 1 .. Len(d) - 1
        BY <2>2, <3>2
      <4> QED BY <2>2, <3>2, <4>1 DEF MapInv, FileInv, RecordsWhole
    <3>3. CASE g = f /\ o = Len(d)
      BY <2>1, <3>3 DEF Record, MapConditions
    <3> QED BY <3>1, <3>2, <3>3
  <2>3. ~(manifest'.names < fileNum')
    BY StoreAssumption DEF ActiveFile, Named, IInv, Types, ListTypes
  <2> QED BY <2>2, <2>3 DEF RecordsWhole
<1>2. Appends'
  <2>1. /\ FileData(fileNum)' = FileData(f)' /\ Clean(fileNum)' = Clean(f)' /\ Active' = Active
        /\ fileNum' > 0 /\ IsOpen(Active)'
    BY DEF FileData, Clean, Active, IsOpen, Files
  <2>2. io.node = Active /\ io.offset = Len(d) - 1
    BY DEF MapInv, FileInv, Appends, Appending
  <2>3. ~clashed'
    BY DEF MapInv, FileInv, Appends
  <2> QED BY <2>1, <2>2, <2>3 DEF Appends, Appending
<1> QED BY <1>1, <1>2 DEF FileInv

\* The key of the record is in no file that is or will be compacted.
LEMMA KeyIsNew ==
  ASSUME IInv, MapInv, io.pc \in WriteSteps, ActiveFile,
         NEW g \in Listed, NEW o \in 1 .. Known(g), SetsKey(g, o, io.cmd[2]), g < MAXFILE
  PROVE  FALSE
<1> DEFINE k == io.cmd[2]
<1>1. k \in Keys
  BY DEF IInv, Types, IoTypes, Writes
<1>2. index[k] = Place(g, o)
  BY <1>1 DEF MapInv, RecordInv, Current
<1>3. /\ Place(g, o)[1] \in Nodes /\ Place(g, o)[2] \in Nat /\ OwnsNode(g, Place(g, o)[1])
      /\ g \in Files
  <2>1. /\ Place(g, o)[1] \in Nodes /\ Place(g, o)[2] = o - 1 /\ o \in Nat
        /\ OwnsNode(g, Place(g, o)[1])
    BY PlaceHolds DEF MapInv, FileInv
  <2> QED BY <2>1, FilesTyped DEF FileTypes
<1>4. index[k] # None
  <2>1. Place(g, o) \in Nat \X Nat
    BY <1>3 DEF Place, Nodes
  <2> QED BY <1>2, <2>1, StoreAssumption
<1>5. fileNum = MAXFILE /\ index[k][1] = Active
  BY <1>4 DEF MapInv, Allowed
<1>6. g # fileNum
  BY <1>3, <1>5, StoreAssumption DEF Files
<1>7. OwnsNode(g, Active) /\ OwnsNode(fileNum, Active) /\ Active \in Nodes /\ fileNum \in Files
  BY <1>2, <1>3, <1>5 DEF ActiveFile
<1> QED BY <1>3, <1>6, <1>7 DEF MapInv, FileInv, FilesApart

LEMMA AppendFinishRecords ==
  ASSUME IInv, IInv', MapInv, FileInv', NEW f, NEW d, AppendFinishFacts(f, d)
  PROVE  RecordInv' /\ \A k \in Keys : ValueAt(k)' = ValueAt(k)
<1> USE DEF AppendFinishFacts
<1>1. \A g \in Listed : /\ Known(g) \in Nat /\ Clean(g) \in Nat /\ Known(g) = Clean(g)
                        /\ Clean(g) <= Len(FileData(g)) /\ Known(g)' = Known(g)
  <2>1. \A g \in Listed : /\ Known(g) \in Nat /\ Clean(g) \in Nat /\ Known(g) = Clean(g)
                          /\ Clean(g) <= Len(FileData(g))
    BY CleanFacts DEF MapInv, FileInv
  <2> QED BY <2>1
<1>2. \A g \in Listed : \A o \in 1 .. Known(g) : FileData(g)'[o] = FileData(g)[o]
  BY <1>1
<1>3. KnownFollow
  BY <1>1, <1>2 DEF KnownFollow, Entered
<1>4. Current' /\ EntriesLead' /\ \A k \in Keys : ValueAt(k)' = ValueAt(k)
  BY <1>3, EntriesFollow, MapFollows DEF MapInv, RecordInv
<1>5. SetOnce'
  <2> SUFFICES ASSUME NEW g \in Listed, NEW h \in Listed,
                      NEW o \in 1 .. Clean(g)', NEW p \in 1 .. Clean(h)', NEW k \in Keys,
                      g < MAXFILE, SetsKey(g, o, k)', SetsKey(h, p, k)'
               PROVE  g = h /\ o = p
    BY DEF SetOnce
  <2>1. \A j \in Listed : \A q \in 1 .. Clean(j)' :
          \/ q \in 1 .. Known(j) /\ (SetsKey(j, q, k)' => SetsKey(j, q, k))
          \/ j = f /\ q = Len(d) /\ (SetsKey(j, q, k)' => k = io.cmd[2])
    <3> SUFFICES ASSUME NEW j \in Listed, NEW q \in 1 .. Clean(j)'
                 PROVE  \/ q \in 1 .. Known(j) /\ (SetsKey(j, q, k)' => SetsKey(j, q, k))
                        \/ j = f /\ q = Len(d) /\ (SetsKey(j, q, k)' => k = io.cmd[2])
      OBVIOUS
    <3>1. CASE q \in 1 .. Known(j)
      <4>1. FileData(j)'[q] = FileData(j)[q]
        BY <1>2, <3>1
      <4> QED BY <3>1, <4>1 DEF SetsKey
    <3>2. CASE q \notin 1 .. Known(j)
      <4>1. j = f
        BY <1>1, <3>2
      <4>2. q = Len(d)
        BY <3>2, <4>1
      <4> QED BY <4>1, <4>2 DEF SetsKey, Record
    <3> QED BY <3>1, <3>2
  <2>2. ASSUME NEW j \in Listed, NEW q \in 1 .. Known(j), SetsKey(j, q, io.cmd[2]), j < MAXFILE
        PROVE  FALSE
    BY <2>2, KeyIsNew DEF WriteSteps
  <2>3. f \in Nat /\ MAXFILE \in Nat /\ f <= MAXFILE /\ \A j \in Listed : j \in Nat /\ j <= f
    BY StoreAssumption DEF Files, Listed
  <2>4. CASE o \in 1 .. Known(g) /\ p \in 1 .. Known(h) /\ SetsKey(g, o, k) /\ SetsKey(h, p, k)
    BY <1>1, <2>4 DEF MapInv, RecordInv, SetOnce
  <2>5. CASE o \in 1 .. Known(g) /\ SetsKey(g, o, k) /\ k = io.cmd[2]
    BY <2>2, <2>5
  <2>6. CASE g = f /\ p \in 1 .. Known(h) /\ SetsKey(h, p, k) /\ k = io.cmd[2]
    <3>1. h < MAXFILE
      BY <2>3, <2>6
    <3> QED BY <2>2, <2>6, <3>1
  <2>7. CASE g = f /\ h = f /\ o = Len(d) /\ p = Len(d)
    BY <2>7
  <2> QED BY <2>1, <2>4, <2>5, <2>6, <2>7
<1> QED BY <1>4, <1>5 DEF RecordInv

LEMMA AppendFinishDurable ==
  ASSUME IInv, IInv', MapInv, FileInv', NEW f, NEW d, AppendFinishFacts(f, d), NEW k \in Keys
  PROVE  RecoveredValue(k)' = IF io.cmd[1] = "set" /\ k = io.cmd[2] THEN io.cmd[3]
                              ELSE RecoveredValue(k)
<1> USE DEF AppendFinishFacts
<1>1. CASE io.cmd[1] = "set" /\ k = io.cmd[2]
  <2>1. IInv' /\ FileInv' => Stored'
    BY StoredValue, PTL
  <2>2. RecoveredValue(io.cmd[2])' = io.cmd[3]
    BY <1>1, <2>1 DEF Stored
  <2>3. PICK x \in Keys : x = k
    OBVIOUS
  <2> QED BY <1>1, <2>2 DEF Stored
<1>2. CASE ~(io.cmd[1] = "set" /\ k = io.cmd[2])
  <2>1. \A g \in Listed : Clean(g) \in Nat /\ Clean(g) <= Len(FileData(g))
    BY CleanFacts DEF MapInv, FileInv
  <2>2. \A g \in Listed : \A o \in 1 .. Clean(g) : FileData(g)'[o] = FileData(g)[o]
    BY <2>1
  <2>3. ~SetsKey(f, Len(d), k)'
    BY <1>2 DEF SetsKey, Record, Writes
  <2>4. \A g \in Listed : \A o : o \in 1 .. Clean(g)' /\ SetsKey(g, o, k)'
                               <=> o \in 1 .. Clean(g) /\ SetsKey(g, o, k)
    <3> SUFFICES ASSUME NEW g \in Listed, NEW o
                 PROVE  o \in 1 .. Clean(g)' /\ SetsKey(g, o, k)'
                          <=> o \in 1 .. Clean(g) /\ SetsKey(g, o, k)
      OBVIOUS
    <3>1. o \in 1 .. Clean(g) => (SetsKey(g, o, k)' <=> SetsKey(g, o, k))
      BY <2>2 DEF SetsKey
    <3>2. o \in 1 .. Clean(g)' <=> o \in 1 .. Clean(g) \/ (g = f /\ o = Len(d))
      BY <2>1
    <3> QED BY <2>3, <3>1, <3>2
  <2>5. SetPositions(k)' = SetPositions(k)
    BY <2>4 DEF SetPositions, Named
  <2>6. RecoveredValue(k)' = RecoveredValue(k)
    BY <2>2, <2>5, DurableOf DEF MapInv
  <2> QED BY <1>2, <2>6
<1> QED BY <1>1, <1>2

LEMMA MapPersists ==
  ASSUME io.cmd \in Writes, UNCHANGED <<io.cmd, reply>>,
         \A k \in Keys : ValueAt(k)' = ValueAt(k),
         \A k \in Keys : RecoveredValue(k)' =
           IF io.cmd[1] = "set" /\ k = io.cmd[2] THEN io.cmd[3] ELSE RecoveredValue(k)
  PROVE  MapStep
<1>1. CASE io.cmd[1] = "set"
  <2>1. io.cmd # << >>
    BY DEF Writes
  <2>2. [k \in Keys |-> ValueAt(k)]' = [k \in Keys |-> ValueAt(k)]
    OBVIOUS
  <2>3. [k \in Keys |-> RecoveredValue(k)]'
          = [[k \in Keys |-> RecoveredValue(k)] EXCEPT ![io.cmd[2]] = io.cmd[3]]
    BY <1>1
  <2>4. Map!Persist
    BY <1>1, <2>1, <2>2, <2>3 DEF Map!Persist, Map!Effect
  <2> QED BY <2>4 DEF MapStep, Map!MapNext
<1>2. CASE io.cmd[1] # "set"
  <2>1. SameMap
    BY <1>2 DEF SameMap
  <2> QED BY <2>1, MapStutters
<1> QED BY <1>1, <1>2

LEMMA AppendFinishMap ==
  ASSUME IInv, IInv', MapInv, MapConditions, AppendFinish
  PROVE  MapInv' /\ MapStep
<1>1. PICK f \in Files, d \in Seq(Records) : AppendFinishFacts(f, d)
  BY AppendFinishIs
<1>2. FileInv'
  BY <1>1, AppendFinishIs, AppendFinishFiles
<1>3. RecordInv' /\ \A k \in Keys : ValueAt(k)' = ValueAt(k)
  BY <1>1, <1>2, AppendFinishRecords
<1>4. Allowed' /\ GetsAlone' /\ TaskKnown'
  BY <1>1 DEF AppendFinishFacts, MapInv, Allowed, GetsAlone, WriteSteps, TaskKnown, Active
<1>5. \A k \in Keys : RecoveredValue(k)' =
        IF io.cmd[1] = "set" /\ k = io.cmd[2] THEN io.cmd[3] ELSE RecoveredValue(k)
  BY <1>1, <1>2, AppendFinishDurable
<1>6. MapStep
  <2>1. io.cmd \in Writes /\ io'.cmd = io.cmd /\ reply' = reply
    BY <1>1 DEF AppendFinishFacts
  <2> QED BY <1>3, <1>5, <2>1, MapPersists
<1> QED BY <1>2, <1>3, <1>4, <1>6 DEF MapInv

\* No append fails here.
LEMMA AppendFaultMap ==
  ASSUME IInv, MapInv, MapConditions, AppendFault
  PROVE  FALSE
BY DEF IInv, Types, ListTypes, MapInv, TaskKnown, MapConditions, AppendFault, Bound

\* saveVal and delKey: the index follows the last record.
LEMMA UpdateIndexMap ==
  ASSUME IInv, IInv', MapInv, UpdateIndex
  PROVE  MapInv' /\ MapStep
<1> DEFINE k == io.cmd[2]
<1>1. /\ io.pc = "index" /\ io.cmd \in Writes /\ k \in Keys /\ io'.pc = "ready" /\ io'.cmd = << >>
      /\ UNCHANGED <<fileNum, fileList, node, disk, dir, tmp, reb, faults, clashed, manifest>>
      /\ reply' = UpdateReply
  BY DEF UpdateIndex, IInv, Types, IoTypes, WriteSteps, Writes, counters, Finish, IdleIo
<1>2. /\ index'[k] = IF io.cmd[1] = "set" THEN <<io.node, io.offset>> ELSE None
      /\ \A j \in Keys : j # k => index'[j] = index[j]
  BY <1>1 DEF UpdateIndex, IInv, Types, IndexTypes
<1>3. ActiveFile
  BY <1>1, ActiveIsFile DEF MapInv, FileInv, Appends, Appending
<1>4. PICK f \in Files : f = fileNum
  BY <1>3 DEF ActiveFile
<1>5. PICK d \in Seq(Records) : d = FileData(f)
  BY <1>3, <1>4, FilesTyped DEF FileTypes, ActiveFile
<1>6. /\ f \in Listed /\ Len(d) \in Nat /\ Len(d) > 0
      /\ io.node = Active /\ io.offset = Len(d) - 1 /\ d[Len(d)] = Record(k, io.cmd[3])
      /\ Known(f) = Len(d) - 1 /\ Clean(f) = Len(d)
  BY <1>1, <1>3, <1>4, <1>5, LenProperties
     DEF ActiveFile, MapInv, FileInv, Appends, Appending, Known, Clean
<1>7. /\ Listed' = Listed /\ \A g : UNCHANGED <<FileData(g), Clean(g)>>
      /\ \A g \in Listed : g # f => Known(g)' = Known(g)
      /\ Known(f)' = Len(d)
      /\ \A g \in Listed : \A o : Place(g, o)' = Place(g, o)
      /\ \A g : \A o : \A j : SetsKey(g, o, j)' <=> SetsKey(g, o, j)
  <2>1. Listed' = Listed /\ \A g : UNCHANGED FileData(g)
    BY <1>1 DEF Listed, FileData
  <2>2. \A g : UNCHANGED Clean(g)
    BY <1>1, <2>1 DEF Clean
  <2>3. \A g \in Listed : g # f => Known(g)' = Known(g)
    BY <1>1, <1>4, <2>1 DEF Known
  <2>4. Known(f)' = Len(d)
    BY <1>1, <1>5, <2>1 DEF Known, Appending
  <2>5. \A g \in Listed : \A o : Place(g, o)' = Place(g, o)
    BY <1>1 DEF Place, Compacting, Running
  <2>6. \A g : \A o : \A j : SetsKey(g, o, j)' <=> SetsKey(g, o, j)
    BY <2>1 DEF SetsKey
  <2> QED BY <2>1, <2>2, <2>3, <2>4, <2>5, <2>6
<1>8. FileInv'
  <2>1. FilesApart' /\ FilesStored'
    <3>1. \A g \in Files : (Compacting(g)' <=> Compacting(g))
      BY <1>1 DEF Compacting, Running
    <3>2. \A g : \A n : OwnsNode(g, n)' <=> OwnsNode(g, n)
      BY <1>1, <1>7 DEF OwnsNode, Compacting, Running
    <3>3. \A g : \A i : Owns(g, i)' <=> Owns(g, i)
      BY <1>1, <3>2 DEF Owns
    <3>4. FilesApart'
      BY <1>1, <3>2, <3>3 DEF MapInv, FileInv, FilesApart
    <3>5. \A g \in Listed : (Copying(g)' <=> Copying(g)) /\ (Opened(g)' <=> Opened(g))
      BY <1>1, <1>7 DEF Copying, Copied, Opened, IsOpen
    <3>6. \A g \in Listed : g \in Files
      BY FilesTyped DEF FileTypes
    <3> QED BY <1>7, <3>1, <3>4, <3>5, <3>6 DEF MapInv, FileInv, FilesStored
  <2>2. RecordsWhole'
    BY <1>1, <1>7 DEF MapInv, FileInv, RecordsWhole
  <2>3. Appends'
    BY <1>1, <1>7 DEF MapInv, FileInv, Appends, Appending, Active, IsOpen
  <2> QED BY <2>1, <2>2, <2>3 DEF FileInv
<1>9. SetOnce'
  BY <1>7 DEF MapInv, RecordInv, SetOnce
<1>10. Place(f, Len(d)) = <<io.node, io.offset>>
  BY <1>3, <1>4, <1>6 DEF Place, ActiveFile, Active
<1>11. ASSUME NEW g \in Listed, NEW o \in 1 .. Known(g)', NEW j \in Keys, SetsKey(g, o, j)
       PROVE  \/ o \in 1 .. Known(g)
              \/ g = f /\ o = Len(d) /\ j = k /\ io.cmd[1] = "set"
  <2>1. CASE g # f
    BY <1>7, <1>11, <2>1
  <2>2. CASE g = f /\ o # Len(d)
    BY <1>6, <1>7, <1>11, <2>2
  <2>3. CASE g = f /\ o = Len(d)
    BY <1>1, <1>5, <1>6, <1>11, <2>3 DEF SetsKey, Record, Writes
  <2> QED BY <2>1, <2>2, <2>3
<1>12. Current'
  <2> SUFFICES ASSUME NEW g \in Listed, NEW o \in 1 .. Known(g)', NEW j \in Keys,
                      g < MAXFILE, SetsKey(g, o, j)
               PROVE  index'[j] = Place(g, o)
    BY <1>7 DEF Current
  <2>1. CASE g = f /\ o = Len(d) /\ j = k /\ io.cmd[1] = "set"
    BY <1>2, <1>10, <2>1
  <2>2. CASE o \in 1 .. Known(g)
    <3>1. j # k
      BY <1>1, <1>3, <2>2, KeyIsNew DEF WriteSteps
    <3> QED BY <1>2, <2>2, <3>1 DEF MapInv, RecordInv, Current
  <2> QED BY <1>11, <2>1, <2>2
<1>13. EntriesLead'
  <2> SUFFICES ASSUME NEW j \in Keys, index'[j] # None
               PROVE  \E g \in Listed : \E o \in 1 .. Known(g)' :
                        SetsKey(g, o, j) /\ index'[j] = Place(g, o)
    BY <1>7 DEF EntriesLead
  <2>1. CASE j = k
    <3>1. io.cmd[1] = "set"
      BY <1>2, <2>1
    <3>2. Len(d) \in 1 .. Known(f)' /\ index'[j] = Place(f, Len(d))
      BY <1>2, <1>6, <1>7, <1>10, <2>1, <3>1
    <3>3. SetsKey(f, Len(d), j)
      BY <1>1, <1>5, <1>6, <2>1, <3>1, StoreAssumption DEF SetsKey, Record, Writes
    <3> QED BY <1>6, <3>2, <3>3
  <2>2. CASE j # k
    <3>1. PICK g \in Listed : \E o \in 1 .. Known(g) : SetsKey(g, o, j) /\ index[j] = Place(g, o)
      BY <1>2, <2>2 DEF MapInv, RecordInv, EntriesLead
    <3>2. PICK o \in 1 .. Known(g) : SetsKey(g, o, j) /\ index[j] = Place(g, o)
      BY <3>1
    <3>3. o \in 1 .. Known(g)'
      BY <1>6, <1>7
    <3> QED BY <1>2, <2>2, <3>2, <3>3
  <2> QED BY <2>1, <2>2
<1>14. \A j \in Keys : ValueAt(j)' = IF j = k THEN io.cmd[3] ELSE ValueAt(j)
  <2> SUFFICES ASSUME NEW j \in Keys PROVE ValueAt(j)' = IF j = k THEN io.cmd[3] ELSE ValueAt(j)
    OBVIOUS
  <2>1. CASE j # k
    BY <1>1, <1>2, <2>1 DEF ValueAt, Data
  <2>2. CASE j = k /\ io.cmd[1] # "set"
    <3>1. index'[j] = None /\ io.cmd[3] = Deleted
      BY <1>1, <1>2, <2>2 DEF Writes
    <3> QED BY <2>2, <3>1 DEF ValueAt
  <2>3. CASE j = k /\ io.cmd[1] = "set"
    <3>1. IInv' /\ FileInv' => EntryValues'
      BY EntryValue, PTL
    <3>2. Entered(j, f, Len(d))'
      <4>1. Len(d) \in 1 .. Known(f)' /\ index'[j] = Place(f, Len(d))'
        BY <1>2, <1>6, <1>7, <1>10, <2>3
      <4>2. SetsKey(f, Len(d), j)'
        BY <1>1, <1>5, <1>6, <1>7, <2>3, StoreAssumption DEF SetsKey, Record, Writes
      <4> QED BY <1>6, <4>1, <4>2, LenProperties DEF Entered
    <3>3. FileData(f)'[Len(d)].val = io.cmd[3]
      BY <1>5, <1>6, <1>7 DEF Record
    <3> QED BY <1>6, <1>7, <1>8, <2>3, <3>1, <3>2, <3>3 DEF EntryValues
  <2> QED BY <2>1, <2>2, <2>3
<1>15. \A j \in Keys : RecoveredValue(j)' = RecoveredValue(j)
  BY <1>1 DEF RecoveredValue, RecoveredPositions, Recovered, Named
<1>16. io.cmd[1] = "set" => RecoveredValue(k) = io.cmd[3]
  BY <1>1, StoredValue DEF MapInv, Stored
<1>17. MapStep
  <2>1. index[k] = None <=> ValueAt(k) = Deleted
    <3>1. EntryValues
      BY EntryValue DEF MapInv
    <3>2. index[k] # None => ValueAt(k) # Deleted
      <4> SUFFICES ASSUME index[k] # None PROVE ValueAt(k) # Deleted
        OBVIOUS
      <4>1. PICK g \in Listed : \E o \in 1 .. Known(g) : Entered(k, g, o)
        BY <1>1 DEF MapInv, RecordInv, EntriesLead, Entered
      <4>2. PICK o \in 1 .. Known(g) : Entered(k, g, o)
        BY <4>1
      <4> QED BY <1>1, <3>1, <4>2 DEF EntryValues, Entered, SetsKey
    <3> QED BY <1>1, <3>1, <3>2 DEF EntryValues
  <2>2. io.cmd # << >> /\ io.cmd[1] \in {"set", "del"}
    BY <1>1 DEF Writes
  <2>3. reply' = Map!Answer(io.cmd)
    BY <1>1, <2>1, <2>2 DEF UpdateReply, Map!Answer
  <2>4. [j \in Keys |-> ValueAt(j)]' = Map!Effect(io.cmd, [j \in Keys |-> ValueAt(j)])
    BY <1>14, <2>2 DEF Map!Effect
  <2>5. [j \in Keys |-> RecoveredValue(j)]'
          = IF io.cmd[1] = "del" THEN [j \in Keys |-> RecoveredValue(j)]
            ELSE Map!Effect(io.cmd, [j \in Keys |-> RecoveredValue(j)])
    BY <1>15, <1>16, <2>2 DEF Map!Effect
  <2>6. Map!Apply
    BY <1>1, <2>2, <2>3, <2>4, <2>5 DEF Map!Apply
  <2> QED BY <2>6 DEF MapStep, Map!MapNext
<1>18. Allowed' /\ GetsAlone' /\ TaskKnown'
  BY <1>1 DEF MapInv, Allowed, GetsAlone, TaskKnown, WriteSteps
<1> QED BY <1>8, <1>9, <1>12, <1>13, <1>17, <1>18 DEF MapInv, RecordInv

-----------------------------------------------------------------------------
(* The rebuildFile threads *)

\* A step of the thread of file r, which is not one of the clients.
LEMMA RebuildMap ==
  ASSUME IInv, IInv', MapInv, NEW r \in Rebuilds, r \in Listed, r < fileNum,
         UNCHANGED <<fileNum, io, faults, reply, manifest>>, ~clashed',
         \A g \in Files : g # r => UNCHANGED <<dir[g], tmp[g], fileList[g]>>,
         \A q \in Rebuilds : q # r => reb'[q] = reb[q],
         \A n \in Nodes : OwnsNode(r, n) \/ (\A g \in Files : ~OwnsNode(g, n)) \/ node'[n] = node[n],
         \A i \in Inodes : Owns(r, i) \/ (\A g \in Files : ~Owns(g, i)) \/ disk'[i] = disk[i],
         \A n \in Nodes : OwnsNode(r, n)' => OwnsNode(r, n) \/ \A g \in Files : ~OwnsNode(g, n),
         \A i \in Inodes : Owns(r, i)' => Owns(r, i) \/ \A g \in Files : ~Owns(g, i),
         dir'[r] # None => dir'[r] # tmp'[r],
         IF Compacting(r)' THEN Copying(r)' ELSE Opened(r)',
         FileData(r)' = FileData(r),
         io.pc \notin {"lookup", "seek", "read"},
         \A k \in Keys : index[k] = None => index'[k] = None,
         \A k \in Keys : index'[k] = index[k] \/ (index[k] # None /\ OwnsNode(r, index[k][1])),
         \A k \in Keys : \A o \in 1 .. Known(r) : Entered(k, r, o) => index'[k] = Place(r, o)'
  PROVE  MapInv' /\ MapStep
<1>1. Listed' = Listed /\ r \in Files /\ \A g \in Listed : g \in Files
  BY FilesTyped DEF Listed, FileTypes
<1>2. \A g \in Files : g # r => Untouched(g)
  <2> SUFFICES ASSUME NEW g \in Files, g # r PROVE Untouched(g)
    OBVIOUS
  <2>1. \A n \in Nodes : OwnsNode(g, n) => node'[n] = node[n]
    BY <1>1 DEF MapInv, FileInv, FilesApart
  <2>2. \A i \in Inodes : Owns(g, i) => disk'[i] = disk[i]
    BY <1>1 DEF MapInv, FileInv, FilesApart
  <2> QED BY <1>1, <2>1, <2>2 DEF Untouched, Running
<1>3. FilesApart' /\ FilesStored'
  BY <1>1, <1>2, StepOnFile DEF MapInv, FileInv
<1>4. \A g \in Listed : UNCHANGED FileData(g)
  BY <1>1, <1>2, UntouchedFacts
<1>5. \A g \in Listed : UNCHANGED <<Clean(g), Known(g)>>
  BY <1>4 DEF Clean, Known, Appending
<1>6. r # fileNum /\ (fileNum > 0 => fileNum \in Listed)
  BY StoreAssumption DEF Listed, IInv, Types, ListTypes, Rebuilds
<1>7. fileNum > 0 =>
        /\ Active' = Active /\ FileData(fileNum)' = FileData(fileNum)
        /\ Clean(fileNum)' = Clean(fileNum)
        /\ node'[Active] = node[Active]
  <2> SUFFICES ASSUME fileNum > 0
               PROVE  /\ Active' = Active /\ FileData(fileNum)' = FileData(fileNum)
                      /\ Clean(fileNum)' = Clean(fileNum)
                      /\ node'[Active] = node[Active]
    OBVIOUS
  <2>1. PICK f \in Listed : f = fileNum
    BY <1>6
  <2>2. FileData(fileNum)' = FileData(f)' /\ Clean(fileNum)' = Clean(f)'
    BY <2>1 DEF FileData, Clean
  <2>3. Active' = Active /\ Active \in Nodes /\ OwnsNode(f, Active)
    BY <1>1, <1>6, <2>1, ActiveNode DEF Active, OwnsNode
  <2>4. node'[Active] = node[Active]
    <3>1. ~OwnsNode(r, Active)
      BY <1>1, <1>6, <2>1, <2>3 DEF MapInv, FileInv, FilesApart
    <3> QED BY <1>1, <2>3, <3>1
  <2> QED BY <1>4, <1>5, <2>1, <2>2, <2>3, <2>4
<1>8. RecordsWhole'
  <2>1. \A g \in Listed : \A o \in 1 .. Clean(g)' : FileData(g)'[o].val # Torn
    BY <1>4, <1>5 DEF MapInv, FileInv, RecordsWhole
  <2>2. manifest'.names < fileNum' => FileData(fileNum)' = << >>
    BY <1>7, StoreAssumption DEF MapInv, FileInv, RecordsWhole, IInv, Types, ListTypes
  <2> QED BY <1>1, <2>1, <2>2 DEF RecordsWhole
<1>9. Appends'
  BY <1>7 DEF MapInv, FileInv, Appends, Appending, IsOpen
<1>10. \A g \in Listed : g # r => \A o : Place(g, o)' = Place(g, o)
  <2> SUFFICES ASSUME NEW g \in Listed, g # r, NEW o PROVE Place(g, o)' = Place(g, o)
    OBVIOUS
  <2>1. g \in Files
    BY <1>1
  <2> QED BY <2>1 DEF Place, Compacting, Running
<1>11. KnownFollow
  <2>1. ASSUME NEW k \in Keys, NEW g \in Listed, NEW o \in 1 .. Known(g), Entered(k, g, o)
        PROVE  index'[k] = Place(g, o)'
    <3>1. CASE g = r
      BY <2>1, <3>1
    <3>2. CASE g # r
      <4>1. index[k] = Place(g, o)
        BY <2>1 DEF Entered
      <4>2. index[k][1] \in Nodes /\ OwnsNode(g, index[k][1])
        BY <2>1, <4>1, PlaceHolds DEF MapInv, FileInv
      <4>3. ~OwnsNode(r, index[k][1])
        BY <1>1, <3>2, <4>2 DEF MapInv, FileInv, FilesApart
      <4> QED BY <1>10, <3>2, <4>1, <4>3
    <3> QED BY <3>1, <3>2
  <2>2. \A g \in Listed : \A o \in 1 .. Known(g) : FileData(g)'[o] = FileData(g)[o]
    BY <1>4
  <2> QED BY <1>1, <1>5, <2>1, <2>2 DEF KnownFollow
<1>12. CleanFollow
  BY <1>1, <1>4, <1>5 DEF CleanFollow
<1>13. FileInv'
  BY <1>3, <1>8, <1>9 DEF FileInv
<1>14. RecordInv' /\ SameMap
  <2>1. \A g \in Listed : Named(g)' <=> Named(g)
    BY DEF Named
  <2> QED BY <1>11, <1>12, <1>13, <2>1, FollowStep DEF MapInv
<1>15. Allowed'
  <2> SUFFICES ASSUME io.pc \in WriteSteps, index'[io.cmd[2]] # None
               PROVE  fileNum = MAXFILE /\ index'[io.cmd[2]][1] = Active'
    BY DEF Allowed
  <2> DEFINE k == io.cmd[2]
  <2>1. k \in Keys
    BY DEF IInv, Types, IoTypes, Writes
  <2>2. fileNum = MAXFILE /\ index[k][1] = Active
    BY <2>1 DEF MapInv, Allowed
  <2>3. fileNum > 0
    BY StoreAssumption DEF IInv, Types, ListTypes, Rebuilds
  <2>4. ~OwnsNode(r, Active)
    <3>1. PICK f \in Listed : f = fileNum
      BY <1>6, <2>3
    <3>2. Active \in Nodes /\ OwnsNode(f, Active) /\ f \in Files
      BY <1>1, <2>3, <3>1, ActiveNode DEF Active, OwnsNode
    <3> QED BY <1>1, <1>6, <3>1, <3>2 DEF MapInv, FileInv, FilesApart
  <2> QED BY <1>7, <2>1, <2>2, <2>3, <2>4
<1>16. GetsAlone' /\ TaskKnown'
  BY DEF MapInv, GetsAlone, TaskKnown
<1>17. MapStep
  BY <1>14, MapStutters
<1> QED BY <1>13, <1>14, <1>15, <1>16, <1>17 DEF MapInv

\* What a thread that runs has.
LEMMA ThreadFacts ==
  ASSUME IInv, MapInv, NEW r \in Rebuilds, Running(r)
  PROVE  /\ r \in Files /\ r \in Listed /\ r < fileNum /\ Compacting(r) /\ Copying(r)
         /\ io.pc \notin {"lookup", "seek", "read"}
         /\ reb[r] \in RebuildState /\ reb[r].offset \in Nat
         /\ reb[r].pc \in RebuildSteps \cup {"rename", "reopen", "free"}
         /\ reb[r].slot = r /\ reb[r].old # reb[r].new
         /\ reb[r].old \in Nodes /\ reb[r].new \in Nodes
         /\ node[reb[r].old] \in DataNode /\ node[reb[r].new] \in DataNode
         /\ OwnsNode(r, reb[r].old) /\ OwnsNode(r, reb[r].new)
         /\ FileData(r) \in Seq(Records) /\ Len(FileData(r)) \in Nat
         /\ Clean(r) = Len(FileData(r)) /\ Known(r) = Len(FileData(r))
         /\ dir[r] \in Inodes /\ dir[r] # tmp[r]
         /\ \A o \in 1 .. Len(FileData(r)) : /\ FileData(r)[o].key \in Keys
                                             /\ FileData(r)[o].val \in Values \cup {Deleted}
                                             /\ FileData(r)[o].val # Torn
<1>1. r < fileNum /\ fileNum \in Nat
  BY StoreAssumption DEF Running, IInv, RebuildsBehind, Types, ListTypes
<1>2. r \in Listed /\ r # fileNum
  BY <1>1 DEF Listed, Rebuilds
<1>3. /\ r \in Files /\ FileData(r) \in Seq(Records) /\ Len(FileData(r)) \in Nat
      /\ dir[r] \in Inodes
  BY <1>2, FilesTyped DEF FileTypes
<1>4. Compacting(r) /\ Copying(r)
  BY <1>2 DEF Compacting, MapInv, FileInv, FilesStored
<1>5. /\ reb[r] \in RebuildState /\ reb[r].old \in Nodes /\ reb[r].new \in Nodes
      /\ node[reb[r].old] \in DataNode /\ node[reb[r].new] \in DataNode
  BY RunningTypes
<1>6. reb[r].offset \in Nat /\ reb[r].pc \in RebuildSteps \cup {"rename", "reopen", "free"}
  BY <1>5 DEF RebuildState, Running
<1>7. reb[r].slot = r /\ reb[r].old # reb[r].new
  BY <1>4 DEF Copying
<1>8. OwnsNode(r, reb[r].old) /\ OwnsNode(r, reb[r].new)
  BY <1>4 DEF OwnsNode
<1>9. Clean(r) = Len(FileData(r)) /\ Known(r) = Len(FileData(r))
  BY <1>2 DEF Clean, Known
<1>10. \A o \in 1 .. Len(FileData(r)) : /\ FileData(r)[o].key \in Keys
                                        /\ FileData(r)[o].val \in Values \cup {Deleted}
                                        /\ FileData(r)[o].val # Torn
  BY <1>2, <1>9, CleanFacts DEF MapInv, FileInv, RecordsWhole
<1>11. dir[r] # tmp[r]
  BY <1>3, StoreAssumption DEF MapInv, FileInv, FilesApart, Inodes
<1>12. io.pc \notin {"lookup", "seek", "read"}
  BY DEF MapInv, GetsAlone, Running
<1> QED BY <1>1, <1>2, <1>3, <1>4, <1>5, <1>6, <1>7, <1>8, <1>9, <1>10, <1>11, <1>12

\* What a step of such a thread has to respect.
LEMMA ThreadMap ==
  ASSUME IInv, IInv', MapInv, NEW r \in Rebuilds, Running(r),
         UNCHANGED <<fileNum, io, faults, clashed, reply, manifest>>,
         \A g \in Files : g # r => UNCHANGED <<dir[g], tmp[g], fileList[g]>>,
         \A q \in Rebuilds : q # r => reb'[q] = reb[q],
         \A n \in Nodes : n \in {reb[r].old, reb[r].new} \/ node'[n] = node[n],
         \A i \in Inodes : i = tmp[r] \/ disk'[i] = disk[i],
         Running(r)' => reb'[r].old = reb[r].old /\ reb'[r].new = reb[r].new,
         fileList'[r] \in {fileList[r], reb[r].new},
         {dir'[r], tmp'[r]} \subseteq {dir[r], tmp[r], None},
         \A n \in Nodes : node'[n].inode \in {node[n].inode, dir'[r], None},
         dir'[r] # None => dir'[r] # tmp'[r],
         IF Compacting(r)' THEN Copying(r)' ELSE Opened(r)',
         FileData(r)' = FileData(r),
         \A k \in Keys : index[k] = None => index'[k] = None,
         \A k \in Keys : index'[k] = index[k] \/ (index[k] # None /\ OwnsNode(r, index[k][1])),
         \A k \in Keys : \A o \in 1 .. Known(r) : Entered(k, r, o) => index'[k] = Place(r, o)'
  PROVE  MapInv' /\ MapStep
<1>1. /\ r \in Files /\ r \in Listed /\ r < fileNum /\ Compacting(r)
      /\ io.pc \notin {"lookup", "seek", "read"}
      /\ OwnsNode(r, reb[r].old) /\ OwnsNode(r, reb[r].new)
  BY ThreadFacts
<1>2. \A n \in Nodes : OwnsNode(r, n) \/ (\A g \in Files : ~OwnsNode(g, n)) \/ node'[n] = node[n]
  BY <1>1
<1>3. \A i \in Inodes : Owns(r, i) \/ (\A g \in Files : ~Owns(g, i)) \/ disk'[i] = disk[i]
  BY DEF Owns
<1>4. \A n \in Nodes : OwnsNode(r, n)' => OwnsNode(r, n)
  BY <1>1 DEF OwnsNode, Compacting, Listed
<1>5. \A i \in Inodes : Owns(r, i)' => Owns(r, i)
  <2> SUFFICES ASSUME NEW i \in Inodes, Owns(r, i)' PROVE Owns(r, i)
    OBVIOUS
  <2>1. i # None
    BY StoreAssumption DEF Inodes
  <2>2. CASE i \in {dir'[r], tmp'[r]}
    BY <2>1, <2>2 DEF Owns
  <2>3. CASE \E n \in Nodes : OwnsNode(r, n)' /\ node'[n].inode = i
    BY <1>4, <2>1, <2>2, <2>3 DEF Owns
  <2> QED BY <2>2, <2>3 DEF Owns
<1>6. ~clashed'
  BY DEF MapInv, FileInv, Appends
<1> QED BY <1>1, <1>2, <1>3, <1>4, <1>5, <1>6, RebuildMap

\* A step of the thread that moves no entry.
LEMMA ThreadSame ==
  ASSUME IInv, IInv', MapInv, NEW r \in Rebuilds, Running(r), Running(r)',
         UNCHANGED <<fileNum, io, faults, clashed, reply, manifest, index>>,
         \A g \in Files : g # r => UNCHANGED <<dir[g], tmp[g], fileList[g]>>,
         \A q \in Rebuilds : q # r => reb'[q] = reb[q],
         \A n \in Nodes : n \in {reb[r].old, reb[r].new} \/ node'[n] = node[n],
         \A i \in Inodes : i = tmp[r] \/ disk'[i] = disk[i],
         reb'[r].old = reb[r].old, reb'[r].new = reb[r].new, reb'[r].offset = reb[r].offset,
         fileList'[r] \in {fileList[r], reb[r].new},
         {dir'[r], tmp'[r]} \subseteq {dir[r], tmp[r], None},
         \A n \in Nodes : node'[n].inode \in {node[n].inode, dir'[r], None},
         dir'[r] # tmp'[r],
         Copying(r)', FileData(r)' = FileData(r)
  PROVE  MapInv' /\ MapStep
<1>1. r \in Listed /\ r \in Listed' /\ Compacting(r) /\ Compacting(r)'
  BY ThreadFacts DEF Compacting, Listed
<1>2. \A o : Place(r, o)' = Place(r, o)
  BY <1>1 DEF Place
<1>3. \A k \in Keys : \A o \in 1 .. Known(r) : Entered(k, r, o) => index'[k] = Place(r, o)'
  BY <1>2 DEF Entered
<1> QED BY <1>1, <1>3, ThreadMap

\* getRecord: lseek and read of the old file.
LEMMA RebuildSeekMap ==
  ASSUME IInv, IInv', MapInv, NEW r \in Rebuilds, RebuildSeek(r)
  PROVE  MapInv' /\ MapStep
<1> DEFINE n == reb[r].old
<1>1. Running(r) /\ reb[r].pc \in RebuildSteps /\ reb[r].pc = "seek"
  BY DEF RebuildSeek, Running, RebuildSteps
<1>2. Copying(r) /\ n \in Nodes /\ r \in Files /\ reb[r].new \in Nodes /\ dir[r] # tmp[r] /\ n # reb[r].new
  BY <1>1, ThreadFacts
<1>3. IsOpen(n)
  BY <1>1, <1>2 DEF Copying
<1>0. Old(r) = {n}
  BY <1>1, OwnOldNode DEF MapInv, FileInv, Appends
<1>4. /\ reb'[r] = [reb[r] EXCEPT !.pc = "read"] /\ \A q \in Rebuilds : q # r => reb'[q] = reb[q]
      /\ node'[n] = [node[n] EXCEPT !.pos = reb[r].offset]
      /\ \A m \in Nodes : m # n => node'[m] = node[m]
  BY <1>0, <1>2, <1>3 DEF RebuildSeek, IInv, Types, ListTypes, NodeTypes
<1>5. /\ reb'[r].pc = "read" /\ reb'[r].slot = reb[r].slot /\ reb'[r].old = n
      /\ reb'[r].new = reb[r].new /\ reb'[r].offset = reb[r].offset
      /\ node'[n].inode = node[n].inode /\ node'[n].fd = node[n].fd
      /\ node'[n].totalOffset = node[n].totalOffset /\ node'[n].pos = reb[r].offset
  <2>1. reb[r] \in RebuildState /\ node[n] \in DataNode
    BY <1>1, RunningTypes
  <2> QED BY <1>4, <2>1 DEF RebuildState, DataNode
<1>6. UNCHANGED <<fileNum, fileList, io, faults, clashed, reply, manifest, index, disk, dir, tmp>>
  BY DEF RebuildSeek, mem, counters
<1>7. FileData(r)' = FileData(r)
  BY <1>6 DEF FileData
<1>8. Copying(r)'
  <2>1. Copied(r) = reb[r].offset /\ Copied(r)' = reb[r].offset
    BY <1>1, <1>5 DEF Copied
  <2>2. UNCHANGED node[reb[r].new]
    BY <1>2, <1>4, <1>5
  <2> QED BY <1>1, <1>2, <1>3, <1>5, <1>6, <1>7, <2>1, <2>2 DEF Copying, IsOpen, RebuildSteps
<1>9. Running(r)'
  BY <1>5 DEF Running
<1>10. \A m \in Nodes : node'[m].inode \in {node[m].inode, dir'[r], None}
  BY <1>4, <1>5
<1> QED BY <1>1, <1>2, <1>4, <1>5, <1>6, <1>7, <1>8, <1>9, <1>10, ThreadSame

LEMMA RebuildReadMap ==
  ASSUME IInv, IInv', MapInv, NEW r \in Rebuilds, RebuildRead(r)
  PROVE  MapInv' /\ MapStep
<1> DEFINE n == reb[r].old
           m == reb[r].new
           c == reb[r].offset
           d == FileData(r)
<1>1. Running(r) /\ reb[r].pc \in RebuildSteps /\ reb[r].pc = "read"
  BY DEF RebuildRead, Running, RebuildSteps
<1>2. /\ Copying(r) /\ n \in Nodes /\ m \in Nodes /\ r \in Files /\ dir[r] # tmp[r] /\ n # m
      /\ c \in Nat /\ Len(d) \in Nat /\ reb[r] \in RebuildState /\ node[n] \in DataNode
      /\ \A o \in 1 .. Len(d) : d[o].val # Torn
  BY <1>1, ThreadFacts
<1>3. IsOpen(n) /\ node[n].pos = c /\ Data(n) = d /\ c <= Len(d) /\ node[m].totalOffset = c
  BY <1>1, <1>2 DEF Copying, Copied, Data, FileData
<1>4. UNCHANGED <<fileNum, fileList, io, faults, clashed, reply, manifest, index, disk, dir, tmp>>
  BY DEF RebuildRead, mem, counters
<1>5. FileData(r)' = FileData(r)
  BY <1>4 DEF FileData
<1>0. Old(r) = {n}
  BY <1>1, OwnOldNode DEF MapInv, FileInv, Appends
<1>6. CASE c >= Len(d)
  <2>1. /\ reb' = [reb EXCEPT ![r].pc = "swap"] /\ node' = node
    BY <1>0, <1>3, <1>6 DEF RebuildRead
  <2>2. /\ reb'[r].pc = "swap" /\ reb'[r].slot = reb[r].slot /\ reb'[r].old = n
        /\ reb'[r].new = m /\ reb'[r].offset = c
        /\ \A q \in Rebuilds : q # r => reb'[q] = reb[q]
    BY <1>2, <2>1 DEF IInv, Types, ListTypes, RebuildState
  <2>3. c = Len(d)
    BY <1>2, <1>3, <1>6
  <2>4. Copying(r)'
    <3> HIDE DEF d
    <3> QED BY <1>1, <1>2, <1>4, <1>5, <2>1, <2>2, <2>3 DEF Copying, Copied, IsOpen, RebuildSteps, d
  <2>5. Running(r)'
    BY <2>2 DEF Running
  <2> QED BY <1>1, <1>2, <1>4, <1>5, <2>1, <2>2, <2>4, <2>5, ThreadSame
<1>7. CASE c < Len(d)
  <2>1. c + 1 \in 1 .. Len(d) /\ d[c + 1].val # Torn
    BY <1>2, <1>7
  <2>2. /\ reb' = [reb EXCEPT ![r].pc = "seekEnd", ![r].rec = d[c + 1], ![r].newOffset = c]
        /\ node' = [node EXCEPT ![n].pos = c + 1]
    <3>1. c < Len(d) /\ ~(c >= Len(d)) /\ c + 1 = node[n].pos + 1
      BY <1>2, <1>3, <1>7
    <3>2. IsOpen(n) /\ ~(node[n].pos >= Len(Data(n))) /\ Data(n)[node[n].pos + 1] = d[c + 1]
          /\ d[c + 1].val # Torn
      BY <1>3, <2>1, <3>1
    <3> HIDE DEF c, d, n
    <3> QED BY <1>0, <1>3, <3>1, <3>2 DEF RebuildRead, m, n
  <2>3. /\ reb'[r].pc = "seekEnd" /\ reb'[r].slot = reb[r].slot /\ reb'[r].old = n
        /\ reb'[r].new = m /\ reb'[r].offset = c
        /\ reb'[r].rec = d[c + 1] /\ reb'[r].newOffset = c
        /\ \A q \in Rebuilds : q # r => reb'[q] = reb[q]
    <3> HIDE DEF d
    <3> QED BY <1>2, <2>2 DEF IInv, Types, ListTypes, RebuildState
  <2>4. /\ node'[n].inode = node[n].inode /\ node'[n].fd = node[n].fd
        /\ \A x \in Nodes : x # n => node'[x] = node[x]
    BY <1>2, <2>2 DEF IInv, Types, NodeTypes, DataNode
  <2>5. Copying(r)'
    <3> HIDE DEF d
    <3> QED BY <1>1, <1>2, <1>4, <1>5, <1>7, <2>3, <2>4 DEF Copying, Copied, IsOpen, RebuildSteps, d
  <2>6. Running(r)'
    BY <2>3 DEF Running
  <2>7. \A x \in Nodes : node'[x].inode \in {node[x].inode, dir'[r], None}
    BY <2>4
  <2> QED BY <1>1, <1>2, <1>4, <1>5, <2>3, <2>4, <2>5, <2>6, <2>7, ThreadSame
<1> QED BY <1>2, <1>6, <1>7

\* appendRecord: lseek to the end of the new file, then write.
LEMMA RebuildSeekEndMap ==
  ASSUME IInv, IInv', MapInv, NEW r \in Rebuilds, RebuildSeekEnd(r)
  PROVE  MapInv' /\ MapStep
<1> DEFINE n == reb[r].new
           c == reb[r].offset
<1>1. Running(r) /\ reb[r].pc \in RebuildSteps /\ reb[r].pc = "seekEnd"
  BY DEF RebuildSeekEnd, Running, RebuildSteps
<1>2. /\ Copying(r) /\ n \in Nodes /\ r \in Files /\ dir[r] # tmp[r] /\ reb[r].old # n
      /\ reb[r].old \in Nodes
      /\ c \in Nat /\ reb[r] \in RebuildState /\ node[n] \in DataNode
  BY <1>1, ThreadFacts
<1>3. IsOpen(n) /\ Len(Data(n)) = c
  BY <1>1, <1>2 DEF Copying, Copied, Data
<1>4. /\ reb'[r] = [reb[r] EXCEPT !.pc = "write"] /\ \A q \in Rebuilds : q # r => reb'[q] = reb[q]
      /\ node'[n] = [node[n] EXCEPT !.pos = c]
      /\ \A m \in Nodes : m # n => node'[m] = node[m]
  BY <1>2, <1>3 DEF RebuildSeekEnd, IInv, Types, ListTypes, NodeTypes
<1>5. /\ reb'[r].pc = "write" /\ reb'[r].slot = reb[r].slot /\ reb'[r].old = reb[r].old
      /\ reb'[r].new = n /\ reb'[r].offset = c
      /\ reb'[r].rec = reb[r].rec /\ reb'[r].newOffset = reb[r].newOffset
      /\ node'[n].inode = node[n].inode /\ node'[n].fd = node[n].fd
      /\ node'[n].totalOffset = node[n].totalOffset /\ node'[n].pos = c
  BY <1>2, <1>4 DEF RebuildState, DataNode
<1>6. UNCHANGED <<fileNum, fileList, io, faults, clashed, reply, manifest, index, disk, dir, tmp>>
  BY DEF RebuildSeekEnd, mem, counters
<1>7. FileData(r)' = FileData(r)
  BY <1>6 DEF FileData
<1>8. Copying(r)'
  <2>1. Copied(r) = c /\ Copied(r)' = c
    BY <1>1, <1>5 DEF Copied
  <2>2. UNCHANGED node[reb[r].old]
    BY <1>2, <1>4, <1>5
  <2> QED BY <1>1, <1>2, <1>3, <1>5, <1>6, <1>7, <2>1, <2>2 DEF Copying, IsOpen, RebuildSteps
<1>9. Running(r)'
  BY <1>5 DEF Running
<1>10. \A m \in Nodes : node'[m].inode \in {node[m].inode, dir'[r], None}
  BY <1>4, <1>5
<1> QED BY <1>1, <1>2, <1>4, <1>5, <1>6, <1>7, <1>8, <1>9, <1>10, ThreadSame

LEMMA RebuildWriteMap ==
  ASSUME IInv, IInv', MapInv, NEW r \in Rebuilds, RebuildWrite(r)
  PROVE  MapInv' /\ MapStep
<1> DEFINE n == reb[r].new
           c == reb[r].offset
           i == tmp[r]
           d == FileData(r)
           e == disk[i]
<1>1. Running(r) /\ reb[r].pc \in RebuildSteps /\ reb[r].pc = "write"
  BY DEF RebuildWrite, Running, RebuildSteps
<1>2. /\ Copying(r) /\ n \in Nodes /\ r \in Files /\ dir[r] # i /\ reb[r].old # n
      /\ reb[r].old \in Nodes /\ dir[r] \in Inodes
      /\ c \in Nat /\ reb[r] \in RebuildState /\ node[n] \in DataNode
      /\ d \in Seq(Records) /\ Len(d) \in Nat
  BY <1>1, ThreadFacts
<1>3. /\ IsOpen(n) /\ node[n].inode = i /\ i # None /\ node[n].pos = c /\ node[n].totalOffset = c
      /\ Len(e) = c /\ c < Len(d) /\ reb[r].rec = d[c + 1]
      /\ \A o \in 1 .. c : e[o] = d[o]
  <2>1. Copied(r) = c
    BY <1>1 DEF Copied
  <2> QED BY <1>1, <1>2, <2>1 DEF Copying
<1>4. i \in Inodes /\ e \in Seq(Records)
  BY <1>2, <1>3 DEF IInv, Types, DiskTypes
<1>5. /\ disk' = [disk EXCEPT ![i] = Append(e, reb[r].rec)]
      /\ reb'[r] = [reb[r] EXCEPT !.pc = "cas"] /\ \A q \in Rebuilds : q # r => reb'[q] = reb[q]
      /\ node'[n] = [node[n] EXCEPT !.pos = c + 1, !.totalOffset = c + 1]
      /\ \A m \in Nodes : m # n => node'[m] = node[m]
      /\ UNCHANGED <<fileNum, fileList, io, faults, clashed, reply, manifest, index, dir, tmp>>
  <2>1. WriteAt(e, node[n].pos, reb[r].rec) = Append(e, reb[r].rec)
    BY <1>2, <1>3 DEF WriteAt
  <2> QED BY <1>1, <1>2, <1>3, <2>1
     DEF RebuildWrite, IInv, Types, ListTypes, NodeTypes, DataNode, mem, counters
<1>6. /\ reb'[r].pc = "cas" /\ reb'[r].slot = reb[r].slot /\ reb'[r].old = reb[r].old
      /\ reb'[r].new = n /\ reb'[r].offset = c
      /\ reb'[r].rec = reb[r].rec /\ reb'[r].newOffset = reb[r].newOffset
      /\ node'[n].inode = i /\ node'[n].fd = node[n].fd
      /\ node'[n].totalOffset = c + 1
  <2>1. c + 1 \in Nat
    BY <1>2
  <2> QED BY <1>2, <1>3, <1>5, <2>1 DEF RebuildState, DataNode
<1>7. FileData(r)' = d /\ \A j \in Inodes : j # i => disk'[j] = disk[j]
  <2>1. \A j \in Inodes : j # i => disk'[j] = disk[j]
    BY <1>5 DEF IInv, Types, DiskTypes
  <2> QED BY <1>2, <1>5, <2>1 DEF FileData
<1>8. /\ Len(disk'[i]) = c + 1
      /\ \A o \in 1 .. c + 1 : disk'[i][o] = d[o]
  <2>1. disk'[i] = Append(e, reb[r].rec) /\ reb[r].rec \in Records
    BY <1>2, <1>4, <1>5 DEF IInv, Types, DiskTypes, RebuildState
  <2>2. /\ Len(Append(e, reb[r].rec)) = Len(e) + 1
        /\ \A o \in 1 .. Len(e) : Append(e, reb[r].rec)[o] = e[o]
        /\ Append(e, reb[r].rec)[Len(e) + 1] = reb[r].rec
    <3> HIDE DEF e
    <3> QED BY <1>4, <2>1, AppendProperties
  <2> HIDE DEF e, d
  <2> QED BY <1>2, <1>3, <2>1, <2>2
<1>9. Copying(r)'
  <2>1. Copied(r)' = c + 1 /\ Copied(r) = c
    BY <1>1, <1>6 DEF Copied
  <2>2. UNCHANGED node[reb[r].old]
    BY <1>2, <1>5, <1>6
  <2>3. c + 1 <= Len(d) /\ reb'[r].newOffset = c
    BY <1>1, <1>2, <1>3, <1>6 DEF Copying
  <2>4. UNCHANGED <<fileList[r], tmp[r], dir[r]>>
    BY <1>5
  <2>5. /\ fileList[r] = reb[r].old /\ IsOpen(reb[r].old) /\ node[reb[r].old].inode = dir[r]
        /\ reb[r].slot = r
    BY <1>1, <1>2 DEF Copying
  <2> HIDE DEF n, d, e
  <2> QED BY <1>2, <1>3, <1>6, <1>7, <1>8, <2>1, <2>2, <2>3, <2>4, <2>5
       DEF Copying, IsOpen, RebuildSteps, d, n
<1>10. Running(r)'
  BY <1>6 DEF Running
<1>11. \A m \in Nodes : node'[m].inode \in {node[m].inode, dir'[r], None}
  <2>1. \A m \in Nodes : m # n => node'[m] = node[m]
    BY <1>5
  <2> HIDE DEF n
  <2> QED BY <1>3, <1>6, <2>1
<1>12. dir'[r] # tmp'[r] /\ fileList'[r] = fileList[r] /\ tmp'[r] = i /\ dir'[r] = dir[r]
  BY <1>2, <1>5
<1> QED BY <1>1, <1>2, <1>5, <1>6, <1>7, <1>9, <1>10, <1>11, <1>12, ThreadSame

\* compareAndSet: the entry of the record that was copied is the current one.
LEMMA RebuildCompareAndSetMap ==
  ASSUME IInv, IInv', MapInv, NEW r \in Rebuilds, RebuildCompareAndSet(r)
  PROVE  MapInv' /\ MapStep
<1> DEFINE n == reb[r].new
           c == reb[r].offset
           d == FileData(r)
           k == reb[r].rec.key
<1>1. Running(r) /\ reb[r].pc \in RebuildSteps /\ reb[r].pc = "cas"
  BY DEF RebuildCompareAndSet, Running, RebuildSteps
<1>2. /\ Copying(r) /\ n \in Nodes /\ r \in Files /\ r \in Listed /\ Compacting(r)
      /\ dir[r] # tmp[r] /\ reb[r].old # n /\ OwnsNode(r, reb[r].old) /\ r < fileNum
      /\ reb[r].old \in Nodes /\ Known(r) = Len(d) /\ Clean(r) = Len(d)
      /\ c \in Nat /\ reb[r] \in RebuildState /\ Len(d) \in Nat
      /\ \A o \in 1 .. Len(d) : d[o].key \in Keys
  BY <1>1, ThreadFacts
<1>3. c < Len(d) /\ reb[r].rec = d[c + 1] /\ reb[r].newOffset = c
  BY <1>1, <1>2 DEF Copying
<1>4. c + 1 \in 1 .. Len(d) /\ c + 1 \in 1 .. Known(r) /\ k \in Keys /\ c + 1 \in Nat
  <2>1. c + 1 \in 1 .. Len(d) /\ c + 1 \in Nat
    BY <1>2, <1>3
  <2> HIDE DEF d
  <2> QED BY <1>2, <1>3, <2>1
<1>5. /\ reb'[r] = [reb[r] EXCEPT !.pc = "seek", !.offset = c + 1]
      /\ \A q \in Rebuilds : q # r => reb'[q] = reb[q]
      /\ UNCHANGED <<fileNum, fileList, io, faults, clashed, reply, manifest, dir, tmp, disk>>
  BY DEF RebuildCompareAndSet, IInv, Types, ListTypes, counters
<1>6. /\ reb'[r].pc = "seek" /\ reb'[r].slot = reb[r].slot /\ reb'[r].old = reb[r].old
      /\ reb'[r].new = n /\ reb'[r].offset = c + 1
  BY <1>2, <1>4, <1>5 DEF RebuildState
<1>7. reb[r].rec.val # Deleted => IsCurrent(r, reb[r].old)
  <2> SUFFICES ASSUME reb[r].rec.val # Deleted PROVE IsCurrent(r, reb[r].old)
    OBVIOUS
  <2>1. SetsKey(r, c + 1, k)
    BY <1>3 DEF SetsKey
  <2>2. r < MAXFILE
    BY StoreAssumption DEF Rebuilds
  <2>3. index[k] = Place(r, c + 1)
    BY <1>2, <1>4, <2>1, <2>2 DEF MapInv, RecordInv, Current
  <2>4. Place(r, c + 1) = <<reb[r].old, c>>
    BY <1>2, <1>4 DEF Place
  <2> QED BY <2>3, <2>4 DEF IsCurrent
<1>0. Old(r) = {reb[r].old}
  BY <1>1, OwnOldNode DEF MapInv, FileInv, Appends
<1>8. /\ node' = node
      /\ \A j \in Keys : j # k \/ reb[r].rec.val = Deleted => index'[j] = index[j]
      /\ reb[r].rec.val # Deleted => index[k] = <<reb[r].old, c>> /\ index'[k] = <<n, c>>
  <2>1. CASE reb[r].rec.val = Deleted
    BY <2>1 DEF RebuildCompareAndSet
  <2>2. CASE reb[r].rec.val # Deleted
    <3>1. node' = node /\ index' = [index EXCEPT ![k] = <<n, c>>] /\ index[k] = <<reb[r].old, c>>
      BY <1>0, <1>3, <1>7, <2>2 DEF RebuildCompareAndSet, MovedPosition, IsCurrent
    <3> QED BY <1>4, <2>2, <3>1 DEF IInv, Types, IndexTypes
  <2> QED BY <2>1, <2>2
<1>9. FileData(r)' = d /\ r \in Listed' /\ Compacting(r)'
  BY <1>2, <1>5, <1>6 DEF FileData, Listed, Compacting, Running
<1>10. Copying(r)'
  <2>1. Copied(r)' = c + 1 /\ Copied(r) = c + 1
    BY <1>1, <1>6 DEF Copied
  <2>2. UNCHANGED <<fileList[r], tmp[r], dir[r], disk[tmp[r]]>>
    BY <1>5
  <2> HIDE DEF n
  <2> QED BY <1>1, <1>2, <1>6, <1>8, <1>9, <2>1, <2>2 DEF Copying, IsOpen, RebuildSteps, n
<1>11. PICK p \in Nat : p = c + 1
  BY <1>4
<1>12. \A o \in Nat : o # p => Place(r, o)' = Place(r, o)
  <2> HIDE DEF n
  <2> QED BY <1>2, <1>6, <1>9, <1>11 DEF Place, n
<1>13. Place(r, p)' = <<n, c>> /\ Place(r, p) = <<reb[r].old, c>>
  <2>1. p <= reb'[r].offset /\ ~(p <= c) /\ p - 1 = c
    BY <1>2, <1>6, <1>11
  <2> QED BY <1>2, <1>6, <1>9, <2>1 DEF Place
<1>14. ASSUME NEW j \in Keys, NEW o \in 1 .. Known(r), Entered(j, r, o)
       PROVE  index'[j] = Place(r, o)'
  <2>1. SetsKey(r, o, j) /\ index[j] = Place(r, o) /\ o \in Nat
    BY <1>2, <1>14 DEF Entered
  <2>2. CASE o = p
    <3>1. j = k /\ reb[r].rec.val # Deleted
      BY <1>3, <1>11, <2>1, <2>2 DEF SetsKey
    <3> QED BY <1>8, <1>13, <2>2, <3>1
  <2>3. CASE o # p
    <3>1. index[j] # <<reb[r].old, c>>
      <4>1. Place(r, o)[2] = o - 1 /\ o - 1 # c
        <5> HIDE DEF c
        <5> QED BY <1>2, <1>11, <2>1, <2>3 DEF Place
      <4> QED BY <2>1, <4>1
    <3>2. index'[j] = index[j]
      BY <1>8, <3>1
    <3> QED BY <1>12, <2>1, <2>3, <3>2
  <2> QED BY <2>2, <2>3
<1>15. \A j \in Keys : index'[j] = index[j] \/ (index[j] # None /\ OwnsNode(r, index[j][1]))
  <2> SUFFICES ASSUME NEW j \in Keys, index'[j] # index[j]
               PROVE  index[j] # None /\ OwnsNode(r, index[j][1])
    OBVIOUS
  <2>1. index[j] = <<reb[r].old, c>>
    BY <1>8
  <2>2. <<reb[r].old, c>> \in Nat \X Nat
    BY <1>2 DEF Nodes
  <2> QED BY <1>2, <2>1, <2>2, StoreAssumption
<1>16. \A j \in Keys : index[j] = None => index'[j] = None
  BY <1>15
<1>17. /\ fileList'[r] \in {fileList[r], reb[r].new}
       /\ {dir'[r], tmp'[r]} \subseteq {dir[r], tmp[r], None}
       /\ dir'[r] # None => dir'[r] # tmp'[r]
       /\ \A m \in Nodes : node'[m].inode \in {node[m].inode, dir'[r], None}
  BY <1>2, <1>5, <1>8
<1> QED BY <1>1, <1>5, <1>6, <1>8, <1>9, <1>10, <1>14, <1>15, <1>16, <1>17, ThreadMap

\* The truncated file has the records of the old one.
LEMMA RebuildSwapMap ==
  ASSUME IInv, IInv', MapInv, NEW r \in Rebuilds, RebuildSwap(r)
  PROVE  MapInv' /\ MapStep
<1> DEFINE n == reb[r].new
           c == reb[r].offset
           i == tmp[r]
           d == FileData(r)
           e == disk[i]
<1>1. Running(r) /\ reb[r].pc \in RebuildSteps /\ reb[r].pc = "swap"
  BY DEF RebuildSwap, Running, RebuildSteps
<1>2. /\ Copying(r) /\ n \in Nodes /\ r \in Files /\ dir[r] # i /\ reb[r].old # n
      /\ reb[r].old \in Nodes /\ dir[r] \in Inodes /\ reb[r].slot = r
      /\ c \in Nat /\ reb[r] \in RebuildState /\ node[n] \in DataNode
      /\ d \in Seq(Records) /\ Len(d) \in Nat
  BY <1>1, ThreadFacts
<1>3. /\ IsOpen(n) /\ node[n].inode = i /\ i # None /\ node[n].totalOffset = c
      /\ Len(e) = c /\ c = Len(d)
      /\ \A o \in 1 .. c : e[o] = d[o]
  <2>1. Copied(r) = c
    BY <1>1 DEF Copied
  <2> QED BY <1>1, <1>2, <2>1 DEF Copying
<1>4. i \in Inodes /\ e \in Seq(Records)
  BY <1>2, <1>3 DEF IInv, Types, DiskTypes
<1>5. e = d
  <2> HIDE DEF d, e
  <2> QED BY <1>2, <1>3, <1>4, SeqEqual
<1>6. SubSeq(e, 1, c) = e
  <2>1. /\ SubSeq(e, 1, c) \in Seq(Records) /\ Len(SubSeq(e, 1, c)) = c
        /\ \A o \in 1 .. c : SubSeq(e, 1, c)[o] = e[o]
    <3>1. \A o \in 1 .. c : e[o] \in Records
      <4> HIDE DEF e
      <4> QED BY <1>3, <1>4, ElementOfSeq
    <3> HIDE DEF c, e
    <3> QED BY <1>2, <1>3, <1>4, <3>1, SubSeqProperties
  <2> HIDE DEF c, e
  <2> QED BY <1>3, <1>4, <2>1, SeqEqual
<1>7. KeptLength(n) = c
  BY <1>2, <1>3 DEF KeptLength, Shorter, Data
<1>8. /\ UNCHANGED disk
      /\ reb'[r] = [reb[r] EXCEPT !.pc = "rename"] /\ \A q \in Rebuilds : q # r => reb'[q] = reb[q]
      /\ node'[n] = [node[n] EXCEPT !.fd = "closed"]
      /\ \A m \in Nodes : m # n => node'[m] = node[m]
      /\ fileList'[r] = n /\ \A g \in Files : g # r => fileList'[g] = fileList[g]
      /\ UNCHANGED <<fileNum, io, faults, clashed, reply, manifest, index, dir, tmp>>
  <2>1. disk' = [disk EXCEPT ![i] = e]
    BY <1>3, <1>6, <1>7 DEF RebuildSwap
  <2>2. disk' = disk
    BY <2>1 DEF IInv, Types, DiskTypes
  <2> QED BY <1>2, <2>2 DEF RebuildSwap, IInv, Types, ListTypes, NodeTypes, counters
<1>9. /\ reb'[r].pc = "rename" /\ reb'[r].slot = reb[r].slot /\ reb'[r].old = reb[r].old
      /\ reb'[r].new = n /\ reb'[r].offset = c
      /\ node'[n].inode = i
  BY <1>2, <1>3, <1>8 DEF RebuildState, DataNode
<1>10. FileData(r)' = d
  BY <1>8 DEF FileData
<1>11. Copying(r)'
  <2>1. UNCHANGED tmp[r]
    BY <1>8
  <2>2. disk'[tmp'[r]] = d
    BY <1>5, <1>8
  <2> HIDE DEF d, n
  <2> QED BY <1>2, <1>3, <1>8, <1>9, <1>10, <2>1, <2>2 DEF Copying, RebuildSteps, n
<1>12. Running(r)'
  BY <1>9 DEF Running
<1>13. \A m \in Nodes : node'[m].inode \in {node[m].inode, dir'[r], None}
  <2>1. \A m \in Nodes : m # n => node'[m] = node[m]
    BY <1>8
  <2> HIDE DEF n
  <2> QED BY <1>3, <1>9, <2>1
<1> QED BY <1>1, <1>2, <1>8, <1>9, <1>10, <1>11, <1>12, <1>13, ThreadSame

LEMMA RebuildRenameMap ==
  ASSUME IInv, IInv', MapInv, NEW r \in Rebuilds, RebuildRename(r)
  PROVE  MapInv' /\ MapStep
<1> DEFINE n == reb[r].new
<1>1. Running(r) /\ reb[r].pc = "rename"
  BY DEF RebuildRename, Running
<1>2. /\ Copying(r) /\ r \in Files /\ reb[r].slot = r /\ reb[r] \in RebuildState
      /\ reb[r].old # n
  BY <1>1, ThreadFacts
<1>3. /\ fileList[r] = n /\ node[n].inode = tmp[r] /\ tmp[r] # None
      /\ disk[tmp[r]] = FileData(r) /\ reb[r].offset = Len(FileData(r))
  BY <1>1, <1>2 DEF Copying
<1>0. RenameTargets(r) = {r} /\ node[reb[r].old].fd # "freed"
  BY <1>1, <1>2, OwnOldNode DEF MapInv, FileInv, Appends
<1>4. /\ dir'[r] = tmp[r] /\ tmp'[r] = None
      /\ \A g \in Files : g # r => dir'[g] = dir[g] /\ tmp'[g] = tmp[g]
      /\ reb'[r] = [reb[r] EXCEPT !.pc = "reopen"] /\ \A q \in Rebuilds : q # r => reb'[q] = reb[q]
      /\ UNCHANGED <<fileNum, fileList, node, disk, io, faults, clashed, reply, manifest, index>>
  BY <1>0, <1>2, <1>3 DEF RebuildRename, IInv, Types, ListTypes, DiskTypes, mem, counters
<1>5. /\ reb'[r].pc = "reopen" /\ reb'[r].slot = reb[r].slot /\ reb'[r].old = reb[r].old
      /\ reb'[r].new = n /\ reb'[r].offset = reb[r].offset
  BY <1>2, <1>4 DEF RebuildState
<1>6. FileData(r)' = FileData(r)
  BY <1>3, <1>4 DEF FileData
<1>7. Copying(r)'
  BY <1>2, <1>3, <1>4, <1>5, <1>6 DEF Copying, RebuildSteps
<1>8. Running(r)'
  BY <1>5 DEF Running
<1> QED BY <1>1, <1>3, <1>4, <1>5, <1>6, <1>7, <1>8, ThreadSame

LEMMA RebuildReopenMap ==
  ASSUME IInv, IInv', MapInv, NEW r \in Rebuilds, RebuildReopen(r)
  PROVE  MapInv' /\ MapStep
<1> DEFINE n == reb[r].new
<1>1. Running(r) /\ reb[r].pc = "reopen"
  BY DEF RebuildReopen, Running
<1>2. /\ Copying(r) /\ r \in Files /\ reb[r].slot = r /\ reb[r] \in RebuildState
      /\ reb[r].old # n /\ dir[r] # tmp[r] /\ n \in Nodes /\ node[n] \in DataNode
  BY <1>1, ThreadFacts
<1>3. /\ fileList[r] = n /\ node[n].inode = dir[r] /\ reb[r].offset = Len(FileData(r))
  BY <1>1, <1>2 DEF Copying
<1>0. node[reb[r].old].fd # "freed"
  BY <1>1, OwnOldNode DEF MapInv, FileInv, Appends
<1>4. /\ node'[n] = [node[n] EXCEPT !.inode = dir[r], !.fd = "open", !.pos = 0]
      /\ \A m \in Nodes : m # n => node'[m] = node[m]
      /\ reb'[r] = [reb[r] EXCEPT !.pc = "free"] /\ \A q \in Rebuilds : q # r => reb'[q] = reb[q]
      /\ UNCHANGED <<fileNum, fileList, dir, tmp, disk, io, faults, clashed, reply, manifest, index>>
  BY <1>0, <1>2, <1>3 DEF RebuildReopen, IInv, Types, ListTypes, NodeTypes, mem, counters
<1>5. /\ reb'[r].pc = "free" /\ reb'[r].slot = reb[r].slot /\ reb'[r].old = reb[r].old
      /\ reb'[r].new = n /\ reb'[r].offset = reb[r].offset
      /\ node'[n].inode = dir[r] /\ node'[n].fd = "open"
  BY <1>2, <1>4 DEF RebuildState, DataNode
<1>6. FileData(r)' = FileData(r)
  BY <1>4 DEF FileData
<1>7. Copying(r)'
  BY <1>2, <1>3, <1>4, <1>5, <1>6 DEF Copying, RebuildSteps, IsOpen
<1>8. Running(r)'
  BY <1>5 DEF Running
<1>9. \A m \in Nodes : node'[m].inode \in {node[m].inode, dir'[r], None}
  BY <1>4, <1>5
<1> QED BY <1>1, <1>2, <1>4, <1>5, <1>6, <1>7, <1>8, <1>9, ThreadSame

\* The thread ends: all records of the file are in its new DataNode.
LEMMA RebuildFreeMap ==
  ASSUME IInv, IInv', MapInv, NEW r \in Rebuilds, RebuildFree(r)
  PROVE  MapInv' /\ MapStep
<1> DEFINE n == reb[r].new
           m == reb[r].old
<1>1. Running(r) /\ reb[r].pc = "free"
  BY DEF RebuildFree, Running
<1>2. /\ Copying(r) /\ r \in Files /\ r \in Listed /\ Compacting(r)
      /\ Known(r) = Len(FileData(r)) /\ Len(FileData(r)) \in Nat
      /\ m # n /\ dir[r] # tmp[r] /\ n \in Nodes /\ m \in Nodes
  BY <1>1, ThreadFacts
<1>3. /\ fileList[r] = n /\ node[n].inode = dir[r] /\ reb[r].offset = Len(FileData(r))
      /\ IsOpen(n)
  BY <1>1, <1>2 DEF Copying
<1>0. node[m].fd # "freed"
  BY <1>1, OwnOldNode DEF MapInv, FileInv, Appends
<1>4. /\ node'[m].inode = None
      /\ \A x \in Nodes : x # m => node'[x] = node[x]
      /\ reb'[r].pc = "done" /\ \A q \in Rebuilds : q # r => reb'[q] = reb[q]
      /\ UNCHANGED <<fileNum, fileList, dir, tmp, disk, io, faults, clashed, reply, manifest, index>>
  BY <1>0, <1>2 DEF RebuildFree, IInv, Types, ListTypes, NodeTypes, mem, counters, NoNode, IdleRebuild
<1>5. FileData(r)' = FileData(r)
  BY <1>4 DEF FileData
<1>6. ~Running(r)' /\ ~Compacting(r)'
  BY <1>4 DEF Running, Compacting
<1>7. Opened(r)'
  BY <1>2, <1>3, <1>4 DEF Opened, IsOpen
<1>8. \A x \in Nodes : node'[x].inode \in {node[x].inode, dir'[r], None}
  BY <1>4
<1>9. \A k \in Keys : \A o \in 1 .. Known(r) : Entered(k, r, o) => index'[k] = Place(r, o)'
  <2> SUFFICES ASSUME NEW k \in Keys, NEW o \in 1 .. Known(r), Entered(k, r, o)
               PROVE  index'[k] = Place(r, o)'
    OBVIOUS
  <2>1. o <= reb[r].offset
    BY <1>2, <1>3
  <2>2. Place(r, o) = <<n, o - 1>>
    BY <1>2, <2>1 DEF Place
  <2>3. Place(r, o)' = <<n, o - 1>>
    BY <1>3, <1>4, <1>6 DEF Place
  <2> QED BY <1>4, <2>2, <2>3 DEF Entered
<1> QED BY <1>1, <1>2, <1>4, <1>5, <1>6, <1>7, <1>8, <1>9, ThreadMap

\* A thread that starts before the next rotation works on its own file.
LEMMA RebuildStartMap ==
  ASSUME IInv, IInv', MapInv, MapConditions, Prompt, NEW r \in Rebuilds, RebuildStart(r)
  PROVE  MapInv' /\ MapStep
<1> DEFINE i == IF tmp[r] = None THEN NewInode ELSE tmp[r]
           n == NewNode
           m == fileList[r]
<1>1. reb[r].pc = "start" /\ RebuildSlot = r /\ r < fileNum
  BY DEF RebuildStart, RebuildSlot, Prompt, IInv, RebuildsBehind
<1>2. /\ r \in Files /\ r \in Listed /\ r # fileNum /\ dir[r] \in Inodes /\ m \in Nodes
      /\ FileData(r) \in Seq(Records) /\ Len(FileData(r)) \in Nat /\ r \in 1 .. fileNum
  <2>1. r \in Listed /\ r # fileNum
    BY <1>1, StoreAssumption DEF Listed, Rebuilds, IInv, Types, ListTypes
  <2> QED BY <2>1, FilesTyped DEF FileTypes, Listed
<1>3. ~Compacting(r) /\ ~Running(r)
  BY <1>1 DEF Compacting, Running
<1>4. IsOpen(m) /\ node[m].inode = dir[r]
  BY <1>1, <1>2, <1>3 DEF MapInv, FileInv, FilesStored, Opened
<1>5. i \in Inodes /\ i # dir[r] /\ i # None
  <2>1. i \in Inodes
    BY <1>2, FreeInode DEF IInv, Types, DiskTypes
  <2>2. i # dir[r]
    BY <1>2, FreeInode, StoreAssumption DEF MapInv, FileInv, FilesApart, Inodes
  <2> QED BY <2>1, <2>2, StoreAssumption DEF Inodes
<1>6. n \in Nodes /\ node[n] = NoNode
  <2>1. fileNum \in Nat /\ fileNum <= MAXFILE
    BY StoreAssumption DEF IInv, Types, ListTypes
  <2>2. r \notin Started /\ Cardinality(Started) < MAXFILE - 1
    BY <1>1, StartedNotAll DEF Started
  <2>3. Cardinality(Allocated) < 2 * MAXFILE
    BY <2>1, <2>2, AllocatedFinite, StartedFinite, StoreAssumption DEF IInv, NodesCounted
  <2> QED BY <2>3, FreeNode
<1>7. m # n
  BY <1>4, <1>6 DEF IsOpen, NoNode
<1>0. ~clashed'
  <2>1. ASSUME NEW q \in Rebuilds, Running(q), reb[q].old = m PROVE FALSE
    <3>1. q # r /\ OwnsNode(q, m) /\ q \in Files
      BY <1>3, <2>1, ThreadFacts
    <3>2. OwnsNode(r, m)
      BY <1>2 DEF OwnsNode
    <3> QED BY <1>2, <3>1, <3>2 DEF MapInv, FileInv, FilesApart
  <2>2. fileList[RebuildSlot] = m
    BY <1>1
  <2> HIDE DEF m
  <2> QED BY <2>1, <2>2 DEF RebuildStart, Running, MapInv, FileInv, Appends
<1>8. /\ tmp' = [tmp EXCEPT ![r] = i] /\ disk' = [disk EXCEPT ![i] = << >>]
      /\ node' = [node EXCEPT ![n] = [NoNode EXCEPT !.inode = i, !.fd = "open"]]
      /\ reb' = [reb EXCEPT ![r] = [IdleRebuild EXCEPT !.pc = "seek", !.slot = r,
                                                       !.old = m, !.new = n]]
      /\ UNCHANGED <<fileNum, fileList, index, dir, manifest, io, reply, faults>>
  <2>1. FALSE \notin TmpOpens
    BY DEF MapConditions
  <2> QED BY <1>1, <2>1 DEF RebuildStart, mem
<1>9. /\ node'[n].inode = i /\ node'[n].fd = "open" /\ node'[n].totalOffset = 0
      /\ \A x \in Nodes : x # n => node'[x] = node[x]
  BY <1>6, <1>8 DEF NoNode, IInv, Types, NodeTypes
<1>10. /\ reb'[r].pc = "seek" /\ reb'[r].slot = r /\ reb'[r].old = m /\ reb'[r].new = n
       /\ reb'[r].offset = 0 /\ \A q \in Rebuilds : q # r => reb'[q] = reb[q]
  BY <1>8 DEF IdleRebuild, IInv, Types, ListTypes
<1>11. /\ disk'[i] = << >> /\ \A j \in Inodes : j # i => disk'[j] = disk[j]
       /\ tmp'[r] = i /\ \A g \in Files : g # r => tmp'[g] = tmp[g]
  BY <1>2, <1>5, <1>8 DEF IInv, Types, DiskTypes
<1>12. \A g \in Files : ~OwnsNode(g, n)
  <2> SUFFICES ASSUME NEW g \in Files, OwnsNode(g, n) PROVE FALSE
    OBVIOUS
  <2>1. node[n].fd = "none"
    BY <1>6 DEF NoNode
  <2>2. \A h \in Listed : fileList[h] # n
    BY <2>1 DEF IInv, ActiveApart, Listed
  <2>3. \A q \in Rebuilds : Running(q) => reb[q].old # n /\ reb[q].new # n
    BY <2>1, RunningTypes
  <2> QED BY <2>2, <2>3 DEF OwnsNode, Compacting
<1>13. OwnsNode(r, m) /\ (Owns(r, i) \/ \A g \in Files : ~Owns(g, i))
  <2>1. OwnsNode(r, m)
    BY <1>2 DEF OwnsNode
  <2>2. CASE tmp[r] = None
    <3>1. i = NewInode
      BY <2>2
    <3> QED BY <2>1, <3>1, FreeInode DEF Owns
  <2>3. CASE tmp[r] # None
    BY <2>1, <2>3 DEF Owns
  <2> QED BY <2>2, <2>3
<1>14. FileData(r)' = FileData(r)
  BY <1>2, <1>5, <1>8, <1>11 DEF FileData
<1>15. \A x \in Nodes : OwnsNode(r, x)' => x = m \/ x = n
  BY <1>8, <1>10 DEF OwnsNode
<1>16. \A j \in Inodes : Owns(r, j)' => j = i \/ Owns(r, j)
  <2> SUFFICES ASSUME NEW j \in Inodes, Owns(r, j)', j # i PROVE Owns(r, j)
    OBVIOUS
  <2>1. CASE j \in {dir'[r], tmp'[r]}
    BY <1>8, <1>11, <2>1 DEF Owns
  <2>2. CASE \E x \in Nodes : OwnsNode(r, x)' /\ node'[x].inode = j
    <3>1. node'[m].inode = j
      BY <1>9, <1>15, <2>2
    <3> QED BY <1>2, <1>7, <1>9, <1>13, <3>1 DEF Owns
  <2> QED BY <2>1, <2>2 DEF Owns
<1>17. Compacting(r)' /\ Copying(r)'
  <2>1. Compacting(r)'
    BY <1>1, <1>8, <1>10 DEF Compacting, Listed, Running
  <2>2. Copied(r)' = 0
    BY <1>10 DEF Copied
  <2>3. Len(disk'[i]) = 0
    BY <1>11
  <2>4. node'[m].fd = "open" /\ node'[m].inode = dir'[r] /\ fileList'[r] = m
    BY <1>2, <1>4, <1>7, <1>8, <1>9 DEF IsOpen
  <2> HIDE DEF m, n, i
  <2>5. node'[reb'[r].old].fd = "open" /\ node'[reb'[r].new].fd = "open"
    BY <1>9, <1>10, <2>4
  <2>6. IsOpen(reb[r].old)' /\ IsOpen(reb[r].new)'
    BY <2>5 DEF IsOpen
  <2>7. 0 <= Len(FileData(r)') /\ \A o \in 1 .. 0 : disk'[tmp'[r]][o] = FileData(r)'[o]
    BY <1>2, <1>14
  <2>8. Copying(r)'
    BY <1>5, <1>7, <1>9, <1>10, <1>11, <2>2, <2>3, <2>4, <2>6, <2>7 DEF Copying, RebuildSteps
  <2> QED BY <2>1, <2>8
<1>18. \A k \in Keys : \A o \in 1 .. Known(r) : Entered(k, r, o) => index'[k] = Place(r, o)'
  <2> SUFFICES ASSUME NEW k \in Keys, NEW o \in 1 .. Known(r), Entered(k, r, o)
               PROVE  index'[k] = Place(r, o)'
    OBVIOUS
  <2>1. o \in Nat /\ o > 0
    BY <1>2 DEF Known
  <2>2. Place(r, o) = <<m, o - 1>>
    BY <1>3 DEF Place
  <2>3. Place(r, o)' = <<m, o - 1>>
    BY <1>10, <1>17, <2>1 DEF Place
  <2> QED BY <1>8, <2>2, <2>3 DEF Entered
<1>19. io.pc \notin {"lookup", "seek", "read"}
  BY <1>1 DEF MapInv, GetsAlone
<1>20. dir'[r] # tmp'[r]
  BY <1>5, <1>8, <1>11
<1>21. \A g \in Files : g # r => UNCHANGED <<dir[g], tmp[g], fileList[g]>>
  BY <1>8, <1>11
<1>22. /\ \A x \in Nodes : OwnsNode(r, x) \/ (\A g \in Files : ~OwnsNode(g, x)) \/ node'[x] = node[x]
       /\ \A j \in Inodes : Owns(r, j) \/ (\A g \in Files : ~Owns(g, j)) \/ disk'[j] = disk[j]
       /\ \A x \in Nodes : OwnsNode(r, x)' => OwnsNode(r, x) \/ \A g \in Files : ~OwnsNode(g, x)
       /\ \A j \in Inodes : Owns(r, j)' => Owns(r, j) \/ \A g \in Files : ~Owns(g, j)
  <2> HIDE DEF m, n, i
  <2> QED BY <1>9, <1>11, <1>12, <1>13, <1>15, <1>16
<1> QED BY <1>0, <1>1, <1>2, <1>8, <1>10, <1>14, <1>17, <1>18, <1>19, <1>20, <1>21, <1>22, RebuildMap

-----------------------------------------------------------------------------
(* A crash between two records and the restart *)

\* The restart finds the files that have names, with all their records.
LEMMA RestartMap ==
  ASSUME IInv, IInv', MapInv, MapConditions, CrashRestart
  PROVE  MapInv' /\ MapStep
<1> DEFINE num == manifest.num
           names == manifest.names
<1>1. /\ FileInv /\ RecordInv /\ io.pc # "finish"
      /\ fileNum' = num /\ ~clashed' /\ UNCHANGED <<disk, dir, tmp, manifest, reply, faults>>
      /\ io'.pc = "ready" /\ io'.cmd = << >> /\ \A r \in Rebuilds : reb'[r].pc = "idle"
      /\ \A f \in Files : fileList'[f] = IF f <= num THEN f ELSE 0
      /\ \A n \in Nodes : node'[n] = RecoveredNode(n)
      /\ \A k \in Keys : index'[k] = IF RecoveredPositions(k) = {} THEN None
                                     ELSE LastPosition(RecoveredPositions(k))
  BY DEF CrashRestart, Restart, MapConditions, MapInv, IdleIo, IdleRebuild
<1>2. /\ num \in Nat /\ names \in Nat /\ fileNum \in Nat
      /\ names <= num /\ num <= fileNum /\ num <= names + 1 /\ num <= MAXFILE
      /\ names < num => num = fileNum
  <2>1. manifest \in [num : 0 .. MAXFILE, names : 0 .. MAXFILE] /\ fileNum \in 0 .. MAXFILE
    BY DEF IInv, Types, ListTypes
  <2> QED BY <2>1, StoreAssumption DEF IInv, FilesInOrder, HalfManifest
<1>3. /\ Listed' = 1 .. num /\ \A f \in Listed' : f \in Listed /\ f \in Files /\ f \in Nodes
      /\ \A f \in Files : Named(f) => f \in Listed'
  BY <1>1, <1>2, StoreAssumption DEF Listed, Files, Nodes, Named
<1>4. \A f : FileData(f)' = FileData(f)
  BY <1>1 DEF FileData
<1>5. /\ \A f : Clean(f)' = Len(FileData(f)) /\ Clean(f) = Len(FileData(f))
      /\ \A f : Known(f)' = Len(FileData(f))
  BY <1>1, <1>4 DEF Clean, Known, Appending
<1>6. \A f : ~Compacting(f)'
  BY <1>1 DEF Compacting, Running
<1>7. ASSUME NEW f \in Listed'
      PROVE  /\ fileList'[f] = f
             /\ node'[f].inode \in {dir[f], None}
             /\ Named(f) => /\ node'[f].fd = "open" /\ node'[f].inode = dir[f]
                            /\ node'[f].totalOffset = Len(FileData(f))
             /\ ~Named(f) => node'[f].fd = "closed" /\ f = num /\ FileData(f) = << >>
  <2>1. f \in Files /\ f \in Nodes /\ f <= num /\ ~(f > num) /\ f \in Nat
    BY <1>2, <1>3 DEF Nodes
  <2>2. fileList'[f] = f /\ node'[f] = RecoveredNode(f)
    BY <1>1, <2>1
  <2>3. CASE Named(f)
    <3>1. Len(Recovered(f)) = Len(FileData(f))
      BY <1>1, <1>5, <2>1, <2>3, RecoveredIsClean DEF FileInv
    <3> QED BY <2>1, <2>2, <2>3, <3>1 DEF RecoveredNode
  <2>4. CASE ~Named(f)
    <3>1. node'[f].fd = "closed" /\ node'[f].inode = None
      BY <2>1, <2>2, <2>4 DEF RecoveredNode, NoNode
    <3>2. names < f
      BY <1>2, <2>1, <2>4 DEF Named
    <3>3. f = num /\ f = fileNum /\ names < fileNum
      BY <1>2, <2>1, <3>2
    <3>4. FileData(f) = << >>
      BY <1>1, <3>3 DEF FileInv, RecordsWhole
    <3> QED BY <2>2, <2>4, <3>1, <3>3, <3>4
  <2> QED BY <2>3, <2>4
<1>8. \A f \in Files : \A n \in Nodes : OwnsNode(f, n)' => f \in Listed' /\ n = f
  BY <1>6, <1>7 DEF OwnsNode
<1>9. \A f \in Files : \A i \in Inodes : Owns(f, i)' => i \in {dir[f], tmp[f]}
  <2>1. None \notin Inodes
    BY StoreAssumption DEF Inodes
  <2>2. \A f \in Files : \A n \in Nodes : OwnsNode(f, n)' => node'[n].inode \in {dir[f], None}
    BY <1>7, <1>8
  <2> QED BY <1>1, <2>1, <2>2 DEF Owns
<1>10. FilesApart'
  <2>1. \A f, g \in Files : f # g => \A n \in Nodes : ~(OwnsNode(f, n)' /\ OwnsNode(g, n)')
    BY <1>8
  <2>2. \A f, g \in Files : f # g => \A i \in Inodes : ~(Owns(f, i)' /\ Owns(g, i)')
    <3>1. \A f \in Files : \A i \in Inodes : Owns(f, i)' => Owns(f, i)
      BY <1>9 DEF Owns
    <3> QED BY <1>1, <3>1 DEF FileInv, FilesApart
  <2>3. \A f \in Files : dir'[f] # None => dir'[f] # tmp'[f]
    BY <1>1 DEF FileInv, FilesApart
  <2> QED BY <2>1, <2>2, <2>3 DEF FilesApart
<1>11. FilesStored'
  <2> SUFFICES ASSUME NEW f \in Listed' PROVE Opened(f)'
    BY <1>6 DEF FilesStored
  <2>1. f < fileNum' => Named(f)
    BY <1>1, <1>2, <1>7
  <2> QED BY <1>1, <1>7, <2>1 DEF Opened, IsOpen
<1>12. RecordsWhole'
  <2>1. \A f \in Listed' : \A o \in 1 .. Clean(f)' : FileData(f)'[o].val # Torn
    BY <1>1, <1>3, <1>4, <1>5 DEF FileInv, RecordsWhole
  <2>2. manifest'.names < fileNum' => FileData(fileNum)' = << >>
    <3> SUFFICES ASSUME names < num PROVE FileData(fileNum)' = << >>
      BY <1>1
    <3>1. fileNum' = fileNum /\ FileData(fileNum) = << >>
      BY <1>1, <1>2 DEF FileInv, RecordsWhole
    <3> QED BY <1>1, <3>1 DEF FileData
  <2> QED BY <2>1, <2>2 DEF RecordsWhole
<1>13. Appends'
  <2>1. ASSUME fileNum' > 0, IsOpen(Active)'
        PROVE  node'[Active'].totalOffset = Clean(fileNum)'
    <3>1. num \in Listed' /\ Active' = num
      BY <1>1, <1>2, <1>3, <1>7, <2>1 DEF Active
    <3>2. Named(num) /\ node'[num].totalOffset = Len(FileData(num))
      BY <1>7, <2>1, <3>1 DEF IsOpen
    <3>3. Clean(fileNum)' = Len(FileData(num))
      BY <1>1 DEF Clean, FileData
    <3> QED BY <3>1, <3>2, <3>3
  <2> QED BY <1>1, <2>1 DEF Appends, Appending
<1>14. FileInv'
  BY <1>10, <1>11, <1>12, <1>13 DEF FileInv
<1>15. /\ ValuesKnown
       /\ \A k \in Keys : index'[k] = IF SetPositions(k) = {} THEN None
                                      ELSE LastPosition(SetPositions(k))
  <2>1. PositionsKnown /\ ValuesKnown
    BY <1>1, PositionsAre, ValuesAre DEF FileInv
  <2> QED BY <1>1, <2>1 DEF PositionsKnown
<1>16. \A f \in Listed' : \A o : Place(f, o)' = <<f, o - 1>>
  BY <1>6, <1>7 DEF Place
<1>17. SetOnce'
  <2>1. \A f \in Listed' : \A o : \A k : SetsKey(f, o, k)' <=> SetsKey(f, o, k)
    BY <1>4 DEF SetsKey
  <2> QED BY <1>1, <1>3, <1>5, <2>1 DEF RecordInv, SetOnce
<1>18. ASSUME NEW k \in Keys, SetPositions(k) # {}
       PROVE  \E f \in Listed' : \E o \in 1 .. Len(FileData(f)) :
                /\ index'[k] = <<f, o - 1>> /\ SetsKey(f, o, k)
                /\ RecoveredValue(k) = FileData(f)[o].val
  <2>1. PICK p \in SetPositions(k) : p = LastPosition(SetPositions(k))
    BY <1>15, <1>18 DEF ValuesKnown
  <2>2. index'[k] = p /\ RecoveredValue(k) = FileData(p[1])[p[2] + 1].val
    BY <1>15, <1>18, <2>1 DEF ValuesKnown
  <2>3. /\ p \in Files \X Nat /\ Named(p[1])
        /\ p[2] + 1 \in 1 .. Clean(p[1]) /\ SetsKey(p[1], p[2] + 1, k)
    BY DEF SetPositions
  <2>4. p[1] \in Listed' /\ p[2] + 1 \in 1 .. Len(FileData(p[1])) /\ p = <<p[1], p[2] + 1 - 1>>
    BY <1>3, <1>5, <2>3
  <2> QED BY <2>2, <2>3, <2>4
<1>19. Current'
  <2> SUFFICES ASSUME NEW f \in Listed', NEW o \in 1 .. Len(FileData(f)), NEW k \in Keys,
                      f < MAXFILE, SetsKey(f, o, k)
               PROVE  index'[k] = <<f, o - 1>>
    <3>1. \A f \in Listed' : \A o : \A k : SetsKey(f, o, k)' <=> SetsKey(f, o, k)
      BY <1>4 DEF SetsKey
    <3> QED BY <1>5, <1>16, <3>1 DEF Current
  <2>1. f \in Files /\ f \in Listed /\ Len(FileData(f)) \in Nat /\ Clean(f) = Len(FileData(f))
    BY <1>3, <1>5, FilesTyped DEF FileTypes
  <2>2. Named(f)
    <3>1. FileData(f) # << >>
      BY <2>1
    <3> QED BY <1>7, <3>1
  <2>3. <<f, o - 1>> \in SetPositions(k)
    <3> DEFINE p == <<f, o - 1>>
    <3>1. p \in Files \X Nat /\ p[1] = f /\ p[2] + 1 = o
      BY <2>1
    <3> HIDE DEF p
    <3> QED BY <2>1, <2>2, <3>1 DEF SetPositions
  <2>4. PICK g \in Listed' : \E q \in 1 .. Len(FileData(g)) :
                index'[k] = <<g, q - 1>> /\ SetsKey(g, q, k)
    BY <1>18, <2>3
  <2>5. PICK q \in 1 .. Len(FileData(g)) : index'[k] = <<g, q - 1>> /\ SetsKey(g, q, k)
    BY <2>4
  <2>6. f = g /\ o = q
    BY <1>1, <1>3, <1>5, <2>1, <2>5 DEF RecordInv, SetOnce
  <2> QED BY <2>5, <2>6
<1>20. EntriesLead'
  <2> SUFFICES ASSUME NEW k \in Keys, index'[k] # None
               PROVE  \E f \in Listed' : \E o \in 1 .. Len(FileData(f)) :
                        index'[k] = <<f, o - 1>> /\ SetsKey(f, o, k)
    <3>1. \A f \in Listed' : \A o : \A k : SetsKey(f, o, k)' <=> SetsKey(f, o, k)
      BY <1>4 DEF SetsKey
    <3> QED BY <1>5, <1>16, <3>1 DEF EntriesLead
  <2>1. SetPositions(k) # {}
    BY <1>15
  <2> QED BY <1>18, <2>1
<1>21. \A k \in Keys : ValueAt(k)' = RecoveredValue(k)
  <2> SUFFICES ASSUME NEW k \in Keys PROVE ValueAt(k)' = RecoveredValue(k)
    OBVIOUS
  <2>1. IInv' /\ FileInv' => EntryValues'
    BY EntryValue, PTL
  <2>2. CASE SetPositions(k) = {}
    BY <1>14, <1>15, <2>1, <2>2 DEF EntryValues, ValuesKnown
  <2>3. CASE SetPositions(k) # {}
    <3>1. PICK f \in Listed' : \E o \in 1 .. Len(FileData(f)) :
                /\ index'[k] = <<f, o - 1>> /\ SetsKey(f, o, k)
                /\ RecoveredValue(k) = FileData(f)[o].val
      BY <1>18, <2>3
    <3>2. PICK o \in 1 .. Len(FileData(f)) :
                /\ index'[k] = <<f, o - 1>> /\ SetsKey(f, o, k)
                /\ RecoveredValue(k) = FileData(f)[o].val
      BY <3>1
    <3>3. Entered(k, f, o)'
      BY <1>4, <1>5, <1>16, <3>2 DEF Entered, SetsKey
    <3> QED BY <1>4, <1>14, <2>1, <3>2, <3>3 DEF EntryValues
  <2> QED BY <2>2, <2>3
<1>22. \A k \in Keys : RecoveredValue(k)' = RecoveredValue(k)
  BY <1>1 DEF RecoveredValue, RecoveredPositions, Recovered, Named
<1>23. MapStep
  <2>1. [k \in Keys |-> RecoveredValue(k)]' = [k \in Keys |-> RecoveredValue(k)]
    BY <1>22
  <2>2. [k \in Keys |-> ValueAt(k)]' = [k \in Keys |-> RecoveredValue(k)]'
    BY <1>21, <1>22
  <2>3. Map!Crash
    BY <1>1, <2>1, <2>2 DEF Map!Crash
  <2> QED BY <2>3 DEF MapStep, Map!MapNext
<1>24. Allowed' /\ GetsAlone' /\ TaskKnown'
  BY <1>1 DEF MapInv, Allowed, GetsAlone, TaskKnown, WriteSteps
<1> QED BY <1>14, <1>17, <1>19, <1>20, <1>23, <1>24 DEF MapInv, RecordInv

-----------------------------------------------------------------------------
(* The store implements the key-value map *)

LEMMA StutterMap == ASSUME MapInv, UNCHANGED vars PROVE MapInv' /\ MapStep
<1>1. UNCHANGED <<OFFLIMIT, fileNum, fileList, node, disk, dir, tmp, manifest, index, io, reb,
                  reply, faults, clashed>>
  BY DEF vars, mem, counters
<1>2. /\ Listed' = Listed
      /\ \A f : (Compacting(f)' <=> Compacting(f)) /\ FileData(f)' = FileData(f)
      /\ \A f : Clean(f)' = Clean(f) /\ Known(f)' = Known(f)
      /\ \A f, n : OwnsNode(f, n)' <=> OwnsNode(f, n)
      /\ \A f, i : Owns(f, i)' <=> Owns(f, i)
      /\ \A f, o : Place(f, o)' = Place(f, o)
      /\ \A f, o, k : SetsKey(f, o, k)' <=> SetsKey(f, o, k)
  <2>1. Listed' = Listed /\ \A f : FileData(f)' = FileData(f)
    BY <1>1 DEF Listed, FileData
  <2>2. \A f : Compacting(f)' <=> Compacting(f)
    BY <1>1 DEF Compacting, Running
  <2>3. \A f : Clean(f)' = Clean(f) /\ Known(f)' = Known(f)
    BY <1>1, <2>1 DEF Clean, Known, Appending
  <2>4. \A f, n : OwnsNode(f, n)' <=> OwnsNode(f, n)
    BY <1>1, <2>1, <2>2 DEF OwnsNode
  <2>5. \A f, i : Owns(f, i)' <=> Owns(f, i)
    BY <1>1, <2>4 DEF Owns
  <2>6. \A f, o : Place(f, o)' = Place(f, o)
    BY <1>1, <2>2 DEF Place
  <2>7. \A f, o, k : SetsKey(f, o, k)' <=> SetsKey(f, o, k)
    BY <2>1 DEF SetsKey
  <2> QED BY <2>1, <2>2, <2>3, <2>4, <2>5, <2>6, <2>7
<1>3. FilesApart'
  BY <1>1, <1>2 DEF MapInv, FileInv, FilesApart
<1>4. FilesStored'
  <2>1. \A f : (Copying(f)' <=> Copying(f)) /\ (Opened(f)' <=> Opened(f))
    BY <1>1, <1>2 DEF Copying, Copied, Opened, IsOpen
  <2> QED BY <1>2, <2>1 DEF MapInv, FileInv, FilesStored
<1>5. RecordsWhole' /\ Appends'
  BY <1>1, <1>2 DEF MapInv, FileInv, RecordsWhole, Appends, Active, IsOpen, Appending
<1>6. SetOnce' /\ Current' /\ EntriesLead'
  BY <1>1, <1>2 DEF MapInv, RecordInv, SetOnce, Current, EntriesLead
<1>7. Allowed' /\ GetsAlone' /\ TaskKnown'
  BY <1>1 DEF MapInv, Allowed, GetsAlone, TaskKnown, Active
<1>8. SameMap
  <2>1. \A k \in Keys : ValueAt(k)' = ValueAt(k)
    BY <1>1 DEF ValueAt, Data
  <2>2. \A k \in Keys : RecoveredValue(k)' = RecoveredValue(k)
    BY <1>1 DEF RecoveredValue, RecoveredPositions, Recovered, Named
  <2> QED BY <2>1, <2>2 DEF SameMap
<1>9. MapStep
  BY <1>1, <1>8, MapStutters
<1> QED BY <1>3, <1>4, <1>5, <1>6, <1>7, <1>9 DEF MapInv, FileInv, RecordInv

LEMMA InitMap == ASSUME Init, IInv PROVE MapInv /\ Map!MapInit
<1>1. /\ Listed = {} /\ fileNum = 0 /\ io.pc = "ready" /\ io.cmd = << >> /\ faults \in Nat /\ ~clashed
      /\ \A r \in Rebuilds : reb[r].pc = "idle"
      /\ \A f \in Files : dir[f] = None /\ tmp[f] = None
      /\ \A k \in Keys : index[k] = None
      /\ manifest.names = 0 /\ reply = Ok
  BY DEF Init, Listed, IdleIo, IdleRebuild
<1>2. \A f, n : ~OwnsNode(f, n)
  BY <1>1 DEF OwnsNode, Compacting, Running
<1>3. FilesApart
  <2>1. None \notin Inodes
    BY StoreAssumption DEF Inodes
  <2> QED BY <1>1, <1>2, <2>1 DEF FilesApart, Owns
<1>4. FilesStored /\ RecordsWhole /\ Appends
  BY <1>1 DEF FilesStored, RecordsWhole, Appends, Appending
<1>5. RecordInv
  BY <1>1 DEF RecordInv, SetOnce, Current, EntriesLead
<1>6. Allowed /\ GetsAlone /\ TaskKnown
  BY <1>1 DEF Allowed, GetsAlone, TaskKnown, WriteSteps
<1>7. \A k \in Keys : ValueAt(k) = Deleted
  BY <1>1 DEF ValueAt
<1>8. \A k \in Keys : RecoveredValue(k) = Deleted
  <2>1. \A f \in Files : ~Named(f)
    BY <1>1 DEF Named, Files
  <2>2. \A k : RecoveredPositions(k) = {}
    BY <2>1 DEF RecoveredPositions
  <2> QED BY <2>2 DEF RecoveredValue
<1>9. Map!MapInit
  BY <1>1, <1>7, <1>8 DEF Map!MapInit
<1> QED BY <1>3, <1>4, <1>5, <1>6, <1>9 DEF MapInv, FileInv

LEMMA NextMap ==
  ASSUME MapConditions, IInv, IInv', MapInv, Prompt, [Next]_vars
  PROVE  MapInv' /\ MapStep
<1>1. ASSUME NEW k \in Bound.keys,
             CallGet(k) \/ CallWrite(<<"del", k, Deleted>>)
             \/ \E v \in Values : CallWrite(<<"set", k, v>>)
      PROVE  MapInv' /\ MapStep
  <2>1. k \in Keys
    BY StoreAssumption DEF IInv, Types, ListTypes, Bound
  <2>2. <<"del", k, Deleted>> \in Writes /\ \A v \in Values : <<"set", k, v>> \in Writes
    BY <2>1 DEF Writes
  <2> QED BY <1>1, <2>1, <2>2, CallGetMap, CallWriteMap
<1>2. CASE DiskIO
  BY <1>2, GetLookupMap, GetSeekMap, GetReadMap, CheckSkipMap, CheckCreateMap,
     CheckManifestNumMap, CheckManifestNameMap, AppendStartMap, AppendFinishMap,
     UpdateIndexMap DEF DiskIO
<1>3. CASE AppendFault
  BY <1>3, AppendFaultMap
<1>4. ASSUME NEW r \in Rebuilds, RebuildFile(r) PROVE MapInv' /\ MapStep
  BY <1>4, RebuildStartMap, RebuildSeekMap, RebuildReadMap, RebuildSeekEndMap,
     RebuildWriteMap, RebuildCompareAndSetMap, RebuildSwapMap, RebuildRenameMap,
     RebuildReopenMap, RebuildFreeMap DEF RebuildFile
<1>7. ASSUME NEW r \in Rebuilds, RebuildAborts(r) PROVE FALSE
  <2>1. Running(r)
    BY <1>7 DEF RebuildAborts, Running
  <2> QED BY <1>7, <2>1, OwnOldNode DEF RebuildAborts, MapInv, FileInv, Appends
<1>5. CASE CrashRestart
  BY <1>5, RestartMap
<1>6. CASE UNCHANGED vars
  BY <1>6, StutterMap
<1> QED BY <1>1, <1>2, <1>3, <1>4, <1>5, <1>6, <1>7 DEF Next

\* The store is the key-value map it promises to be (ImplementsMap), with any
\* number of files, when no set or delete meets the compaction of an older
\* record of its key, no append fails or is cut off by a crash, gets come
\* outside of compactions, ./tmpDir can be written, and every rebuildFile
\* thread starts before the rotation after its own.
THEOREM PromptStoreIsMap == MapConditions => (Spec /\ []Prompt => ImplementsMap)
<1>1. SUFFICES ASSUME MapConditions PROVE Spec /\ []Prompt => ImplementsMap
  OBVIOUS
<1>2. Init => MapInv /\ Map!MapInit
  BY InitIInv, InitMap
<1>3. IInv /\ IInv' /\ MapInv /\ Prompt /\ [Next]_vars => MapInv' /\ MapStep
  BY <1>1, NextMap
<1> QED BY <1>2, <1>3, Invariant, PTL DEF Spec, ImplementsMap, Map!MapSpec, MapStep

=============================================================================
