---------------------------- MODULE SimpleKVStore ----------------------------
(***************************************************************************)
(* The storage engine of simplekvsvr_v2: an append-only log in a list of   *)
(* files (datanode.h), an in-memory index from keys to record positions    *)
(* (simplekvindex.h), one diskIO thread that executes the commands, and a  *)
(* rebuildFile thread per file rotation that compacts the file before the  *)
(* active one while diskIO goes on (simplekvstore.h).                      *)
(*                                                                         *)
(* Every record takes one unit of offset, and OFFLIMIT is in that unit.    *)
(* Lists count from 1: fileList[i] is the code's fileList[i - 1].          *)
(* An lseek and the read or write that follows it are separate steps       *)
(* wherever two threads share the descriptor.                              *)
(***************************************************************************)
EXTENDS Integers, Sequences, FiniteSets

CONSTANTS
  Keys, Values,
  Deleted,   \* the empty value of the record a delete appends (valueLen = 0)
  Torn,      \* a record whose bytes are not all in the file
  Garbage,   \* a reply made of bytes that are no value of the key
  Ok, Fail,  \* the replies of the logic layer: +OK, +ERROR
  None,      \* no index entry, no inode
  MAXFILE,
  \* Bounds and the environment of a run:
  Bounds,            \* for each value of OFFLIMIT: the keys in use, MaxWrites,
                     \* MaxFaults, how many rebuilds may run when a get comes,
                     \* MaxGets: how many gets come while rebuilds run, and
                     \* MaxOffset: how far a thread reads on in a clash, as it may
                     \* for ever when it reads the file that it writes
  TmpOpens,          \* the outcomes of creating a file in ./tmpDir
  MaxCrashes,
  CrashAt,           \* the steps of diskIO at which a crash may hit
  Overwrites,        \* which keys that are set are set again or deleted: "any",
                     \* "none", or those of the "lastFile", which no rebuild reads
  WritesAfterTorn    \* FALSE: no set or delete comes once the active file ends in a
                     \* torn record

ASSUME StoreAssumption ==
  /\ DOMAIN Bounds \subseteq Nat
  /\ \A o \in DOMAIN Bounds :
       Bounds[o] \in [keys : SUBSET Keys, MaxWrites : Nat, MaxFaults : Nat, MaxGets : Nat,
                     MaxOffset : Nat, getRebuilds : SUBSET (0 .. MAXFILE)]
  /\ MAXFILE \in Nat \ {0}
  /\ MaxCrashes \in Nat
  /\ TmpOpens \subseteq BOOLEAN
  /\ Overwrites \in {"any", "lastFile", "none"}
  /\ WritesAfterTorn \in BOOLEAN
  /\ Deleted \notin Values /\ None \notin Nat /\ None \notin Nat \X Nat

VARIABLES
  OFFLIMIT,   \* never changes
  fileNum, fileList,
  node,       \* the DataNode objects: inode, totalOffset, fd state, fd position
  disk,       \* disk[i]: the records of inode i
  dir, tmp,   \* dir[f], tmp[f]: the inode of KVDBFile/KVDB<f>, ./tmpDir/KVDB<f>
  manifest,   \* manFile: the file count and how many names follow it
  index,
  io,         \* the diskIO thread: its next step, its task and its position
  reb,        \* reb[r]: the rebuildFile thread of rotation r
  reply,      \* the result of the last task, << >> from the next one on
  latest,     \* history: the value each key should have, by the last command
              \* completed since the server started, or else by what it found
  writes, gets, faults, crashes,
  clashed     \* history: two threads rebuilt one DataNode since the server started

mem == <<OFFLIMIT, fileNum, fileList, index>>
counters == <<writes, gets, faults, crashes, clashed>>
vars == <<mem, node, disk, dir, tmp, manifest, io, reb, reply, latest, counters>>

Bound == Bounds[OFFLIMIT]
Files == 1 .. MAXFILE
Nodes == 1 .. 2 * MAXFILE
\* More than KVDBFile, ./tmpDir and the DataNodes can name at once.
Inodes == 1 .. 4 * MAXFILE + 1
Rebuilds == 1 .. MAXFILE - 1

Record(k, v) == [key |-> k, val |-> v]
TornRecord == [key |-> None, val |-> Torn]

\* A DataNode not allocated yet.  Each "new DataNode()" takes the next number; an
\* address that is used again is in StandsFor.
NoNode == [inode |-> None, totalOffset |-> 0, fd |-> "none", pos |-> 0]
IdleIo == [pc |-> "ready", cmd |-> << >>, node |-> 0, offset |-> 0]
IdleRebuild ==
  [pc |-> "idle", slot |-> 0, old |-> 0, new |-> 0, offset |-> 0, rec |-> TornRecord,
   newOffset |-> 0]

Least(S) == CHOOSE x \in S : \A y \in S : x <= y
NewNode == Least({n \in Nodes : node[n] = NoNode})
NewInode ==
  Least({i \in Inodes : /\ \A f \in Files : i \notin {dir[f], tmp[f]}
                        /\ \A n \in Nodes : node[n].inode # i})

Data(n) == disk[node[n].inode]
IsOpen(n) == node[n].fd = "open"
Active == fileList[fileNum]

\* The memory of a deleted DataNode, or its descriptor number, may have been given
\* to another one: those that a thread which still uses n may be using.
StandsFor(n) ==
  {n} \cup {m \in Nodes : node[n].fd = "freed" /\ node[m].fd \in {"open", "closed"}}

\* write() of one record at position p of the records d.
WriteAt(d, p, rec) == IF p < Len(d) THEN [d EXCEPT ![p + 1] = rec] ELSE Append(d, rec)

\* The records initlization finds in d before getRecord fails or hits the end.
ScanLength(d) == Least({i \in DOMAIN d : d[i].val = Torn} \cup {Len(d) + 1}) - 1

Init ==
  /\ OFFLIMIT \in DOMAIN Bounds
  /\ fileNum = 0
  /\ fileList = [f \in Files |-> 0]
  /\ node = [n \in Nodes |-> NoNode]
  /\ disk = [i \in Inodes |-> << >>]
  /\ dir = [f \in Files |-> None]
  /\ tmp = [f \in Files |-> None]
  /\ manifest = [num |-> 0, names |-> 0]
  /\ index = [k \in Keys |-> None]
  /\ io = IdleIo
  /\ reb = [r \in Rebuilds |-> IdleRebuild]
  /\ reply = Ok
  /\ latest = [k \in Keys |-> Deleted]
  /\ writes = 0
  /\ gets = 0
  /\ faults = 0
  /\ crashes = 0
  /\ clashed = FALSE

RunningRebuilds == {r \in Rebuilds : reb[r].pc \notin {"idle", "done"}}

\* check(): the active file is missing or over the limit.
NeedsFile == fileNum > 0 => node[Active].totalOffset > OFFLIMIT

-----------------------------------------------------------------------------
(* diskIO: one command at a time *)

MayOverwrite(k) ==
  \/ Overwrites = "any"
  \/ Overwrites = "lastFile" /\ fileNum = MAXFILE /\ index[k][1] = Active

\* A process died, or a write failed, within the last append to the active file.
TornTail ==
  fileNum > 0 /\ IsOpen(Active) /\ ScanLength(Data(Active)) < Len(Data(Active))

\* diskIO dequeues a task.  Running out of MAXFILE files is out of bounds here.
CallWrite(cmd) ==
  /\ io.pc = "ready"
  /\ writes < Bound.MaxWrites
  /\ NeedsFile => fileNum < MAXFILE
  /\ index[cmd[2]] # None => MayOverwrite(cmd[2])
  /\ TornTail => WritesAfterTorn
  /\ io' = [IdleIo EXCEPT !.pc = "check", !.cmd = cmd]
  /\ writes' = writes + 1
  /\ reply' = << >>
  /\ UNCHANGED <<mem, node, disk, dir, tmp, manifest, reb, latest, gets, faults, crashes, clashed>>

\* Only the gets that come while a rebuild runs are counted.
CallGet(k) ==
  LET n == Cardinality(RunningRebuilds) IN
  /\ io.pc = "ready"
  /\ n \in Bound.getRebuilds
  /\ n > 0 => gets < Bound.MaxGets
  /\ gets' = IF n > 0 THEN gets + 1 ELSE gets
  /\ io' = [IdleIo EXCEPT !.pc = "lookup", !.cmd = <<"get", k, Deleted>>]
  /\ reply' = << >>
  /\ UNCHANGED <<mem, node, disk, dir, tmp, manifest, reb, latest, writes, faults, crashes, clashed>>

\* The task goes to the result queue with result x.
Finish(x) ==
  /\ io' = IdleIo
  /\ reply' = x

\* getVal: the position is copied out of the index under its mutex ...
GetLookup ==
  LET k == io.cmd[2] IN
  /\ io.pc = "lookup"
  /\ IF index[k] = None
     THEN Finish(Fail)
     ELSE /\ io' = [io EXCEPT !.pc = "seek", !.node = index[k][1], !.offset = index[k][2]]
          /\ UNCHANGED reply
  /\ UNCHANGED <<mem, node, disk, dir, tmp, manifest, reb, latest, counters>>

\* ... and used after the mutex is released: lseek, then read.
GetSeek ==
  /\ io.pc = "seek"
  /\ \E n \in StandsFor(io.node) :
       IF IsOpen(n)
       THEN /\ node' = [node EXCEPT ![n].pos = io.offset]
            /\ io' = [io EXCEPT !.pc = "read", !.node = n]
            /\ UNCHANGED reply
       ELSE /\ \E v \in {Fail} \cup (IF node[n].fd = "freed" THEN {Garbage} ELSE {}) : Finish(v)
            /\ UNCHANGED node
  /\ UNCHANGED <<mem, disk, dir, tmp, manifest, reb, latest, counters>>

\* What getVal may put in the task.  At the end of the file getRecord returns 0
\* and leaves the lengths uninitialised; offsets past a torn record hit the
\* middle of one.
ReadResults(n) ==
  IF node[n].fd = "freed" THEN {Fail, Garbage}
  ELSE IF node[n].fd = "closed" THEN {Fail}
  ELSE IF node[n].pos >= Len(Data(n)) THEN {Garbage}
  ELSE IF node[n].pos >= ScanLength(Data(n)) THEN {Fail, Garbage}
  ELSE {Data(n)[node[n].pos + 1].val}

GetRead ==
  /\ io.pc = "read"
  /\ \E n \in StandsFor(io.node) :
       /\ \E v \in ReadResults(n) : Finish(v)
       /\ node' = IF IsOpen(n) THEN [node EXCEPT ![n].pos = @ + 1] ELSE node
  /\ UNCHANGED <<mem, disk, dir, tmp, manifest, reb, latest, counters>>

\* check(): a new active file, then the two writes to manFile.  The name is
\* written after the count, and the rebuild thread starts after both.
CheckSkip ==
  /\ io.pc = "check"
  /\ ~NeedsFile
  /\ io' = [io EXCEPT !.pc = "append"]
  /\ UNCHANGED <<mem, node, disk, dir, tmp, manifest, reb, reply, latest, counters>>

CheckCreate ==
  LET f == fileNum + 1
      i == IF dir[f] = None THEN NewInode ELSE dir[f] IN
  /\ io.pc = "check"
  /\ NeedsFile
  /\ fileNum' = f
  /\ fileList' = [fileList EXCEPT ![f] = NewNode]
  /\ node' = [node EXCEPT ![NewNode] = [NoNode EXCEPT !.inode = i, !.fd = "open"]]
  /\ dir' = [dir EXCEPT ![f] = i]
  /\ disk' = [disk EXCEPT ![i] = << >>]
  /\ io' = [io EXCEPT !.pc = "manNum"]
  /\ UNCHANGED <<OFFLIMIT, tmp, manifest, index, reb, reply, latest, counters>>

CheckManifestNum ==
  /\ io.pc = "manNum"
  /\ manifest' = [manifest EXCEPT !.num = fileNum]
  /\ io' = [io EXCEPT !.pc = "manName"]
  /\ UNCHANGED <<mem, node, disk, dir, tmp, reb, reply, latest, counters>>

CheckManifestName ==
  /\ io.pc = "manName"
  /\ manifest' = [manifest EXCEPT !.names = @ + 1]
  /\ reb' = IF fileNum > 1 THEN [reb EXCEPT ![fileNum - 1].pc = "start"] ELSE reb
  /\ io' = [io EXCEPT !.pc = "append"]
  /\ UNCHANGED <<mem, node, disk, dir, tmp, reply, latest, counters>>

\* appendRecord on the active file, whose descriptor only diskIO uses: the
\* record is torn until its last write() is done.
AppendStart ==
  /\ io.pc = "append"
  /\ IF IsOpen(Active)
     THEN /\ disk' = [disk EXCEPT ![node[Active].inode] = Append(@, TornRecord)]
          /\ io' = [io EXCEPT !.pc = "finish", !.node = Active,
                              !.offset = node[Active].totalOffset]
          /\ UNCHANGED reply
     ELSE /\ Finish(Fail)
          /\ UNCHANGED disk
  /\ UNCHANGED <<mem, node, dir, tmp, manifest, reb, latest, counters>>

AppendFinish ==
  LET k == io.cmd[2]
      v == io.cmd[3] IN
  /\ io.pc = "finish"
  /\ IF IsOpen(io.node)
     THEN /\ disk' = [disk EXCEPT ![node[io.node].inode] = [@ EXCEPT ![Len(@)] = Record(k, v)]]
          /\ node' = [node EXCEPT ![io.node].totalOffset = @ + 1]
          /\ io' = [io EXCEPT !.pc = "index"]
          /\ UNCHANGED reply
     ELSE /\ Finish(Fail)
          /\ UNCHANGED <<disk, node>>
  /\ UNCHANGED <<mem, dir, tmp, manifest, reb, latest, counters>>

AppendFault ==
  /\ io.pc = "finish"
  /\ faults < Bound.MaxFaults
  /\ faults' = faults + 1
  /\ Finish(Fail)
  /\ UNCHANGED <<mem, node, disk, dir, tmp, manifest, reb, latest, writes, gets, crashes, clashed>>

UpdateReply == IF io.cmd[1] = "del" /\ index[io.cmd[2]] = None THEN Fail ELSE Ok

\* saveVal or delKey
UpdateIndex ==
  LET k == io.cmd[2] IN
  /\ io.pc = "index"
  /\ index' = [index EXCEPT ![k] = IF io.cmd[1] = "set" THEN <<io.node, io.offset>> ELSE None]
  /\ Finish(UpdateReply)
  /\ latest' = [latest EXCEPT ![k] = io.cmd[3]]
  /\ UNCHANGED <<OFFLIMIT, fileNum, fileList, node, disk, dir, tmp, manifest, reb, counters>>

-----------------------------------------------------------------------------
(* rebuildFile: the thread started by the r-th rotation *)

\* mutant: the active file is rebuilt
RebuildSlotActive == fileNum

\* Read when the thread runs, not when it is created.
RebuildSlot == fileNum - 1

RebuildStart(r) ==
  LET s == RebuildSlot
      i == IF tmp[s] = None THEN NewInode ELSE tmp[s] IN
  /\ reb[r].pc = "start"
  /\ reb' = [reb EXCEPT ![r] = [IdleRebuild EXCEPT !.pc = "seek", !.slot = s,
                                                   !.old = fileList[s], !.new = NewNode]]
  /\ \/ /\ TRUE \in TmpOpens
        /\ tmp' = [tmp EXCEPT ![s] = i]
        /\ disk' = [disk EXCEPT ![i] = << >>]
        /\ node' = [node EXCEPT ![NewNode] = [NoNode EXCEPT !.inode = i, !.fd = "open"]]
     \/ /\ FALSE \in TmpOpens      \* ./tmpDir is missing, or open fails
        /\ node' = [node EXCEPT ![NewNode] = [NoNode EXCEPT !.fd = "closed"]]
        /\ UNCHANGED <<tmp, disk>>
  /\ clashed' = (clashed \/ \E q \in Rebuilds : reb[q].pc \notin {"idle", "start", "done"} /\ reb[q].old = fileList[s])
  /\ UNCHANGED <<mem, dir, manifest, io, reply, latest, writes, gets, faults, crashes>>

\* The second of two threads that rebuild one DataNode goes on with it when the
\* first one has deleted it.  Its own new node was there before.
Old(r) == StandsFor(reb[r].old) \ {reb[r].new}

\* getRecord(offset) of the old node: lseek, then read.
RebuildSeek(r) ==
  /\ reb[r].pc = "seek"
  /\ clashed => reb[r].offset <= Bound.MaxOffset
  /\ \E n \in Old(r) :
       IF IsOpen(n)
       THEN /\ node' = [node EXCEPT ![n].pos = reb[r].offset]
            /\ reb' = [reb EXCEPT ![r].pc = "read"]
       ELSE /\ reb' = [reb EXCEPT ![r].pc = "swap"]
            /\ UNCHANGED node
  /\ UNCHANGED <<mem, disk, dir, tmp, manifest, io, reply, latest, counters>>

RebuildRead(r) ==
  /\ reb[r].pc = "read"
  /\ \E n \in Old(r) :
       LET p == node[n].pos IN
       IF ~IsOpen(n) \/ p >= Len(Data(n)) \/ Data(n)[p + 1].val = Torn
       THEN /\ reb' = [reb EXCEPT ![r].pc = "swap"]
            /\ UNCHANGED node
       ELSE /\ reb' = [reb EXCEPT ![r].pc = "seekEnd", ![r].rec = Data(n)[p + 1],
                                  ![r].newOffset = node[reb[r].new].totalOffset]
            /\ node' = [node EXCEPT ![n].pos = p + 1]
  /\ UNCHANGED <<mem, disk, dir, tmp, manifest, io, reply, latest, counters>>

\* mutant: offset is advanced after appendRecord, which "continue" skips
NotSkipped(r) == [reb EXCEPT ![r].pc = "seek"]

\* "continue" after an appendRecord that failed.
Skipped(r) == [reb EXCEPT ![r].pc = "seek", ![r].offset = @ + 1]

\* appendRecord on the new node: lseek to the end of the file, not to
\* totalOffset, then write.
RebuildSeekEnd(r) ==
  LET n == reb[r].new IN
  /\ reb[r].pc = "seekEnd"
  /\ IF IsOpen(n)
     THEN /\ node' = [node EXCEPT ![n].pos = Len(Data(n))]
          /\ reb' = [reb EXCEPT ![r].pc = "write"]
     ELSE /\ reb' = Skipped(r)
          /\ UNCHANGED node
  /\ UNCHANGED <<mem, disk, dir, tmp, manifest, io, reply, latest, counters>>

RebuildWrite(r) ==
  LET n == reb[r].new IN
  /\ reb[r].pc = "write"
  /\ IF IsOpen(n)
     THEN /\ disk' = [disk EXCEPT ![node[n].inode] = WriteAt(@, node[n].pos, reb[r].rec)]
          /\ node' = [node EXCEPT ![n].pos = @ + 1, ![n].totalOffset = @ + 1]
          /\ reb' = [reb EXCEPT ![r].pc = "cas"]
     ELSE /\ reb' = Skipped(r)
          /\ UNCHANGED <<disk, node>>
  /\ UNCHANGED <<mem, dir, tmp, manifest, io, reply, latest, counters>>

\* mutant: a plain saveVal in the place of compareAndSet
AlwaysCurrent(r, n) == TRUE

\* The record read is the one its key's index entry names.
IsCurrent(r, n) == index[reb[r].rec.key] = <<n, reb[r].offset>>

\* mutant: the new offset is read after appendRecord
MovedPositionLate(r) == <<reb[r].new, node[reb[r].new].totalOffset>>

MovedPosition(r) == <<reb[r].new, reb[r].newOffset>>

\* compareAndSet moves the entry of a record that is still the current one; a
\* superseded record only takes its length back off totalOffset.
RebuildCompareAndSet(r) ==
  /\ reb[r].pc = "cas"
  /\ reb' = [reb EXCEPT ![r].pc = "seek", ![r].offset = @ + 1]
  /\ \/ /\ reb[r].rec.val = Deleted
        /\ UNCHANGED <<index, node>>
     \/ /\ reb[r].rec.val # Deleted
        /\ \E n \in Old(r) : IsCurrent(r, n)
        /\ index' = [index EXCEPT ![reb[r].rec.key] = MovedPosition(r)]
        /\ UNCHANGED node
     \/ /\ reb[r].rec.val # Deleted
        /\ \E n \in Old(r) : ~IsCurrent(r, n)
        /\ node' = [node EXCEPT ![reb[r].new].totalOffset = @ - 1]
        /\ UNCHANGED index
  /\ UNCHANGED <<OFFLIMIT, fileNum, fileList, disk, dir, tmp, manifest, io, reply, latest, counters>>

Shorter(a, b) == IF a < b THEN a ELSE b

KeptLength(n) == Shorter(node[n].totalOffset, Len(Data(n)))

\* ftruncate to totalOffset; the new node replaces the old one and is closed.
RebuildSwap(r) ==
  LET n == reb[r].new IN
  /\ reb[r].pc = "swap"
  /\ disk' = IF IsOpen(n)
             THEN [disk EXCEPT ![node[n].inode] = SubSeq(@, 1, KeptLength(n))]
             ELSE disk
  /\ fileList' = [fileList EXCEPT ![reb[r].slot] = n]
  /\ node' = [node EXCEPT ![n].fd = "closed"]
  /\ reb' = [reb EXCEPT ![r].pc = "rename"]
  /\ UNCHANGED <<OFFLIMIT, fileNum, index, dir, tmp, manifest, io, reply, latest, counters>>

\* rename() fails, unnoticed, when there is no temporary file.  The path of an old
\* node that was deleted may be none, or that of another file.
RenameTargets(r) ==
  {reb[r].slot} \cup {f \in 1 .. fileNum : fileList[f] \in Old(r) \ {reb[r].old}}

RebuildRename(r) ==
  LET s == reb[r].slot IN
  /\ reb[r].pc = "rename"
  /\ \/ /\ tmp[s] # None
        /\ \E f \in RenameTargets(r) : dir' = [dir EXCEPT ![f] = tmp[s]]
        /\ tmp' = [tmp EXCEPT ![s] = None]
     \/ /\ tmp[s] = None \/ node[reb[r].old].fd = "freed"
        /\ UNCHANGED <<dir, tmp>>
  /\ reb' = [reb EXCEPT ![r].pc = "reopen"]
  /\ UNCHANGED <<mem, node, disk, manifest, io, reply, latest, counters>>

RebuildReopen(r) ==
  LET n == reb[r].new IN
  /\ reb[r].pc = "reopen"
  /\ \/ node' = [node EXCEPT ![n] = [@ EXCEPT !.inode = dir[reb[r].slot], !.fd = "open", !.pos = 0]]
     \/ node[reb[r].old].fd = "freed" /\ UNCHANGED node    \* its path was no directory
  /\ reb' = [reb EXCEPT ![r].pc = "free"]
  /\ UNCHANGED <<mem, disk, dir, tmp, manifest, io, reply, latest, counters>>

\* "delete oldNode".  The second delete of a node closes its descriptor number
\* again, whoever has it now, and deletes the node that has its address now.
RebuildFree(r) ==
  LET n == reb[r].old IN
  /\ reb[r].pc = "free"
  /\ \/ /\ node[n].fd # "freed"
        /\ node' = [node EXCEPT ![n] = [NoNode EXCEPT !.fd = "freed"]]
     \/ /\ node[n].fd = "freed"
        /\ \E m \in StandsFor(n) \ {n}, s \in {"closed", "freed"} :
             node' = [node EXCEPT ![m].fd = s]
     \/ /\ node[n].fd = "freed"
        /\ UNCHANGED node
  /\ reb' = [reb EXCEPT ![r] = [IdleRebuild EXCEPT !.pc = "done"]]
  /\ UNCHANGED <<mem, disk, dir, tmp, manifest, io, reply, latest, counters>>

-----------------------------------------------------------------------------
(* The process dies and is started again: initlization reads manFile and    *)
(* scans the files in order.  A name missing in manFile gives a DataNode    *)
(* that could not be opened.  Records of deletes are skipped.               *)
\* mutant: the last name of the list is not read
NamedButLast(f) == f < manifest.names

Named(f) == f <= manifest.names

Recovered(f) == SubSeq(disk[dir[f]], 1, ScanLength(disk[dir[f]]))

RecoveredPositions(k) ==
  UNION {LET d == Recovered(f)
         IN {<<f, o - 1>> : o \in {i \in DOMAIN d : d[i].key = k /\ d[i].val # Deleted}} :
           f \in {g \in Files : Named(g)}}

LastPosition(S) ==
  CHOOSE a \in S : \A b \in S : b[1] < a[1] \/ (b[1] = a[1] /\ b[2] <= a[2])

RecoveredValue(k) ==
  LET S == RecoveredPositions(k)
      p == LastPosition(S)
  IN IF S = {} THEN Deleted ELSE disk[dir[p[1]]][p[2] + 1].val

RecoveredNode(n) ==
  IF n > manifest.num THEN NoNode
  ELSE IF ~Named(n) THEN [NoNode EXCEPT !.fd = "closed"]
  ELSE [inode |-> dir[n], totalOffset |-> Len(Recovered(n)), fd |-> "open",
        pos |-> Len(Recovered(n))]

Restart ==
  /\ crashes' = crashes + 1
  /\ fileNum' = manifest.num
  /\ fileList' = [f \in Files |-> IF f <= manifest.num THEN f ELSE 0]
  /\ node' = [n \in Nodes |-> RecoveredNode(n)]
  /\ index' = [k \in Keys |-> LET S == RecoveredPositions(k)
                              IN IF S = {} THEN None ELSE LastPosition(S)]
  /\ io' = IdleIo
  /\ reb' = [r \in Rebuilds |-> IdleRebuild]
  /\ latest' = [k \in Keys |-> RecoveredValue(k)]
  /\ clashed' = FALSE
  /\ UNCHANGED <<OFFLIMIT, disk, dir, tmp, manifest, reply, writes, gets, faults>>

CrashRestart ==
  /\ crashes < MaxCrashes
  /\ io.pc \in CrashAt
  /\ Restart

\* free() detects the second delete of a DataNode and aborts.
RebuildAborts(r) ==
  /\ reb[r].pc = "free"
  /\ node[reb[r].old].fd = "freed"
  /\ Restart

-----------------------------------------------------------------------------
DiskIO ==
  \/ GetLookup \/ GetSeek \/ GetRead
  \/ CheckSkip \/ CheckCreate \/ CheckManifestNum \/ CheckManifestName
  \/ AppendStart \/ AppendFinish \/ UpdateIndex

RebuildFile(r) ==
  \/ RebuildStart(r) \/ RebuildSeek(r) \/ RebuildRead(r) \/ RebuildSeekEnd(r)
  \/ RebuildWrite(r) \/ RebuildCompareAndSet(r) \/ RebuildSwap(r)
  \/ RebuildRename(r) \/ RebuildReopen(r) \/ RebuildFree(r)

Next ==
  \/ \E k \in Bound.keys : CallGet(k) \/ CallWrite(<<"del", k, Deleted>>)
                       \/ \E v \in Values : CallWrite(<<"set", k, v>>)
  \/ DiskIO
  \/ AppendFault
  \/ \E r \in Rebuilds : RebuildFile(r) \/ RebuildAborts(r)
  \/ CrashRestart

Spec == Init /\ [][Next]_vars

\* Neither diskIO nor a rebuild thread waits for anything once it has work.
FairSpec == Spec /\ WF_vars(DiskIO) /\ \A r \in Rebuilds : WF_vars(RebuildFile(r))
-----------------------------------------------------------------------------
(* Types, and the bounds of the arrays. *)
Positions == Nodes \X Nat

TypeOK ==
  /\ fileNum \in 0 .. MAXFILE
  /\ \A f \in Files : fileList[f] \in IF f <= fileNum THEN Nodes ELSE {0}
  /\ \A n \in Nodes : /\ node[n].inode \in Inodes \cup {None}
                      /\ {node[n].totalOffset, node[n].pos} \subseteq Nat
                      /\ node[n].fd \in {"none", "open", "closed", "freed"}
                      /\ node[n].fd = "open" => node[n].inode # None
  /\ \A i \in Inodes : \A j \in DOMAIN disk[i] :
       disk[i][j] = TornRecord \/ disk[i][j] \in [key : Keys, val : Values \cup {Deleted}]
  /\ dir \in [Files -> Inodes \cup {None}]
  /\ tmp \in [Files -> Inodes \cup {None}]
  /\ manifest.num \in 0 .. MAXFILE /\ manifest.names \in 0 .. MAXFILE
  /\ index \in [Keys -> Positions \cup {None}]
  /\ \A r \in Rebuilds : reb[r].slot \in 0 .. MAXFILE - 1
  /\ reply \in Values \cup {Deleted, Ok, Fail, Garbage, << >>}

(* What a read of key k finds at the position its index entry names when the *)
(* descriptor of the node works.                                             *)
ValueAt(k) ==
  IF index[k] = None THEN Deleted
  ELSE LET n == index[k][1]
           o == index[k][2]
       IN IF node[n].inode # None /\ o < Len(Data(n)) /\ Data(n)[o + 1].key = k
          THEN Data(n)[o + 1].val
          ELSE Garbage

Map == INSTANCE KVMap
         WITH Absent <- Deleted, DelAbsent <- Fail, Refused <- Fail,
              AtomicSets <- TRUE, DurableDeletes <- FALSE, Forgetful <- FALSE,
              map <- [k \in Keys |-> ValueAt(k)],
              durable <- [k \in Keys |-> RecoveredValue(k)], pending <- io.cmd

(* The store implements the key-value map.  Compactions are invisible to the *)
(* clients, and no step of one changes what a restart would find: a crash    *)
(* at any step, that in the middle of an append included, loses no set that  *)
(* was answered before it, and brings back nothing but keys that were        *)
(* deleted, whose records initlization skips (simplekvstore.h:191).  This    *)
(* holds when                                                                *)
(*   - no compaction meets a record of a key that was set again or deleted,  *)
(*   - gets come outside of compactions, and                                 *)
(*   - no set or delete follows an append that a crash or a failed write cut *)
(*     off: appendRecord goes to the end of the file, behind the torn        *)
(*     record, where neither totalOffset nor initlization look for what it   *)
(*     wrote (datanode.h:98, simplekvstore.h:186, 300).                      *)
ImplementsMap == Map!MapSpec

(* A key has an index entry exactly when its last command completed since    *)
(* the server started was a set, or it had none and the start found it: a    *)
(* rebuildFile thread that copies an old record (simplekvstore.h:118) while  *)
(* diskIO sets or deletes its key never brings a deleted key back and never  *)
(* drops a key, and neither does a thread that goes on with a DataNode that  *)
(* was deleted.  Which values the entries lead to, and what a restart finds, *)
(* is not said here but by ImplementsMap and SetsReadBack.                   *)
Presence == \A k \in Keys : (index[k] = None) <=> (latest[k] = Deleted)

(* An index entry made by the last set of a key in the active file is never  *)
(* moved by a compaction of an older record of the key (compareAndSet).  An  *)
(* append that failed leaves the offsets of the file wrong, a restart skips  *)
(* the records of deletes, and two threads that rebuild one DataNode go on   *)
(* with a deleted one, whose address may be that of the active file's        *)
(* (simplekvstore.h:133-140).                                                *)
LastInActive(k, o) ==
  /\ o \in DOMAIN Data(Active)
  /\ Data(Active)[o].key = k
  /\ \A j \in o + 1 .. Len(Data(Active)) : Data(Active)[j].key # k

FreshestWins ==
  io.pc = "ready" /\ fileNum > 0 /\ faults = 0 /\ crashes = 0 /\ ~clashed =>
    \A k \in Keys : \A o \in DOMAIN Data(Active) :
      LastInActive(k, o) =>
        index[k] = IF Data(Active)[o].val = Deleted THEN None ELSE <<Active, o - 1>>

(* The active file cannot be written, so that every set and delete fails,    *)
(* only when the process died between the two writes to manFile              *)
(* (simplekvstore.h:240-247), or when two threads rebuilt one DataNode and   *)
(* the second delete of it closed the descriptor of the active file          *)
(* (simplekvstore.h:140, datanode.h:31).                                     *)
WritableUnlessHalfManifest ==
  fileNum > 0 /\ ~IsOpen(Active) => manifest.num > manifest.names \/ clashed

(* Every compaction comes to its end once no more gets come while it runs,   *)
(* also when ./tmpDir cannot be written.  A get between its lseek and its    *)
(* read makes it read one record more (datanode.h:62-71), and nothing in     *)
(* diskIO keeps gets from coming for ever.  Of two threads that rebuild one  *)
(* DataNode nothing is said: the second may read a file that it writes.      *)
RebuildsFinish == \A r \in Rebuilds : reb[r].pc = "start" ~> reb[r].pc = "done" \/ clashed

(* testgetset_consistent.sh:2-4 sets every key, gets every key and expects   *)
(* the same values: a key's index entry leads to the value of its last set.  *)
SetsReadBack ==
  io.pc = "ready" => \A k \in Keys : latest[k] # Deleted => ValueAt(k) = latest[k]

(* The same expectation of the answers: a get of a key that is set answers   *)
(* its value, also while a file is being rebuilt.                            *)
GetsAnswerLastSet ==
  [][io.cmd # << >> /\ io.cmd[1] = "get" /\ io'.cmd = << >> /\ crashes' = crashes
       => reply' = IF latest[io.cmd[2]] = Deleted THEN Fail ELSE latest[io.cmd[2]]]_vars
=============================================================================
