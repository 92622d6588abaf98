--------------------------- MODULE MCSimpleKVStore ---------------------------
(***************************************************************************)
(* Instances of SimpleKVStore for TLC.                                     *)
(***************************************************************************)
EXTENDS SimpleKVStore, TLC

CONSTANTS k1, k2, k3

WritesOnly(keys, w, f) ==
  [keys |-> keys, MaxWrites |-> w, MaxFaults |-> f, MaxGets |-> 0, MaxOffset |-> 1,
   getRebuilds |-> {}]

\* A file takes two records.  One append may fail, and gets come only while no file
\* is compacted.
MapBounds == 1 :> [WritesOnly(Keys, 5, 1) EXCEPT !.getRebuilds = {0}]

\* With files of one record two rotations come in a row, so that two threads may
\* rebuild one DataNode, and an append may fail.  With files of two records sets,
\* deletes and gets race with a compaction, which two gets can make read on.
CompactBounds ==
  0 :> WritesOnly({k1}, 3, 1)
    @@ 1 :> [WritesOnly({k1, k2}, 4, 0) EXCEPT !.getRebuilds = {1}, !.MaxGets = 2]

\* The smallest instances in which a value is lost.
StaleBounds == 1 :> WritesOnly({k1, k2}, 3, 0)
LateRebuildBounds == 0 :> WritesOnly(Keys, 3, 0)
GetRaceBounds == 1 :> [WritesOnly(Keys, 3, 0) EXCEPT !.getRebuilds = {0, 1}, !.MaxGets = 2]

\* Keys are alike, and so are values; only for runs without liveness.
Alike == Permutations(Keys) \cup Permutations(Values)
=============================================================================
