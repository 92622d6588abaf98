---------------------------- MODULE MCNewKVIndex ----------------------------
(***************************************************************************)
(* Instances of NewKVIndex for TLC.                                        *)
(***************************************************************************)
EXTENDS NewKVIndex, TLC

CONSTANTS c1, c2, k1, k2

\* Two clients with keys of their own, as in setdelconcurrent1-3.sh, with a key
\* in common, as in fuzzing.sh, or one that uses all keys alone.
OwnOrSharedKeys ==
  {c1 :> {k1} @@ c2 :> {k2}, c1 :> {k1, k2} @@ c2 :> {k1}, c1 :> {k1, k2} @@ c2 :> {}}

\* Values are alike.
Alike == Permutations(Values)
=============================================================================
