---------------------------- MODULE MCSequential ----------------------------
(***************************************************************************)
(* The two sequential data structures that no program of the repository    *)
(* calls, for TLC: an initial choice says which of them a behaviour        *)
(* exercises.                                                              *)
(***************************************************************************)
EXTENDS KVIndexAlloc

CONSTANTS k1, k2, k3, letterA, letterB, NULL, MAXCACHED

ASSUME LruAssumption ==
  /\ MAXCACHED \in Nat \ {0}
  /\ NULL \notin 0 .. MAXCACHED + 1 /\ NULL \notin Keys \X Values

VARIABLES structure, next, prev, content, lruTail, lruIndex, totalCached, recent

Lru == INSTANCE LruCache

\* Two and three bytes with the terminator.
ShortValues == {<< letterA >>, << letterB, letterB >>}

InitEither ==
  /\ structure \in {"alloc", "lru"}
  /\ Init
  /\ Lru!Init

lruState == <<next, prev, content, lruTail, lruIndex, totalCached, recent>>

NextAlloc == structure = "alloc" /\ Next /\ UNCHANGED <<structure, lruState>>
NextLru == structure = "lru" /\ Lru!Next /\ UNCHANGED <<structure, allocVars>>

SpecEither == InitEither /\ [][NextAlloc \/ NextLru]_<<structure, allocVars, lruState>>

(* The cache keeps its tasks in the order of their last use: see IsLru of    *)
(* LruCache.                                                                 *)
CacheIsLru == Lru!IsLru
=============================================================================
