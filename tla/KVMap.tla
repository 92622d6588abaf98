-------------------------------- MODULE KVMap --------------------------------
(***************************************************************************)
(* What a key-value store promises its clients, one command at a time: a   *)
(* get answers the value of the last set of its key, or a failure when the *)
(* key was never set or was deleted.  The files hold what the next start   *)
(* finds: it differs from the map only by the set under way and, where     *)
(* deletes are not durable, by the keys that were deleted.  A crash loses  *)
(* nothing that is in the files but, where sets are not atomic, the old    *)
(* value of the key being set.  A forgetful store may lose a key from its  *)
(* files, one until the next start, when an absent key is deleted, by this *)
(* client or by another one.  A set or delete may be refused when the      *)
(* files cannot be written; it then has no effect.                         *)
(*                                                                         *)
(* This is the abstract specification the stores are compared with.        *)
(***************************************************************************)
CONSTANTS
  Keys, Values, Absent, Ok, Fail,
  DelAbsent,  \* the answer to a delete of an absent key
  Refused,    \* the answer to a set or delete that could not be done
  AtomicSets, DurableDeletes, Forgetful

VARIABLES
  map,       \* map[k]: the value of k, or Absent
  durable,   \* durable[k]: the value of k the next start would find
  pending,   \* the command under way, << >> when there is none
  reply      \* the last answer, << >> from the next command on

mapVars == <<map, durable, pending, reply>>

Commands ==
  {<<"get", k, Absent>> : k \in Keys}
    \cup {<<"set", k, v>> : k \in Keys, v \in Values}
    \cup {<<"del", k, Absent>> : k \in Keys}

MapInit ==
  /\ map = [k \in Keys |-> Absent]
  /\ durable = [k \in Keys |-> Absent]
  /\ pending = << >>
  /\ reply = Ok

Invoke(cmd) ==
  /\ pending = << >>
  /\ pending' = cmd
  /\ reply' = << >>
  /\ UNCHANGED <<map, durable>>

\* The effect of command cmd on m, and its answer.
Effect(cmd, m) == IF cmd[1] = "get" THEN m ELSE [m EXCEPT ![cmd[2]] = cmd[3]]

Answer(cmd) ==
  CASE cmd[1] = "set" -> Ok
    [] cmd[1] = "get" -> IF map[cmd[2]] = Absent THEN Fail ELSE map[cmd[2]]
    [] cmd[1] = "del" -> IF map[cmd[2]] = Absent THEN DelAbsent ELSE Ok

\* A set reaches the files before it is visible.
Persist ==
  /\ pending # << >>
  /\ pending[1] = "set"
  /\ UNCHANGED <<pending, reply, map>>
  /\ durable' = Effect(pending, durable)

\* What a delete of an absent key may leave in the files.
Forgotten ==
  {durable} \cup {[durable EXCEPT ![k] = Absent] : k \in {j \in Keys : Forgetful /\ durable = map}}

\* Another client deletes an absent key.
Forget ==
  /\ durable' \in Forgotten
  /\ UNCHANGED <<map, pending, reply>>

Apply ==
  /\ pending # << >>
  /\ pending' = << >>
  /\ reply' = Answer(pending)
  /\ map' = Effect(pending, map)
  /\ \/ /\ pending[1] = "del" /\ map[pending[2]] = Absent
        /\ durable' \in Forgotten
     \/ durable' = IF pending[1] = "del" /\ ~DurableDeletes THEN durable
                   ELSE Effect(pending, durable)

Refuse ==
  /\ pending # << >>
  /\ pending[1] # "get"
  /\ pending' = << >>
  /\ reply' = Refused
  /\ UNCHANGED <<map, durable>>

Crash ==
  /\ pending' = << >>
  /\ UNCHANGED reply
  /\ \/ durable' = durable
     \/ /\ ~AtomicSets
        /\ pending # << >>
        /\ pending[1] = "set"
        /\ durable' = [durable EXCEPT ![pending[2]] = Absent]
  /\ map' = durable'

MapNext == (\E cmd \in Commands : Invoke(cmd)) \/ Persist \/ Apply \/ Forget \/ Refuse \/ Crash

MapSpec == MapInit /\ [][MapNext]_mapVars
=============================================================================
