----------------------------- MODULE MCPipeline -----------------------------
(***************************************************************************)
(* Instances of Pipeline for TLC.                                          *)
(***************************************************************************)
EXTENDS Pipeline, TLC

CONSTANTS a, b

\* One client whose stats or quit may overtake its own gets and sets, and one
\* that also makes mistakes.
TwoClients ==
  [kinds |-> a :> {"get", "set", "stats", "quit"} @@ b :> {"get", "bad", "blank", "part", "end"},
   lines |-> a :> 2 @@ b :> 1]

\* As many gets of one client as the queues and the hands of the threads hold.
OneBusyClient == [kinds |-> a :> {"get"} @@ b :> {}, lines |-> a :> 4 * queueSize + 5 @@ b :> 0]

TwoOrOneBusy == {TwoClients, OneBusyClient}
=============================================================================
