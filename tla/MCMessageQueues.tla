-------------------------- MODULE MCMessageQueues --------------------------
(***************************************************************************)
(* An instance of MessageQueues for TLC.                                   *)
(***************************************************************************)
EXTENDS MessageQueues, TLC

K(type, path) == [type |-> type, path |-> path]

\* One kind for each way through the queues.
EveryLane ==
    {K("RequestVoteResponse", "broadcast"), K("Heartbeat", "broadcast"),
     K("AppendEntriesResponse", "broadcast"), K("AppendEntriesRequest", "broadcast"),
     K("AppendEntriesRequest", "direct")}

=============================================================================
