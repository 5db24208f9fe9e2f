---------------------------- MODULE MessagePath ----------------------------
(***************************************************************************)
(* The messages of the node-to-node protocol (rpc.proto) and the order in  *)
(* which one node's messages may reach another.                            *)
(*                                                                         *)
(* A message travels through the sender's to_pipeline_deser_queue_ (a      *)
(* priority queue), the pipeline's from_ser_queue_, a TCP stream, the      *)
(* receiving pipeline's to_deser_queue_ (a second priority queue) and      *)
(* to_raftnode_deser_queue_.  A link is abstracted to the sequence of its  *)
(* messages in the order of sending; a message may overtake an earlier one *)
(* where one of those queues lets it (MessageOrder).  Every node belongs   *)
(* to the same cluster, so cluster_id and its test are left out.           *)
(***************************************************************************)
EXTENDS RaftLog, MessageOrder, SequencesExt

CONSTANT Node    \* the peers of a node, itself included (create_raft_peers)

RequestVoteRequest ==
    [type : {"RequestVoteRequest"}, src : Node, term : Nat,
     last_log_index : Nat, last_log_term : Nat]

RequestVoteResponse ==
    [type : {"RequestVoteResponse"}, src : Node, term : Nat, granted : BOOLEAN]

\* A heartbeat carries no log fields: the other fields of the protobuf
\* message keep their defaults and are not read.
Heartbeat ==
    [type : {"Heartbeat"}, src : Node, term : Nat, leader_commit : Nat]

\* path is not a field of the protobuf message: it tells a request that was
\* broadcast through to_pipeline_deser_queue_ from one handed to the
\* pipeline of one peer by send_to_pipeline.
AppendEntriesRequest ==
    [type : {"AppendEntriesRequest"}, src : Node, term : Nat,
     prev_log_index : Nat, prev_log_term : Nat, entries : Seq(Entry),
     leader_commit : Nat, path : {"broadcast", "direct"}]

AppendEntriesResponse ==
    [type : {"AppendEntriesResponse"}, src : Node, term : Nat,
     success : BOOLEAN, conflict_index : Nat, last_log_index : Nat]

Message == RequestVoteRequest \cup RequestVoteResponse \cup Heartbeat
             \cup AppendEntriesRequest \cup AppendEntriesResponse

-----------------------------------------------------------------------------

\* The message at position k of a link leaves it.
Consume(links, i, j, k) == [links EXCEPT ![i][j] = RemoveAt(@, k)]

\* handle_serialize_timeout hands every message of the queue, whatever it
\* is, to the pipeline of every peer; the pipeline to oneself never runs.
Broadcast(links, n, m) ==
    [links EXCEPT ![n] = [j \in Node |-> IF j = n THEN @[j] ELSE Append(@[j], m)]]

=============================================================================
