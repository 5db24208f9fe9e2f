--------------------------- MODULE MessageQueues ---------------------------
(***************************************************************************)
(* The queues on the way from one node to another, in the order in which a *)
(* message goes through them: to_pipeline_deser_queue_ and the batch of    *)
(* the serialize loop, from_ser_queue_ of the sender's pipeline, the TCP   *)
(* stream, to_deser_queue_ of the receiver's pipeline and the batch of the *)
(* receive loop, and to_raftnode_deser_queue_.                             *)
(*                                                                         *)
(* Six threads work on them: the two nodes' event loops, the two pipelines *)
(* and the serialize and receive loops.  A priority queue is emptied one   *)
(* priority after the other, and each of these turns is an action, since   *)
(* other threads enqueue in between.  How a connection is made and ends is *)
(* in PeerConnection; here a pipeline just runs or does not.               *)
(***************************************************************************)
EXTENDS MessageOrder, SequencesExt

CONSTANTS Kind,       \* kinds of messages, a subset of AnyKind
          MaxBatch,   \* the size of the buffers deser_buf, 64
          MaxSend,    \* bound: messages sent
          MaxConnect  \* bound: connections made

AnyKind ==
    [type : {"RequestVoteRequest", "RequestVoteResponse", "Heartbeat",
             "AppendEntriesResponse", "AppendEntriesRequest"},
     path : {"broadcast"}]
      \cup [type : {"AppendEntriesRequest"}, path : {"direct"}]

ASSUME QueueAssumption == Kind \subseteq AnyKind /\ MaxBatch \in Nat \ {0}

MAX_PRIORITY == 4

Priority == 0 .. (MAX_PRIORITY - 1)

Msg == [type : {kind.type : kind \in AnyKind}, path : {"broadcast", "direct"},
        no : Nat \ {0}]

Numbered(kind, no) == [type |-> kind.type, path |-> kind.path, no |-> no]

Side == {"sender", "receiver"}

\* The threads that put messages in from_ser_queue_.
Producer == {"serialize", "node"}

\* How far a loop has got with try_dequeue_bulk: the next priority it looks
\* at, and what is in its buffer.
Poll == [prio : 0 .. MAX_PRIORITY, batch : Seq(Msg)]

VARIABLES
    to_pipeline,   \* to_pipeline_deser_queue_ of the sender, by priority
    serialize,     \* the serialize loop
    from_ser,      \* from_ser_queue_: the concurrent queue keeps the order of
                   \* each producer only
    stream,        \* what is written to the connection and not yet read
    to_deser,      \* to_deser_queue_, by priority
    receive,       \* the receive loop
    to_raftnode,   \* to_raftnode_deser_queue_: all Medium
    is_running,    \* is_running_ of the two pipelines
    sent,          \* number of the last message sent
    handled,       \* numbers of the messages handled, in that order
    connects       \* for the bound

vars == <<to_pipeline, serialize, from_ser, stream, to_deser, receive, to_raftnode,
          is_running, sent, handled, connects>>

Idle == [prio |-> 0, batch |-> << >>]

TypeOK ==
    /\ to_pipeline \in [Priority -> Seq(Msg)]
    /\ serialize   \in Poll
    /\ from_ser    \in [Producer -> Seq(Msg)]
    /\ stream      \in Seq(Msg)
    /\ to_deser    \in [Priority -> Seq(Msg)]
    /\ receive     \in Poll
    /\ to_raftnode \in Seq(Msg)
    /\ is_running  \in [Side -> BOOLEAN]
    /\ sent        \in Nat
    /\ handled     \in Seq(Nat)
    /\ connects    \in Nat

Init ==
    /\ to_pipeline = [p \in Priority |-> << >>]
    /\ serialize   = Idle
    /\ from_ser    = [p \in Producer |-> << >>]
    /\ stream      = << >>
    /\ to_deser    = [p \in Priority |-> << >>]
    /\ receive     = Idle
    /\ to_raftnode = << >>
    /\ is_running  = [s \in Side |-> FALSE]
    /\ sent        = 0
    /\ handled     = << >>
    /\ connects    = 0

-----------------------------------------------------------------------------
(* PriorityQueue                                                           *)

\* Mutant of Taken: max is not reduced by what is in the buffer already.
TakenUpToMax(queue, poll) ==
    SubSeq(queue[poll.prio], 1,
           IF Len(queue[poll.prio]) < MaxBatch THEN Len(queue[poll.prio]) ELSE MaxBatch)

\* What try_dequeue_bulk takes from the queue of the priority it looks at, as
\* much as the buffer has room for.
Taken(queue, poll) ==
    LET room == MaxBatch - Len(poll.batch)
    IN  SubSeq(queue[poll.prio], 1,
               IF Len(queue[poll.prio]) < room THEN Len(queue[poll.prio]) ELSE room)

\* Mutant of Left: the messages taken stay in their queue.
LeftAll(queue, poll) == queue

\* The queue without them.
Left(queue, poll) ==
    [queue EXCEPT ![poll.prio] = SubSeq(@, Len(Taken(queue, poll)) + 1, Len(@))]

Polled(queue, poll) == [prio |-> poll.prio + 1, batch |-> poll.batch \o Taken(queue, poll)]

\* Mutant of Exhausted: the loop ends one priority early.
ExhaustedEarly(poll) == poll.prio >= 2

\* The loop of try_dequeue_bulk has come to its end.
Exhausted(poll) == poll.prio = MAX_PRIORITY

-----------------------------------------------------------------------------
(* The sending node                                                        *)

\* A message is broadcast, or handed to the pipeline of the receiver, running
\* or not (RaftNode::send_to_pipeline).
send(kind) ==
    LET m == Numbered(kind, sent + 1)
    IN  /\ sent < MaxSend
        /\ sent' = sent + 1
        /\ IF IsDirect(m)
           THEN /\ from_ser' = [from_ser EXCEPT !["node"] = Append(@, m)]
                /\ UNCHANGED to_pipeline
           ELSE /\ to_pipeline' = [to_pipeline EXCEPT ![SendPriority(m)] = Append(@, m)]
                /\ UNCHANGED from_ser
        /\ UNCHANGED <<serialize, stream, to_deser, receive, to_raftnode, is_running,
                       handled, connects>>

serialize_poll ==
    /\ ~Exhausted(serialize)
    /\ serialize'   = Polled(to_pipeline, serialize)
    /\ to_pipeline' = Left(to_pipeline, serialize)
    /\ UNCHANGED <<from_ser, stream, to_deser, receive, to_raftnode, is_running, sent,
                   handled, connects>>

\* Mutant of serialize_done: the buffer keeps what was handed on.
BufferKept ==
    /\ Exhausted(serialize)
    /\ serialize' = [serialize EXCEPT !.prio = 0]
    /\ from_ser'  = IF is_running["sender"]
                    THEN [from_ser EXCEPT !["serialize"] = @ \o serialize.batch]
                    ELSE from_ser
    /\ UNCHANGED <<to_pipeline, stream, to_deser, receive, to_raftnode, is_running, sent,
                   handled, connects>>

\* The rest of handle_serialize_timeout: the batch is lost to a peer whose
\* pipeline does not run.
serialize_done ==
    /\ Exhausted(serialize)
    /\ serialize' = Idle
    /\ from_ser'  = IF is_running["sender"]
                    THEN [from_ser EXCEPT !["serialize"] = @ \o serialize.batch]
                    ELSE from_ser
    /\ UNCHANGED <<to_pipeline, stream, to_deser, receive, to_raftnode, is_running, sent,
                   handled, connects>>

\* One message of handle_write_timeout; it is lost if the other side has closed
\* the connection.
write(p) ==
    /\ is_running["sender"]
    /\ from_ser[p] # << >>
    /\ from_ser' = [from_ser EXCEPT ![p] = Tail(@)]
    /\ stream'   = IF is_running["receiver"] THEN Append(stream, Head(from_ser[p])) ELSE stream
    /\ UNCHANGED <<to_pipeline, serialize, to_deser, receive, to_raftnode, is_running, sent,
                   handled, connects>>

-----------------------------------------------------------------------------
(* The receiving node                                                      *)

read_cb ==
    /\ is_running["receiver"]
    /\ stream # << >>
    /\ to_deser' = [to_deser EXCEPT ![ReceivePriority(Head(stream))] = Append(@, Head(stream))]
    /\ stream'   = Tail(stream)
    /\ UNCHANGED <<to_pipeline, serialize, from_ser, receive, to_raftnode, is_running, sent,
                   handled, connects>>

\* Only the start of handle_receive_timeout asks whether the pipeline runs.
receive_poll ==
    /\ receive.prio = 0 => is_running["receiver"]
    /\ ~Exhausted(receive)
    /\ receive'  = Polled(to_deser, receive)
    /\ to_deser' = Left(to_deser, receive)
    /\ UNCHANGED <<to_pipeline, serialize, from_ser, stream, to_raftnode, is_running, sent,
                   handled, connects>>

receive_done ==
    /\ Exhausted(receive)
    /\ receive'     = Idle
    /\ to_raftnode' = to_raftnode \o receive.batch
    /\ UNCHANGED <<to_pipeline, serialize, from_ser, stream, to_deser, is_running, sent,
                   handled, connects>>

\* One message of handle_parse_timeout.
handle ==
    /\ to_raftnode # << >>
    /\ handled'     = Append(handled, Head(to_raftnode).no)
    /\ to_raftnode' = Tail(to_raftnode)
    /\ UNCHANGED <<to_pipeline, serialize, from_ser, stream, to_deser, receive, is_running,
                   sent, connects>>

-----------------------------------------------------------------------------
(* Connections                                                             *)

connect ==
    /\ \A s \in Side : ~is_running[s]
    /\ connects < MaxConnect
    /\ connects'   = connects + 1
    /\ is_running' = [s \in Side |-> TRUE]
    /\ UNCHANGED <<to_pipeline, serialize, from_ser, stream, to_deser, receive, to_raftnode,
                   sent, handled>>

\* The pipeline of s ends; what is in the queues stays there.  What the
\* receiver has not read is gone; what the sender wrote may still be read.
disconnect(s) ==
    /\ is_running[s]
    /\ is_running' = [is_running EXCEPT ![s] = FALSE]
    /\ stream'     = IF s = "receiver" THEN << >> ELSE stream
    /\ UNCHANGED <<to_pipeline, serialize, from_ser, to_deser, receive, to_raftnode, sent,
                   handled, connects>>

-----------------------------------------------------------------------------

Next ==
    \/ \E kind \in Kind : send(kind)
    \/ serialize_poll \/ serialize_done \/ \E p \in Producer : write(p)
    \/ read_cb \/ receive_poll \/ receive_done \/ handle
    \/ connect \/ \E s \in Side : disconnect(s)

Spec == Init /\ [][Next]_vars

\* Every loop runs on, and every producer's messages have their turn.
Fairness ==
    /\ WF_vars(serialize_poll) /\ WF_vars(serialize_done)
    /\ \A p \in Producer : WF_vars(write(p))
    /\ WF_vars(read_cb)
    /\ WF_vars(receive_poll) /\ WF_vars(receive_done)
    /\ WF_vars(handle)

FairSpec == Spec /\ Fairness

-----------------------------------------------------------------------------
(* Properties                                                              *)

\* No loop dequeues more than fits its buffer, whatever arrives at which
\* priority while it goes through them: max - count in try_dequeue_bulk.
BatchWithinBuffer == Len(serialize.batch) <= MaxBatch /\ Len(receive.batch) <= MaxBatch

\* All that is on the way.
Queued(queue) == UNION {ToSet(queue[p]) : p \in DOMAIN queue}

OnTheWay ==
    Queued(to_pipeline) \cup ToSet(serialize.batch) \cup Queued(from_ser) \cup ToSet(stream)
      \cup Queued(to_deser) \cup ToSet(receive.batch) \cup ToSet(to_raftnode)

\* Seven queues and six threads keep the order MessageOrder states, across any
\* number of connections: messages that go through the same queues arrive in
\* the order of sending, and none is repeated, whatever was left in a queue or
\* a buffer.
Link == INSTANCE MessageLink WITH link <- OnTheWay

ImplementsLink == Link!Spec

\* No message waits for ever in a queue or a buffer once the connection stays up,
\* in whatever order the loops look into the queues (the messages being finite
\* in number: a less urgent one may wait for all that are more urgent).
EveryMessageArrives == <>[](\A s \in Side : is_running[s]) => <>[](OnTheWay = {})

=============================================================================
