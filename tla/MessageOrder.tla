---------------------------- MODULE MessageOrder ----------------------------
(***************************************************************************)
(* In which order messages may travel from one node to another: the        *)
(* priorities with which they are enqueued, and what those let overtake    *)
(* what.  MessageQueues has the queues themselves and shows that this is   *)
(* the order they keep.                                                    *)
(***************************************************************************)
EXTENDS Naturals, Sequences

\* The priority with which a node enqueues a message to be broadcast: votes
\* and heartbeats Critical, append responses High, the append request of a
\* client request Medium.
SendPriority(m) ==
    CASE m.type = "AppendEntriesResponse" -> 1
      [] m.type = "AppendEntriesRequest"  -> 2
      [] OTHER                            -> 0

\* The priority with which read_cb enqueues a received message: a heartbeat
\* is an append request there, so it is High, not Critical.
ReceivePriority(m) ==
    IF m.type \in {"RequestVoteRequest", "RequestVoteResponse"} THEN 0 ELSE 1

IsDirect(m) == m.type = "AppendEntriesRequest" /\ m.path = "direct"

\* The queues a message goes through: those of its priority when broadcast and
\* when received, or the pipeline's own when it is direct.
Lane(m) == <<IsDirect(m), SendPriority(m), ReceivePriority(m)>>

\* Whether a message may be handled before another that its sender sent
\* earlier.  The priority queues are emptied one priority after the other
\* while they are being filled, so that the less urgent of two messages may
\* overtake the other too; direct messages have a producer of their own, and
\* the concurrent queue keeps no order between producers.
MayOvertake(later, earlier) == Lane(later) # Lane(earlier)

\* The message at position k of a link may be the next one handled.
Deliverable(link, k) == \A i \in 1 .. (k - 1) : MayOvertake(link[k], link[i])

=============================================================================
