# A specification of embkv

embkv is a replicated key-value store: a few nodes (`embkv/src/main.cpp` starts
three) keep a Raft-like log of client operations and apply it to an SQLite
table. This directory holds TLA+ modules that model its core, TLC
configurations that check them on small instances, and proofs, checked by
TLAPS, of every safety property of the passing runs for every value of the
constants.
Everything is translated from the sources; where a comment and the code
disagree the code is modelled, and the disagreement is a run of its own (see
"Where the code and its comments disagree").

## 1. The system and its parts

| part | state | operations | talks to |
|---|---|---|---|
| Raft node `raft/node.{h,cpp}` | `RaftStatus` (term, vote, role, votes, commit and apply indexes, next/match indexes, leader hint, time of the last heartbeat), `log_`, `requests_` | four timers (election, heartbeat, parse, reissue), a handler per message | the two queues of the transport, `send_to_client`, directly the pipeline of one peer when it reissues |
| Raft log `raft/log.{h,cpp}` | vector of entries, index and term of the last one | `append_entry`, `entry_at` | called by the node |
| message path `priorityqueue.h`, `transport.cpp`, `pipeline.cpp` | `to_pipeline_deser_queue_` and `to_raftnode_deser_queue_` (per node), `from_ser_queue_` and `to_deser_queue_` (per peer) | 3 ms timers that move messages from one queue to the next, `read_cb` | node, sockets |
| peer connections `transport.cpp`, `pipeline.cpp` | `is_running_`, `stream_`, `connect_mutex_` per peer, handshakes in progress | accept, handshake and its timeout, connect, pipeline event loop | sockets, message path |
| client sessions `transport.cpp`, `session_manager.cpp` | map id to session | `add_client`, `remove_client`, `client_cb`, `send_to_client` | client, node |
| client `client/client.{h,cpp}` | stream, request counter | put, get, del, redirection | sessions |
| life cycle `main.cpp`, `run`/`stop` of node, transport, pipeline, client | `is_running_` flags, event loops, thread pools | run, stop, destructors | all |
| state machine and store `statemachine.h`, `store.h` | SQLite table | apply | node |
| header codec, sockets, descriptors, configuration, clock, random numbers, logger | | | |

Threads: a node's event loop is one thread, and only it touches `st_`, `log_`
and `requests_`; the transport has three (accept, serialize, receive); each
pipeline has one. They meet in the concurrent queues, in `is_running_` and
the two mutexes of a pipeline, and in the session map.

What is hard here, and what `PROJECT.json` lists line by line as hazards:
messages that overtake each other in the priority queues or are lost when a
pipeline is down; vote replies that everybody receives; requests that are sent
both by broadcast and by reissue; a log read by position whose entries carry
indexes of their own; a client whose id is also a node's; commit indexes taken
over before the log is checked; restarts that lose all of the Raft state; the
two sides of a connection racing; event loops ended from other threads.

What would make each part correct: a vote per node and term, one leader per
term, hints that name real leaders (elections); logs without gaps, one request
per term and index, nothing committed that a majority lacks, each request
applied once (replication); messages lost but never invented, and eventually
two pipelines on one connection (path and connections); every reply to the
request it answers (sessions); a stop that stops (life cycle).

## 2. Modules

| module | what it is |
|---|---|
| `RaftLog` | class `RaftLog` |
| `MessageOrder` | the priorities of messages, and which message may overtake which |
| `MessagePath` | the messages of `rpc.proto`; sending and consuming on the links of `RaftNode` |
| `RaftNode` | the cluster: every node's state, one action per timer callback and outcome of a handler, links, loss, restart |
| `MessageLink` | abstract: what `RaftNode` assumes of one link |
| `MessageQueues` | the queues, buffers and threads between two nodes; implements `MessageLink` |
| `PeerConnection` | the connection between two nodes (class `Pipeline`, connecting, accepting, handshakes) |
| `ClientSession` | clients, their sessions at the servers, redirection and replies |
| `LossyChannel` | abstract: what is received was sent, once; implemented by `PeerConnection` and by `ClientSession` |
| `NodeLifecycle` | the process of a node: run, stop, quit and the destructors |
| `MCRaftNode`, `MCMessageQueues` | a symmetry set and a constant for TLC |
| `*_proofs` | the theorems of section 4 |

How they fit together. `RaftNode` stands on `MessageOrder`: its links let a
message overtake another as `Deliverable` says. `MessageQueues` models the same
way queue by queue and implements `MessageLink`, which is that link, with
losses: a set of numbered messages, of which `RaftNode` keeps the sequence in
the order of the numbers. In `MessageQueues` a pipeline just runs or does not;
`PeerConnection` shows how it comes to run and to end, and that nothing is
repeated or invented on the way. `ClientSession` has a node that only accepts
or refuses and applies; `RaftNode` shows how. `NodeLifecycle` starts and ends
the threads whose steps the others interleave. The modules are not composed
into one specification: their states multiply, and each of them takes no more
of the others than is said here.

### RaftNode

How `RaftNode` corresponds to the code:

- A timer callback, and the handling of one message within
  `handle_parse_timeout`, is one action: nothing else of the process reads or
  writes the node's state. Handlers with an `if` whose branches change
  different things are split into an action per branch (`vote_counted` and
  `vote_not_counted`, `handle_append_mismatch` and `handle_append_match`); the
  common first lines are operators (`handle_higher_term`, `append_prologue`).
- Time is left out: an election timer may fire whenever it likes. What is kept
  of the clock is the comparison `handle_election_timeout` makes, whether a
  heartbeat came after the previous firing (`heard`). Times are whole
  milliseconds, and a heartbeat in the same one as the firing does not count,
  so a heartbeat may leave `heard` as it is.
- `next_index_` and `match_index_` are total functions, 0 where the map has no
  key; a node reads them as a leader only, when all keys are there.
- Indexes are natural numbers. The one subtraction on `uint64_t` that could
  wrap, `next_index - 1`, is the subject of `NextIndexPositive`.
- The client's request is its request id. The only client has id 0, which is
  also a node's id (`Zero`): `handle_client_request` updates the next and match
  index of that node.
- `applied` is what the state machine was given; the database is a function of
  it. `replies` is what was handed to `send_to_client`.
- `ballots` and `elections` are history variables, read by properties only.
- A link `net[i][j]` stands for the whole path from the node `i`'s queue to
  node `j`'s. Messages that go through the same queues keep their order; any
  two others may overtake each other (`Lane`, `MayOvertake`). The lane is given
  by the priority when sent, that when received, and whether the message went
  the direct way (`send_to_pipeline`) or through the broadcast queue. Heartbeats
  are enqueued as `Critical` by the node but as `High`, like every append
  request, by `read_cb`. That the less urgent message may overtake, too, comes
  from `try_dequeue_bulk`, which looks at one priority after the other while
  others enqueue.
- `Lose` removes any message. `Restart` resets everything a process keeps in
  memory; messages on the way stay, since they may be in the peers' queues.
- The links assume that messages of one priority and one way keep their order.
  `MessageQueues` shows it for queues that outlive connections. One thing can
  break it: a handshake of an older connection that is accepted after a newer
  one has ended (see `ImplementsChannel` below). No theorem of section 4 uses
  the order: they hold for any.
- `cluster_id` is the same everywhere and its tests are left out. Snapshot
  messages are never sent and their handlers are empty.

### PeerConnection

Of two nodes the one with the lower id connects (side "connecting"), when it
has something to broadcast and its pipeline does not run; the other accepts.

| code | model |
|---|---|
| `Pipeline::run`, under `run_mutex_` | operator `run`, part of `start_connected` and of `handshake_cb`; a second connection is refused and closed by its caller |
| `event_loop` | `event_loop` starts the watchers, `read_cb` and `read_cb_ended` break the loop, then `close_stream` and `end_event_loop`, apart because other threads see `is_running_` in between |
| `read_cb` | a frame is read whole, or ends the loop when too long or when there is no more; a torn one is enqueued, or dropped if nothing of it could be parsed |
| `handle_write_timeout` | one message of a batch per action; written if it can still arrive, otherwise lost, or `Sigpipe` ends the process |
| `try_connect_to_peer` | `try_connect_to_peer` up to `connect()`, `start_connected` for the handshake and `run` |
| `accept_cb`, `start_handshake`, `handshake_cb`, `handle_handshake_timeout` | the same names, per connection |
| `handle_serialize_timeout` | `broadcast` to a pipeline that runs, one message per action |
| `handle_receive_timeout` | the same name, one message per action |
| `send_to_pipeline` | the same name, whether the pipeline runs or not |

TCP is modelled as the code relies on it: what one side writes to a connection
arrives in order or is cut off at the end (`CutShort`) when the connection was
closed or broke (`Break`). A process may end anywhere (`Crash`), also while it
writes, and lose everything in memory. A connection is a model value that is
used again once both sides have closed it. Over-long messages are kept apart
from the others: they have no number, since none of them is ever handed over, and
come without end, as the leader reissues such an entry every 30 ms. Left out: priorities (the queue of a
pipeline that is read in order is the worst case for what is left behind in it),
handshakes of clients, half-read frames (a thread that waits for the rest of
one does nothing else).

### MessageQueues

Six threads and seven places on the way of a message: `to_pipeline_deser_queue_`
(four priorities), the buffer of the serialize loop, `from_ser_queue_`, the
stream, `to_deser_queue_` (four priorities), the buffer of the receive loop,
`to_raftnode_deser_queue_`.

| code | model |
|---|---|
| `PriorityQueue::try_dequeue_bulk` | one action per priority (`serialize_poll`, `receive_poll`), `Taken` and `Left` what it takes and leaves; other threads enqueue in between |
| `heartbeat`, `start_election`, replies, `handle_client_request`, `send_to_pipeline` | `send`, by priority or directly to `from_ser_queue_` |
| the rest of `handle_serialize_timeout` and `handle_receive_timeout` | `serialize_done`, `receive_done` |
| `handle_write_timeout`, `Pipeline::read_cb`, `handle_parse_timeout` | `write`, `read_cb`, `handle`, a message per action |
| `Pipeline::run`, the end of `event_loop` | `connect`, `disconnect` |

The vendored concurrent queue is taken as it promises: in the order of each
producer, none between producers (`Producer`: the serialize loop and the node's
own thread for `from_ser_queue_`). A turn of `handle_receive_timeout` asks
whether the pipeline runs when it begins only; a write to a stream the other
side has left is lost.

### ClientSession

Every client process has id 0 (`main.cpp`). Connecting, it announces not that id
but the id of the server, and that is the key of its session there; replies are
sent to the session with the key 0.

| code | model |
|---|---|
| `Client::run` | `run` up to posting the loop, `set_running` for its last statement |
| `Client::stop` | `stop`, after which the loop may still call `read_cb` once ("last_round"), `stop_returns`: the pool's thread is gone afterwards, and a later `run` posts in vain |
| `Client::event_loop`, `read_cb` | `event_loop`, `read_cb` (reply, or redirection by `connect_to_server`), `read_cb_ended`, `end_event_loop` |
| `put`, `get`, `del` | `put`: they differ in the command only |
| `accept_cb`, `start_handshake`, `handshake_cb`, `handle_handshake_timeout` | the same names |
| `client_cb` | `client_cb`, and `client_cb_resumes` when `read_exact` had to wait, the accept loop standing still meanwhile |
| `SessionManager::add_client`, `remove_client` | the same names: `emplace` keeps a session that is there, and the new connection is closed |
| the event loop library on a closed descriptor | `fd_kill`: the watchers of a refused connection are stopped and called once, with an error |
| `send_to_client` | `send_to_client` up to `client_at`, `write_reply` after the lock is released; the session may be gone then |
| `handle_client_request`, `apply_to_state_machine` | the same names, reduced to accepting, refusing and applying |

The watcher of a connection that is refused has been started before the
descriptor is closed. The event loop library finds that out when it next passes
new descriptors to the poll, stops the watcher and calls it (`fd_kill`), so that it
reads from the session that was there; if the number has been used again before, the
watcher stays, and the next connection with that number wakes it. `ClientData`
says for which connection and key a watcher was started, `pending` those that
are called together, `unregistered` the numbers not yet passed on. (A build of
the library with assertions ends the process instead.) Connections are model values that are
used again, as descriptors are. One server leads throughout; a node that does
not lead applies what the leader has applied and sends a reply to client 0 for
each (`ReplyTo`). A connection that is closed with unread data is reset
(`Reset`). A frame is read and written in one action, so that the header and
the body of a request go the same way.

### NodeLifecycle

`run` and `stop` as operators, since the constructor's caller, the commands and
the destructor all call them; `wait` is the return of `pool_.wait()`, after which
the pool's thread is gone. `ev_break` sets `loop_done`, and the beginning of
`ev_run` resets it: a `stop` that comes before is lost (the task waits, or
`event_loop` is "starting"); that is the run `stop_hangs`. `command_run`, `command_stop` and `command_quit` are the operator's
commands, `stop_returned`, `destroy_transport` and `join_transport` the
destructors in the order C++ runs them, and `transport_loop_begins` and
`transport_loop_runs` the three loops of the transport.

## 3. What the runs check

The instances of `RaftNode` have three nodes, as in `create_raft_peers`, but for
`catch_up`, which has two. `SPECIFICATION Spec` is a component without
fairness, `FairSpec` with (section 5). Deadlock is not checked: with bounded
terms, requests, connections and losses every behaviour comes to an end, and a
node that is told to quit may wait for ever.

| run | bounds | checks |
|---|---|---|
| `election` | all stand, 2 terms, 1 request, 3 messages in flight, 1 loss | `OneVotePerTerm`, `VotesWithinTurnout`, `LeaderHasTurnout`, `HintWasLeader`, `CommitQuorum`, `EntryTermReached`, `OnlyCandidatesElected` |
| `replication` | 1 term, 2 requests, logs up to 3, 3 in flight, 1 loss | `TypeOK`, `IndexWithinLog`, `NextIndexPositive`, `CommitQuorum`, `EntryIdentity`, `SoleLeaderAnswers`, `SoleLeaderApplies` |
| `catch_up` | 2 nodes, node 0 stands, 2 terms, 2 requests, 2 in flight, 1 loss, 1 restart, fairness | `EntryTermReached`, `CatchesUp`, `AnswersAll` |
| `connection` | 2 connections, 1 message of either side and over-long ones without end, one at a time; 2 faults (crash, break, handshake timeout); fairness | `TypeOK`, `OneOwner`, `SameConnection`, `ImplementsChannel`, `EventuallyConnected` |
| `queues` | 5 kinds of messages, one per lane, 2 messages, buffers of 1, 2 connections, fairness | `BatchWithinBuffer`, `ImplementsLink`, `EveryMessageArrives` |
| `sessions` | 1 client, 2 servers, 2 descriptors, 3 connections, 2 requests, fairness | `TypeOK`, `OneSession`, `AnswersHandled`, `ImplementsRequests`, `SessionEnds`, `ServerZeroAnswers` |
| `lifecycle` | none needed, fairness | `TypeOK`, `QuietWhenStopped`, `StopReturns` |
| `two_leaders`, `applied_twice`, `stop_hangs`, `quit_hangs`, `redirect` | | the five disagreements below |

Why the bounds are enough for the question asked: two terms make every
comparison of terms (stale, same, higher) happen in every handler, and let a
deposed leader meet its successor. A broadcast to two peers takes two places
in flight, so three let a message wait while another is sent and answered:
the reply of an earlier election, a broadcast of a deposed leader. Logs up to 3
with 2 requests leave room for a repeated entry, which is where positions and
indexes part. `Zero` is a node that does not stand in `replication`, and one of
those that stand in `election`, so that the client's id is that of a follower,
whose match index is wrongly advanced, or of the leader. (In `catch_up` it is the
leader, and the log bound of 8 is never reached.)

Two messages are enough for `queues`: the order promised is one of pairs, and two
make every pair of lanes. A buffer of one makes every batch a full one.

Two connections are enough in `connection` for one that a side still serves, or
that waits in the backlog or in its handshake, while the other side has left it
and makes, takes or refuses another one; a connection is used again, so a
sequence of any length comes about. A message that is left in a queue or stream
by one connection and taken up by the next needs one message. Two faults, of any
kind each, let a handshake time out, or a connection break, after a process was
started again. The processes that end on SIGPIPE and the connections that end by
an over-long message are not bounded. With three connections (4 million states)
the safety properties hold as well; for the liveness property that instance is
too large.

One client that is redirected, restarts or refuses to leave makes two sessions
collide as two clients do, since all have the same id; with two clients and three
connections (1.7 million states) the safety properties hold as well, and
with two clients `ReplyTo` shows its effect (below).

Some facts about the code these runs taught us:

- `EntryIdentity` is stated under `ElectionSafety`, since with two leaders in a
  term it is plainly false.
- `CommitQuorum` compares the length of logs. "The entry at every committed
  index is in a majority of logs" is false: with repeated entries positions
  and indexes differ.
- `SoleLeaderApplies` is what is left of `AppliedOnce`: a follower may apply a
  request twice, but the only leader there has been has no repeated entry. It does
  not commit beyond its log either, although followers acknowledge entries by
  an index their logs may have twice. Both are said of the time
  before a second leader, which takes over entries it has no requests for.
- `OneVotePerTerm`, `VotesWithinTurnout`, `CommitQuorum`, `EntryIdentity` and
  `SoleLeaderApplies` do not survive a restart, because nothing of the Raft state
  is on disk, although `node.h` calls the term and the vote persistent: a restarted
  node votes for a second candidate of the same term, and
  has a database that `last_applied_` and the log no longer account for.
  `SoleLeaderAnswers` survives it.
- `OnlyCandidatesElected` is a property of three nodes: a follower has voted
  for somebody, at most one other voter is left besides the candidate, and the
  majority is two. With five nodes a follower may count enough votes.
- `CatchesUp` and `AnswersAll` are about node 0 as the leader and processes that
  have not ended. If another node leads, the client's id makes it believe that
  node 0 has what it has not: a lost broadcast to node 0 is not reissued until
  the next request is refused, and a cluster of two commits nothing. A follower
  that restarts with an empty log is not caught up before the next request
  either. A leader with entries of an earlier leader commits them only with a
  request of its own, hence "the only leader there has ever been".
- `ImplementsChannel` promises no order. With two breaks (or a break and a crash)
  TLC finds a message of an older connection that arrives after one of a newer:
  the handshake of the older one is accepted late.
- A message whose writer ended in the middle of it is enqueued for the node with
  what could be parsed of it (`read_cb` reports the parse error and goes on), and
  one longer than the buffer is not filtered, as the comment says, but ends the
  connection. Both are in the model of `PeerConnection`. As long as the leader
  reissues an over-long entry no connection lasts: `EventuallyConnected` is false
  without its premise that these messages cease (`NoOverlong`).
- `SameConnection` needs its exception: one side may serve a new connection
  while the other still has the old one, but then the old one, or the new one, is
  closed or broken and its pipeline will find out.
- `EveryMessageArrives` speaks of finitely many messages. Nothing bounds how long
  a less urgent one waits for a supply of urgent ones (the comment at
  `try_dequeue_bulk` says so).
- A node that does not lead answers, too, when it applies: to client 0, of request
  0. With two clients TLC finds the one with the session at server 0 told of the
  success of a request it has not made. `AnswersHandled` leaves these replies out.
- The delay `event_loop` draws for its first election timer is stored in a
  `uint64_t` and so is 0: the first timer fires at once.

### Where the code and its comments disagree

- `two_leaders`: a vote reply is broadcast and counted by every node of its
  term, so two candidates of one term become leader with the same votes.
- `applied_twice`: request ids are there for deduplication (`rpc.proto`), but a
  request that was broadcast and reissued is stored and applied twice.
- `stop_hangs`: a stop that comes before the node's thread has got to `ev_run`
  is forgotten by it, and `stop()` waits for a loop that nobody ends.
  (`StopReturns` in `lifecycle`: one that comes later returns.)
- `quit_hangs`: after the command to quit, once the node is stopped and gone, the
  transport's pool waits for three loops that nobody breaks.
- `redirect`: a client that follows the hint to a leader other than node 0
  watches a closed descriptor, and has a session to which no reply is sent.

## 4. What is proved

Each theorem holds for every value of the constants under the named assumption
of its module, and is stated in full generality of the bounds.

All safety properties of the passing runs are theorems, the three refinements
among them. A run that is named in section 3 shows each of them on a small
instance, the theorem for every value of the constants.

### RaftNode

`NodeAssumption`: the nodes are finitely many, `Zero` is one and `None` is not.
What is marked (C) is stated for `Spec` and for `CrashSpec`, the cluster with
restarts; the others for `Spec` only. A restart loses the term, the vote and the
log, so most of them are false with it.

`RaftNode_proofs` and `RaftNodeLog_proofs`:

- `TypeCorrect`, `NextIndexNeverZero` (C). The inductive invariant `TypeInv` is
  `TypeOK`, `NextIndexPositive` and `RefusalsPositive`: a refusal on the way has
  a conflict index of at least 1. It is needed because `next_index` comes from
  refusals and the previous index of a request from `next_index`; it holds
  because only a request with a non-zero previous index is refused. `TypeOK` and
  `NextIndexPositive` need each other: without the latter `prev_log_index` would
  not be a natural number.
- `IndexesWithinLogs` (C). `IndexInv` adds that a request on the way that has its
  previous entry at position `p` carries entries whose indexes are at most
  `p + 1`, `p + 2`, ... (`BatchesWithinIndex`), so that appending them at or
  after that position keeps the bound.
- `EntryTermsReached` (C). `TermInv` adds that entries on the way are of the
  request's term or earlier (`BatchesOfTerm`).

`RaftNodeElection_proofs`:

- `OneVote`. `VoteInv` adds that the recorded ballots of a node's current term
  agree with `voted_for_` and none is of a later term (`BallotsRecorded`).
- `VotesTurnedOut`, `LeadersHaveTurnout`. `TurnoutInv`: the votes node `n` counts
  are no more than `Counted(n)`, the voters of its term it may have heard of:
  itself if it stood, and those that voted for another than themselves and whose
  reply is no longer on its way to it. That nobody is counted twice rests on
  each voter replying once: a request on the way has not had its vote yet
  (`RequestsOfCandidates`), a granted reply is a ballot of its sender
  (`GrantsOfVoters`) and no link carries two of them (`LinksOnce`). The bound is
  a cardinality, because a reply does not say to whom the vote went.
- `CandidatesElected`, for three peers, as `create_raft_peers` makes them (a
  hypothesis of the theorem; with five it is false). A granted reply that a
  follower counts was meant for a candidate other than its sender, who stood and
  voted for itself (`CandidatesVoted`). Neither the follower, which did not
  stand, nor that candidate is among the voters it can count; one voter of three
  is left, and a majority is two.

`RaftNodeLeader_proofs`:

- `HintsWereLeaders` (C). `HintInv`: a leader's election is recorded, and so is that
  of the sender of every heartbeat and append request on the way, which outlive
  the leadership and the process.
- `CommitsHaveQuorum`. `CommitInv`: an acknowledgement claims no more than its
  sender's log has (`AcksHeld`); what a node has recorded of a peer beyond its own
  commit index is in the peer's log or, recorded of the client's id by
  `handle_client_request`, in its own (`MatchHeld`); a node with another id
  records nothing new of itself (`OwnMatch`); and the commit indexes on the way
  have reached a majority of the logs (`CommitsSent`). The client's id costs
  the quorum no member: the leader that `handle_client_request` counts in its
  place is not counted besides.
- `EntriesIdentified`. `EntryInv`: every entry is of a term somebody was elected in,
  and, unless two nodes lead in one term, the last entry of a leader has the
  highest index of its term and entries of one term and index are the same.
- `SoleLeadersAnswers` (C). `AnswerInv` adds to `HintInv`, for a node `n` such that
  no other has been leader, that `requests_` has one request for every position
  of its log, the one the entry there was made of (`KnownRequests`), and that
  the requests it has answered are those it has applied. The first is what
  makes `requests_[last_applied_]` find the right request when it is answered.
  Since every message that makes a node store or apply anything comes from a
  leader, `n` does so only by `handle_client_request` and `handle_heartbeat_timeout`
  (`SoleFrame`); a restart empties log and `requests_` together.
- `SoleLeaderAppliesLog`. `SoleInv` adds that nothing anywhere goes beyond the log
  of `n`: no entry, in a log or on the way, no other log, no acknowledgement and no
  record of a peer (`WithinSoleLog`), hence no commit index; that its entries are
  requests in the order of their ids (`RequestsInOrder`); and that what it has
  applied is its log up to the commit index (`AppliedIsPrefix`). The bound is
  on indexes, not positions, since followers repeat entries: an acknowledgement
  gives the index of the last entry its sender stored, which `n` has made.

The lemmas in front of them say what appending, consuming and broadcasting do to
the set of messages on the links, and what each group of actions leaves alone
("frames"), so that each invariant is proved only for the actions that can
disturb it. None of these theorems uses the order of messages: they hold even
if any message may overtake any other.

### MessageQueues

`QueueAssumption`: the kinds are kinds of messages, the buffer has at least one
place. In `MessageQueues_proofs`:

- `BatchesFit`: no loop dequeues more than fits its buffer, for any size.
  `QueueInv` is `TypeOK` and the bound itself; `TakenFits` is the lemma about
  `try_dequeue_bulk` it rests on, that what is taken in one turn is no more than
  the room left.
- `TypeCorrect`: every message that is enqueued has a queue for its priority.
- `LinkImplemented`: `MessageQueues` implements `MessageLink`. The places a message
  goes through are put in seven stages, and `OrderInv` says of all that is on the
  way that of two messages of a lane the one that is further has the lower
  number, that each is in a place its lane goes through, and that no number is
  higher than that of the last message sent. All steps but `send` and `handle`
  either pass the first messages of a place on to the end of the next (`Moved`:
  a turn of `try_dequeue_bulk`, a buffer handed on, one message written or read)
  or lose them (`Shortened`), and `MovedOrderly` and `ShortenedOrderly` are about
  any such step. A place of a stage is the only one of a lane (`OneWay`), which
  is why a message cannot pass another of its lane. The first of
  `to_raftnode_deser_queue_` is then the first of its lane, and nowhere else.

### PeerConnection

`ConnAssumption`: `None` is not a connection.
In `PeerConnection_proofs`:

- `DescriptorsOwned`, `PipelinesMeet`. `OwnInv` says which descriptors there are:
  those of the pipelines' streams, of the attempt to connect, and of the backlog
  and the handshakes. What `is_running_` tells other threads of the pipeline's
  loop is part of it (`PipelineState`): `run` refuses a connection only because
  of it, and the connecting side never does (`ConnectsWhenIdle`).
- `TypeCorrect`. `TypeInv` adds what is in the streams: nothing once both sides have
  closed (`Cleared`), and the handshake first and only until the accepting
  pipeline has the stream (`Greetings`).
- `ChannelImplemented`. `PassageInv`, for the messages of each side: each is in one
  of `from_ser_queue_`, the streams and `to_deser_queue_`, once (`OnePlace`), and
  was sent but not yet received (`AllPending`).

### ClientSession

`SessionAssumption`: server 0 is there, and `None` is neither a connection nor a
client. In `ClientSession_proofs`:

- `SessionsOwned`, `TypeCorrect`. `OwnInv`: a connection a server has open is in one
  place, its backlog, its handshakes or one session (`OwnersApart`, `Opened`), a
  client's stream is open and no other client's (`StreamsOpen`), and the
  handshake is what comes first and stays until the server reads it
  (`Greetings`).
- `RequestsImplemented`. `PassageInv`: each request is in one stream or one node's
  queue, once, and it was sent and not yet handled.
- `AnswersOnlyHandled`. `ReplyInv`: a reply, or the request that is going to be
  replied to, is in one place of the leader's log, `send_to_client`, the
  connections and the replies read, once, and its request was handled
  (`Apart`). It needs `PassageInv`: a request is accepted once.

### NodeLifecycle

No constants. In `NodeLifecycle_proofs`:

- `TypeCorrect`: the pool never has more than one task waiting.
- `QuietAfterStop`: once `stop()` has returned, and when the event loop is
  destroyed, the node's thread is at rest. `LifecycleInv` adds how the flag, the
  waiting task and the running loop go together: a node that does not run, and
  whose `stop` does not wait, has neither task nor loop, and a node that runs has
  at most one of the two.

Only model-checked: the liveness properties (`CatchesUp`, `AnswersAll`,
`EventuallyConnected`, `EveryMessageArrives`, `SessionEnds`, `ServerZeroAnswers`,
`StopReturns`), which need fairness and `ENABLED`, out of the prover's reach, and
the five disagreements of section 3, which are counterexamples.

## 5. Fairness

`catch_up` uses `FairSpec` of `RaftNode`, the cluster with crashes:

- weak fairness of `handle_lane` for every link and lane: each queue is emptied in
  its order and no thread passes one over for ever (`EveryMessageArrives` of
  `MessageQueues` is this, seen from below), as long as what is lost is finite;
- strong fairness of the heartbeat and reissue timers of every node. They fire
  every 50 and 30 ms whatever the state; the only thing that ever disables
  these actions for a leader is the bound on messages in flight, which is of
  the model. Weak fairness would let that bound suspend them for ever.

None for the election timer, for client requests, for losses and restarts: the
properties speak of behaviours in which node 0 is leader from some time on.

`connection` uses `FairSpec` of `PeerConnection`: weak fairness of

- `event_loop`, `read_cb` or `read_cb_ended`, `close_stream`, `end_event_loop`,
  per side: the pipeline's thread runs, its read watcher is called while there
  is something to read, and `event_loop` runs to its end;
- `start_connected`: `try_connect_to_peer` runs to its end.

What the code does not guarantee is a premise of `EventuallyConnected`, whose
counterexamples without it TLC finds:

- `GoesOnBroadcasting`: the connecting side has something to broadcast again and
  again. A node that hears no leader broadcasts votes, a leader heartbeats. A
  follower that hears a leader only replies to append requests: in an idle
  cluster two followers that lose their connection stay disconnected;
- `GoesOnAccepting`: the accept loop serves its watchers. It does not while it waits
  for the rest of a client's request (`client_cb_resumes` of `ClientSession`);
- both processes are up from some time on, and no over-long message comes any more.

None for the network, for writes, for timeouts or for `Start`.

`queues`: weak fairness of every loop's next step, and of `write` for each producer,
since the concurrent queue lets none starve; none for connections.
`sessions`: weak fairness of each server's accept loop and node, and of each
client's event loop and of what its main thread has begun; none for the user's
commands. `lifecycle`, `stop_hangs` and `quit_hangs`: weak fairness of each thread; none for the
operator's commands. The counterexamples of `stop_hangs`, `quit_hangs` and `redirect` are
therefore not threads that were merely stopped.

## 6. Plan

Done: all modules of section 2, with safety and liveness, three refinements,
and the 26 theorems of section 4. Next:

1. The header and the body of a request as two writes in `ClientSession`: the event
   loop may replace `stream_` in between.
2. `AnswersHandled` with the replies of nodes that do not lead: which of them a
   client may take for the answer to its own request.
3. `RaftNode` with connections that change under its links, to see what the
   order of messages across a late handshake (section 3) means for the log.

Not modelled, and why:

- socket and descriptor wrappers, configuration and console logger: pure I/O,
  beyond the closing of descriptors and the reads and writes that the modules
  above take from them;
- the header codec: a fixed copy of 14 bytes with an integer in network byte order;
- the file logger: nothing instantiates it, and a call would not compile, `log()`
  being private to the base class that calls it;
- `Transport::stop` (called nowhere) and `Pipeline::stop` (called by a destructor
  the program does not reach with a pipeline that runs);
- snapshot messages: never sent, their handlers are empty;
- generated protobuf code and the vendored concurrent queue, of which only the
  ordering guarantees are used. These make up 11 700 of the repository's 14 800
  lines; the program's own code is about 3 100 lines.
