----------------------------- MODULE RaftNode ------------------------------
(***************************************************************************)
(* A cluster of embkv nodes: class RaftNode of embkv/include/raft/node.h   *)
(* and embkv/src/raft/node.cpp, one instance per element of Node, and the  *)
(* links between them.                                                     *)
(*                                                                         *)
(* Each node runs one event loop; a timer callback, and the handling of    *)
(* one dequeued message inside handle_parse_timeout, is one atomic action  *)
(* because no other thread of the process touches st_, log_ or requests_.  *)
(***************************************************************************)
EXTENDS MessagePath, FiniteSets

CONSTANTS Zero,         \* the node whose id is 0
          None,         \* boost::none of voted_for_ and leader_id_
          Standing,     \* bound: nodes whose election timer may start an election
          MaxTerm,      \* bound: no election is started beyond this term
          MaxRequest,   \* bound: number of requests the client issues
          MaxLog,       \* bound: length a log may reach
          MaxInFlight,  \* bound: messages in flight, on all links together
          MaxLoss,      \* bound: messages lost
          MaxRestart    \* bound: crashes of nodes

ASSUME NodeAssumption == IsFiniteSet(Node) /\ Zero \in Node /\ None \notin Node

\* The only client sends its requests with id 0 (main.cpp), an id that is in
\* the id space of the nodes.
Client == Zero

VARIABLES
    \* RaftStatus, and the "heartbeat since the last election timer" relation
    \* last_heartbeat_ > ElectionData::start
    current_term, voted_for, role, votes, leader_id, heard,
    commit_index, last_applied, next_index, match_index,
    log,            \* log_
    requests,       \* requests_: log index -> request to be answered
    applied,        \* what state_machine_ was given, in order (its database
                    \* is a function of it and is a file)
    replies,        \* what was handed to send_to_client
    net,            \* net[i][j]: messages from node i to node j
    next_request,   \* the client's request_id_
    losses,         \* messages lost so far, for the bound
    restarts,       \* crashes so far, for the bound
    ballots,        \* history only: every vote ever given
    elections       \* history only: every leader ever, with its term

electionVars    == <<current_term, voted_for, role, votes, ballots, elections>>
hintVars        == <<leader_id, heard>>
applyVars       == <<commit_index, last_applied, applied, replies, requests>>
replicationVars == <<next_index, match_index>>
envVars         == <<next_request, losses, restarts>>

vars == <<electionVars, hintVars, applyVars, replicationVars, log, net, envVars>>

Role == {"Follower", "Candidate", "Leader"}

Ballot == [voter : Node, term : Nat, candidate : Node]

Election == [term : Nat, leader : Node]

RequestSlot == [index : Nat, request_id : Nat]

\* leader_hint is read in a refusal only; elsewhere it has its default, 0.
Reply == [node : Node, request_id : Nat, success : BOOLEAN, leader_hint : Node]

peer_count == Cardinality(Node)

\* Mutant of Majority: half of the peers, without the one more.
HalfIsEnough == peer_count \div 2

Majority == peer_count \div 2 + 1

TypeOK ==
    /\ current_term \in [Node -> Nat]
    /\ voted_for    \in [Node -> Node \cup {None}]
    /\ role         \in [Node -> Role]
    /\ votes        \in [Node -> Nat]
    /\ leader_id    \in [Node -> Node \cup {None}]
    /\ heard        \in [Node -> BOOLEAN]
    /\ commit_index \in [Node -> Nat]
    /\ last_applied \in [Node -> Nat]
    /\ next_index   \in [Node -> [Node -> Nat]]
    /\ match_index  \in [Node -> [Node -> Nat]]
    /\ log          \in [Node -> Log]
    /\ requests     \in [Node -> SUBSET RequestSlot]
    /\ applied      \in [Node -> Seq(Entry)]
    /\ replies      \in SUBSET Reply
    /\ net          \in [Node -> [Node -> Seq(Message)]]
    /\ next_request \in Nat
    /\ losses       \in Nat
    /\ restarts     \in Nat
    /\ ballots      \in SUBSET Ballot
    /\ elections    \in SUBSET Election

\* A node's maps start empty; only a leader reads them, and becoming leader
\* gives every peer an entry, so an absent entry is modelled as 0.
Init ==
    /\ current_term = [n \in Node |-> 0]
    /\ voted_for    = [n \in Node |-> None]
    /\ role         = [n \in Node |-> "Follower"]
    /\ votes        = [n \in Node |-> 0]
    /\ leader_id    = [n \in Node |-> None]
    /\ heard        = [n \in Node |-> FALSE]
    /\ commit_index = [n \in Node |-> 0]
    /\ last_applied = [n \in Node |-> 0]
    /\ next_index   = [n \in Node |-> [p \in Node |-> 0]]
    /\ match_index  = [n \in Node |-> [p \in Node |-> 0]]
    /\ log          = [n \in Node |-> EmptyLog]
    /\ requests     = [n \in Node |-> {}]
    /\ applied      = [n \in Node |-> << >>]
    /\ replies      = {}
    /\ net          = [i \in Node |-> [j \in Node |-> << >>]]
    /\ next_request = 0
    /\ losses       = 0
    /\ restarts     = 0
    /\ ballots      = {}
    /\ elections    = {}

-----------------------------------------------------------------------------
(* Helpers shared by the handlers                                          *)

InFlight(links) ==
    Cardinality(UNION {{<<i, j>>} \X DOMAIN links[i][j] : i, j \in Node})

\* There is room for that many more messages (bound).
Room(links, more) == InFlight(links) + more <= MaxInFlight

\* The number of copies a broadcast sends.
Receivers == peer_count - 1

\* Mutant of Stale: messages of earlier terms are not dropped.
NothingIsStale(n, m) == FALSE

\* The test that makes every handler drop a message.
Stale(n, m) == m.term < current_term[n]

Newer(n, m) == m.term > current_term[n]

\* Mutant of IsLeader: a candidate acts as the leader it hopes to be.
LeaderOrCandidate(n) == role[n] # "Follower"

IsLeader(n) == role[n] = "Leader"

\* Mutant of VoteHeld: the vote is forgotten at a message of the same term.
VoteForgotten(n, t) == IF t >= current_term[n] THEN None ELSE voted_for[n]

\* The vote node n holds once it has seen a message of term t.
VoteHeld(n, t) == IF t > current_term[n] THEN None ELSE voted_for[n]

\* Mutant of handle_higher_term: the votes of the earlier term are kept.
VotesKept(n, t) ==
    /\ current_term' = [current_term EXCEPT ![n] = IF t > @ THEN t ELSE @]
    /\ role'  = [role EXCEPT ![n] = IF t > current_term[n] THEN "Follower" ELSE @]
    /\ votes' = votes

\* Mutant of handle_higher_term: the higher term is not taken over.
TermNotTaken(n, t) ==
    /\ role'  = [role EXCEPT ![n] = IF t > current_term[n] THEN "Follower" ELSE @]
    /\ votes' = [votes EXCEPT ![n] = IF t > current_term[n] THEN 0 ELSE @]
    /\ UNCHANGED current_term

\* The prologue of the handlers: a message of a higher term than the node's
\* makes it a follower of that term, any other leaves it as it is
\* (if (term > current_term()) st_.handle_higher_term(term)).
\* The change of voted_for is stated by each handler, from VoteHeld.
handle_higher_term(n, t) ==
    /\ current_term' = [current_term EXCEPT ![n] = IF t > @ THEN t ELSE @]
    /\ role'  = [role EXCEPT ![n] = IF t > current_term[n] THEN "Follower" ELSE @]
    /\ votes' = [votes EXCEPT ![n] = IF t > current_term[n] THEN 0 ELSE @]

\* Mutant of RequestAt: the request of the entry before is looked up.
RequestBefore(n, index) ==
    IF \E s \in requests[n] : s.index + 1 = index
    THEN (CHOOSE s \in requests[n] : s.index + 1 = index).request_id
    ELSE 0

\* requests_[index] with the default Request{} (request id 0) if absent.
RequestAt(n, index) ==
    IF \E s \in requests[n] : s.index = index
    THEN (CHOOSE s \in requests[n] : s.index = index).request_id
    ELSE 0

\* apply_to_state_machine(c): last_applied_ is counted up to c whether or not
\* the log holds the entries, and only those present are applied and answered.
Present(n, c) ==
    {i \in (last_applied[n] + 1) .. c : has_entry(log[n], i)}

\* Mutant of AppliedUpTo: the log is applied from its start again.
AppliedFromStart(n, c) ==
    SubSeq(log[n].entries, 1, IF c <= Len(log[n].entries) THEN c ELSE Len(log[n].entries))

AppliedUpTo(n, c) ==
    SubSeq(log[n].entries, last_applied[n] + 1,
           IF c <= Len(log[n].entries) THEN c ELSE Len(log[n].entries))

apply_to_state_machine(n, c) ==
    /\ commit_index' = [commit_index EXCEPT ![n] = c]
    /\ last_applied' = [last_applied EXCEPT ![n] = IF @ < c THEN c ELSE @]
    /\ applied'  = [applied EXCEPT ![n] = @ \o AppliedUpTo(n, c)]
    /\ requests' = [requests EXCEPT ![n] =
                      @ \cup {[index |-> i, request_id |-> RequestAt(n, i)] :
                                i \in Present(n, c)}]
    /\ replies'  = replies \cup
                     {[node |-> n, request_id |-> RequestAt(n, i),
                       success |-> TRUE, leader_hint |-> Zero] :
                         i \in Present(n, c)}

\* Mutant of AdvanceCommit: the comparison is off by one.
AdvanceCommitLate(n, c) ==
    IF c > commit_index[n] + 1 THEN apply_to_state_machine(n, c)
    ELSE UNCHANGED applyVars

\* if (c > commit_index()) apply_to_state_machine(c)
AdvanceCommit(n, c) ==
    IF c > commit_index[n] THEN apply_to_state_machine(n, c)
    ELSE UNCHANGED applyVars

-----------------------------------------------------------------------------
(* Timers                                                                  *)

start_election(n) ==
    /\ n \in Standing
    /\ current_term[n] < MaxTerm
    /\ Room(net, Receivers)
    /\ current_term' = [current_term EXCEPT ![n] = @ + 1]
    /\ role'      = [role EXCEPT ![n] = "Candidate"]
    /\ voted_for' = [voted_for EXCEPT ![n] = n]
    /\ votes'     = [votes EXCEPT ![n] = 1]
    /\ ballots'   = ballots \cup {[voter |-> n, term |-> current_term[n] + 1,
                                   candidate |-> n]}
    /\ net' = Broadcast(net, n,
                [type |-> "RequestVoteRequest", src |-> n,
                 term |-> current_term[n] + 1,
                 last_log_index |-> log[n].last_log_index,
                 last_log_term  |-> log[n].last_log_term])
    /\ UNCHANGED elections

\* The election timer fires: no election if a heartbeat came after the
\* previous firing, nor on a leader.
handle_election_timeout(n) ==
    /\ heard' = [heard EXCEPT ![n] = FALSE]
    /\ IF ~heard[n] /\ ~IsLeader(n)
       THEN start_election(n)
       ELSE UNCHANGED <<electionVars, net>>
    /\ UNCHANGED <<leader_id, applyVars, replicationVars, log, envVars>>

\* Mutant of CommitPosition: size / 2 instead of size / 2 + 1.
CommitPositionHigh == peer_count - peer_count \div 2

\* The position read in the array of the leader's match indexes, sorted
\* upwards and counted from 0: peer_count - (size / 2 + 1).
CommitPosition == peer_count - Majority

\* v is the value at that position: at most that many are smaller, and more
\* than that many are not greater.
IsCommitValue(n, v) ==
    /\ v \in {match_index[n][p] : p \in Node}
    /\ Cardinality({p \in Node : match_index[n][p] < v}) <= CommitPosition
    /\ Cardinality({p \in Node : match_index[n][p] <= v}) > CommitPosition

\* heartbeat(), called when commit_index_ is commit.
heartbeat(n, commit) ==
    [type |-> "Heartbeat", src |-> n, term |-> current_term[n], leader_commit |-> commit]

\* The leader's heartbeat timer: advance the commit index, then heartbeat.
handle_heartbeat_timeout(n) ==
    /\ IsLeader(n)
    /\ Room(net, Receivers)
    /\ \E v \in {match_index[n][p] : p \in Node} :
          IsCommitValue(n, v) /\ AdvanceCommit(n, v)
    /\ net' = Broadcast(net, n, heartbeat(n, commit_index'[n]))
    /\ UNCHANGED <<electionVars, hintVars, replicationVars, log, envVars>>

\* The entries a leader reissues to peer p: all those from next_index on,
\* there being none at 0.
ReissueBatch(n, p) ==
    SubSeq(log[n].entries,
           IF next_index[n][p] = 0 THEN 1 ELSE next_index[n][p],
           IF log[n].last_log_index <= Len(log[n].entries)
           THEN log[n].last_log_index ELSE Len(log[n].entries))

ReissueRequest(n, p) ==
    LET prev == next_index[n][p] - 1
    IN  [type |-> "AppendEntriesRequest", src |-> n, term |-> current_term[n],
         prev_log_index |-> prev,
         prev_log_term  |-> IF has_entry(log[n], prev)
                            THEN entry_at(log[n], prev).term ELSE 0,
         entries        |-> ReissueBatch(n, p),
         leader_commit  |-> commit_index[n],
         path           |-> "direct"]

\* Mutant of Behind: the last entry is not reissued.
BehindByTwo(n) == {p \in Node \ {n} : next_index[n][p] < log[n].last_log_index}

\* The peers behind the leader's log.  The leader is one of its own peers,
\* but what it hands to its own pipeline is never sent.
Behind(n) == {p \in Node \ {n} : /\ next_index[n][p] <= log[n].last_log_index
                                 /\ ReissueBatch(n, p) # << >>}

handle_reissue_timeout(n) ==
    /\ IsLeader(n)
    /\ Behind(n) # {}
    /\ Room(net, Cardinality(Behind(n)))
    /\ net' = [net EXCEPT ![n] =
                 [p \in Node |-> IF p \in Behind(n)
                                 THEN Append(@[p], ReissueRequest(n, p)) ELSE @[p]]]
    /\ UNCHANGED <<electionVars, hintVars, applyVars, replicationVars, log, envVars>>

-----------------------------------------------------------------------------
(* Message handlers.  Each is given the message m taken from the queue and *)
(* the links that remain without it.                                       *)

discard_stale(n, m, rest) ==
    /\ Stale(n, m)
    /\ net' = rest
    /\ UNCHANGED <<electionVars, hintVars, applyVars, replicationVars, log, envVars>>

\* The candidate's log is at least as up to date as the voter's.
UpToDate(n, m) ==
    \/ m.last_log_term > log[n].last_log_term
    \/ /\ m.last_log_term = log[n].last_log_term
       /\ m.last_log_index >= log[n].last_log_index

\* The reply goes through the broadcast queue, to every peer.
handle_request_vote_request(n, m, rest) ==
    LET granted == VoteHeld(n, m.term) \in {None, m.src} /\ UpToDate(n, m)
    IN  /\ m.type = "RequestVoteRequest"
        /\ ~Stale(n, m)
        /\ Room(rest, Receivers)
        /\ handle_higher_term(n, m.term)
        /\ voted_for' = [voted_for EXCEPT ![n] =
                           IF granted THEN m.src ELSE VoteHeld(n, m.term)]
        /\ ballots' = IF granted
                      THEN ballots \cup {[voter |-> n, term |-> m.term,
                                          candidate |-> m.src]}
                      ELSE ballots
        /\ net' = Broadcast(rest, n,
                    [type |-> "RequestVoteResponse", src |-> n,
                     term |-> m.term, granted |-> granted])
        /\ UNCHANGED <<elections, hintVars, applyVars, replicationVars, log, envVars>>

\* Every vote counted from the majority on starts the leader's indexes anew.
become_leader(n) ==
    /\ role' = [role EXCEPT ![n] = "Leader"]
    /\ match_index' = [match_index EXCEPT ![n] = [p \in Node |-> commit_index[n]]]
    /\ next_index'  = [next_index EXCEPT ![n] = [p \in Node |-> commit_index[n] + 1]]
    /\ elections' = elections \cup {[term |-> current_term[n], leader |-> n]}

\* A granted vote of the current term is counted, whatever the role of the
\* node and whomever the vote was for.
vote_counted(n, m, rest) ==
    /\ m.type = "RequestVoteResponse"
    /\ ~Stale(n, m)
    /\ ~Newer(n, m)
    /\ m.granted
    /\ votes' = [votes EXCEPT ![n] = @ + 1]
    /\ IF votes[n] + 1 >= Majority
       THEN become_leader(n)
       ELSE UNCHANGED <<role, replicationVars, elections>>
    /\ net' = rest
    /\ UNCHANGED <<current_term, voted_for, ballots, hintVars, applyVars, log, envVars>>

\* A refused vote changes nothing; a vote of a higher term only the term.
vote_not_counted(n, m, rest) ==
    /\ m.type = "RequestVoteResponse"
    /\ ~Stale(n, m)
    /\ Newer(n, m) \/ ~m.granted
    /\ handle_higher_term(n, m.term)
    /\ voted_for' = [voted_for EXCEPT ![n] = VoteHeld(n, m.term)]
    /\ net' = rest
    /\ UNCHANGED <<ballots, elections, hintVars, applyVars, replicationVars, log, envVars>>

\* Mutant of append_prologue: the term of the request is not taken over.
PrologueWithoutTerm(n, m) ==
    /\ ~Stale(n, m)
    /\ UNCHANGED <<current_term, role, votes, voted_for>>
    /\ AdvanceCommit(n, m.leader_commit)

\* The common first part of handle_append_entries_request: the term, and then
\* the leader's commit index, before the log is looked at.
append_prologue(n, m) ==
    /\ ~Stale(n, m)
    /\ handle_higher_term(n, m.term)
    /\ voted_for' = [voted_for EXCEPT ![n] = VoteHeld(n, m.term)]
    /\ AdvanceCommit(n, m.leader_commit)

\* last_heartbeat_ is set to the current time, which in the same clock tick
\* as the last firing of the election timer is not later than it.
handle_heartbeat(n, m, rest) ==
    /\ m.type = "Heartbeat"
    /\ append_prologue(n, m)
    /\ leader_id' = [leader_id EXCEPT ![n] = m.src]
    /\ \E later \in {heard[n], TRUE} : heard' = [heard EXCEPT ![n] = later]
    /\ net' = rest
    /\ UNCHANGED <<ballots, elections, replicationVars, log, envVars>>

\* Mutant of PrevMatches: an absent previous entry is accepted.
PrevAbsentAccepted(n, m) ==
    has_entry(log[n], m.prev_log_index) =>
        entry_at(log[n], m.prev_log_index).term = m.prev_log_term

\* The entry before the new ones is in the log, with the same term.
PrevMatches(n, m) ==
    \/ m.prev_log_index = 0
    \/ /\ has_entry(log[n], m.prev_log_index)
       /\ entry_at(log[n], m.prev_log_index).term = m.prev_log_term

\* Mutant of ConflictIndex: the refusal backs up one entry more.
ConflictOneEarlier(m) == m.prev_log_index - 1

\* The index a refusal asks the leader to start again from.
ConflictIndex(m) == m.prev_log_index

handle_append_mismatch(n, m, rest) ==
    /\ m.type = "AppendEntriesRequest"
    /\ Room(rest, Receivers)
    /\ append_prologue(n, m)
    /\ ~PrevMatches(n, m)
    /\ net' = Broadcast(rest, n,
                [type |-> "AppendEntriesResponse", src |-> n, term |-> m.term,
                 success |-> FALSE, conflict_index |-> ConflictIndex(m),
                 last_log_index |-> log[n].last_log_index])
    /\ UNCHANGED <<ballots, elections, hintVars, replicationVars, log, envVars>>

\* The entries are appended at the end of the log, wherever it ends.
handle_append_match(n, m, rest) ==
    LET extended == append_entries(log[n], m.entries)
    IN  /\ m.type = "AppendEntriesRequest"
        /\ Room(rest, Receivers)
        /\ Len(extended.entries) <= MaxLog
        /\ append_prologue(n, m)
        /\ PrevMatches(n, m)
        /\ log' = [log EXCEPT ![n] = extended]
        /\ net' = Broadcast(rest, n,
                    [type |-> "AppendEntriesResponse", src |-> n, term |-> m.term,
                     success |-> TRUE, conflict_index |-> 0,
                     last_log_index |-> extended.last_log_index])
        /\ UNCHANGED <<ballots, elections, hintVars, replicationVars, envVars>>

\* Handled by every node that receives it, leader or not.
handle_append_entries_response(n, m, rest) ==
    /\ m.type = "AppendEntriesResponse"
    /\ ~Stale(n, m)
    /\ ~Newer(n, m)
    /\ next_index' = [next_index EXCEPT ![n][m.src] =
                        IF m.success THEN m.last_log_index + 1 ELSE m.conflict_index]
    /\ match_index' = [match_index EXCEPT ![n][m.src] =
                        IF m.success THEN m.last_log_index ELSE @]
    /\ net' = rest
    /\ UNCHANGED <<electionVars, hintVars, applyVars, log, envVars>>

\* A response of a higher term is only the news of that term.
append_response_higher_term(n, m, rest) ==
    /\ m.type = "AppendEntriesResponse"
    /\ Newer(n, m)
    /\ handle_higher_term(n, m.term)
    /\ voted_for' = [voted_for EXCEPT ![n] = VoteHeld(n, m.term)]
    /\ net' = rest
    /\ UNCHANGED <<ballots, elections, hintVars, applyVars, replicationVars, log, envVars>>

\* One message dequeued by handle_parse_timeout.
handle_message(n, src, k) ==
    LET m    == net[src][n][k]
        rest == Consume(net, src, n, k)
    IN  /\ Deliverable(net[src][n], k)
        /\ \/ discard_stale(n, m, rest)
           \/ handle_request_vote_request(n, m, rest)
           \/ vote_counted(n, m, rest)
           \/ vote_not_counted(n, m, rest)
           \/ handle_heartbeat(n, m, rest)
           \/ handle_append_mismatch(n, m, rest)
           \/ handle_append_match(n, m, rest)
           \/ handle_append_entries_response(n, m, rest)
           \/ append_response_higher_term(n, m, rest)

handle_parse_timeout(n) ==
    \E src \in Node : \E k \in DOMAIN net[src][n] : handle_message(n, src, k)

-----------------------------------------------------------------------------
(* Client requests                                                         *)

\* Mutant of LeaderHint: the value is taken without a default.
LeaderHintUnchecked(n) == leader_id[n]

\* leader_id(): 0 stands for no leader known.
LeaderHint(n) == IF leader_id[n] = None THEN Zero ELSE leader_id[n]

reject_client_request(n) ==
    /\ next_request < MaxRequest
    /\ ~IsLeader(n)
    /\ replies' = replies \cup
                    {[node |-> n, request_id |-> next_request,
                      success |-> FALSE, leader_hint |-> LeaderHint(n)]}
    /\ next_request' = next_request + 1
    /\ UNCHANGED <<electionVars, hintVars, commit_index, last_applied, applied,
                   requests, replicationVars, log, net, losses, restarts>>

\* requests_.emplace(index, request): an existing element is kept.
emplace(slots, index, request_id) ==
    IF \E s \in slots : s.index = index THEN slots
    ELSE slots \cup {[index |-> index, request_id |-> request_id]}

\* Mutant of NewIndex: counted from the commit index.
NewIndexAfterCommit(n) == commit_index[n] + 1

\* The index the leader gives a new entry.
NewIndex(n) == log[n].last_log_index + 1

\* node_id in handle_client_request is the sender's id, that is the client's:
\* the indexes updated are those of the peer with that id.
accept_client_request(n) ==
    LET last  == log[n].last_log_index
        entry == [term |-> current_term[n], index |-> NewIndex(n),
                  request_id |-> next_request]
        extended == append_entry(log[n], entry)
        request  == [type |-> "AppendEntriesRequest", src |-> n,
                     term |-> current_term[n], prev_log_index |-> last,
                     prev_log_term |-> IF last = 0 THEN 0
                                       ELSE entry_at(extended, last).term,
                     entries |-> <<entry>>, leader_commit |-> commit_index[n],
                     path |-> "broadcast"]
    IN  /\ next_request < MaxRequest
        /\ IsLeader(n)
        /\ Len(extended.entries) <= MaxLog
        /\ Room(net, Receivers)
        /\ log' = [log EXCEPT ![n] = extended]
        /\ next_index'  = [next_index EXCEPT ![n][Client] = last + 2]
        /\ match_index' = [match_index EXCEPT ![n][Client] = last + 1]
        /\ requests' = [requests EXCEPT ![n] = emplace(@, last + 1, next_request)]
        /\ net' = IF last = 0 \/ has_entry(extended, last)
                  THEN Broadcast(net, n, request) ELSE net
        /\ next_request' = next_request + 1
        /\ UNCHANGED <<electionVars, hintVars, commit_index, last_applied, applied,
                       replies, losses, restarts>>

handle_client_request(n) == reject_client_request(n) \/ accept_client_request(n)

-----------------------------------------------------------------------------
(* The network and crashes                                                 *)

\* A message is lost: the pipeline was not running when it was broadcast, or
\* the connection broke while it was in the stream.
Lose(i, j) ==
    /\ losses < MaxLoss
    /\ losses' = losses + 1
    /\ \E k \in DOMAIN net[i][j] : net' = Consume(net, i, j, k)
    /\ UNCHANGED <<electionVars, hintVars, applyVars, replicationVars, log,
                   next_request, restarts>>

\* A process ends and is started again: nothing of RaftStatus, the log or
\* requests_ is on disk, the state machine's database is.
Restart(n) ==
    /\ restarts < MaxRestart
    /\ restarts'     = restarts + 1
    /\ current_term' = [current_term EXCEPT ![n] = 0]
    /\ voted_for'    = [voted_for EXCEPT ![n] = None]
    /\ role'         = [role EXCEPT ![n] = "Follower"]
    /\ votes'        = [votes EXCEPT ![n] = 0]
    /\ leader_id'    = [leader_id EXCEPT ![n] = None]
    /\ heard'        = [heard EXCEPT ![n] = FALSE]
    /\ commit_index' = [commit_index EXCEPT ![n] = 0]
    /\ last_applied' = [last_applied EXCEPT ![n] = 0]
    /\ next_index'   = [next_index EXCEPT ![n] = [p \in Node |-> 0]]
    /\ match_index'  = [match_index EXCEPT ![n] = [p \in Node |-> 0]]
    /\ log'          = [log EXCEPT ![n] = EmptyLog]
    /\ requests'     = [requests EXCEPT ![n] = {}]
    /\ UNCHANGED <<applied, replies, net, next_request, losses, ballots, elections>>

-----------------------------------------------------------------------------

NodeStep(n) ==
    \/ handle_election_timeout(n)
    \/ handle_heartbeat_timeout(n)
    \/ handle_reissue_timeout(n)
    \/ handle_parse_timeout(n)
    \/ handle_client_request(n)

Next == \/ \E n \in Node : NodeStep(n)
        \/ \E i, j \in Node : Lose(i, j)

\* The cluster as long as no process ends.
Spec == Init /\ [][Next]_vars

\* The cluster with crashes.
CrashNext == Next \/ \E n \in Node : Restart(n)

CrashSpec == Init /\ [][CrashNext]_vars

\* A message that went through the queues of one lane is handled.
handle_lane(n, src, lane) ==
    \E k \in DOMAIN net[src][n] :
        Lane(net[src][n][k]) = lane /\ handle_message(n, src, k)

Lanes == {TRUE, FALSE} \X (0 .. 2) \X (0 .. 1)

\* What the event loop does again and again: no queue is passed over for ever
\* and the timers of a leader fire however full the links are (which only the
\* bound on messages in flight prevents).
Fairness ==
    \A n \in Node :
        /\ \A src \in Node \ {n} : \A lane \in Lanes : WF_vars(handle_lane(n, src, lane))
        /\ SF_vars(handle_heartbeat_timeout(n))
        /\ SF_vars(handle_reissue_timeout(n))

FairSpec == CrashSpec /\ Fairness

-----------------------------------------------------------------------------
(* Properties                                                              *)

Voters(term) == {b.voter : b \in {c \in ballots : c.term = term}}

\* No node gives its vote to two candidates in one term: handle_higher_term
\* clears voted_for_ with a higher term only, and start_election votes for the
\* node itself only in a term it is the first to enter.
OneVotePerTerm ==
    \A b, c \in ballots :
        b.voter = c.voter /\ b.term = c.term => b.candidate = c.candidate

\* A node never has more votes than nodes voted in its term.  The replies it
\* counts (votes_++) are not tied to a candidate, so this rests on every voter
\* replying at most once in a term, and on votes_ being reset with the term.
VotesWithinTurnout ==
    \A n \in Node : votes[n] <= Cardinality(Voters(current_term[n]))

\* In the term of a leader a majority of the nodes have voted, though not
\* all of them for that leader (handle_request_vote_response).
LeaderHasTurnout ==
    \A n \in Node :
        role[n] = "Leader" => 2 * Cardinality(Voters(current_term[n])) > peer_count

\* With three nodes, only a node that stood for election in its term becomes
\* leader, though handle_request_vote_response does not look at the role.
OnlyCandidatesElected ==
    [][\A n \in Node : role[n] = "Follower" => role'[n] # "Leader"]_vars

\* At most one leader is elected in a term.
ElectionSafety ==
    \A e, f \in elections : e.term = f.term => e.leader = f.leader

\* The leader a node would redirect a client to (leader_id_) did win an
\* election, in a term the node has reached.
HintWasLeader ==
    \A n \in Node : leader_id[n] # None =>
        \E e \in elections : e.leader = leader_id[n] /\ e.term <= current_term[n]

\* No log holds an entry of a term its node has not reached, whoever created
\* the entry and whatever request (first sending or reissue) brought it.
EntryTermReached ==
    \A n \in Node : \A i \in DOMAIN log[n].entries :
        log[n].entries[i].term <= current_term[n]

\* An entry is stored at the position of its index or after it: a log may
\* repeat entries but has no gap, so the positions read by entry_at(i) for
\* the indexes i up to last_log_index_ are all present.
IndexWithinLog ==
    \A n \in Node :
        /\ log[n].last_log_index <= Len(log[n].entries)
        /\ \A i \in DOMAIN log[n].entries : log[n].entries[i].index <= i

\* However refusals and acknowledgements interleave, a leader never sends from
\* index 0: next_index.second - 1 in handle_reissue_timeout does not wrap.
NextIndexPositive ==
    \A n \in Node : role[n] = "Leader" => \A p \in Node : next_index[n][p] >= 1

Holders(index) == {p \in Node : Len(log[p].entries) >= index}

\* What any node takes for committed has reached a majority of the logs, even
\* though a leader records the client's id as if it were the peer that has the
\* new entry, and not its own (handle_client_request).
CommitQuorum ==
    \A n \in Node : 2 * Cardinality(Holders(commit_index[n])) > peer_count

EntriesOf(n) == {log[n].entries[i] : i \in DOMAIN log[n].entries}

\* As long as no term has had two leaders, a term and an index name one
\* request in every log, repeated or not.
EntryIdentity ==
    ElectionSafety =>
      \A n, p \in Node : \A e \in EntriesOf(n), f \in EntriesOf(p) :
          e.term = f.term /\ e.index = f.index => e = f

\* Elections have made node n leader, and never another one.
SoleLeader(n) == elections # {} /\ \A e \in elections : e.leader = n

\* The requests node n has told the client to have succeeded.
Answered(n) == {r.request_id : r \in {q \in replies : q.node = n /\ q.success}}

\* As long as there has been one leader only, it has answered the requests it
\* has given to its state machine, all of them and no other: requests_[index]
\* is there for every entry, and is the request the entry was made of.
SoleLeaderAnswers ==
    \A n \in Node : SoleLeader(n) =>
        Answered(n) = {applied[n][i].request_id : i \in DOMAIN applied[n]}

\* As long as there has been one leader only, last_applied_ is what it has
\* applied: its own log up to there, every request once and in the order in
\* which they came, whatever was sent again or acknowledged twice.
SoleLeaderApplies ==
    \A n \in Node : SoleLeader(n) =>
        /\ Len(applied[n]) = last_applied[n]
        /\ \A i \in DOMAIN applied[n] :
              /\ i \in DOMAIN log[n].entries /\ applied[n][i] = log[n].entries[i]
              /\ \A j \in 1 .. i - 1 :
                    applied[n][j].request_id < applied[n][i].request_id

\* Node 0 is the leader of the highest term, and no process has ended.
ZeroLeads == /\ IsLeader(Zero) /\ restarts = 0
             /\ \A p \in Node : current_term[p] <= current_term[Zero]

\* As long as node 0 stays leader, all its entries get into every log, whatever
\* was lost, overtaken or refused on the way (handle_reissue_timeout,
\* next_index_).
CatchesUp ==
    <>[]ZeroLeads => <>[](\A p \in Node : EntriesOf(Zero) \subseteq EntriesOf(p))

\* The only leader there has ever been, if it is node 0 and stays leader,
\* commits, applies and answers what is in its log.
AnswersAll ==
    <>[](ZeroLeads /\ \A e \in elections : e.leader = Zero) =>
        <>[](\A e \in EntriesOf(Zero) :
                \E r \in replies : r.success /\ r.request_id = e.request_id)

\* A request is given to the state machine of a node at most once (the id of
\* a request is there "for deduplication", rpc.proto).
AppliedOnce ==
    \A n \in Node : \A i, j \in DOMAIN applied[n] :
        applied[n][i].request_id = applied[n][j].request_id => i = j

=============================================================================
