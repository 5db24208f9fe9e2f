----------------------- MODULE RaftNodeLeader_proofs ------------------------
(***************************************************************************)
(* Proofs about what leaders of RaftNode do: who is taken for a leader,    *)
(* what is taken for committed, and which entries leaders create.          *)
(***************************************************************************)
EXTENDS RaftNodeLog_proofs

\* The election node n would have won in its present term.
Win(n) == [term |-> current_term[n], leader |-> n]

\* How the term and the role of node n move: it ends and is started again, it
\* enters a later term, or it stays in its term, where a leader stays leader.
RoleFrame(n) ==
    \/ Restart(n)
    \/ current_term'[n] > current_term[n] /\ role'[n] # "Leader"
    \/ /\ current_term'[n] = current_term[n]
       /\ role[n] = "Leader" => role'[n] = "Leader"
       /\ role'[n] = "Leader" => role[n] = "Leader" \/ Win(n) \in elections'

\* Elections are kept, and a new one is that of a node that is now leader.
ElectionsFrame ==
    /\ elections \subseteq elections'
    /\ \A e \in elections' :
          e \in elections \/ \E n \in Node : role'[n] = "Leader" /\ e = Win(n)'

\* The leader node n knows of is the sender of a heartbeat of its new term.
HintFrame(n) ==
    \/ leader_id'[n] = leader_id[n]
    \/ leader_id'[n] = None
    \/ \E m \in Carried(net) : /\ m.type = "Heartbeat" /\ leader_id'[n] = m.src
                               /\ current_term'[n] = m.term

LeadFrame == ElectionsFrame /\ \A n \in Node : RoleFrame(n) /\ HintFrame(n)

LEMMA SameLead ==
    ASSUME UNCHANGED <<current_term, role, elections, leader_id>>
    PROVE  LeadFrame
  BY DEF LeadFrame, ElectionsFrame, RoleFrame, HintFrame

LEMMA HigherTermLead ==
    ASSUME TypeOK, NEW n \in Node, NEW t \in Nat, t >= current_term[n],
           handle_higher_term(n, t), elections' = elections,
           \A p \in Node : HintFrame(p)
    PROVE  LeadFrame
<1>1. /\ current_term \in [Node -> Nat] /\ role \in [Node -> Role]
      /\ current_term' = [current_term EXCEPT ![n] = t]
      /\ role' = [role EXCEPT ![n] = IF t > current_term[n] THEN "Follower" ELSE @]
  BY TermTaken DEF TypeOK, handle_higher_term
<1>2. \A p \in Node : p # n => UNCHANGED <<current_term[p], role[p]>>
  BY <1>1
<1>3. current_term'[n] = t /\ (t = current_term[n] => role'[n] = role[n])
  BY <1>1
<1>4. t > current_term[n] => role'[n] = "Follower"
  BY <1>1
<1>5. t > current_term[n] \/ t = current_term[n]
  BY <1>1
<1>6. \A p \in Node : RoleFrame(p)
  BY <1>2, <1>3, <1>4, <1>5 DEF RoleFrame
<1>7. QED
  BY <1>6 DEF LeadFrame, ElectionsFrame

LEMMA MessageLead ==
    ASSUME TypeInv, NEW n \in Node, NEW src \in Node, NEW k \in DOMAIN net[src][n],
           handle_message(n, src, k)
    PROVE  LeadFrame
<1> DEFINE m    == net[src][n][k]
           rest == Consume(net, src, n, k)
<1>1. m \in Message /\ m \in Carried(net)
  BY ConsumeCarried, NetIsLinks DEF TypeInv
<1>2. \/ discard_stale(n, m, rest)
      \/ handle_request_vote_request(n, m, rest)
      \/ vote_counted(n, m, rest)
      \/ vote_not_counted(n, m, rest)
      \/ handle_heartbeat(n, m, rest)
      \/ handle_append_mismatch(n, m, rest)
      \/ handle_append_match(n, m, rest)
      \/ handle_append_entries_response(n, m, rest)
      \/ append_response_higher_term(n, m, rest)
  BY DEF handle_message
<1> HIDE DEF m, rest
<1>3. /\ TypeOK /\ m.src \in Node /\ m.term \in Nat /\ current_term \in [Node -> Nat]
      /\ role \in [Node -> Role] /\ leader_id \in [Node -> Node \cup {None}]
  BY <1>1, MessageFields DEF TypeInv, TypeOK
<1>4. ASSUME UNCHANGED leader_id PROVE \A p \in Node : HintFrame(p)
  BY <1>4 DEF HintFrame
<1>5. ASSUME ~Stale(n, m) PROVE m.term >= current_term[n]
  BY <1>3, <1>5 DEF Stale
<1>6. ASSUME ~Stale(n, m), handle_higher_term(n, m.term), UNCHANGED <<elections, leader_id>>
      PROVE  LeadFrame
  BY <1>3, <1>4, <1>5, <1>6, HigherTermLead
<1>7. CASE discard_stale(n, m, rest) \/ handle_append_entries_response(n, m, rest)
  BY <1>7, SameLead DEF discard_stale, handle_append_entries_response, electionVars,
                        hintVars
<1>8. CASE \/ handle_request_vote_request(n, m, rest) \/ vote_not_counted(n, m, rest)
           \/ handle_append_mismatch(n, m, rest) \/ handle_append_match(n, m, rest)
  BY <1>6, <1>8 DEF handle_request_vote_request, vote_not_counted, append_prologue,
                    handle_append_mismatch, handle_append_match, hintVars
<1>9. CASE append_response_higher_term(n, m, rest)
  <2>1. ~Stale(n, m)
    BY <1>3, <1>9 DEF append_response_higher_term, Newer, Stale
  <2>2. QED
    BY <1>6, <1>9, <2>1 DEF append_response_higher_term, hintVars
<1>10. CASE handle_heartbeat(n, m, rest)
  <2>1. /\ m.type = "Heartbeat" /\ ~Stale(n, m) /\ handle_higher_term(n, m.term)
        /\ leader_id' = [leader_id EXCEPT ![n] = m.src] /\ elections' = elections
    BY <1>10 DEF handle_heartbeat, append_prologue
  <2>2. leader_id'[n] = m.src /\ current_term'[n] = m.term
    BY <1>3, <1>5, <2>1, TermTaken
  <2>3. \A p \in Node : p # n => leader_id'[p] = leader_id[p]
    BY <1>3, <2>1
  <2>4. \A p \in Node : HintFrame(p)
    BY <1>1, <2>1, <2>2, <2>3 DEF HintFrame
  <2>5. QED
    BY <1>3, <1>5, <2>1, <2>4, HigherTermLead
<1>11. CASE vote_counted(n, m, rest)
  <2>1. /\ current_term' = current_term /\ UNCHANGED leader_id
        /\ \/ UNCHANGED <<role, elections>>
           \/ /\ role' = [role EXCEPT ![n] = "Leader"]
              /\ elections' = elections \cup {Win(n)}
    BY <1>11 DEF vote_counted, become_leader, Win, hintVars
  <2>2. CASE UNCHANGED <<role, elections>>
    BY <2>1, <2>2, SameLead
  <2>3. CASE /\ role' = [role EXCEPT ![n] = "Leader"]
             /\ elections' = elections \cup {Win(n)}
    <3>1. role'[n] = "Leader" /\ \A p \in Node : p # n => role'[p] = role[p]
      BY <1>3, <2>3
    <3>2. Win(n)' = Win(n)
      BY <2>1 DEF Win
    <3>3. ElectionsFrame
      BY <2>3, <3>1, <3>2 DEF ElectionsFrame
    <3>4. \A p \in Node : RoleFrame(p)
      BY <2>1, <2>3, <3>1 DEF RoleFrame
    <3>5. QED
      BY <1>4, <2>1, <3>3, <3>4 DEF LeadFrame
  <2>4. QED
    BY <2>1, <2>2, <2>3
<1>12. QED
  BY <1>2, <1>7, <1>8, <1>9, <1>10, <1>11

LEMMA ElectionLead ==
    ASSUME TypeInv, NEW n \in Node, handle_election_timeout(n)
    PROVE  LeadFrame
<1>1. current_term \in [Node -> Nat] /\ role \in [Node -> Role]
  BY DEF TypeInv, TypeOK
<1>2. UNCHANGED leader_id
  BY DEF handle_election_timeout
<1>3. CASE start_election(n)
  <2>1. /\ current_term' = [current_term EXCEPT ![n] = current_term[n] + 1]
        /\ role' = [role EXCEPT ![n] = "Candidate"] /\ elections' = elections
    BY <1>3 DEF start_election
  <2>2. /\ current_term'[n] > current_term[n] /\ role'[n] = "Candidate"
        /\ \A p \in Node : p # n => UNCHANGED <<current_term[p], role[p]>>
    BY <1>1, <2>1
  <2>3. \A p \in Node : RoleFrame(p)
    BY <2>2 DEF RoleFrame
  <2>4. QED
    BY <1>2, <2>1, <2>3 DEF LeadFrame, ElectionsFrame, HintFrame
<1>4. CASE UNCHANGED <<electionVars, net>>
  BY <1>2, <1>4, SameLead DEF electionVars
<1>5. QED
  BY <1>3, <1>4 DEF handle_election_timeout

LEMMA StepLead ==
    ASSUME TypeInv, [CrashNext]_vars
    PROVE  LeadFrame
<1>1. ASSUME NEW n \in Node, NodeStep(n) PROVE LeadFrame
  <2>1. CASE handle_parse_timeout(n)
    BY <2>1, MessageLead DEF handle_parse_timeout
  <2>2. CASE \/ handle_heartbeat_timeout(n) \/ handle_reissue_timeout(n)
             \/ handle_client_request(n)
    BY <2>2, SameLead
       DEF handle_heartbeat_timeout, handle_reissue_timeout, handle_client_request,
           reject_client_request, accept_client_request, electionVars, hintVars
  <2>3. QED
    BY <1>1, <2>1, <2>2, ElectionLead DEF NodeStep
<1>2. ASSUME NEW i \in Node, NEW j \in Node, Lose(i, j) PROVE LeadFrame
  BY <1>2, SameLead DEF Lose, electionVars, hintVars
<1>3. ASSUME NEW n \in Node, Restart(n) PROVE LeadFrame
  <2>1. /\ current_term \in [Node -> Nat] /\ role \in [Node -> Role]
        /\ leader_id \in [Node -> Node \cup {None}]
    BY DEF TypeInv, TypeOK
  <2>2. /\ current_term' = [current_term EXCEPT ![n] = 0]
        /\ role' = [role EXCEPT ![n] = "Follower"]
        /\ leader_id' = [leader_id EXCEPT ![n] = None] /\ elections' = elections
    BY <1>3 DEF Restart
  <2>3. \A p \in Node : p # n => UNCHANGED <<current_term[p], role[p], leader_id[p]>>
    BY <2>1, <2>2
  <2>4. \A p \in Node : RoleFrame(p)
    BY <1>3, <2>3 DEF RoleFrame
  <2>5. \A p \in Node : HintFrame(p)
    BY <2>1, <2>2, <2>3 DEF HintFrame
  <2>6. QED
    BY <2>2, <2>4, <2>5 DEF LeadFrame, ElectionsFrame
<1>4. CASE UNCHANGED vars
  BY <1>4, SameLead DEF vars, electionVars, hintVars
<1>5. QED
  BY <1>1, <1>2, <1>3, <1>4 DEF CrashNext, Next

-----------------------------------------------------------------------------
(* Who is taken for a leader                                               *)

LeaderElected == \A n \in Node : role[n] = "Leader" => Win(n) \in elections

FromLeader(m) == m.type \in {"Heartbeat", "AppendEntriesRequest"}

\* Heartbeats and append requests in flight were sent by leaders, in the term
\* they were elected in.
SentByLeader ==
    \A m \in Carried(net) :
        FromLeader(m) => [term |-> m.term, leader |-> m.src] \in elections

\* Inductive: a node learns of a leader from a heartbeat, which outlives the
\* leadership and the process of its sender.
HintInv == TypeInv /\ LinkSources /\ LeaderElected /\ SentByLeader /\ HintWasLeader

LEMMA HintInvInit == Init => HintInv
<1>1. Init => LeaderElected /\ HintWasLeader
  BY DEF Init, LeaderElected, HintWasLeader
<1>2. Init => SentByLeader
  BY NoMessageAtFirst DEF SentByLeader
<1>3. QED
  BY <1>1, <1>2, TypeInvInit, LinkSourcesInit DEF HintInv

\* What arrives on a link from a leader is of an election that was won.
LEMMA SentByLeaderKept ==
    ASSUME TypeInv, LeaderElected, SentByLeader, Arrivals, elections \subseteq elections'
    PROVE  SentByLeader'
<1> SUFFICES ASSUME NEW m \in Carried(net'), FromLeader(m)
             PROVE  [term |-> m.term, leader |-> m.src] \in elections
  BY DEF SentByLeader, Carried
<1>1. CASE m \in Carried(net)
  BY <1>1 DEF SentByLeader
<1>2. CASE m \notin Carried(net)
  <2>1. PICK i \in Node : m.src = i /\ Sends(i, m)
    BY <1>2 DEF Carried, Arrivals
  <2>2. role[i] = "Leader" /\ m.term = current_term[i]
    BY <2>1 DEF FromLeader, Sends, IsLeader
  <2>3. QED
    BY <2>1, <2>2 DEF LeaderElected, Win
<1>3. QED
  BY <1>1, <1>2

LEMMA LeaderElectedKept ==
    ASSUME TypeInv, LeaderElected, LeadFrame
    PROVE  LeaderElected'
<1> SUFFICES ASSUME NEW n \in Node, role'[n] = "Leader" PROVE Win(n)' \in elections'
  BY DEF LeaderElected
<1>1. RoleFrame(n) /\ elections \subseteq elections'
  BY DEF LeadFrame, ElectionsFrame
<1>2. ~Restart(n)
  BY DEF Restart, TypeInv, TypeOK
<1>3. QED
  <2>1. current_term'[n] = current_term[n] /\ (role[n] = "Leader" \/ Win(n) \in elections')
    BY <1>1, <1>2 DEF RoleFrame
  <2>2. Win(n)' = Win(n)
    BY <2>1 DEF Win
  <2>3. QED
    BY <1>1, <2>1, <2>2 DEF LeaderElected

LEMMA HintInvStep == HintInv /\ [CrashNext]_vars => HintInv'
<1> SUFFICES ASSUME HintInv, [CrashNext]_vars PROVE HintInv'
  OBVIOUS
<1>1. /\ TypeInv /\ TypeInv' /\ LinkSources' /\ Arrivals /\ LeadFrame
      /\ elections \subseteq elections'
  BY TypeInvStep, LinkSourcesStep, StepArrivals, StepLead
     DEF HintInv, LeadFrame, ElectionsFrame
<1>2. LeaderElected' /\ SentByLeader'
  BY <1>1, LeaderElectedKept, SentByLeaderKept DEF HintInv
<1>3. ASSUME NEW n \in Node, leader_id'[n] # None
      PROVE  \E e \in elections' : e.leader = leader_id'[n] /\ e.term <= current_term'[n]
  <2>1. /\ current_term[n] \in Nat /\ current_term'[n] \in Nat
        /\ elections \in SUBSET Election /\ RoleFrame(n) /\ HintFrame(n)
    BY <1>1 DEF TypeInv, TypeOK, LeadFrame
  <2>2. CASE leader_id'[n] = leader_id[n]
    <3>1. PICK e \in elections : e.leader = leader_id[n] /\ e.term <= current_term[n]
      BY <1>3, <2>2 DEF HintInv, HintWasLeader
    <3>2. e.term \in Nat
      BY <2>1 DEF Election
    <3>3. ~Restart(n)
      BY <1>1, <1>3 DEF Restart, TypeInv, TypeOK
    <3>4. current_term'[n] >= current_term[n]
      BY <2>1, <3>3 DEF RoleFrame
    <3>5. e.term <= current_term'[n]
      BY <2>1, <3>1, <3>2, <3>4
    <3>6. QED
      BY <1>1, <2>2, <3>1, <3>5
  <2>3. ASSUME NEW m \in Carried(net), m.type = "Heartbeat", leader_id'[n] = m.src,
               current_term'[n] = m.term
        PROVE  \E e \in elections' : e.leader = leader_id'[n] /\ e.term <= current_term'[n]
    <3>1. [term |-> m.term, leader |-> m.src] \in elections
      BY <2>3 DEF HintInv, SentByLeader, FromLeader
    <3>2. m.term <= current_term'[n]
      BY <2>1, <2>3
    <3>3. QED
      BY <1>1, <2>3, <3>1, <3>2
  <2>4. QED
    BY <1>3, <2>1, <2>2, <2>3 DEF HintFrame
<1>4. HintWasLeader'
  BY <1>3 DEF HintWasLeader
<1>5. QED
  BY <1>1, <1>2, <1>4 DEF HintInv

LEMMA HintInvHolds == CrashSpec => []HintInv
  BY HintInvInit, HintInvStep, PTL DEF CrashSpec

\* The leader a node redirects clients to did win an election, in a term the
\* node has reached, even if processes end and their terms start over.
THEOREM HintsWereLeaders ==
    (Spec => []HintWasLeader) /\ (CrashSpec => []HintWasLeader)
<1>1. HintInv => HintWasLeader
  BY DEF HintInv
<1>2. QED
  BY <1>1, HintInvHolds, SpecIsCrashSpec, PTL

-----------------------------------------------------------------------------
(* What is taken for committed                                             *)

IsAck(m) == m.type = "AppendEntriesResponse" /\ m.success

\* How the commit index of node n moves, as long as no process ends: forward,
\* to what a leader says or to what the leader n computes.
CommitFrame(n) ==
    \/ commit_index'[n] = commit_index[n]
    \/ /\ commit_index'[n] > commit_index[n]
       /\ \/ \E m \in Carried(net) : FromLeader(m) /\ commit_index'[n] = m.leader_commit
          \/ IsCommitValue(n, commit_index'[n])

\* What node n records of a peer p: its own commit index when it becomes
\* leader, an acknowledgement of p, or, for the client's id, its new entry.
MatchFrame(n) ==
    \A p \in Node :
        \/ match_index'[n][p] = match_index[n][p]
        \/ match_index'[n][p] = commit_index'[n]
        \/ \E m \in Carried(net) : /\ IsAck(m) /\ m.src = p /\ p # n
                                   /\ match_index'[n][p] = m.last_log_index
        \/ p = Zero /\ match_index'[n][p] = log'[n].last_log_index

ProgressFrame == \A n \in Node : CommitFrame(n) /\ MatchFrame(n)

LEMMA SameProgress ==
    ASSUME UNCHANGED <<commit_index, match_index>>
    PROVE  ProgressFrame
  BY DEF ProgressFrame, CommitFrame, MatchFrame

LEMMA AdvanceCommitMoves ==
    ASSUME TypeOK, NEW n \in Node, NEW c \in Nat, AdvanceCommit(n, c)
    PROVE  /\ \A p \in Node : p # n => commit_index'[p] = commit_index[p]
           /\ \/ commit_index'[n] = commit_index[n]
              \/ commit_index'[n] = c /\ c > commit_index[n]
<1>1. commit_index \in [Node -> Nat]
  BY DEF TypeOK
<1>2. CASE c > commit_index[n]
  <2>1. commit_index' = [commit_index EXCEPT ![n] = c]
    BY <1>2 DEF AdvanceCommit, apply_to_state_machine
  <2>2. QED
    BY <1>1, <1>2, <2>1
<1>3. CASE ~(c > commit_index[n])
  BY <1>3 DEF AdvanceCommit, applyVars
<1>4. QED
  BY <1>2, <1>3

LEMMA MessageProgress ==
    ASSUME TypeInv, LinkSources, NEW n \in Node, NEW src \in Node,
           NEW k \in DOMAIN net[src][n], handle_message(n, src, k)
    PROVE  ProgressFrame
<1> DEFINE m    == net[src][n][k]
           rest == Consume(net, src, n, k)
<1>1. m \in Message /\ m \in Carried(net) /\ m.src = src /\ src # n
  <2>1. m \in Message /\ m \in Carried(net)
    BY ConsumeCarried, NetIsLinks DEF TypeInv
  <2>2. m \in Carries(net[src][n])
    BY DEF Carries
  <2>3. m.src = src /\ src # n
    BY <2>2 DEF LinkSources
  <2>4. QED
    BY <2>1, <2>3
<1>2. \/ discard_stale(n, m, rest)
      \/ handle_request_vote_request(n, m, rest)
      \/ vote_counted(n, m, rest)
      \/ vote_not_counted(n, m, rest)
      \/ handle_heartbeat(n, m, rest)
      \/ handle_append_mismatch(n, m, rest)
      \/ handle_append_match(n, m, rest)
      \/ handle_append_entries_response(n, m, rest)
      \/ append_response_higher_term(n, m, rest)
  BY DEF handle_message
<1> HIDE DEF m, rest
<1>3. /\ TypeOK /\ commit_index \in [Node -> Nat]
      /\ match_index \in [Node -> [Node -> Nat]]
  BY DEF TypeInv, TypeOK
<1>4. CASE \/ discard_stale(n, m, rest) \/ handle_request_vote_request(n, m, rest)
           \/ vote_not_counted(n, m, rest) \/ append_response_higher_term(n, m, rest)
  BY <1>4, SameProgress
     DEF discard_stale, handle_request_vote_request, vote_not_counted,
         append_response_higher_term, applyVars, replicationVars
<1>5. ASSUME FromLeader(m), AdvanceCommit(n, m.leader_commit), UNCHANGED match_index
      PROVE  ProgressFrame
  <2>1. m.leader_commit \in Nat
    BY <1>1, <1>5, MessageFields DEF FromLeader
  <2>2. /\ \A p \in Node : p # n => commit_index'[p] = commit_index[p]
        /\ \/ commit_index'[n] = commit_index[n]
           \/ /\ commit_index'[n] = m.leader_commit
              /\ m.leader_commit > commit_index[n]
    BY <1>3, <1>5, <2>1, AdvanceCommitMoves
  <2>3. \A p \in Node : CommitFrame(p)
    BY <1>1, <1>5, <2>2 DEF CommitFrame
  <2>4. QED
    BY <1>5, <2>3 DEF ProgressFrame, MatchFrame
<1>6. CASE \/ handle_heartbeat(n, m, rest) \/ handle_append_mismatch(n, m, rest)
           \/ handle_append_match(n, m, rest)
  BY <1>5, <1>6 DEF handle_heartbeat, handle_append_mismatch, handle_append_match,
                    append_prologue, FromLeader, replicationVars
<1>7. CASE vote_counted(n, m, rest)
  <2>1. /\ commit_index' = commit_index
        /\ \/ match_index' = match_index
           \/ match_index' = [match_index EXCEPT ![n] = [p \in Node |-> commit_index[n]]]
    BY <1>7 DEF vote_counted, become_leader, applyVars, replicationVars
  <2>2. \A i, p \in Node : \/ match_index'[i][p] = match_index[i][p]
                           \/ match_index'[i][p] = commit_index'[i]
    BY <1>3, <2>1, SMTT(20)
  <2>3. QED
    BY <2>1, <2>2 DEF ProgressFrame, CommitFrame, MatchFrame
<1>8. CASE handle_append_entries_response(n, m, rest)
  <2>1. /\ commit_index' = commit_index /\ m.type = "AppendEntriesResponse"
        /\ match_index' = [match_index EXCEPT ![n][m.src] =
                             IF m.success THEN m.last_log_index ELSE @]
    BY <1>8 DEF handle_append_entries_response, applyVars
  <2>2. \A i, p \in Node :
           \/ match_index'[i][p] = match_index[i][p]
           \/ i = n /\ p = src /\ m.success /\ match_index'[i][p] = m.last_log_index
    BY <1>1, <1>3, <2>1
  <2>3. \A i \in Node : MatchFrame(i)
    BY <1>1, <2>1, <2>2 DEF MatchFrame, IsAck
  <2>4. QED
    BY <2>1, <2>3 DEF ProgressFrame, CommitFrame
<1>9. QED
  BY <1>2, <1>4, <1>6, <1>7, <1>8

LEMMA HeartbeatProgress ==
    ASSUME TypeInv, NEW n \in Node, handle_heartbeat_timeout(n)
    PROVE  ProgressFrame
<1>1. TypeOK /\ match_index \in [Node -> [Node -> Nat]] /\ UNCHANGED match_index
  BY DEF TypeInv, TypeOK, handle_heartbeat_timeout, replicationVars
<1>2. PICK v \in {match_index[n][p] : p \in Node} : IsCommitValue(n, v) /\ AdvanceCommit(n, v)
  BY DEF handle_heartbeat_timeout
<1>3. v \in Nat
  BY <1>1
<1>4. /\ \A p \in Node : p # n => commit_index'[p] = commit_index[p]
      /\ \/ commit_index'[n] = commit_index[n]
         \/ commit_index'[n] = v /\ v > commit_index[n]
  BY <1>1, <1>2, <1>3, AdvanceCommitMoves
<1>5. CommitFrame(n)
  <2>1. CASE commit_index'[n] = commit_index[n]
    BY <2>1 DEF CommitFrame
  <2>2. CASE commit_index'[n] = v /\ v > commit_index[n]
    <3>1. IsCommitValue(n, commit_index'[n])
      BY <1>2, <2>2
    <3>2. QED
      BY <2>2, <3>1 DEF CommitFrame
  <2>3. QED
    BY <1>4, <2>1, <2>2
<1>6. QED
  BY <1>1, <1>4, <1>5 DEF ProgressFrame, CommitFrame, MatchFrame

LEMMA StepProgress ==
    ASSUME TypeInv, LinkSources, [Next]_vars
    PROVE  ProgressFrame
<1>1. ASSUME NEW n \in Node, NodeStep(n) PROVE ProgressFrame
  <2>1. CASE handle_parse_timeout(n)
    BY <2>1, MessageProgress DEF handle_parse_timeout
  <2>2. CASE \/ handle_election_timeout(n) \/ handle_reissue_timeout(n)
             \/ reject_client_request(n)
    BY <2>2, SameProgress
       DEF handle_election_timeout, handle_reissue_timeout, reject_client_request,
           applyVars, replicationVars
  <2>3. CASE accept_client_request(n)
    <3> DEFINE entry == [term |-> current_term[n], index |-> log[n].last_log_index + 1,
                         request_id |-> next_request]
    <3>1. /\ commit_index' = commit_index
          /\ match_index' = [match_index EXCEPT ![n][Client] = log[n].last_log_index + 1]
      BY <2>3 DEF accept_client_request
    <3>2. match_index \in [Node -> [Node -> Nat]] /\ log \in [Node -> Log]
      BY DEF TypeInv, TypeOK
    <3>3. log'[n].last_log_index = log[n].last_log_index + 1
      <4>1. log' = [log EXCEPT ![n] = append_entry(log[n], entry)]
        BY <2>3 DEF accept_client_request, NewIndex
      <4>2. QED
        BY <3>2, <4>1 DEF append_entry
    <3>4. \A i, p \in Node :
             \/ match_index'[i][p] = match_index[i][p]
             \/ i = n /\ p = Zero /\ match_index'[i][p] = log'[n].last_log_index
      BY <3>1, <3>2, <3>3 DEF Client
    <3>5. QED
      BY <3>1, <3>4 DEF ProgressFrame, CommitFrame, MatchFrame
  <2>4. QED
    BY <1>1, <2>1, <2>2, <2>3, HeartbeatProgress DEF NodeStep, handle_client_request
<1>2. ASSUME NEW i \in Node, NEW j \in Node, Lose(i, j) PROVE ProgressFrame
  BY <1>2, SameProgress DEF Lose, applyVars, replicationVars
<1>3. CASE UNCHANGED vars
  BY <1>3, SameProgress DEF vars, applyVars, replicationVars
<1>4. QED
  BY <1>1, <1>2, <1>3 DEF Next

Quorate(c) == 2 * Cardinality(Holders(c)) > peer_count

\* The commit indexes on the links have reached a majority of the logs.
CommitsSent == \A m \in Carried(net) : FromLeader(m) => Quorate(m.leader_commit)

\* An acknowledgement never claims more than the log of its sender has.
AcksHeld == \A m \in Carried(net) : IsAck(m) => m.last_log_index <= Len(log[m.src].entries)

\* What a node records of a peer beyond its own commit index is in the peer's
\* log or, if it is recorded of the client's id, in its own.
MatchHeld ==
    \A n, p \in Node :
        \/ match_index[n][p] <= commit_index[n]
        \/ match_index[n][p] <= Len(log[p].entries)
        \/ p = Zero /\ match_index[n][p] <= Len(log[n].entries)

\* Unless it has the client's id, a node records nothing new of itself.
OwnMatch == \A n \in Node : n # Zero => match_index[n][n] <= commit_index[n]

\* Inductive: what makes the mistaken record of the client's id harmless is
\* that the leader's own entry is never recorded besides (OwnMatch).
CommitInv ==
    /\ IndexInv /\ LinkSources
    /\ CommitQuorum /\ CommitsSent /\ AcksHeld /\ MatchHeld /\ OwnMatch

LEMMA PeerCount ==
    /\ peer_count \in Nat /\ peer_count >= 1 /\ Majority \in Nat
    /\ 2 * Majority > peer_count /\ Cardinality(Node) = peer_count /\ IsFiniteSet(Node)
<1>1. Cardinality(Node) \in Nat /\ Cardinality(Node) # 0
  BY NodeAssumption, FS_EmptySet, FS_CardinalityType
<1>2. QED
  BY <1>1, NodeAssumption DEF peer_count, Majority

\* The value a leader computes has reached as many logs as peers are recorded
\* to have it: in the place of the peer with the client's id, if that has it
\* not, the leader itself, which is not recorded to.
LEMMA CommitValueQuorate ==
    ASSUME TypeOK, MatchHeld, OwnMatch, NEW n \in Node, NEW v \in Nat,
           IsCommitValue(n, v), v > commit_index[n]
    PROVE  Quorate(v)
<1> DEFINE fewer == {p \in Node : match_index[n][p] < v}
           have  == {p \in Node : match_index[n][p] >= v}
<1>1. /\ commit_index[n] \in Nat /\ \A p \in Node : match_index[n][p] \in Nat
      /\ \A p \in Node : Len(log[p].entries) \in Nat
  <2>1. \A p \in Node : log[p].entries \in Seq(Entry)
    BY DEF TypeOK, Log
  <2>2. QED
    BY <2>1, LenProperties DEF TypeOK
<1>2. Cardinality(have) >= Majority /\ Cardinality(have) \in Nat /\ IsFiniteSet(have)
  <2>1. have = Node \ fewer /\ fewer \subseteq Node /\ have \subseteq Node
    BY <1>1
  <2>2. Cardinality(fewer) <= peer_count - Majority
    BY DEF IsCommitValue, CommitPosition
  <2> HIDE DEF have, fewer
  <2>3. /\ Cardinality(have) = Cardinality(Node) - Cardinality(Node \cap fewer)
        /\ IsFiniteSet(fewer) /\ IsFiniteSet(have) /\ Node \cap fewer = fewer
    BY <2>1, PeerCount, FS_Difference, FS_Subset
  <2>4. Cardinality(fewer) \in Nat /\ Cardinality(have) \in Nat
    BY <2>3, FS_CardinalityType
  <2>5. QED
    BY <2>2, <2>3, <2>4, PeerCount
<1>3. \A p \in have : p \in Holders(v) \/ (p = Zero /\ n \in Holders(v))
  BY <1>1, SMTT(20) DEF MatchHeld, Holders
<1>4. IsFiniteSet(Holders(v)) /\ Cardinality(Holders(v)) \in Nat
  <2>1. Holders(v) \subseteq Node
    BY DEF Holders
  <2>2. QED
    BY <2>1, PeerCount, FS_Subset, FS_CardinalityType
<1>5. n # Zero => n \notin have
  BY <1>1 DEF OwnMatch
<1> HIDE DEF have, fewer
<1>6. Cardinality(Holders(v)) >= Cardinality(have)
  <2>1. CASE have \subseteq Holders(v)
    BY <1>4, <2>1, FS_Subset
  <2>2. CASE ~(have \subseteq Holders(v))
    <3>1. Zero \in have /\ Zero \notin Holders(v) /\ n \in Holders(v) /\ n # Zero
      BY <1>3, <2>2
    <3>2. n \notin have
      BY <1>5, <3>1
    <3> DEFINE others == have \ {Zero}
    <3>3. IsFiniteSet(others) /\ Cardinality(others) = Cardinality(have) - 1 /\ n \notin others
      BY <1>2, <3>1, <3>2, FS_RemoveElement
    <3>4. others \cup {n} \subseteq Holders(v)
      BY <1>3, <3>1
    <3> HIDE DEF others
    <3>5. Cardinality(others \cup {n}) = Cardinality(others) + 1
      BY <3>3, FS_AddElement
    <3>6. Cardinality(others \cup {n}) <= Cardinality(Holders(v))
      BY <1>4, <3>4, FS_Subset
    <3>7. QED
      BY <1>2, <1>4, <3>3, <3>5, <3>6
  <2>3. QED
    BY <2>1, <2>2
<1>7. QED
  BY <1>2, <1>4, <1>6, PeerCount DEF Quorate

LEMMA MessageKeepsEnv ==
    ASSUME NEW n \in Node, NEW src \in Node, NEW k \in DOMAIN net[src][n],
           handle_message(n, src, k)
    PROVE  UNCHANGED envVars
<1> DEFINE m    == net[src][n][k]
           rest == Consume(net, src, n, k)
<1>1. \/ discard_stale(n, m, rest)
      \/ handle_request_vote_request(n, m, rest)
      \/ vote_counted(n, m, rest)
      \/ vote_not_counted(n, m, rest)
      \/ handle_heartbeat(n, m, rest)
      \/ handle_append_mismatch(n, m, rest)
      \/ handle_append_match(n, m, rest)
      \/ handle_append_entries_response(n, m, rest)
      \/ append_response_higher_term(n, m, rest)
  BY DEF handle_message
<1> HIDE DEF m, rest
<1>2. QED
  BY <1>1 DEF discard_stale, handle_request_vote_request, vote_counted,
              vote_not_counted, handle_heartbeat, handle_append_mismatch,
              handle_append_match, handle_append_entries_response,
              append_response_higher_term

LEMMA NoRestart == [Next]_vars => restarts' = restarts
<1> SUFFICES ASSUME [Next]_vars PROVE UNCHANGED envVars \/ restarts' = restarts
  BY DEF envVars
<1>1. ASSUME NEW n \in Node, NEW src \in Node, NEW k \in DOMAIN net[src][n],
             handle_message(n, src, k)
      PROVE  UNCHANGED envVars
  BY <1>1, MessageKeepsEnv
<1>2. ASSUME NEW n \in Node, NodeStep(n)
      PROVE  UNCHANGED envVars \/ restarts' = restarts
  <2>1. CASE handle_parse_timeout(n)
    BY <1>1, <2>1 DEF handle_parse_timeout
  <2>2. CASE \/ handle_election_timeout(n) \/ handle_heartbeat_timeout(n)
             \/ handle_reissue_timeout(n)
    BY <2>2 DEF handle_election_timeout, handle_heartbeat_timeout, handle_reissue_timeout
  <2>3. CASE handle_client_request(n)
    BY <2>3 DEF handle_client_request, reject_client_request, accept_client_request
  <2>4. QED
    BY <1>2, <2>1, <2>2, <2>3 DEF NodeStep
<1>3. QED
  BY <1>2 DEF Next, Lose, vars, envVars

LEMMA NobodyRestarts ==
    ASSUME TypeInv, [Next]_vars
    PROVE  \A n \in Node : ~Restart(n)
<1>1. restarts' = restarts /\ restarts \in Nat
  BY NoRestart DEF TypeInv, TypeOK
<1>2. QED
  BY <1>1 DEF Restart

\* No log shrinks as long as no process ends.
LEMMA LogsGrow ==
    ASSUME TypeInv, [Next]_vars
    PROVE  \A p \in Node : /\ Len(log[p].entries) \in Nat /\ Len(log'[p].entries) \in Nat
                           /\ Len(log'[p].entries) >= Len(log[p].entries)
<1>1. [CrashNext]_vars
  BY DEF CrashNext
<1>2. log \in [Node -> Log] /\ log' \in [Node -> Log]
  BY <1>1, TypeInvStep DEF TypeInv, TypeOK
<1>3. \A p \in Node : Len(log[p].entries) \in Nat /\ Len(log'[p].entries) \in Nat
  <2>1. \A p \in Node : log[p].entries \in Seq(Entry) /\ log'[p].entries \in Seq(Entry)
    BY <1>2 DEF Log
  <2>2. QED
    BY <2>1, LenProperties
<1>4. ASSUME NEW n \in Node, NEW batch \in Seq(Entry),
             log' = [log EXCEPT ![n] = append_entries(log[n], batch)]
      PROVE  \A p \in Node : Len(log'[p].entries) >= Len(log[p].entries)
  <2>1. /\ Len(append_entries(log[n], batch).entries) = Len(log[n].entries) + Len(batch)
        /\ Len(batch) \in Nat
    BY <1>2, AppendEntriesProperties
  <2>2. \A p \in Node : \/ log'[p] = log[p]
                        \/ p = n /\ log'[p] = append_entries(log[n], batch)
    BY <1>2, <1>4
  <2>3. Len(append_entries(log[n], batch).entries) >= Len(log[n].entries)
    BY <1>3, <2>1
  <2>4. QED
    BY <1>3, <2>2, <2>3
<1>5. \A n \in Node : ~Restart(n)
  BY NobodyRestarts
<1>6. ASSUME NEW n \in Node, NEW m \in Carried(net), AppendsBatch(n, m)
      PROVE  m.entries \in Seq(Entry)
  BY <1>6, MessageFields DEF AppendsBatch, IsAppendRequest, Carried
<1>7. \A p \in Node : Len(log'[p].entries) >= Len(log[p].entries)
  <2>1. LogFrame
    BY <1>1, Frame
  <2>2. CASE log' = log
    BY <1>3, <2>2
  <2>3. QED
    BY <1>4, <1>5, <1>6, <2>1, <2>2, NewEntryType
       DEF LogFrame, AppendsBatch, AppendsNewEntry
<1>8. QED
  BY <1>3, <1>7

LEMMA CommitInvInit == Init => CommitInv
<1> SUFFICES ASSUME Init PROVE CommitInv
  OBVIOUS
<1>1. IndexInv /\ LinkSources
  BY IndexInvInit, LinkSourcesInit
<1>2. CommitsSent /\ AcksHeld
  BY NoMessageAtFirst DEF CommitsSent, AcksHeld
<1>3. MatchHeld /\ OwnMatch
  BY NodeAssumption DEF Init, MatchHeld, OwnMatch
<1>4. CommitQuorum
  <2>1. TypeOK
    BY <1>1 DEF IndexInv, TypeInv
  <2>2. \A p \in Node : log[p].entries \in Seq(Entry)
    BY <2>1 DEF TypeOK, Log
  <2>3. \A p \in Node : Len(log[p].entries) \in Nat
    BY <2>2, LenProperties
  <2>4. Holders(0) = Node
    BY <2>3 DEF Holders
  <2>5. \A n \in Node : commit_index[n] = 0
    BY DEF Init
  <2>6. QED
    BY <2>4, <2>5, PeerCount DEF CommitQuorum
<1>5. QED
  BY <1>1, <1>2, <1>3, <1>4 DEF CommitInv

LEMMA CommitInvStep == CommitInv /\ [Next]_vars => CommitInv'
<1> SUFFICES ASSUME CommitInv, [Next]_vars PROVE CommitInv'
  OBVIOUS
<1> DEFINE HoldersNext(c) == {p \in Node : Len(log'[p].entries) >= c}
           QuorateNext(c) == 2 * Cardinality(HoldersNext(c)) > peer_count
<1>1. [CrashNext]_vars
  BY DEF CrashNext
<1>2. /\ IndexInv /\ IndexInv' /\ LinkSources /\ LinkSources' /\ TypeInv /\ TypeOK
      /\ IndexWithinLog' /\ Arrivals /\ ProgressFrame
      /\ CommitQuorum /\ CommitsSent /\ AcksHeld /\ MatchHeld /\ OwnMatch
  BY <1>1, IndexInvStep, LinkSourcesStep, StepArrivals, StepProgress
     DEF CommitInv, IndexInv, TypeInv
<1>3. \A p \in Node : /\ Len(log[p].entries) \in Nat /\ Len(log'[p].entries) \in Nat
                      /\ Len(log'[p].entries) >= Len(log[p].entries)
  BY <1>2, LogsGrow
<1>4. \A n, p \in Node : /\ commit_index[n] \in Nat /\ commit_index'[n] \in Nat
                         /\ match_index[n][p] \in Nat /\ match_index'[n][p] \in Nat
                         /\ log'[n].last_log_index \in Nat
                         /\ log'[n].last_log_index <= Len(log'[n].entries)
  BY <1>2 DEF IndexInv, IndexWithinLog, TypeInv, TypeOK, Log
<1>5. ASSUME NEW c \in Nat, Quorate(c) PROVE QuorateNext(c)
  <2>1. Holders(c) \subseteq HoldersNext(c) /\ HoldersNext(c) \subseteq Node
    BY <1>3 DEF Holders
  <2> HIDE DEF HoldersNext
  <2>2. /\ IsFiniteSet(HoldersNext(c)) /\ IsFiniteSet(Holders(c))
        /\ Cardinality(Holders(c)) <= Cardinality(HoldersNext(c))
    BY <2>1, PeerCount, FS_Subset
  <2>3. Cardinality(Holders(c)) \in Nat /\ Cardinality(HoldersNext(c)) \in Nat
    BY <2>2, FS_CardinalityType
  <2>4. 2 * Cardinality(Holders(c)) > peer_count
    BY <1>5 DEF Quorate
  <2>5. QED
    BY <2>2, <2>3, <2>4, PeerCount
<1> HIDE DEF QuorateNext
<1>6. ASSUME NEW n \in Node PROVE QuorateNext(commit_index'[n])
  <2>1. CommitFrame(n)
    BY <1>2 DEF ProgressFrame
  <2>2. CASE commit_index'[n] = commit_index[n]
    BY <1>2, <1>4, <1>5, <2>2 DEF CommitQuorum, Quorate
  <2>3. ASSUME NEW m \in Carried(net), FromLeader(m), commit_index'[n] = m.leader_commit
        PROVE  QuorateNext(commit_index'[n])
    BY <1>2, <1>4, <1>5, <2>3 DEF CommitsSent
  <2>4. CASE commit_index'[n] > commit_index[n] /\ IsCommitValue(n, commit_index'[n])
    <3> DEFINE v == commit_index'[n]
    <3>1. v \in Nat /\ IsCommitValue(n, v) /\ v > commit_index[n]
      BY <1>4, <2>4
    <3> HIDE DEF v
    <3>2. Quorate(v)
      BY <1>2, <3>1, CommitValueQuorate
    <3>3. QuorateNext(v)
      BY <1>5, <3>1, <3>2
    <3>4. QED
      BY <3>3 DEF v
  <2>5. QED
    BY <2>1, <2>2, <2>3, <2>4 DEF CommitFrame
<1>7. \A n \in Node : commit_index'[n] >= commit_index[n]
  BY <1>2, <1>4 DEF ProgressFrame, CommitFrame
<1>8. CommitQuorum'
  BY <1>6 DEF CommitQuorum, Holders, QuorateNext
<1>9. CommitsSent'
  <2>1. ASSUME NEW m \in Carried(net'), FromLeader(m) PROVE QuorateNext(m.leader_commit)
    <3>1. CASE m \in Carried(net)
      <4>1. m.leader_commit \in Nat
        BY <2>1, MessageFields DEF FromLeader, Carried
      <4>2. QED
        BY <1>2, <1>5, <2>1, <3>1, <4>1 DEF CommitsSent
    <3>2. CASE m \notin Carried(net)
      <4>1. PICK i \in Node : Sends(i, m)
        BY <1>2, <3>2 DEF Carried, Arrivals
      <4>2. \/ m.leader_commit = commit_index'[i]
            \/ m.leader_commit = commit_index[i]
        BY <2>1, <4>1 DEF FromLeader, Sends
      <4>3. Quorate(commit_index[i]) /\ commit_index[i] \in Nat
        BY <1>2, <1>4 DEF CommitQuorum, Quorate
      <4>4. QED
        BY <1>5, <1>6, <4>2, <4>3
    <3>3. QED
      BY <3>1, <3>2
  <2>2. QED
    BY <2>1 DEF CommitsSent, Quorate, QuorateNext, Holders, Carried
<1>10. AcksHeld'
  <2>1. ASSUME NEW m \in Carried(net'), IsAck(m)
        PROVE  m.last_log_index <= Len(log'[m.src].entries)
    <3>1. m.src \in Node /\ m.last_log_index \in Nat
      BY <2>1, MessageFields DEF IsAck, Carried
    <3>2. CASE m \in Carried(net)
      <4>1. m.last_log_index <= Len(log[m.src].entries)
        BY <1>2, <2>1, <3>2 DEF AcksHeld
      <4>2. QED
        BY <1>3, <3>1, <4>1
    <3>3. CASE m \notin Carried(net)
      <4>1. PICK i \in Node : m.src = i /\ Sends(i, m)
        BY <1>2, <3>3 DEF Carried, Arrivals
      <4>2. m.last_log_index = log'[i].last_log_index
        BY <2>1, <4>1 DEF IsAck, Sends
      <4>3. QED
        BY <1>4, <4>1, <4>2
    <3>4. QED
      BY <3>2, <3>3
  <2>2. QED
    BY <2>1 DEF AcksHeld, Carried
<1>11. MatchHeld'
  <2>1. ASSUME NEW n \in Node, NEW p \in Node
        PROVE  \/ match_index'[n][p] <= commit_index'[n]
               \/ match_index'[n][p] <= Len(log'[p].entries)
               \/ p = Zero /\ match_index'[n][p] <= Len(log'[n].entries)
    <3>1. CASE match_index'[n][p] = match_index[n][p]
      <4>1. \/ match_index[n][p] <= commit_index[n]
            \/ match_index[n][p] <= Len(log[p].entries)
            \/ p = Zero /\ match_index[n][p] <= Len(log[n].entries)
        BY <1>2 DEF MatchHeld
      <4>2. /\ Len(log[p].entries) \in Nat /\ Len(log'[p].entries) \in Nat
            /\ Len(log'[p].entries) >= Len(log[p].entries)
            /\ Len(log[n].entries) \in Nat /\ Len(log'[n].entries) \in Nat
            /\ Len(log'[n].entries) >= Len(log[n].entries)
        BY <1>3, Zenon
      <4>3. /\ commit_index[n] \in Nat /\ commit_index'[n] \in Nat
            /\ commit_index'[n] >= commit_index[n] /\ match_index[n][p] \in Nat
        BY <1>4, <1>7, Zenon
      <4>4. CASE match_index[n][p] <= commit_index[n]
        <5>1. match_index[n][p] <= commit_index'[n]
          BY <4>3, <4>4
        <5>2. QED
          BY <3>1, <5>1, Zenon
      <4>5. CASE match_index[n][p] <= Len(log[p].entries)
        <5>1. match_index[n][p] <= Len(log'[p].entries)
          BY <4>2, <4>3, <4>5, SMTT(20)
        <5>2. QED
          BY <3>1, <5>1, Zenon
      <4>6. CASE p = Zero /\ match_index[n][p] <= Len(log[n].entries)
        <5>1. match_index[n][p] <= Len(log'[n].entries)
          BY <4>2, <4>3, <4>6, SMTT(20)
        <5>2. QED
          BY <3>1, <4>6, <5>1, Zenon
      <4>7. QED
        BY <4>1, <4>4, <4>5, <4>6, Zenon
    <3>2. ASSUME NEW m \in Carried(net), IsAck(m), m.src = p,
                 match_index'[n][p] = m.last_log_index
          PROVE  match_index'[n][p] <= Len(log'[p].entries)
      <4>1. m.last_log_index <= Len(log[p].entries) /\ m.last_log_index \in Nat
        BY <1>2, <3>2, MessageFields DEF AcksHeld, IsAck, Carried
      <4>2. QED
        BY <1>3, <3>2, <4>1
    <3>3. QED
      BY <1>2, <1>4, <3>1, <3>2 DEF ProgressFrame, MatchFrame
  <2>2. QED
    BY <2>1 DEF MatchHeld
<1>12. OwnMatch'
  <2>1. ASSUME NEW n \in Node, n # Zero PROVE match_index'[n][n] <= commit_index'[n]
    <3>1. \/ match_index'[n][n] = match_index[n][n]
          \/ match_index'[n][n] = commit_index'[n]
      BY <1>2, <2>1 DEF ProgressFrame, MatchFrame
    <3>2. match_index[n][n] <= commit_index[n]
      BY <1>2, <2>1 DEF OwnMatch
    <3>3. QED
      BY <1>4, <1>7, <3>1, <3>2
  <2>2. QED
    BY <2>1 DEF OwnMatch
<1>13. QED
  BY <1>2, <1>8, <1>9, <1>10, <1>11, <1>12 DEF CommitInv

\* What any node takes for committed has reached a majority of the logs, as
\* long as no process ends, although a leader records its new entries of the
\* peer with the client's id.
THEOREM CommitsHaveQuorum == Spec => []CommitQuorum
<1>1. CommitInv => CommitQuorum
  BY DEF CommitInv
<1>2. QED
  BY <1>1, CommitInvInit, CommitInvStep, PTL DEF Spec

-----------------------------------------------------------------------------
(* Which entries leaders create                                            *)

BatchOf(m) == {m.entries[x] : x \in DOMAIN m.entries}

\* Every entry there is: in a log or in an append request in flight.
AllEntries ==
    {e \in Entry : \/ \E n \in Node : e \in EntriesOf(n)
                   \/ \E m \in Carried(net) : IsAppendRequest(m) /\ e \in BatchOf(m)}

\* A leader has not left the term it was elected in, or is no longer leader
\* of it.
Reigns ==
    \A e \in elections :
        /\ e.term <= current_term[e.leader]
        /\ e.term = current_term[e.leader] => role[e.leader] = "Leader"

EntriesOfElections == \A e \in AllEntries : \E x \in elections : x.term = e.term

\* The last entry of a leader has the highest index of its term.
LeaderHasLast ==
    \A n \in Node : role[n] = "Leader" =>
        \A e \in AllEntries : e.term = current_term[n] => e.index <= log[n].last_log_index

Identified ==
    \A e, f \in AllEntries : e.term = f.term /\ e.index = f.index => e = f

\* Inductive: a leader numbers its entries upwards, and no other node creates
\* or gives it entries of its term, which it does not lead twice.
EntryInv ==
    /\ HintInv /\ Reigns /\ EntriesOfElections
    /\ ElectionSafety => LeaderHasLast /\ Identified

LEMMA AppendedEntries ==
    ASSUME NEW l \in Log, NEW batch \in Seq(Entry)
    PROVE  \A i \in DOMAIN append_entries(l, batch).entries :
              \/ \E j \in DOMAIN l.entries :
                    append_entries(l, batch).entries[i] = l.entries[j]
              \/ \E j \in DOMAIN batch : append_entries(l, batch).entries[i] = batch[j]
<1> DEFINE l2 == append_entries(l, batch)
<1>1. /\ l.entries \in Seq(Entry) /\ l2.entries \in Seq(Entry)
      /\ Len(l.entries) \in Nat /\ Len(batch) \in Nat
      /\ Len(l2.entries) = Len(l.entries) + Len(batch)
      /\ \A i \in 1 .. Len(l2.entries) :
            l2.entries[i] = IF i <= Len(l.entries) THEN l.entries[i]
                            ELSE batch[i - Len(l.entries)]
  BY AppendEntriesProperties, ZenonT(30) DEF Log
<1>2. /\ DOMAIN l.entries = 1 .. Len(l.entries)
      /\ DOMAIN l2.entries = 1 .. Len(l2.entries)
      /\ DOMAIN batch = 1 .. Len(batch)
  BY <1>1, LenProperties
<1> HIDE DEF l2
<1>3. ASSUME NEW i \in DOMAIN l2.entries
      PROVE  \/ \E j \in DOMAIN l.entries : l2.entries[i] = l.entries[j]
             \/ \E j \in DOMAIN batch : l2.entries[i] = batch[j]
  <2>1. CASE i <= Len(l.entries)
    BY <1>1, <1>2, <2>1, SMTT(20)
  <2>2. CASE ~(i <= Len(l.entries))
    <3>1. i - Len(l.entries) \in DOMAIN batch
      BY <1>1, <1>2, <2>2
    <3>2. l2.entries[i] = batch[i - Len(l.entries)]
      BY <1>1, <1>2, <2>2
    <3>3. QED
      BY <3>1, <3>2
  <2>3. QED
    BY <2>1, <2>2
<1>4. QED
  BY <1>3 DEF l2

\* An entry was there before the step or is one a leader creates for a client.
LEMMA EntriesFrame ==
    ASSUME TypeInv, [Next]_vars, NEW e \in AllEntries'
    PROVE  \/ e \in AllEntries
           \/ \E n \in Node : AppendsNewEntry(n) /\ e = NewEntry(n)
<1>1. [CrashNext]_vars
  BY DEF CrashNext
<1>2. LogFrame /\ Arrivals /\ log \in [Node -> Log] /\ e \in Entry
  BY <1>1, Frame, StepArrivals DEF TypeInv, TypeOK, AllEntries
<1>3. \A n \in Node : ~Restart(n)
  BY NobodyRestarts
<1>4. ASSUME NEW n \in Node, NEW l \in Log, NEW batch \in Seq(Entry), l = log[n],
             log' = [log EXCEPT ![n] = append_entries(l, batch)],
             NEW p \in Node, e \in EntriesOf(p)'
      PROVE  e \in EntriesOf(p) \/ \E j \in DOMAIN batch : e = batch[j]
  <2>1. CASE p = n
    <3>1. log'[p] = append_entries(l, batch)
      BY <1>2, <1>4, <2>1
    <3>2. PICK i \in DOMAIN append_entries(l, batch).entries :
             e = append_entries(l, batch).entries[i]
      BY <1>4, <3>1 DEF EntriesOf
    <3>3. \/ \E j \in DOMAIN l.entries : e = l.entries[j]
          \/ \E j \in DOMAIN batch : e = batch[j]
      BY <3>2, AppendedEntries
    <3>4. QED
      BY <1>4, <2>1, <3>3 DEF EntriesOf
  <2>2. CASE p # n
    <3>1. log'[p] = log[p]
      BY <1>2, <1>4, <2>2
    <3>2. QED
      BY <1>4, <3>1 DEF EntriesOf
  <2>3. QED
    BY <2>1, <2>2
<1>5. ASSUME NEW p \in Node, e \in EntriesOf(p)'
      PROVE  \/ e \in AllEntries
             \/ \E n \in Node : AppendsNewEntry(n) /\ e = NewEntry(n)
  <2>1. CASE log' = log
    BY <1>2, <1>5, <2>1 DEF EntriesOf, AllEntries
  <2>2. ASSUME NEW n \in Node, NEW m \in Carried(net), AppendsBatch(n, m)
        PROVE  e \in AllEntries
    <3>1. /\ m.entries \in Seq(Entry) /\ IsAppendRequest(m)
          /\ log' = [log EXCEPT ![n] = append_entries(log[n], m.entries)]
      BY <2>2, MessageFields DEF AppendsBatch, IsAppendRequest, Carried
    <3>2. log[n] \in Log
      BY <1>2
    <3>3. e \in EntriesOf(p) \/ \E j \in DOMAIN m.entries : e = m.entries[j]
      BY <1>4, <1>5, <3>1, <3>2
    <3>4. QED
      BY <1>2, <3>1, <3>3 DEF AllEntries, BatchOf
  <2>3. ASSUME NEW n \in Node, AppendsNewEntry(n)
        PROVE  e \in AllEntries \/ e = NewEntry(n)
    <3>1. /\ <<NewEntry(n)>> \in Seq(Entry) /\ log[n] \in Log
          /\ log' = [log EXCEPT ![n] = append_entries(log[n], <<NewEntry(n)>>)]
      BY <1>2, <2>3, NewEntryType DEF AppendsNewEntry
    <3>2. e \in EntriesOf(p) \/ \E j \in DOMAIN <<NewEntry(n)>> : e = <<NewEntry(n)>>[j]
      BY <1>4, <1>5, <3>1
    <3>3. QED
      BY <1>2, <3>2, NewEntryType DEF AllEntries
  <2>4. QED
    BY <1>2, <1>3, <2>1, <2>2, <2>3 DEF LogFrame
<1>6. ASSUME NEW m \in Carried(net'), IsAppendRequest(m), e \in BatchOf(m)
      PROVE  e \in AllEntries \/ \E p \in Node : e \in EntriesOf(p)'
  <2>1. CASE m \in Carried(net)
    BY <1>2, <1>6, <2>1 DEF AllEntries
  <2>2. CASE m \notin Carried(net)
    <3>1. PICK i \in Node : Sends(i, m)
      BY <1>2, <2>2 DEF Carried, Arrivals
    <3>2. QED
      BY <1>6, <3>1 DEF Sends, IsAppendRequest, BatchOf
  <2>3. QED
    BY <2>1, <2>2
<1>7. \/ \E p \in Node : e \in EntriesOf(p)'
      \/ \E m \in Carried(net') : IsAppendRequest(m) /\ e \in BatchOf(m)
  BY DEF AllEntries, Carried
<1>8. QED
  BY <1>5, <1>6, <1>7

\* What a leader that creates an entry does to its log.
LEMMA NewEntryFacts ==
    ASSUME TypeInv, NEW n \in Node, AppendsNewEntry(n)
    PROVE  /\ role[n] = "Leader" /\ current_term' = current_term
           /\ NewEntry(n).term = current_term[n]
           /\ NewEntry(n).index = log[n].last_log_index + 1
           /\ log[n].last_log_index \in Nat
           /\ log'[n].last_log_index = log[n].last_log_index + 1
           /\ \A p \in Node : p # n => log'[p] = log[p]
<1>1. log \in [Node -> Log] /\ log[n].last_log_index \in Nat
  BY DEF TypeInv, TypeOK, Log
<1>2. /\ role[n] = "Leader" /\ current_term' = current_term
      /\ log' = [log EXCEPT ![n] = append_entries(log[n], <<NewEntry(n)>>)]
  BY DEF AppendsNewEntry, accept_client_request, IsLeader, electionVars
<1>3. /\ NewEntry(n).term = current_term[n]
      /\ NewEntry(n).index = log[n].last_log_index + 1
  BY DEF NewEntry
<1>4. append_entries(log[n], <<NewEntry(n)>>).last_log_index = NewEntry(n).index
  <2>1. /\ <<NewEntry(n)>> \in Seq(Entry) /\ Len(<<NewEntry(n)>>) = 1
        /\ <<NewEntry(n)>> # << >> /\ <<NewEntry(n)>>[1] = NewEntry(n)
    BY NewEntryType
  <2>2. append_entries(log[n], <<NewEntry(n)>>).last_log_index
          = <<NewEntry(n)>>[Len(<<NewEntry(n)>>)].index
    BY <1>1, <2>1, AppendEntriesProperties
  <2>3. QED
    BY <2>1, <2>2
<1>5. QED
  BY <1>1, <1>2, <1>3, <1>4

\* The last index of a leader that stays leader of its term does not decrease
\* unless the term has two leaders: no one else sends it requests of the term.
LEMMA LeadersLastKept ==
    ASSUME HintInv, ElectionSafety, [Next]_vars, NEW n \in Node, role[n] = "Leader",
           current_term'[n] = current_term[n]
    PROVE  log'[n].last_log_index >= log[n].last_log_index
<1>1. [CrashNext]_vars
  BY DEF CrashNext
<1>2. /\ TypeInv /\ LogFrame /\ log \in [Node -> Log] /\ log[n].last_log_index \in Nat
      /\ current_term \in [Node -> Nat] /\ LinkSources /\ Win(n) \in elections
  BY <1>1, Frame DEF HintInv, TypeInv, TypeOK, Log, LeaderElected
<1>3. CASE log'[n] = log[n]
  BY <1>2, <1>3
<1>4. ASSUME NEW p \in Node, NEW m \in Carried(net), AppendsBatch(p, m)
      PROVE  log'[n] = log[n]
  <2>1. p # n
    <3> SUFFICES ASSUME p = n PROVE FALSE
      OBVIOUS
    <3>1. PICK src \in Node : m \in Carries(net[src][n])
      BY <1>4 DEF AppendsBatch
    <3>2. m.src # n
      BY <1>2, <3>1 DEF LinkSources
    <3>3. m.term = current_term[n]
      BY <1>2, <1>4 DEF AppendsBatch
    <3>4. [term |-> m.term, leader |-> m.src] \in elections
      BY <1>4 DEF HintInv, SentByLeader, FromLeader, AppendsBatch, IsAppendRequest
    <3>5. QED
      BY <1>2, <3>2, <3>3, <3>4 DEF ElectionSafety, Win
  <2>2. log' = [log EXCEPT ![p] = append_entries(log[p], m.entries)]
    BY <1>4 DEF AppendsBatch
  <2>3. QED
    BY <1>2, <2>1, <2>2
<1>5. ASSUME NEW p \in Node, AppendsNewEntry(p)
      PROVE  log'[n].last_log_index >= log[n].last_log_index
  BY <1>2, <1>5, NewEntryFacts
<1>6. QED
  BY <1>2, <1>3, <1>4, <1>5, NobodyRestarts DEF LogFrame

LEMMA ReignsKept ==
    ASSUME TypeInv, TypeInv', Reigns, LeadFrame, \A n \in Node : ~Restart(n)
    PROVE  Reigns'
<1>1. ASSUME NEW e \in elections'
      PROVE  /\ e.term <= current_term'[e.leader]
             /\ e.term = current_term'[e.leader] => role'[e.leader] = "Leader"
  <2>1. e.term \in Nat /\ e.leader \in Node
    BY DEF TypeInv, TypeOK, Election
  <2>2. current_term[e.leader] \in Nat /\ current_term'[e.leader] \in Nat
    BY <2>1 DEF TypeInv, TypeOK
  <2>3. CASE e \in elections
    <3>1. /\ e.term <= current_term[e.leader]
          /\ e.term = current_term[e.leader] => role[e.leader] = "Leader"
      BY <2>3 DEF Reigns
    <3>2. \/ current_term'[e.leader] > current_term[e.leader]
          \/ /\ current_term'[e.leader] = current_term[e.leader]
             /\ role[e.leader] = "Leader" => role'[e.leader] = "Leader"
      BY <2>1 DEF LeadFrame, RoleFrame
    <3>3. QED
      BY <2>1, <2>2, <3>1, <3>2
  <2>4. ASSUME NEW n \in Node, role'[n] = "Leader", e = Win(n)'
        PROVE  /\ e.term <= current_term'[e.leader]
               /\ e.term = current_term'[e.leader] => role'[e.leader] = "Leader"
    <3>1. e.term = current_term'[n] /\ e.leader = n
      BY <2>4 DEF Win
    <3>2. QED
      BY <2>2, <2>4, <3>1
  <2>5. QED
    BY <2>3, <2>4 DEF LeadFrame, ElectionsFrame
<1>2. QED
  BY <1>1 DEF Reigns

LEMMA EntryInvInit == Init => EntryInv
<1> SUFFICES ASSUME Init PROVE EntryInv
  OBVIOUS
<1>1. HintInv /\ Reigns
  BY HintInvInit DEF Init, Reigns
<1>2. \A n \in Node : EntriesOf(n) = {}
  BY EmptySeq DEF Init, EntriesOf, EmptyLog
<1>3. AllEntries = {}
  BY <1>2, NoMessageAtFirst DEF AllEntries
<1>4. QED
  BY <1>1, <1>3 DEF EntryInv, EntriesOfElections, LeaderHasLast, Identified

LEMMA EntryInvStep == EntryInv /\ [Next]_vars => EntryInv'
<1> SUFFICES ASSUME EntryInv, [Next]_vars PROVE EntryInv'
  OBVIOUS
<1>1. [CrashNext]_vars
  BY DEF CrashNext
<1>2. /\ HintInv /\ HintInv' /\ TypeInv /\ TypeInv' /\ LeadFrame
      /\ LeaderElected /\ Reigns /\ EntriesOfElections
      /\ \A n \in Node : ~Restart(n)
  BY <1>1, HintInvStep, StepLead, NobodyRestarts DEF EntryInv, HintInv
<1>3. elections \subseteq elections' /\ (ElectionSafety' => ElectionSafety)
  BY <1>2 DEF LeadFrame, ElectionsFrame, ElectionSafety
<1>4. Reigns'
  BY <1>2, ReignsKept
<1>5. \A e \in AllEntries' : \/ e \in AllEntries
                             \/ \E n \in Node : AppendsNewEntry(n) /\ e = NewEntry(n)
  BY <1>2, EntriesFrame
<1>6. EntriesOfElections'
  <2>1. ASSUME NEW n \in Node, AppendsNewEntry(n)
        PROVE  \E x \in elections : x.term = NewEntry(n).term
    BY <1>2, <2>1, NewEntryFacts DEF LeaderElected, Win
  <2>2. QED
    BY <1>2, <1>3, <1>5, <2>1 DEF EntriesOfElections
<1>7. ASSUME ElectionSafety' PROVE LeaderHasLast' /\ Identified'
  <2>1. ElectionSafety /\ LeaderHasLast /\ Identified
    BY <1>3, <1>7 DEF EntryInv
  <2>2. \A e \in AllEntries : e.index \in Nat /\ e.term \in Nat
    BY DEF AllEntries, Entry
  \* Only one node creates entries of a term.
  <2>3. ASSUME NEW n \in Node, NEW p \in Node, AppendsNewEntry(p),
               current_term[n] = current_term[p], Win(n) \in elections'
        PROVE  p = n
    <3>1. Win(p) \in elections'
      BY <1>2, <1>3, <2>3, NewEntryFacts DEF LeaderElected
    <3>2. QED
      BY <1>7, <2>3, <3>1 DEF ElectionSafety, Win
  <2>4. ASSUME NEW n \in Node, role'[n] = "Leader", NEW e \in AllEntries',
               e.term = current_term'[n]
        PROVE  e.index <= log'[n].last_log_index
    <3>1. /\ current_term'[n] = current_term[n] /\ Win(n) \in elections'
          /\ log[n].last_log_index \in Nat /\ log'[n].last_log_index \in Nat
          /\ current_term[n] \in Nat
      <4>1. current_term'[n] = current_term[n] /\ (role[n] = "Leader" \/ Win(n) \in elections')
        BY <1>2, <2>4 DEF LeadFrame, RoleFrame
      <4>2. log[n].last_log_index \in Nat /\ log'[n].last_log_index \in Nat
            /\ current_term[n] \in Nat
        BY <1>2 DEF TypeInv, TypeOK, Log
      <4>3. QED
        BY <1>2, <1>3, <4>1, <4>2 DEF LeaderElected
    <3>2. ASSUME NEW p \in Node, AppendsNewEntry(p), e = NewEntry(p)
          PROVE  e.index <= log'[n].last_log_index
      <4>1. p = n
        BY <1>2, <2>3, <2>4, <3>1, <3>2, NewEntryFacts
      <4>2. QED
        BY <1>2, <3>1, <3>2, <4>1, NewEntryFacts
    <3>3. CASE e \in AllEntries
      <4>1. role[n] = "Leader"
        <5>1. PICK x \in elections : x.term = current_term[n]
          BY <1>2, <2>4, <3>1, <3>3 DEF EntriesOfElections
        <5>2. x.leader = n
          BY <1>3, <1>7, <3>1, <5>1 DEF ElectionSafety, Win
        <5>3. QED
          BY <1>2, <5>1, <5>2 DEF Reigns
      <4>2. e.index <= log[n].last_log_index
        BY <2>1, <2>4, <3>1, <3>3, <4>1 DEF LeaderHasLast
      <4>3. log'[n].last_log_index >= log[n].last_log_index
        BY <1>2, <2>1, <3>1, <4>1, LeadersLastKept
      <4>4. QED
        BY <2>2, <3>1, <3>3, <4>2, <4>3
    <3>4. QED
      BY <1>5, <3>2, <3>3
  <2>5. LeaderHasLast'
    BY <2>4 DEF LeaderHasLast
  \* No entry there is has the term and the index of a new one.
  <2>6. ASSUME NEW p \in Node, AppendsNewEntry(p), NEW f \in AllEntries,
               f.term = NewEntry(p).term, f.index = NewEntry(p).index
        PROVE  FALSE
    <3>1. f.index <= log[p].last_log_index
      BY <1>2, <2>1, <2>6, NewEntryFacts DEF LeaderHasLast
    <3>2. QED
      BY <1>2, <2>2, <2>6, <3>1, NewEntryFacts
  <2>7. ASSUME NEW e \in AllEntries', NEW f \in AllEntries',
               e.term = f.term, e.index = f.index
        PROVE  e = f
    <3>1. CASE e \in AllEntries /\ f \in AllEntries
      BY <2>1, <2>7, <3>1 DEF Identified
    <3>2. ASSUME NEW p \in Node, AppendsNewEntry(p), NEW q \in Node, AppendsNewEntry(q),
                 e = NewEntry(p), f = NewEntry(q)
          PROVE  e = f
      <4>1. current_term[p] = current_term[q]
        BY <1>2, <2>7, <3>2, NewEntryFacts
      <4>2. Win(p) \in elections'
        BY <1>2, <1>3, <3>2, NewEntryFacts DEF LeaderElected
      <4>3. p = q
        BY <2>3, <3>2, <4>1, <4>2
      <4>4. QED
        BY <3>2, <4>3
    <3>3. QED
      BY <1>5, <2>6, <2>7, <3>1, <3>2
  <2>8. Identified'
    BY <2>7 DEF Identified
  <2>9. QED
    BY <2>5, <2>8
<1>8. QED
  BY <1>2, <1>4, <1>6, <1>7 DEF EntryInv

\* As long as no term has two leaders and no process ends, a term and an index
\* name one request in every log, repeated or not, reissued or not.
THEOREM EntriesIdentified == Spec => []EntryIdentity
<1>1. EntryInv => EntryIdentity
  <2> SUFFICES ASSUME EntryInv, ElectionSafety, NEW n \in Node, NEW p \in Node,
                      NEW e \in EntriesOf(n), NEW f \in EntriesOf(p),
                      e.term = f.term, e.index = f.index
               PROVE  e = f
    BY DEF EntryIdentity
  <2>1. log \in [Node -> Log]
    BY DEF EntryInv, HintInv, TypeInv, TypeOK
  <2>2. \A i \in Node : log[i].entries \in Seq(Entry)
    BY <2>1 DEF Log
  <2>3. \A i \in Node : EntriesOf(i) \subseteq Entry
    BY <2>2, LenProperties, ElementOfSeq DEF EntriesOf
  <2>4. e \in AllEntries /\ f \in AllEntries
    BY <2>3 DEF AllEntries
  <2>5. QED
    BY <2>4 DEF EntryInv, Identified
<1>2. QED
  BY <1>1, EntryInvInit, EntryInvStep, PTL DEF Spec

-----------------------------------------------------------------------------
(* What the only leader applies and answers                                *)

\* No node but n has been leader yet.
Sole(n) == \A e \in elections : e.leader = n

KeepsApplied(n) ==
    /\ commit_index'[n] = commit_index[n] /\ last_applied'[n] = last_applied[n]
    /\ requests'[n] = requests[n] /\ applied'[n] = applied[n]
    /\ Answered(n)' = Answered(n)

\* Node n applies what it has computed to be committed.
AppliesCommit(n, v) ==
    /\ v > commit_index[n] /\ IsCommitValue(n, v)
    /\ apply_to_state_machine(n, v)

\* What may happen to node n as long as no other node has been leader: it
\* accepts a request, applies a commit of its own, or is started again.
SoleFrame(n) ==
    \/ log'[n] = log[n] /\ KeepsApplied(n)
    \/ log'[n] = log[n] /\ \E v \in Nat : AppliesCommit(n, v)
    \/ AppendsNewEntry(n)
    \/ Restart(n)

\* What another node applies and answers.
LEMMA ApplyElsewhere ==
    ASSUME TypeOK, NEW n \in Node, NEW q \in Node, q # n, NEW c, AdvanceCommit(q, c)
    PROVE  KeepsApplied(n)
<1>1. CASE c > commit_index[q]
  <2>1. apply_to_state_machine(q, c)
    BY <1>1 DEF AdvanceCommit
  <2>2. /\ commit_index'[n] = commit_index[n] /\ last_applied'[n] = last_applied[n]
        /\ requests'[n] = requests[n] /\ applied'[n] = applied[n]
    BY <2>1 DEF apply_to_state_machine, TypeOK
  <2>3. \A r : r \in {s \in replies' : s.node = n} <=> r \in {s \in replies : s.node = n}
    BY <2>1 DEF apply_to_state_machine
  <2>4. Answered(n)' = Answered(n)
    BY <2>3 DEF Answered
  <2>5. QED
    BY <2>2, <2>4 DEF KeepsApplied
<1>2. CASE ~(c > commit_index[q])
  BY <1>2 DEF AdvanceCommit, applyVars, KeepsApplied, Answered
<1>3. QED
  BY <1>1, <1>2

LEMMA SameApplied ==
    ASSUME UNCHANGED applyVars, NEW n \in Node
    PROVE  KeepsApplied(n)
  BY DEF applyVars, KeepsApplied, Answered

\* Only another leader's message would make the only leader apply anything.
LEMMA MessageSole ==
    ASSUME HintInv, NEW n \in Node, Sole(n), NEW q \in Node, NEW src \in Node,
           NEW k \in DOMAIN net[src][q], handle_message(q, src, k)
    PROVE  KeepsApplied(n)
<1> DEFINE m    == net[src][q][k]
           rest == Consume(net, src, q, k)
<1>1. TypeOK /\ m \in Carried(net) /\ m.src = src /\ src # q
  <2>1. TypeOK /\ m \in Carried(net)
    BY ConsumeCarried, NetIsLinks DEF HintInv, TypeInv
  <2>2. m \in Carries(net[src][q])
    BY DEF Carries
  <2>3. m.src = src /\ src # q
    BY <2>2 DEF HintInv, LinkSources
  <2>4. QED
    BY <2>1, <2>3
<1>2. \/ discard_stale(q, m, rest)
      \/ handle_request_vote_request(q, m, rest)
      \/ vote_counted(q, m, rest)
      \/ vote_not_counted(q, m, rest)
      \/ handle_heartbeat(q, m, rest)
      \/ handle_append_mismatch(q, m, rest)
      \/ handle_append_match(q, m, rest)
      \/ handle_append_entries_response(q, m, rest)
      \/ append_response_higher_term(q, m, rest)
  BY DEF handle_message
<1> HIDE DEF m, rest
<1>3. CASE \/ discard_stale(q, m, rest) \/ handle_request_vote_request(q, m, rest)
           \/ vote_counted(q, m, rest) \/ vote_not_counted(q, m, rest)
           \/ handle_append_entries_response(q, m, rest)
           \/ append_response_higher_term(q, m, rest)
  BY <1>3, SameApplied
     DEF discard_stale, handle_request_vote_request, vote_counted, vote_not_counted,
         handle_append_entries_response, append_response_higher_term
<1>4. CASE \/ handle_heartbeat(q, m, rest) \/ handle_append_mismatch(q, m, rest)
           \/ handle_append_match(q, m, rest)
  <2>1. FromLeader(m) /\ AdvanceCommit(q, m.leader_commit)
    BY <1>4 DEF handle_heartbeat, handle_append_mismatch, handle_append_match,
                append_prologue, FromLeader
  <2>2. [term |-> m.term, leader |-> m.src] \in elections
    BY <1>1, <2>1 DEF HintInv, SentByLeader
  <2>3. q # n
    BY <1>1, <2>2 DEF Sole
  <2>4. QED
    BY <1>1, <2>1, <2>3, ApplyElsewhere
<1>5. QED
  BY <1>2, <1>3, <1>4

LEMMA AcceptAppends ==
    ASSUME TypeInv, NEW n \in Node, accept_client_request(n)
    PROVE  AppendsNewEntry(n)
  BY AcceptedEntry DEF AppendsNewEntry, NewEntry

\* The log of the only leader changes by its own requests only.
LEMMA SoleLog ==
    ASSUME HintInv, [CrashNext]_vars, NEW n \in Node, Sole(n)
    PROVE  log'[n] = log[n] \/ AppendsNewEntry(n) \/ Restart(n)
<1>1. TypeInv /\ LogFrame /\ log \in [Node -> Log]
  BY Frame DEF HintInv, TypeInv, TypeOK
<1>2. ASSUME NEW p \in Node, NEW m \in Carried(net), AppendsBatch(p, m)
      PROVE  log'[n] = log[n]
  <2>1. p # n
    <3> SUFFICES ASSUME p = n PROVE FALSE
      OBVIOUS
    <3>1. PICK src \in Node : m \in Carries(net[src][n])
      BY <1>2 DEF AppendsBatch
    <3>2. m.src # n
      BY <3>1 DEF HintInv, LinkSources
    <3>3. [term |-> m.term, leader |-> m.src] \in elections
      BY <1>2 DEF HintInv, SentByLeader, FromLeader, AppendsBatch, IsAppendRequest
    <3>4. QED
      BY <3>2, <3>3 DEF Sole
  <2>2. log' = [log EXCEPT ![p] = append_entries(log[p], m.entries)]
    BY <1>2 DEF AppendsBatch
  <2>3. QED
    BY <1>1, <2>1, <2>2
<1>3. ASSUME NEW p \in Node, p # n, AppendsNewEntry(p) \/ Restart(p)
      PROVE  log'[n] = log[n]
  <2>1. CASE AppendsNewEntry(p)
    BY <1>1, <1>3, <2>1, NewEntryFacts
  <2>2. CASE Restart(p)
    BY <1>1, <1>3, <2>2 DEF Restart
  <2>3. QED
    BY <1>3, <2>1, <2>2
<1>4. QED
  BY <1>1, <1>2, <1>3 DEF LogFrame

LEMMA SoleStep ==
    ASSUME HintInv, [CrashNext]_vars, NEW n \in Node, Sole(n)
    PROVE  SoleFrame(n)
<1>1. TypeInv /\ TypeOK /\ (log'[n] = log[n] \/ AppendsNewEntry(n) \/ Restart(n))
  BY SoleLog DEF HintInv, TypeInv
<1>2. ASSUME NEW q \in Node, IsLeader(q) PROVE q = n
  BY <1>2 DEF HintInv, LeaderElected, IsLeader, Win, Sole
<1>3. ASSUME KeepsApplied(n) PROVE SoleFrame(n)
  BY <1>1, <1>3 DEF SoleFrame
<1>4. ASSUME NEW q \in Node, NodeStep(q) PROVE SoleFrame(n)
  <2>1. CASE handle_parse_timeout(q)
    BY <1>3, <2>1, MessageSole DEF handle_parse_timeout
  <2>2. CASE handle_election_timeout(q) \/ handle_reissue_timeout(q)
    BY <1>3, <2>2, SameApplied DEF handle_election_timeout, handle_reissue_timeout
  <2>3. CASE handle_heartbeat_timeout(q)
    <3>1. q = n /\ log' = log
      BY <1>2, <2>3 DEF handle_heartbeat_timeout
    <3>2. PICK v \in {match_index[n][p] : p \in Node} :
             IsCommitValue(n, v) /\ AdvanceCommit(n, v)
      BY <2>3, <3>1 DEF handle_heartbeat_timeout
    <3>3. v \in Nat
      BY <1>1 DEF TypeOK
    <3>4. CASE v > commit_index[n]
      BY <3>1, <3>2, <3>3, <3>4 DEF SoleFrame, AppliesCommit, AdvanceCommit
    <3>5. CASE ~(v > commit_index[n])
      BY <1>3, <3>2, <3>5, SameApplied DEF AdvanceCommit
    <3>6. QED
      BY <3>4, <3>5
  <2>4. CASE reject_client_request(q)
    <3>1. \A r : r \in {s \in replies' : s.node = n /\ s.success}
                   <=> r \in {s \in replies : s.node = n /\ s.success}
      BY <2>4 DEF reject_client_request
    <3>2. Answered(n)' = Answered(n)
      BY <3>1 DEF Answered
    <3>3. KeepsApplied(n)
      BY <2>4, <3>2 DEF reject_client_request, KeepsApplied
    <3>4. QED
      BY <1>3, <3>3
  <2>5. CASE accept_client_request(q)
    <3>1. q = n
      BY <1>2, <2>5 DEF accept_client_request
    <3>2. QED
      BY <1>1, <2>5, <3>1, AcceptAppends DEF SoleFrame
  <2>6. QED
    BY <1>4, <2>1, <2>2, <2>3, <2>4, <2>5 DEF NodeStep, handle_client_request
<1>5. ASSUME NEW i \in Node, NEW j \in Node, Lose(i, j) PROVE SoleFrame(n)
  BY <1>3, <1>5, SameApplied DEF Lose
<1>6. ASSUME NEW q \in Node, Restart(q) PROVE SoleFrame(n)
  <2>1. CASE q = n
    BY <1>6, <2>1 DEF SoleFrame
  <2>2. CASE q # n
    <3>1. KeepsApplied(n)
      BY <1>1, <1>6, <2>2 DEF Restart, KeepsApplied, Answered, TypeOK
    <3>2. QED
      BY <1>3, <3>1
  <2>3. QED
    BY <2>1, <2>2
<1>7. CASE UNCHANGED vars
  BY <1>3, <1>7, SameApplied DEF vars
<1>8. QED
  BY <1>4, <1>5, <1>6, <1>7 DEF CrashNext, Next

\* The request of every entry is known under the position of the entry.
KnownRequests(n) ==
    /\ log[n].last_log_index = Len(log[n].entries)
    /\ requests[n] = {[index |-> i, request_id |-> log[n].entries[i].request_id] :
                        i \in DOMAIN log[n].entries}

AppliedIds(n) == {applied[n][i].request_id : i \in DOMAIN applied[n]}

\* Inductive, crashes included: nobody but the only leader numbers or repeats
\* its entries, so that requests_ and its log, both kept by position, agree.
AnswerInv ==
    /\ HintInv
    /\ \A n \in Node : Sole(n) => KnownRequests(n) /\ Answered(n) = AppliedIds(n)

LEMMA KnownRequestAt ==
    ASSUME TypeOK, NEW n \in Node, KnownRequests(n), NEW i \in DOMAIN log[n].entries
    PROVE  RequestAt(n, i) = log[n].entries[i].request_id
<1> DEFINE slot == [index |-> i, request_id |-> log[n].entries[i].request_id]
<1>1. slot \in requests[n] /\ slot.index = i
  BY DEF KnownRequests
<1>2. \A s \in requests[n] : s.index = i => s = slot
  BY DEF KnownRequests
<1> HIDE DEF slot
<1>3. (CHOOSE s \in requests[n] : s.index = i) = slot
  BY <1>1, <1>2
<1>4. RequestAt(n, i) = slot.request_id
  BY <1>1, <1>3 DEF RequestAt
<1>5. QED
  BY <1>4 DEF slot

\* The part of the log that is applied, added to what was applied before.
LEMMA AppliedLog ==
    ASSUME TypeOK, NEW n \in Node, NEW c \in Nat, apply_to_state_machine(n, c)
    PROVE  LET upto == AppliedUpTo(n, c)
           IN  /\ Len(applied[n]) \in Nat /\ Len(upto) \in Nat
               /\ Len(applied'[n]) = Len(applied[n]) + Len(upto)
               /\ DOMAIN applied[n] = 1 .. Len(applied[n])
               /\ DOMAIN applied'[n] = 1 .. (Len(applied[n]) + Len(upto))
               /\ \A i \in DOMAIN applied[n] : applied'[n][i] = applied[n][i]
               /\ \A i \in 1 .. Len(upto) :
                     /\ last_applied[n] + i \in Present(n, c)
                     /\ last_applied[n] + i \in DOMAIN log[n].entries
                     /\ applied'[n][Len(applied[n]) + i] = log[n].entries[last_applied[n] + i]
               /\ \A x \in Present(n, c) : /\ x \in DOMAIN log[n].entries
                                           /\ x - last_applied[n] \in 1 .. Len(upto)
               /\ c <= Len(log[n].entries) /\ c >= last_applied[n] =>
                     Len(upto) = c - last_applied[n]
<1> DEFINE entries == log[n].entries
           la      == last_applied[n]
           last    == IF c <= Len(entries) THEN c ELSE Len(entries)
           upto    == AppliedUpTo(n, c)
<1>1. /\ entries \in Seq(Entry) /\ la \in Nat /\ applied[n] \in Seq(Entry)
      /\ applied' = [applied EXCEPT ![n] = @ \o upto] /\ applied \in [Node -> Seq(Entry)]
  BY DEF TypeOK, Log, apply_to_state_machine
<1>2. /\ Len(entries) \in Nat /\ DOMAIN entries = 1 .. Len(entries)
      /\ Len(applied[n]) \in Nat /\ DOMAIN applied[n] = 1 .. Len(applied[n])
      /\ \A i \in DOMAIN entries : entries[i] \in Entry
  BY <1>1, LenProperties, ElementOfSeq
<1> DEFINE first == la + 1
<1>3. upto = SubSeq(entries, first, last)
  BY DEF AppliedUpTo
<1> HIDE DEF upto, entries, la
<1>4. last \in Nat /\ last <= c /\ last <= Len(entries)
  BY <1>2
<1>5. first \in Nat /\ first = la + 1 /\ \A i \in first .. last : entries[i] \in Entry
  BY <1>1, <1>2, <1>4
<1>6. (c <= Len(entries) => last = c) /\ (last = c \/ last = Len(entries))
  OBVIOUS
<1> HIDE DEF last, first
<1>7. /\ upto \in Seq(Entry)
      /\ Len(upto) = IF first <= last THEN last - first + 1 ELSE 0
      /\ \A i \in 1 .. last - first + 1 : upto[i] = entries[first + i - 1]
  BY <1>3, <1>4, <1>5, SubSeqProperties
<1>8. /\ Len(upto) \in Nat
      /\ \A i \in 1 .. Len(upto) : /\ la + i <= last /\ la + i \in Nat /\ la + i >= 1
                                   /\ upto[i] = entries[la + i]
  <2>1. ASSUME NEW i \in 1 .. Len(upto)
        PROVE  /\ la + i <= last /\ la + i \in Nat /\ la + i >= 1
               /\ i \in 1 .. last - first + 1 /\ first + i - 1 = la + i
    BY <1>1, <1>4, <1>5, <1>7
  <2>2. Len(upto) \in Nat
    BY <1>4, <1>5, <1>7
  <2>3. QED
    BY <1>7, <2>1, <2>2
<1>9. applied'[n] = applied[n] \o upto
  BY <1>1
<1>10. /\ applied'[n] \in Seq(Entry)
       /\ Len(applied'[n]) = Len(applied[n]) + Len(upto)
       /\ \A i \in 1 .. Len(applied[n]) + Len(upto) :
             applied'[n][i] = IF i <= Len(applied[n]) THEN applied[n][i]
                              ELSE upto[i - Len(applied[n])]
  BY <1>1, <1>7, <1>9, ConcatProperties
<1>11. DOMAIN applied'[n] = 1 .. (Len(applied[n]) + Len(upto))
  BY <1>10, LenProperties
<1>12. \A i \in DOMAIN applied[n] : applied'[n][i] = applied[n][i]
  BY <1>2, <1>8, <1>10
<1>13. ASSUME NEW i \in 1 .. Len(upto)
       PROVE  /\ la + i \in Present(n, c) /\ la + i \in DOMAIN entries
              /\ applied'[n][Len(applied[n]) + i] = entries[la + i]
  <2>1. /\ la + i <= last /\ la + i \in Nat /\ la + i >= 1 /\ i \in Nat /\ i >= 1
        /\ upto[i] = entries[la + i]
    BY <1>8
  <2>2. /\ la + i \in DOMAIN entries /\ la + i \in (la + 1) .. c
        /\ la + i # 0 /\ la + i <= Len(entries)
    BY <1>1, <1>2, <1>4, <2>1
  <2>3. la + i \in Present(n, c)
    BY <2>2 DEF Present, has_entry, entries, la
  <2>4. /\ Len(applied[n]) + i \in 1 .. Len(applied[n]) + Len(upto)
        /\ ~(Len(applied[n]) + i <= Len(applied[n]))
        /\ (Len(applied[n]) + i) - Len(applied[n]) = i
    <3>1. Len(applied[n]) \in Nat /\ Len(upto) \in Nat
      BY <1>2, <1>8
    <3>2. i <= Len(upto)
      BY <1>8
    <3>3. QED
      BY <2>1, <3>1, <3>2
  <2>5. applied'[n][Len(applied[n]) + i] = upto[i]
    BY <1>10, <2>4
  <2>6. QED
    BY <2>1, <2>2, <2>3, <2>5
<1>14. ASSUME NEW x \in Present(n, c)
       PROVE  x \in DOMAIN entries /\ x - la \in 1 .. Len(upto)
  <2>1. x \in (la + 1) .. c /\ x # 0 /\ x <= Len(entries)
    BY DEF Present, has_entry, entries, la
  <2>2. Len(entries) \in Nat /\ DOMAIN entries = 1 .. Len(entries)
    BY <1>2
  <2>3. x \in Nat /\ x >= 1 /\ x >= first /\ x <= last /\ x \in DOMAIN entries
    BY <1>1, <1>5, <1>6, <2>1, <2>2
  <2>4. Len(upto) = last - first + 1
    BY <1>4, <1>5, <1>7, <2>3
  <2>5. QED
    BY <1>1, <1>4, <1>5, <2>3, <2>4
<1>15. c <= Len(entries) /\ c >= la => Len(upto) = c - la
  BY <1>1, <1>4, <1>5, <1>6, <1>7
<1>16. QED
  BY <1>2, <1>8, <1>10, <1>11, <1>12, <1>13, <1>14, <1>15 DEF upto, entries, la

LEMMA AnswerApply ==
    ASSUME TypeOK, NEW n \in Node, NEW c \in Nat, apply_to_state_machine(n, c),
           log'[n] = log[n], KnownRequests(n), Answered(n) = AppliedIds(n)
    PROVE  KnownRequests(n)' /\ Answered(n)' = AppliedIds(n)'
<1> DEFINE present == Present(n, c)
           entries == log[n].entries
           upto    == AppliedUpTo(n, c)
<1>1. \A x \in present : x \in DOMAIN entries /\ RequestAt(n, x) = entries[x].request_id
  BY AppliedLog, KnownRequestAt
<1>2. requests'[n] = requests[n] \cup {[index |-> x, request_id |-> RequestAt(n, x)] :
                                          x \in present}
  BY DEF apply_to_state_machine, TypeOK
<1>3. requests'[n] = requests[n]
  BY <1>1, <1>2 DEF KnownRequests
<1>4. KnownRequests(n)'
  BY <1>3 DEF KnownRequests
<1>5. Answered(n)' = Answered(n) \cup {RequestAt(n, x) : x \in present}
  <2> DEFINE Told(x) == [node |-> n, request_id |-> RequestAt(n, x),
                         success |-> TRUE, leader_hint |-> Zero]
  <2>1. replies' = replies \cup {Told(x) : x \in present}
    BY DEF apply_to_state_machine
  <2>2. \A x : Told(x).node = n /\ Told(x).success /\ Told(x).request_id = RequestAt(n, x)
    OBVIOUS
  <2> HIDE DEF Told, present
  <2>3. {q \in replies' : q.node = n /\ q.success}
          = {q \in replies : q.node = n /\ q.success} \cup {Told(x) : x \in present}
    BY <2>1, <2>2
  <2>4. QED
    BY <2>2, <2>3 DEF Answered
<1>6. /\ DOMAIN applied[n] = 1 .. Len(applied[n]) /\ Len(applied[n]) \in Nat
      /\ DOMAIN applied'[n] = 1 .. (Len(applied[n]) + Len(upto)) /\ Len(upto) \in Nat
      /\ \A i \in DOMAIN applied[n] : applied'[n][i] = applied[n][i]
      /\ \A i \in 1 .. Len(upto) :
            /\ last_applied[n] + i \in present
            /\ applied'[n][Len(applied[n]) + i] = entries[last_applied[n] + i]
      /\ \A x \in present : x - last_applied[n] \in 1 .. Len(upto)
  BY AppliedLog
<1> last_applied[n] \in Nat /\ \A x \in present : x \in Nat
  BY DEF TypeOK, Present
<1> HIDE DEF present, entries, upto
<1>7. ASSUME NEW i \in DOMAIN applied'[n]
      PROVE  applied'[n][i].request_id \in AppliedIds(n) \cup {RequestAt(n, x) : x \in present}
  <2>1. CASE i <= Len(applied[n])
    <3>1. i \in DOMAIN applied[n]
      BY <1>6, <2>1
    <3>2. QED
      BY <1>6, <3>1 DEF AppliedIds
  <2>2. CASE ~(i <= Len(applied[n]))
    <3> DEFINE d == i - Len(applied[n])
    <3>1. d \in 1 .. Len(upto) /\ i = Len(applied[n]) + d
      <4>1. /\ i \in 1 .. (Len(applied[n]) + Len(upto))
            /\ Len(applied[n]) \in Nat /\ Len(upto) \in Nat
        BY <1>6
      <4>2. QED
        BY <2>2, <4>1
    <3> HIDE DEF d
    <3>2. /\ last_applied[n] + d \in present
          /\ applied'[n][i] = entries[last_applied[n] + d]
      BY <1>6, <3>1
    <3>3. QED
      BY <1>1, <3>2
  <2>3. QED
    BY <2>1, <2>2
<1>8. ASSUME NEW x \in present PROVE RequestAt(n, x) \in AppliedIds(n)'
  <2> DEFINE d == x - last_applied[n]
  <2>1. d \in 1 .. Len(upto) /\ last_applied[n] + d = x
    BY <1>6
  <2> HIDE DEF d
  <2>2. applied'[n][Len(applied[n]) + d] = entries[x]
    BY <1>6, <2>1
  <2>3. Len(applied[n]) + d \in DOMAIN applied'[n]
    BY <1>6, <2>1
  <2>4. QED
    BY <1>1, <2>2, <2>3 DEF AppliedIds
<1>9. AppliedIds(n) \subseteq AppliedIds(n)'
  <2>1. \A i \in DOMAIN applied[n] : i \in DOMAIN applied'[n]
    BY <1>6
  <2>2. QED
    BY <1>6, <2>1 DEF AppliedIds
<1>10. AppliedIds(n)' = AppliedIds(n) \cup {RequestAt(n, x) : x \in present}
  <2>1. AppliedIds(n)' \subseteq AppliedIds(n) \cup {RequestAt(n, x) : x \in present}
    BY <1>7 DEF AppliedIds
  <2>2. QED
    BY <1>8, <1>9, <2>1
<1>11. QED
  BY <1>4, <1>5, <1>10

\* What a leader that accepts a request does besides.
LEMMA AcceptedRequest ==
    ASSUME TypeInv, NEW n \in Node, AppendsNewEntry(n)
    PROVE  LET entries == log[n].entries
           IN  /\ Len(entries) \in Nat /\ DOMAIN entries = 1 .. Len(entries)
               /\ DOMAIN log'[n].entries = 1 .. (Len(entries) + 1)
               /\ Len(log'[n].entries) = Len(entries) + 1
               /\ \A i \in 1 .. Len(entries) : log'[n].entries[i] = entries[i]
               /\ log'[n].entries[Len(entries) + 1] = NewEntry(n)
               /\ NewEntry(n).request_id = next_request
               /\ requests'[n] = emplace(requests[n], log[n].last_log_index + 1, next_request)
               /\ next_request' = next_request + 1
               /\ UNCHANGED <<commit_index, last_applied, applied, replies>>
<1> DEFINE entries == log[n].entries
<1>1. /\ entries \in Seq(Entry) /\ NewEntry(n) \in Entry
      /\ log'[n].entries = Append(entries, NewEntry(n))
  <2>1. log[n] \in Log /\ log' = [log EXCEPT ![n] = append_entry(log[n], NewEntry(n))]
    BY DEF TypeInv, TypeOK, AppendsNewEntry, accept_client_request, NewEntry, NewIndex
  <2>2. log'[n] = append_entry(log[n], NewEntry(n))
    BY <2>1 DEF TypeInv, TypeOK
  <2>3. QED
    BY <2>1, <2>2, NewEntryType DEF append_entry, Log
<1> HIDE DEF entries
<1>2. /\ Len(entries) \in Nat /\ DOMAIN entries = 1 .. Len(entries)
  BY <1>1, LenProperties
<1>3. /\ log'[n].entries \in Seq(Entry)
      /\ Len(log'[n].entries) = Len(entries) + 1
      /\ \A i \in 1 .. Len(entries) : log'[n].entries[i] = entries[i]
      /\ log'[n].entries[Len(entries) + 1] = NewEntry(n)
  BY <1>1, <1>2, AppendProperties
<1>4. DOMAIN log'[n].entries = 1 .. (Len(entries) + 1)
  BY <1>3, LenProperties
<1>5. /\ requests'[n] = emplace(requests[n], log[n].last_log_index + 1, next_request)
      /\ next_request' = next_request + 1
      /\ UNCHANGED <<commit_index, last_applied, applied, replies>>
  BY DEF AppendsNewEntry, accept_client_request, TypeInv, TypeOK
<1>6. NewEntry(n).request_id = next_request
  BY DEF NewEntry
<1>7. QED
  BY <1>2, <1>3, <1>4, <1>5, <1>6 DEF entries

LEMMA AnswerAccept ==
    ASSUME TypeInv, NEW n \in Node, AppendsNewEntry(n),
           KnownRequests(n), Answered(n) = AppliedIds(n)
    PROVE  KnownRequests(n)' /\ Answered(n)' = AppliedIds(n)'
<1> DEFINE entries == log[n].entries
           Slot(i)     == [index |-> i, request_id |-> log[n].entries[i].request_id]
           SlotNext(i) == [index |-> i, request_id |-> log'[n].entries[i].request_id]
           last    == Len(entries) + 1
           new     == [index |-> last, request_id |-> next_request]
<1>1. /\ Len(entries) \in Nat /\ DOMAIN entries = 1 .. Len(entries)
      /\ DOMAIN log'[n].entries = 1 .. last /\ Len(log'[n].entries) = last
      /\ \A i \in 1 .. Len(entries) : log'[n].entries[i] = entries[i]
      /\ log'[n].entries[last].request_id = next_request
      /\ UNCHANGED <<applied, replies>>
  BY AcceptedRequest
<1>2. log'[n].last_log_index = last
  BY NewEntryFacts DEF KnownRequests
<1>3. requests[n] = {Slot(i) : i \in 1 .. Len(entries)}
  BY <1>1 DEF KnownRequests
<1>4. requests'[n] = emplace(requests[n], last, next_request)
  BY AcceptedRequest DEF KnownRequests
<1>5. ~ \E s \in requests[n] : s.index = last
  BY <1>1, <1>3
<1>6. requests'[n] = {Slot(i) : i \in 1 .. Len(entries)} \cup {new}
  BY <1>3, <1>4, <1>5 DEF emplace
<1>7. /\ \A i \in 1 .. Len(entries) : SlotNext(i) = Slot(i)
      /\ SlotNext(last) = new
      /\ 1 .. last = 1 .. Len(entries) \cup {last}
  <2>1. \A i \in 1 .. Len(entries) : SlotNext(i) = Slot(i)
    BY <1>1
  <2>2. SlotNext(last) = new
    BY <1>1
  <2>3. 1 .. last = 1 .. Len(entries) \cup {last}
    BY <1>1
  <2>4. QED
    BY <2>1, <2>2, <2>3
<1>8. requests'[n] = {SlotNext(i) : i \in 1 .. last}
  <2> HIDE DEF SlotNext, Slot, new, last, entries
  <2>1. QED
    BY <1>6, <1>7
<1>9. KnownRequests(n)'
  BY <1>1, <1>2, <1>8 DEF KnownRequests
<1>10. Answered(n)' = Answered(n) /\ AppliedIds(n)' = AppliedIds(n)
  BY <1>1 DEF Answered, AppliedIds
<1>11. QED
  BY <1>9, <1>10

LEMMA AnswerInvInit == Init => AnswerInv
<1> SUFFICES ASSUME Init PROVE AnswerInv
  OBVIOUS
<1>1. ASSUME NEW n \in Node PROVE KnownRequests(n) /\ Answered(n) = AppliedIds(n)
  <2>1. DOMAIN << >> = {} /\ Len(<< >>) = 0
    OBVIOUS
  <2>2. log[n].entries = << >> /\ log[n].last_log_index = 0 /\ requests[n] = {}
    BY DEF Init, EmptyLog
  <2>3. KnownRequests(n)
    BY <2>1, <2>2 DEF KnownRequests
  <2>4. Answered(n) = {} /\ AppliedIds(n) = {}
    BY <2>1 DEF Init, Answered, AppliedIds
  <2>5. QED
    BY <2>3, <2>4
<1>2. QED
  BY <1>1, HintInvInit DEF AnswerInv

LEMMA AnswerInvStep == AnswerInv /\ [CrashNext]_vars => AnswerInv'
<1> SUFFICES ASSUME AnswerInv, [CrashNext]_vars PROVE AnswerInv'
  OBVIOUS
<1>1. /\ HintInv /\ HintInv' /\ TypeInv /\ TypeOK /\ elections \subseteq elections'
  BY HintInvStep, StepLead DEF AnswerInv, HintInv, TypeInv, LeadFrame, ElectionsFrame
<1>2. ASSUME NEW n \in Node, Sole(n)'
      PROVE  KnownRequests(n)' /\ Answered(n)' = AppliedIds(n)'
  <2>1. Sole(n)
    BY <1>1, <1>2 DEF Sole
  <2>2. KnownRequests(n) /\ Answered(n) = AppliedIds(n) /\ SoleFrame(n)
    BY <1>1, <2>1, SoleStep DEF AnswerInv
  <2>3. CASE log'[n] = log[n] /\ KeepsApplied(n)
    BY <2>2, <2>3 DEF KeepsApplied, KnownRequests, AppliedIds
  <2>4. ASSUME log'[n] = log[n], NEW v \in Nat, AppliesCommit(n, v)
        PROVE  KnownRequests(n)' /\ Answered(n)' = AppliedIds(n)'
    BY <1>1, <2>2, <2>4, AnswerApply DEF AppliesCommit
  <2>5. CASE AppendsNewEntry(n)
    BY <1>1, <2>2, <2>5, AnswerAccept
  <2>6. CASE Restart(n)
    <3>1. log'[n] = EmptyLog /\ requests'[n] = {} /\ UNCHANGED <<applied, replies>>
      BY <1>1, <2>6 DEF Restart, TypeOK
    <3>2. DOMAIN << >> = {} /\ Len(<< >>) = 0
      OBVIOUS
    <3>3. KnownRequests(n)'
      BY <3>1, <3>2 DEF KnownRequests, EmptyLog
    <3>4. QED
      BY <2>2, <3>1, <3>3 DEF Answered, AppliedIds
  <2>7. QED
    BY <2>2, <2>3, <2>4, <2>5, <2>6 DEF SoleFrame
<1>3. QED
  BY <1>1, <1>2 DEF AnswerInv

\* The only leader there has been answers the requests it applies, all of them
\* and no other, even if processes end and their logs and requests with them.
THEOREM SoleLeadersAnswers ==
    (Spec => []SoleLeaderAnswers) /\ (CrashSpec => []SoleLeaderAnswers)
<1>1. AnswerInv => SoleLeaderAnswers
  BY DEF AnswerInv, SoleLeaderAnswers, SoleLeader, Sole, AppliedIds
<1>2. QED
  BY <1>1, AnswerInvInit, AnswerInvStep, SpecIsCrashSpec, PTL DEF CrashSpec

\* The client counts its requests upwards.
LEMMA RequestsCounted ==
    ASSUME TypeInv, [Next]_vars
    PROVE  next_request \in Nat /\ next_request' \in Nat /\ next_request' >= next_request
<1>1. next_request \in Nat
  BY DEF TypeInv, TypeOK
<1>2. ASSUME NEW n \in Node, NodeStep(n)
      PROVE  next_request' = next_request \/ next_request' = next_request + 1
  <2>1. CASE handle_parse_timeout(n)
    BY <2>1, MessageKeepsEnv DEF handle_parse_timeout, envVars
  <2>2. CASE \/ handle_election_timeout(n) \/ handle_heartbeat_timeout(n)
             \/ handle_reissue_timeout(n)
    BY <2>2 DEF handle_election_timeout, handle_heartbeat_timeout, handle_reissue_timeout,
                envVars
  <2>3. CASE handle_client_request(n)
    BY <2>3 DEF handle_client_request, reject_client_request, accept_client_request
  <2>4. QED
    BY <1>2, <2>1, <2>2, <2>3 DEF NodeStep
<1>3. next_request' = next_request \/ next_request' = next_request + 1
  BY <1>2 DEF Next, Lose, vars, envVars
<1>4. QED
  BY <1>1, <1>3

\* No entry, log, acknowledgement or record of a peer goes beyond the log of
\* the only leader, and neither does what it takes for committed.
WithinSoleLog(n) ==
    /\ \A e \in AllEntries : e.index <= log[n].last_log_index
    /\ \A p \in Node : log[p].last_log_index <= log[n].last_log_index
    /\ \A m \in Carried(net) : IsAck(m) => m.last_log_index <= log[n].last_log_index
    /\ \A p \in Node : match_index[n][p] <= log[n].last_log_index
    /\ commit_index[n] <= log[n].last_log_index

\* Its entries are requests of the client, in the order of their ids.
RequestsInOrder(n) ==
    \A i \in DOMAIN log[n].entries :
        /\ log[n].entries[i].request_id < next_request
        /\ \A j \in 1 .. i - 1 :
              log[n].entries[j].request_id < log[n].entries[i].request_id

AppliedIsPrefix(n) ==
    /\ last_applied[n] = commit_index[n] /\ Len(applied[n]) = last_applied[n]
    /\ \A i \in DOMAIN applied[n] :
          i \in DOMAIN log[n].entries /\ applied[n][i] = log[n].entries[i]

\* Inductive as long as no process ends: the acknowledgements that commit an
\* entry are bounded by the indexes the only leader has given.
SoleInv ==
    /\ AnswerInv
    /\ \A n \in Node :
          Sole(n) => WithinSoleLog(n) /\ RequestsInOrder(n) /\ AppliedIsPrefix(n)

\* Only the only leader creates entries.
LEMMA SoleCreates ==
    ASSUME HintInv, NEW n \in Node, Sole(n), NEW q \in Node, AppendsNewEntry(q)
    PROVE  q = n
<1>1. role[q] = "Leader"
  BY NewEntryFacts DEF HintInv
<1>2. QED
  BY <1>1 DEF HintInv, LeaderElected, Win, Sole

LEMMA SoleLastGrows ==
    ASSUME HintInv, [Next]_vars, NEW n \in Node, Sole(n)
    PROVE  /\ log[n].last_log_index \in Nat /\ log'[n].last_log_index \in Nat
           /\ log'[n].last_log_index >= log[n].last_log_index
<1>1. [CrashNext]_vars
  BY DEF CrashNext
<1>2. TypeInv /\ log[n].last_log_index \in Nat /\ ~Restart(n)
  BY NobodyRestarts DEF HintInv, TypeInv, TypeOK, Log
<1>3. CASE log'[n] = log[n]
  BY <1>2, <1>3
<1>4. CASE AppendsNewEntry(n)
  BY <1>2, <1>4, NewEntryFacts
<1>5. QED
  BY <1>1, <1>2, <1>3, <1>4, SoleLog

LEMMA EntriesWithin ==
    ASSUME HintInv, [Next]_vars, NEW n \in Node, Sole(n), WithinSoleLog(n),
           NEW e \in AllEntries'
    PROVE  e.index <= log'[n].last_log_index
<1>1. /\ log[n].last_log_index \in Nat /\ log'[n].last_log_index \in Nat
      /\ log'[n].last_log_index >= log[n].last_log_index
  BY SoleLastGrows
<1>2. CASE e \in AllEntries
  <2>1. e.index \in Nat /\ e.index <= log[n].last_log_index
    BY <1>2 DEF AllEntries, Entry, WithinSoleLog
  <2>2. QED
    BY <1>1, <2>1
<1>3. ASSUME NEW q \in Node, AppendsNewEntry(q), e = NewEntry(q)
      PROVE  e.index <= log'[n].last_log_index
  <2>1. q = n
    BY <1>3, SoleCreates
  <2>2. e.index = log[n].last_log_index + 1 /\ log'[n].last_log_index = log[n].last_log_index + 1
    BY <1>3, <2>1, NewEntryFacts DEF HintInv
  <2>3. QED
    BY <1>1, <2>2
<1>4. QED
  BY <1>2, <1>3, EntriesFrame DEF HintInv

LEMMA LogsWithin ==
    ASSUME HintInv, [Next]_vars, NEW n \in Node, Sole(n), WithinSoleLog(n), NEW p \in Node
    PROVE  log'[p].last_log_index <= log'[n].last_log_index
<1>1. /\ log[n].last_log_index \in Nat /\ log'[n].last_log_index \in Nat
      /\ log'[n].last_log_index >= log[n].last_log_index
  BY SoleLastGrows
<1>2. [CrashNext]_vars
  BY DEF CrashNext
<1>3. TypeInv /\ LogFrame /\ log \in [Node -> Log] /\ \A q \in Node : ~Restart(q)
  BY <1>2, Frame, NobodyRestarts DEF HintInv, TypeInv, TypeOK
<1>4. log[p].last_log_index \in Nat /\ log[p].last_log_index <= log[n].last_log_index
  BY <1>3 DEF Log, WithinSoleLog
<1>5. CASE log'[p] = log[p]
  BY <1>1, <1>4, <1>5
<1>6. ASSUME NEW q \in Node, NEW m \in Carried(net), AppendsBatch(q, m), log'[p] # log[p]
      PROVE  log'[p].last_log_index <= log[n].last_log_index
  <2> DEFINE batch == m.entries
             l     == log[q]
  <2>1. /\ batch \in Seq(Entry) /\ IsAppendRequest(m) /\ l \in Log
        /\ log' = [log EXCEPT ![q] = append_entries(l, batch)]
    BY <1>3, <1>6, MessageFields DEF AppendsBatch, IsAppendRequest, Carried
  <2>2. p = q /\ log'[p] = append_entries(l, batch)
    BY <1>3, <1>6, <2>1
  <2>3. batch # << >>
    BY <1>6, <2>2 DEF append_entries
  <2>4. log'[p].last_log_index = batch[Len(batch)].index
    BY <2>2, <2>3 DEF append_entries
  <2>5. Len(batch) \in DOMAIN batch /\ batch[Len(batch)] \in Entry
    <3>1. Len(batch) \in Nat \ {0} /\ DOMAIN batch = 1 .. Len(batch)
      BY <2>1, <2>3, EmptySeq, LenProperties
    <3>2. Len(batch) \in 1 .. Len(batch)
      BY <3>1
    <3>3. QED
      BY <2>1, <3>1, <3>2, ElementOfSeq
  <2>6. batch[Len(batch)] \in AllEntries
    BY <1>6, <2>1, <2>5 DEF AllEntries, BatchOf
  <2>7. QED
    BY <2>4, <2>6 DEF WithinSoleLog
<1>7. ASSUME NEW q \in Node, AppendsNewEntry(q), log'[p] # log[p]
      PROVE  p = n
  BY <1>3, <1>7, SoleCreates, NewEntryFacts
<1>8. CASE p = n
  BY <1>1, <1>8
<1>9. log'[p].last_log_index \in Nat
  BY <1>2, TypeInvStep DEF HintInv, TypeInv, TypeOK, Log
<1>10. CASE log'[p].last_log_index <= log[n].last_log_index
  BY <1>1, <1>9, <1>10
<1>11. QED
  BY <1>3, <1>5, <1>6, <1>7, <1>8, <1>10 DEF LogFrame

LEMMA AcksWithin ==
    ASSUME HintInv, [Next]_vars, NEW n \in Node, Sole(n), WithinSoleLog(n),
           NEW m \in Carried(net'), IsAck(m)
    PROVE  m.last_log_index <= log'[n].last_log_index
<1>1. /\ log[n].last_log_index \in Nat /\ log'[n].last_log_index \in Nat
      /\ log'[n].last_log_index >= log[n].last_log_index
  BY SoleLastGrows
<1>2. [CrashNext]_vars
  BY DEF CrashNext
<1>3. CASE m \in Carried(net)
  <2>1. m.last_log_index \in Nat
    BY MessageFields DEF IsAck, Carried
  <2>2. m.last_log_index <= log[n].last_log_index
    BY <1>3 DEF WithinSoleLog
  <2>3. QED
    BY <1>1, <2>1, <2>2
<1>4. CASE m \notin Carried(net)
  <2>1. PICK i \in Node : Sends(i, m)
    BY <1>2, <1>4, StepArrivals DEF Carried, Arrivals, HintInv
  <2>2. m.last_log_index = log'[i].last_log_index
    BY <2>1 DEF IsAck, Sends
  <2>3. QED
    BY <2>2, LogsWithin
<1>5. QED
  BY <1>3, <1>4

LEMMA CommitWithin ==
    ASSUME HintInv, [Next]_vars, NEW n \in Node, Sole(n), WithinSoleLog(n)
    PROVE  /\ commit_index'[n] <= log'[n].last_log_index
           /\ \A p \in Node : match_index'[n][p] <= log'[n].last_log_index
<1>1. /\ log[n].last_log_index \in Nat /\ log'[n].last_log_index \in Nat
      /\ log'[n].last_log_index >= log[n].last_log_index
  BY SoleLastGrows
<1>2. [CrashNext]_vars
  BY DEF CrashNext
<1>3. /\ TypeInv /\ TypeOK /\ TypeInv' /\ SoleFrame(n) /\ ProgressFrame /\ ~Restart(n)
  BY <1>2, TypeInvStep, SoleStep, StepProgress, NobodyRestarts DEF HintInv, TypeInv
<1>4. /\ commit_index[n] \in Nat /\ commit_index[n] <= log[n].last_log_index
      /\ \A p \in Node : /\ match_index[n][p] \in Nat
                         /\ match_index[n][p] <= log[n].last_log_index
  BY <1>3 DEF TypeOK, WithinSoleLog
<1>5. commit_index'[n] <= log'[n].last_log_index
  <2>1. CASE commit_index'[n] = commit_index[n]
    BY <1>1, <1>4, <2>1
  <2>2. ASSUME NEW v \in Nat, AppliesCommit(n, v)
        PROVE  commit_index'[n] <= log'[n].last_log_index
    <3>1. commit_index'[n] = v
      BY <1>3, <2>2 DEF AppliesCommit, apply_to_state_machine, TypeOK
    <3>2. v <= log[n].last_log_index
      BY <1>4, <2>2 DEF AppliesCommit, IsCommitValue
    <3>3. QED
      BY <1>1, <3>1, <3>2
  <2>3. AppendsNewEntry(n) => commit_index'[n] = commit_index[n]
    BY DEF AppendsNewEntry, accept_client_request
  <2>4. QED
    BY <1>3, <2>1, <2>2, <2>3 DEF SoleFrame, KeepsApplied
<1>6. ASSUME NEW p \in Node PROVE match_index'[n][p] <= log'[n].last_log_index
  <2>1. CASE match_index'[n][p] = match_index[n][p]
    BY <1>1, <1>4, <2>1
  <2>2. ASSUME NEW m \in Carried(net), IsAck(m), match_index'[n][p] = m.last_log_index
        PROVE  match_index'[n][p] <= log'[n].last_log_index
    <3>1. m.last_log_index \in Nat /\ m.last_log_index <= log[n].last_log_index
      BY <2>2, MessageFields DEF IsAck, Carried, WithinSoleLog
    <3>2. QED
      BY <1>1, <2>2, <3>1
  <2>3. CASE match_index'[n][p] = commit_index'[n]
    BY <1>5, <2>3
  <2>4. CASE match_index'[n][p] = log'[n].last_log_index
    BY <1>1, <2>4
  <2>5. QED
    BY <1>3, <2>1, <2>2, <2>3, <2>4 DEF ProgressFrame, MatchFrame
<1>7. QED
  BY <1>5, <1>6

LEMMA WithinSoleLogKept ==
    ASSUME HintInv, [Next]_vars, NEW n \in Node, Sole(n), WithinSoleLog(n)
    PROVE  WithinSoleLog(n)'
<1>1. \A e \in AllEntries' : e.index <= log'[n].last_log_index
  BY EntriesWithin
<1>2. \A p \in Node : log'[p].last_log_index <= log'[n].last_log_index
  BY LogsWithin
<1>3. \A m \in Carried(net') : IsAck(m) => m.last_log_index <= log'[n].last_log_index
  BY AcksWithin
<1>4. Carried(net)' = Carried(net')
  BY DEF Carried
<1>5. QED
  BY <1>1, <1>2, <1>3, <1>4, CommitWithin DEF WithinSoleLog

LEMMA RequestsInOrderKept ==
    ASSUME HintInv, [Next]_vars, NEW n \in Node, Sole(n), RequestsInOrder(n)
    PROVE  RequestsInOrder(n)'
<1> DEFINE entries == log[n].entries
           later   == log'[n].entries
<1>1. [CrashNext]_vars
  BY DEF CrashNext
<1>2. /\ next_request \in Nat /\ next_request' \in Nat /\ next_request' >= next_request
      /\ TypeInv /\ ~Restart(n)
  BY RequestsCounted, NobodyRestarts DEF HintInv
<1>3. entries \in Seq(Entry)
  BY <1>2 DEF TypeInv, TypeOK, Log
<1>4. \A i \in DOMAIN entries : entries[i].request_id \in Nat
  <2> HIDE DEF entries
  <2>1. \A i \in DOMAIN entries : entries[i] \in Entry
    BY <1>3, LenProperties, ElementOfSeq
  <2>2. QED
    BY <2>1 DEF Entry
<1>5. \A i \in DOMAIN entries :
         /\ entries[i].request_id < next_request
         /\ \A j \in 1 .. i - 1 : entries[j].request_id < entries[i].request_id
  BY DEF RequestsInOrder
<1>6. CASE log'[n] = log[n]
  <2>1. ASSUME NEW i \in DOMAIN entries PROVE entries[i].request_id < next_request'
    <3>1. entries[i].request_id \in Nat /\ entries[i].request_id < next_request
      BY <1>4, <1>5
    <3>2. QED
      BY <1>2, <3>1
  <2>2. QED
    BY <1>5, <1>6, <2>1 DEF RequestsInOrder
<1>7. CASE AppendsNewEntry(n)
  <2>1. /\ Len(entries) \in Nat /\ DOMAIN entries = 1 .. Len(entries)
        /\ DOMAIN later = 1 .. (Len(entries) + 1)
        /\ \A i \in 1 .. Len(entries) : later[i] = entries[i]
        /\ later[Len(entries) + 1].request_id = next_request
        /\ next_request' = next_request + 1
    BY <1>2, <1>7, AcceptedRequest
  <2> HIDE DEF entries, later
  <2>2. ASSUME NEW i \in DOMAIN later
        PROVE  /\ later[i].request_id < next_request'
               /\ \A j \in 1 .. i - 1 : later[j].request_id < later[i].request_id
    <3>1. CASE i \in DOMAIN entries
      <4>1. later[i] = entries[i] /\ \A j \in 1 .. i - 1 : later[j] = entries[j]
        BY <2>1, <3>1
      <4>2. entries[i].request_id < next_request'
        BY <1>2, <1>4, <1>5, <2>1, <3>1
      <4>3. QED
        BY <1>5, <3>1, <4>1, <4>2
    <3>2. CASE i = Len(entries) + 1
      <4>1. later[i].request_id = next_request
        BY <2>1, <3>2
      <4>2. \A j \in 1 .. i - 1 : j \in DOMAIN entries /\ later[j] = entries[j]
        BY <2>1, <3>2
      <4>3. \A j \in 1 .. i - 1 : later[j].request_id < later[i].request_id
        BY <1>5, <4>1, <4>2
      <4>4. QED
        BY <1>2, <2>1, <4>1, <4>3
    <3>3. QED
      BY <2>1, <3>1, <3>2
  <2>3. QED
    BY <2>2 DEF RequestsInOrder, later
<1>8. QED
  BY <1>1, <1>2, <1>6, <1>7, SoleLog

LEMMA AppliedIsPrefixApplied ==
    ASSUME TypeOK, NEW n \in Node, NEW v \in Nat, apply_to_state_machine(n, v),
           v > commit_index[n], v <= Len(log[n].entries), log'[n] = log[n],
           AppliedIsPrefix(n)
    PROVE  AppliedIsPrefix(n)'
<1> DEFINE entries == log[n].entries
           upto    == AppliedUpTo(n, v)
<1>1. /\ commit_index[n] \in Nat /\ last_applied[n] \in Nat
      /\ last_applied[n] = commit_index[n] /\ Len(applied[n]) = last_applied[n]
      /\ \A i \in DOMAIN applied[n] : i \in DOMAIN entries /\ applied[n][i] = entries[i]
  BY DEF TypeOK, AppliedIsPrefix
<1>2. commit_index'[n] = v /\ last_applied'[n] = v
  BY <1>1 DEF apply_to_state_machine, TypeOK
<1> DEFINE la == last_applied[n]
<1>3. /\ Len(applied[n]) \in Nat /\ Len(upto) \in Nat
      /\ Len(applied'[n]) = Len(applied[n]) + Len(upto)
      /\ DOMAIN applied[n] = 1 .. Len(applied[n])
      /\ DOMAIN applied'[n] = 1 .. (Len(applied[n]) + Len(upto))
      /\ \A i \in DOMAIN applied[n] : applied'[n][i] = applied[n][i]
      /\ \A i \in 1 .. Len(upto) :
            /\ la + i \in DOMAIN entries
            /\ applied'[n][Len(applied[n]) + i] = entries[la + i]
      /\ v <= Len(entries) /\ v >= la => Len(upto) = v - la
  BY AppliedLog
<1> HIDE DEF entries, upto
<1>4. v <= Len(entries) /\ v >= la
  BY <1>1 DEF entries
<1>5. Len(upto) = v - la
  BY <1>3, <1>4
<1>6. ASSUME NEW i \in DOMAIN applied'[n]
      PROVE  i \in DOMAIN entries /\ applied'[n][i] = entries[i]
  <2>1. CASE i \in DOMAIN applied[n]
    BY <1>1, <1>3, <2>1
  <2>2. CASE i \notin DOMAIN applied[n]
    <3> DEFINE d == i - la
    <3>1. d \in 1 .. Len(upto) /\ i = la + d
      <4>1. la \in Nat /\ Len(upto) \in Nat /\ i \in 1 .. (la + Len(upto)) /\ i \notin 1 .. la
        BY <1>1, <1>3, <2>2
      <4>2. QED
        BY <4>1
    <3> HIDE DEF d
    <3>2. la + d \in DOMAIN entries /\ applied'[n][la + d] = entries[la + d]
      BY <1>1, <1>3, <3>1
    <3>3. QED
      BY <3>1, <3>2
  <2>3. QED
    BY <2>1, <2>2
<1>7. Len(applied'[n]) = v
  BY <1>1, <1>3, <1>5
<1>8. QED
  BY <1>2, <1>6, <1>7 DEF AppliedIsPrefix, entries

LEMMA AppliedIsPrefixKept ==
    ASSUME AnswerInv, [Next]_vars, NEW n \in Node, Sole(n), WithinSoleLog(n),
           AppliedIsPrefix(n)
    PROVE  AppliedIsPrefix(n)'
<1>1. [CrashNext]_vars
  BY DEF CrashNext
<1>2. TypeInv /\ TypeOK /\ SoleFrame(n) /\ ~Restart(n)
  BY <1>1, SoleStep, NobodyRestarts DEF AnswerInv, HintInv, TypeInv
<1>3. CASE log'[n] = log[n] /\ KeepsApplied(n)
  BY <1>3 DEF KeepsApplied, AppliedIsPrefix
<1>4. ASSUME log'[n] = log[n], NEW v \in Nat, AppliesCommit(n, v)
      PROVE  AppliedIsPrefix(n)'
  <2>1. v <= log[n].last_log_index
    BY <1>4 DEF AppliesCommit, IsCommitValue, WithinSoleLog
  <2>2. v <= Len(log[n].entries)
    BY <2>1 DEF AnswerInv, KnownRequests
  <2>3. QED
    BY <1>2, <1>4, <2>2, AppliedIsPrefixApplied DEF AppliesCommit
<1>5. CASE AppendsNewEntry(n)
  <2> DEFINE size == Len(log[n].entries)
  <2>0. /\ size \in Nat /\ DOMAIN log[n].entries = 1 .. size
        /\ DOMAIN log'[n].entries = 1 .. (size + 1)
        /\ \A i \in 1 .. size : log'[n].entries[i] = log[n].entries[i]
        /\ UNCHANGED <<commit_index, last_applied, applied>>
    BY <1>2, <1>5, AcceptedRequest
  <2> HIDE DEF size
  <2>1. /\ DOMAIN log[n].entries \subseteq DOMAIN log'[n].entries
        /\ \A i \in DOMAIN log[n].entries : log'[n].entries[i] = log[n].entries[i]
        /\ UNCHANGED <<commit_index, last_applied, applied>>
    BY <2>0
  <2>2. QED
    BY <2>1 DEF AppliedIsPrefix
<1>6. QED
  BY <1>2, <1>3, <1>4, <1>5 DEF SoleFrame

LEMMA SoleInvInit == Init => SoleInv
<1> SUFFICES ASSUME Init PROVE SoleInv
  OBVIOUS
<1>1. AnswerInv /\ TypeOK
  BY AnswerInvInit DEF AnswerInv, HintInv, TypeInv
<1>2. \A n \in Node : EntriesOf(n) = {}
  BY EmptySeq DEF Init, EntriesOf, EmptyLog
<1>3. AllEntries = {} /\ Carried(net) = {}
  BY <1>2, NoMessageAtFirst DEF AllEntries
<1>4. ASSUME NEW n \in Node
      PROVE  WithinSoleLog(n) /\ RequestsInOrder(n) /\ AppliedIsPrefix(n)
  <2>1. DOMAIN << >> = {} /\ Len(<< >>) = 0
    OBVIOUS
  <2>2. /\ log[n].entries = << >> /\ applied[n] = << >>
        /\ last_applied[n] = 0 /\ commit_index[n] = 0 /\ log[n].last_log_index = 0
        /\ \A p \in Node : log[p].last_log_index = 0 /\ match_index[n][p] = 0
    BY DEF Init, EmptyLog
  <2>3. WithinSoleLog(n)
    BY <1>3, <2>2 DEF WithinSoleLog
  <2>4. RequestsInOrder(n) /\ AppliedIsPrefix(n)
    BY <2>1, <2>2 DEF RequestsInOrder, AppliedIsPrefix
  <2>5. QED
    BY <2>3, <2>4
<1>5. QED
  BY <1>1, <1>4 DEF SoleInv

LEMMA SoleInvStep == SoleInv /\ [Next]_vars => SoleInv'
<1> SUFFICES ASSUME SoleInv, [Next]_vars PROVE SoleInv'
  OBVIOUS
<1>1. [CrashNext]_vars
  BY DEF CrashNext
<1>2. AnswerInv /\ AnswerInv' /\ HintInv /\ elections \subseteq elections'
  BY <1>1, AnswerInvStep, StepLead DEF SoleInv, AnswerInv, HintInv, LeadFrame, ElectionsFrame
<1>3. ASSUME NEW n \in Node, Sole(n)'
      PROVE  WithinSoleLog(n)' /\ RequestsInOrder(n)' /\ AppliedIsPrefix(n)'
  <2>1. Sole(n)
    BY <1>2, <1>3 DEF Sole
  <2>2. WithinSoleLog(n) /\ RequestsInOrder(n) /\ AppliedIsPrefix(n)
    BY <2>1 DEF SoleInv
  <2>3. QED
    BY <1>2, <2>1, <2>2, WithinSoleLogKept, RequestsInOrderKept, AppliedIsPrefixKept
<1>4. QED
  BY <1>2, <1>3 DEF SoleInv

\* As long as no process ends, the only leader there has been applies its own
\* log, every request once and in the order of the requests, and
\* last_applied_ is what it has applied.
THEOREM SoleLeaderAppliesLog == Spec => []SoleLeaderApplies
<1>1. SoleInv => SoleLeaderApplies
  <2> SUFFICES ASSUME SoleInv, NEW n \in Node, SoleLeader(n)
               PROVE  /\ Len(applied[n]) = last_applied[n]
                      /\ \A i \in DOMAIN applied[n] :
                            /\ i \in DOMAIN log[n].entries
                            /\ applied[n][i] = log[n].entries[i]
                            /\ \A j \in 1 .. i - 1 :
                                  applied[n][j].request_id < applied[n][i].request_id
    BY DEF SoleLeaderApplies
  <2>1. Sole(n)
    BY DEF SoleLeader, Sole
  <2>2. RequestsInOrder(n) /\ AppliedIsPrefix(n)
    BY <2>1 DEF SoleInv
  <2>3. applied[n] \in Seq(Entry)
    BY DEF SoleInv, AnswerInv, HintInv, TypeInv, TypeOK
  <2>4. ASSUME NEW i \in DOMAIN applied[n], NEW j \in 1 .. i - 1
        PROVE  applied[n][j].request_id < applied[n][i].request_id
    <3>1. DOMAIN applied[n] = 1 .. Len(applied[n]) /\ Len(applied[n]) \in Nat
      BY <2>3, LenProperties
    <3>2. j \in DOMAIN applied[n]
      BY <3>1
    <3>3. /\ applied[n][i] = log[n].entries[i] /\ i \in DOMAIN log[n].entries
          /\ applied[n][j] = log[n].entries[j]
      BY <2>2, <3>2 DEF AppliedIsPrefix
    <3>4. QED
      BY <2>2, <3>3 DEF RequestsInOrder
  <2>5. QED
    BY <2>2, <2>4 DEF AppliedIsPrefix
<1>2. QED
  BY <1>1, SoleInvInit, SoleInvStep, PTL DEF Spec

=============================================================================
