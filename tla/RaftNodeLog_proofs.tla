------------------------- MODULE RaftNodeLog_proofs ------------------------
(***************************************************************************)
(* Proofs about the logs of RaftNode: where entries are stored, and which  *)
(* terms they have.  Only three steps change a log and only two put an     *)
(* append request on a link; the frame lemmas say so once.                 *)
(***************************************************************************)
EXTENDS RaftNode_proofs

IsAppendRequest(m) == m.type = "AppendEntriesRequest"

\* The entry a leader creates for the next client request.
NewEntry(n) == [term |-> current_term[n], index |-> log[n].last_log_index + 1,
                request_id |-> next_request]

\* The request that sends it.
SendsNewEntry(n, m) == /\ m.prev_log_index = log[n].last_log_index
                       /\ m.entries = <<NewEntry(n)>>
                       /\ m.term = current_term[n]

\* Every append request on a link was there before the step, was sent with a
\* new entry, or is a reissue.
AppendRequestFrame ==
    \A m \in Carried(net') : IsAppendRequest(m) =>
        \/ m \in Carried(net)
        \/ \E n \in Node : accept_client_request(n) /\ SendsNewEntry(n, m)
        \/ \E n, p \in Node : IsLeader(n) /\ m = ReissueRequest(n, p)

AppendsBatch(n, m) ==
    /\ IsAppendRequest(m) /\ \E src \in Node : m \in Carries(net[src][n])
    /\ PrevMatches(n, m)
    /\ current_term' = [current_term EXCEPT ![n] = m.term]
    /\ log' = [log EXCEPT ![n] = append_entries(log[n], m.entries)]

AppendsNewEntry(n) ==
    /\ accept_client_request(n)
    /\ log' = [log EXCEPT ![n] = append_entries(log[n], <<NewEntry(n)>>)]

\* A step leaves the logs alone or changes that of one node in one of three ways.
LogFrame ==
    \/ log' = log
    \/ \E n \in Node : \E m \in Carried(net) : AppendsBatch(n, m)
    \/ \E n \in Node : AppendsNewEntry(n)
    \/ \E n \in Node : Restart(n)

\* The term of a node decreases only when its log is lost with it.
TermFrame ==
    \A n \in Node : current_term'[n] >= current_term[n] \/ log'[n] = EmptyLog

LEMMA OtherMessage ==
    ASSUME NEW links \in Links, Carried(links) \subseteq Carried(net),
           NEW n \in Node, NEW reply \in Message, ~IsAppendRequest(reply),
           net' = Broadcast(links, n, reply)
    PROVE  AppendRequestFrame
<1>1. Carried(net') \subseteq Carried(links) \cup {reply}
  BY BroadcastCarried
<1>2. QED
  BY <1>1 DEF AppendRequestFrame

LEMMA HigherTermFrame ==
    ASSUME TypeOK, NEW n \in Node, NEW t \in Nat, t >= current_term[n],
           handle_higher_term(n, t)
    PROVE  TermFrame
<1>1. /\ current_term \in [Node -> Nat]
      /\ current_term' = [current_term EXCEPT ![n] = t]
  BY TermTaken DEF TypeOK
<1>2. \A p \in Node : current_term'[p] >= current_term[p]
  BY <1>1
<1>3. QED
  BY <1>2 DEF TermFrame

LEMMA MessageFrame ==
    ASSUME TypeInv, NEW n \in Node, NEW src \in Node, NEW k \in DOMAIN net[src][n],
           handle_message(n, src, k)
    PROVE  AppendRequestFrame /\ LogFrame /\ TermFrame
<1> DEFINE m    == net[src][n][k]
           rest == Consume(net, src, n, k)
<1>1. /\ m \in Message /\ m \in Carried(net) /\ m \in Carries(net[src][n])
      /\ rest \in Links /\ Carried(rest) \subseteq Carried(net)
  <2>1. m \in Carries(net[src][n])
    BY DEF Carries
  <2>2. QED
    BY <2>1, ConsumeCarried, NetIsLinks DEF TypeInv
<1>2. \/ discard_stale(n, m, rest)
      \/ handle_request_vote_request(n, m, rest)
      \/ vote_counted(n, m, rest)
      \/ vote_not_counted(n, m, rest)
      \/ handle_heartbeat(n, m, rest)
      \/ handle_append_mismatch(n, m, rest)
      \/ handle_append_match(n, m, rest)
      \/ handle_append_entries_response(n, m, rest)
      \/ append_response_higher_term(n, m, rest)
  BY DEF handle_message
<1> HIDE DEF m, rest
<1>3. TypeOK /\ m.src \in Node /\ m.term \in Nat /\ current_term \in [Node -> Nat]
  BY <1>1, MessageFields DEF TypeInv, TypeOK
<1>4. ASSUME net' = rest PROVE AppendRequestFrame
  BY <1>1, <1>4 DEF AppendRequestFrame
<1>5. ASSUME UNCHANGED current_term PROVE TermFrame
  BY <1>3, <1>5 DEF TermFrame
<1>6. ASSUME ~Stale(n, m) PROVE m.term >= current_term[n]
  BY <1>3, <1>6 DEF Stale
<1>7. ASSUME ~Stale(n, m), handle_higher_term(n, m.term) PROVE TermFrame
  BY <1>3, <1>6, <1>7, HigherTermFrame
<1>8. CASE discard_stale(n, m, rest)
  BY <1>4, <1>5, <1>8 DEF discard_stale, LogFrame, electionVars
<1>9. CASE handle_request_vote_request(n, m, rest)
  <2> DEFINE granted == VoteHeld(n, m.term) \in {None, m.src} /\ UpToDate(n, m)
             reply   == [type |-> "RequestVoteResponse", src |-> n,
                         term |-> m.term, granted |-> granted]
  <2>1. reply \in Message /\ ~IsAppendRequest(reply)
    BY <1>3 DEF Message, RequestVoteResponse, IsAppendRequest
  <2>2. net' = Broadcast(rest, n, reply)
    BY <1>9 DEF handle_request_vote_request
  <2> HIDE DEF reply
  <2>3. AppendRequestFrame
    BY <1>1, <2>1, <2>2, OtherMessage
  <2>4. QED
    BY <1>7, <1>9, <2>3 DEF handle_request_vote_request, LogFrame
<1>10. CASE vote_counted(n, m, rest)
  BY <1>4, <1>5, <1>10 DEF vote_counted, LogFrame
<1>11. CASE vote_not_counted(n, m, rest)
  BY <1>4, <1>7, <1>11 DEF vote_not_counted, LogFrame
<1>12. CASE handle_heartbeat(n, m, rest)
  BY <1>4, <1>7, <1>12 DEF handle_heartbeat, append_prologue, LogFrame
<1>13. CASE handle_append_mismatch(n, m, rest)
  <2> DEFINE reply == [type |-> "AppendEntriesResponse", src |-> n, term |-> m.term,
                       success |-> FALSE, conflict_index |-> ConflictIndex(m),
                       last_log_index |-> log[n].last_log_index]
  <2>1. m.prev_log_index \in Nat /\ log[n].last_log_index \in Nat
    BY <1>1, <1>3, <1>13, MessageFields DEF handle_append_mismatch, TypeOK, Log
  <2>2. reply \in Message /\ ~IsAppendRequest(reply)
    BY <1>3, <2>1 DEF Message, AppendEntriesResponse, IsAppendRequest, ConflictIndex
  <2>3. net' = Broadcast(rest, n, reply)
    BY <1>13 DEF handle_append_mismatch
  <2> HIDE DEF reply
  <2>4. AppendRequestFrame
    BY <1>1, <2>2, <2>3, OtherMessage
  <2>5. QED
    BY <1>7, <1>13, <2>4 DEF handle_append_mismatch, append_prologue, LogFrame
<1>14. CASE handle_append_match(n, m, rest)
  <2> DEFINE reply == [type |-> "AppendEntriesResponse", src |-> n, term |-> m.term,
                       success |-> TRUE, conflict_index |-> 0,
                       last_log_index |->
                         append_entries(log[n], m.entries).last_log_index]
  <2>1. m.entries \in Seq(Entry) /\ log[n] \in Log
    BY <1>1, <1>3, <1>14, MessageFields DEF handle_append_match, TypeOK
  <2>2. append_entries(log[n], m.entries).last_log_index \in Nat
    BY <2>1, AppendEntriesProperties DEF Log
  <2>3. reply \in Message /\ ~IsAppendRequest(reply)
    BY <1>3, <2>2 DEF Message, AppendEntriesResponse, IsAppendRequest
  <2>4. net' = Broadcast(rest, n, reply)
    BY <1>14 DEF handle_append_match
  <2> HIDE DEF reply
  <2>5. AppendRequestFrame
    BY <1>1, <2>3, <2>4, OtherMessage
  <2>6. current_term' = [current_term EXCEPT ![n] = m.term]
    BY <1>3, <1>6, <1>14, TermTaken DEF handle_append_match, append_prologue
  <2>7. AppendsBatch(n, m)
    BY <1>1, <1>14, <2>6 DEF handle_append_match, append_prologue,
                 AppendsBatch, IsAppendRequest
  <2>8. QED
    BY <1>1, <1>7, <1>14, <2>5, <2>7 DEF handle_append_match, append_prologue, LogFrame
<1>15. CASE handle_append_entries_response(n, m, rest)
  BY <1>4, <1>5, <1>15 DEF handle_append_entries_response, LogFrame, electionVars
<1>16. CASE append_response_higher_term(n, m, rest)
  <2>1. m.term >= current_term[n]
    BY <1>3, <1>16 DEF append_response_higher_term, Newer
  <2>2. TermFrame
    BY <1>3, <1>16, <2>1, HigherTermFrame DEF append_response_higher_term
  <2>3. QED
    BY <1>4, <1>16, <2>2 DEF append_response_higher_term, LogFrame
<1>17. QED
  BY <1>2, <1>8, <1>9, <1>10, <1>11, <1>12, <1>13, <1>14, <1>15, <1>16

LEMMA ElectionFrame ==
    ASSUME TypeInv, NEW n \in Node, handle_election_timeout(n)
    PROVE  AppendRequestFrame /\ log' = log /\ TermFrame
<1>1. net \in Links /\ current_term \in [Node -> Nat] /\ log[n] \in Log
  BY NetIsLinks DEF TypeInv, TypeOK
<1>2. log' = log
  BY DEF handle_election_timeout
<1>3. CASE start_election(n)
  <2> DEFINE request == [type |-> "RequestVoteRequest", src |-> n,
                         term |-> current_term[n] + 1,
                         last_log_index |-> log[n].last_log_index,
                         last_log_term  |-> log[n].last_log_term]
  <2>1. request \in Message /\ ~IsAppendRequest(request)
    BY <1>1 DEF Message, RequestVoteRequest, IsAppendRequest, Log
  <2>2. net' = Broadcast(net, n, request)
    BY <1>3 DEF start_election
  <2> HIDE DEF request
  <2>3. AppendRequestFrame
    BY <1>1, <2>1, <2>2, OtherMessage
  <2>4. current_term' = [current_term EXCEPT ![n] = current_term[n] + 1]
    BY <1>3 DEF start_election
  <2>5. \A p \in Node : current_term'[p] >= current_term[p]
    BY <1>1, <2>4
  <2>6. QED
    BY <1>2, <2>3, <2>5 DEF TermFrame
<1>4. CASE UNCHANGED <<electionVars, net>>
  BY <1>1, <1>2, <1>4 DEF electionVars, AppendRequestFrame, TermFrame
<1>5. QED
  BY <1>3, <1>4 DEF handle_election_timeout

LEMMA HeartbeatFrame ==
    ASSUME TypeInv, NEW n \in Node, handle_heartbeat_timeout(n)
    PROVE  AppendRequestFrame /\ log' = log /\ TermFrame
<1>1. TypeOK /\ TypeOK' /\ net \in Links /\ current_term \in [Node -> Nat]
  BY NetIsLinks, TypeInvHeartbeat DEF TypeInv, TypeOK
<1> DEFINE message == [type |-> "Heartbeat", src |-> n, term |-> current_term[n],
                       leader_commit |-> commit_index'[n]]
<1>2. commit_index'[n] \in Nat
  BY <1>1 DEF TypeOK
<1>3. message \in Message /\ ~IsAppendRequest(message)
  BY <1>1, <1>2 DEF Message, Heartbeat, IsAppendRequest
<1>4. net' = Broadcast(net, n, message)
  BY DEF handle_heartbeat_timeout, heartbeat
<1> HIDE DEF message
<1>5. AppendRequestFrame
  BY <1>1, <1>3, <1>4, OtherMessage
<1>6. UNCHANGED <<log, current_term>>
  BY DEF handle_heartbeat_timeout, electionVars
<1>7. QED
  BY <1>1, <1>5, <1>6 DEF TermFrame

LEMMA ReissueFrame ==
    ASSUME TypeInv, NEW n \in Node, handle_reissue_timeout(n)
    PROVE  AppendRequestFrame /\ log' = log /\ TermFrame
<1>1. net \in Links /\ IsLeader(n) /\ current_term \in [Node -> Nat]
  BY NetIsLinks DEF TypeInv, TypeOK, handle_reissue_timeout
<1>2. \A p \in Node : net[n][p] \in Seq(Message) /\ ReissueRequest(n, p) \in Message
  BY <1>1, ReissueRequestType DEF Links
<1>3. net' = [net EXCEPT ![n] =
                [p \in Node |-> IF p \in Behind(n)
                                THEN Append(net[n][p], ReissueRequest(n, p))
                                ELSE net[n][p]]]
  BY DEF handle_reissue_timeout
<1>4. \A i, j \in Node : Carries(net'[i][j])
                           \subseteq Carries(net[i][j]) \cup {ReissueRequest(n, j)}
  BY <1>1, <1>2, <1>3, AppendCarries, SMTT(20) DEF Links
<1>5. AppendRequestFrame
  BY <1>1, <1>4 DEF AppendRequestFrame, Carried
<1>6. UNCHANGED <<log, current_term>>
  BY DEF handle_reissue_timeout, electionVars
<1>7. QED
  BY <1>1, <1>5, <1>6 DEF TermFrame

LEMMA ClientFrame ==
    ASSUME TypeInv, NEW n \in Node, handle_client_request(n)
    PROVE  AppendRequestFrame /\ LogFrame /\ TermFrame
<1>1. net \in Links /\ current_term \in [Node -> Nat]
  BY NetIsLinks DEF TypeInv, TypeOK
<1>2. UNCHANGED current_term
  BY DEF handle_client_request, reject_client_request, accept_client_request,
         electionVars
<1>3. TermFrame
  BY <1>1, <1>2 DEF TermFrame
<1>4. CASE reject_client_request(n)
  BY <1>3, <1>4 DEF reject_client_request, AppendRequestFrame, LogFrame
<1>5. CASE accept_client_request(n)
  <2>1. AppendsNewEntry(n)
    BY <1>5, AcceptedEntry DEF AppendsNewEntry, NewEntry
  <2>2. ASSUME net' = net PROVE AppendRequestFrame
    BY <2>2 DEF AppendRequestFrame
  <2>3. ASSUME NEW request \in AppendEntriesRequest, SendsNewEntry(n, request),
               net' = Broadcast(net, n, request)
        PROVE  AppendRequestFrame
    <3>1. request \in Message
      BY DEF Message
    <3>2. Carried(net') \subseteq Carried(net) \cup {request}
      BY <1>1, <2>3, <3>1, BroadcastCarried
    <3>3. QED
      BY <1>5, <2>3, <3>2 DEF AppendRequestFrame
  <2>4. \/ net' = net
        \/ \E request \in AppendEntriesRequest :
              SendsNewEntry(n, request) /\ net' = Broadcast(net, n, request)
    BY <1>5, AcceptedEntry DEF SendsNewEntry, NewEntry
  <2>5. QED
    BY <1>3, <2>1, <2>2, <2>3, <2>4 DEF LogFrame
<1>6. QED
  BY <1>4, <1>5 DEF handle_client_request

LEMMA EnvironmentFrame ==
    ASSUME TypeInv,
           (\E i, j \in Node : Lose(i, j)) \/ (\E n \in Node : Restart(n))
    PROVE  AppendRequestFrame /\ LogFrame /\ TermFrame
<1>1. net \in Links /\ current_term \in [Node -> Nat] /\ log \in [Node -> Log]
  BY NetIsLinks DEF TypeInv, TypeOK
<1>2. ASSUME NEW i \in Node, NEW j \in Node, Lose(i, j)
      PROVE  AppendRequestFrame /\ LogFrame /\ TermFrame
  <2>1. Carried(net') \subseteq Carried(net)
    BY <1>1, <1>2, ConsumeCarried DEF Lose
  <2>2. UNCHANGED <<log, current_term>>
    BY <1>2 DEF Lose, electionVars
  <2>3. QED
    BY <1>1, <2>1, <2>2 DEF AppendRequestFrame, LogFrame, TermFrame
<1>3. ASSUME NEW n \in Node, Restart(n)
      PROVE  AppendRequestFrame /\ LogFrame /\ TermFrame
  <2>1. net' = net /\ log' = [log EXCEPT ![n] = EmptyLog]
        /\ current_term' = [current_term EXCEPT ![n] = 0]
    BY <1>3 DEF Restart
  <2>2. TermFrame
    <3>1. \A p \in Node : current_term'[p] = current_term[p] \/ log'[p] = EmptyLog
      BY <1>1, <2>1
    <3>2. QED
      BY <1>1, <3>1 DEF TermFrame
  <2>3. AppendRequestFrame
    BY <2>1 DEF AppendRequestFrame
  <2>4. QED
    BY <1>3, <2>2, <2>3 DEF LogFrame
<1>4. QED
  BY <1>2, <1>3

LEMMA Frame ==
    ASSUME TypeInv, [CrashNext]_vars
    PROVE  AppendRequestFrame /\ LogFrame /\ TermFrame
<1>1. ASSUME NEW n \in Node, NodeStep(n)
      PROVE  AppendRequestFrame /\ LogFrame /\ TermFrame
  <2>1. ASSUME log' = log PROVE LogFrame
    BY <2>1 DEF LogFrame
  <2>2. CASE handle_parse_timeout(n)
    BY <2>2, MessageFrame DEF handle_parse_timeout
  <2>3. QED
    BY <1>1, <2>1, <2>2, ElectionFrame, HeartbeatFrame, ReissueFrame, ClientFrame
       DEF NodeStep
<1>2. CASE UNCHANGED vars
  <2>1. UNCHANGED <<log, net, current_term>>
    BY <1>2 DEF vars, electionVars
  <2>2. current_term \in [Node -> Nat]
    BY DEF TypeInv, TypeOK
  <2>3. QED
    BY <2>1, <2>2 DEF AppendRequestFrame, LogFrame, TermFrame
<1>3. QED
  BY <1>1, <1>2, EnvironmentFrame DEF CrashNext, Next

-----------------------------------------------------------------------------
(* Where entries are stored                                                *)

\* The batch of a request in flight, appended after the previous index,
\* would not put an entry before the position of its index.
BatchesWithinIndex ==
    \A m \in Carried(net) : IsAppendRequest(m) =>
        \A i \in DOMAIN m.entries : m.entries[i].index <= m.prev_log_index + i

\* Inductive: IndexWithinLog is kept by the receiver of a request because of
\* what the request carries, and a request carries what its sender's log has.
IndexInv == TypeInv /\ IndexWithinLog /\ BatchesWithinIndex

LogWithinIndex(l) ==
    /\ l.last_log_index <= Len(l.entries)
    /\ \A i \in DOMAIN l.entries : l.entries[i].index <= i

\* A batch that fits after an index the log reaches keeps the log in order.
LEMMA BatchKeepsIndex ==
    ASSUME NEW l \in Log, LogWithinIndex(l), NEW batch \in Seq(Entry), NEW prev \in Nat,
           prev <= Len(l.entries),
           \A i \in DOMAIN batch : batch[i].index <= prev + i
    PROVE  LogWithinIndex(append_entries(l, batch))
<1> DEFINE l2 == append_entries(l, batch)
<1>1. /\ l2 \in Log /\ l.entries \in Seq(Entry) /\ l2.entries \in Seq(Entry)
      /\ Len(l.entries) \in Nat /\ Len(batch) \in Nat
      /\ Len(l2.entries) = Len(l.entries) + Len(batch)
      /\ \A i \in 1 .. Len(l2.entries) :
            l2.entries[i] = IF i <= Len(l.entries) THEN l.entries[i]
                            ELSE batch[i - Len(l.entries)]
      /\ batch = << >> => l2 = l
      /\ batch # << >> => /\ Len(batch) >= 1
                          /\ l2.last_log_index = batch[Len(batch)].index
  BY AppendEntriesProperties, ZenonT(30) DEF Log
<1>2. /\ DOMAIN l.entries = 1 .. Len(l.entries)
      /\ DOMAIN l2.entries = 1 .. Len(l2.entries)
      /\ DOMAIN batch = 1 .. Len(batch)
      /\ \A i \in 1 .. Len(batch) : batch[i] \in Entry
  BY <1>1, LenProperties, ElementOfSeq
<1> HIDE DEF l2
<1>3. ASSUME NEW i \in DOMAIN l2.entries
      PROVE  l2.entries[i].index <= i
  <2>1. CASE i <= Len(l.entries)
    <3>1. l2.entries[i] = l.entries[i]
      BY <1>1, <1>2, <2>1
    <3>2. i \in DOMAIN l.entries
      BY <1>1, <1>2, <2>1
    <3>3. QED
      BY <3>1, <3>2 DEF LogWithinIndex
  <2>2. CASE ~(i <= Len(l.entries))
    <3>1. i - Len(l.entries) \in 1 .. Len(batch)
      BY <1>1, <1>2, <2>2, SMTT(20)
    <3>2. l2.entries[i] = batch[i - Len(l.entries)]
      BY <1>1, <1>2, <2>2
    <3>3. /\ batch[i - Len(l.entries)].index <= prev + (i - Len(l.entries))
          /\ batch[i - Len(l.entries)].index \in Nat
      BY <1>2, <3>1 DEF Entry
    <3>4. i \in Nat /\ Len(l.entries) \in Nat
      BY <1>1, <1>2
    <3>5. prev + (i - Len(l.entries)) <= i
      BY <3>4
    <3>6. QED
      BY <3>2, <3>3, <3>4, <3>5, SMTT(20)
  <2>3. QED
    BY <2>1, <2>2
<1>4. l2.last_log_index <= Len(l2.entries)
  <2>1. CASE batch = << >>
    BY <1>1, <2>1 DEF LogWithinIndex
  <2>2. CASE batch # << >>
    <3>1. Len(batch) \in 1 .. Len(batch)
      BY <1>1, <2>2
    <3>2. batch[Len(batch)].index <= prev + Len(batch)
      BY <1>2, <3>1
    <3>3. batch[Len(batch)].index \in Nat
      BY <1>2, <3>1 DEF Entry
    <3>4. QED
      BY <1>1, <2>2, <3>2, <3>3
  <2>3. QED
    BY <2>1, <2>2
<1>5. QED
  BY <1>3, <1>4 DEF LogWithinIndex, l2

LEMMA IndexWithinLogPointwise ==
    IndexWithinLog <=> \A n \in Node : LogWithinIndex(log[n])
  BY DEF IndexWithinLog, LogWithinIndex

LEMMA NewEntryType ==
    ASSUME TypeInv, NEW n \in Node
    PROVE  /\ NewEntry(n) \in Entry /\ <<NewEntry(n)>> \in Seq(Entry)
           /\ DOMAIN <<NewEntry(n)>> = {1} /\ <<NewEntry(n)>>[1] = NewEntry(n)
<1>1. NewEntry(n) \in Entry
  BY DEF TypeInv, TypeOK, Log, Entry, NewEntry
<1>2. QED
  BY <1>1

LEMMA IndexInvLogs == IndexInv /\ [CrashNext]_vars => IndexWithinLog'
<1> SUFFICES ASSUME IndexInv, [CrashNext]_vars PROVE IndexWithinLog'
  OBVIOUS
<1>1. /\ LogFrame /\ TypeInv /\ log \in [Node -> Log]
      /\ \A p \in Node : LogWithinIndex(log[p])
  BY Frame, IndexWithinLogPointwise DEF IndexInv, TypeInv, TypeOK
<1>2. ASSUME NEW n \in Node, NEW l \in Log, log' = [log EXCEPT ![n] = l],
             LogWithinIndex(l)
      PROVE  IndexWithinLog'
  <2>1. \A p \in Node : LogWithinIndex(log'[p])
    BY <1>1, <1>2
  <2>2. QED
    BY <2>1 DEF IndexWithinLog, LogWithinIndex
<1>3. CASE log' = log
  BY <1>3 DEF IndexInv, IndexWithinLog
<1>4. ASSUME NEW n \in Node, NEW m \in Carried(net), AppendsBatch(n, m)
      PROVE  IndexWithinLog'
  <2>1. /\ m.entries \in Seq(Entry) /\ m.prev_log_index \in Nat
        /\ \A i \in DOMAIN m.entries : m.entries[i].index <= m.prev_log_index + i
    BY <1>4, MessageFields DEF AppendsBatch, IsAppendRequest, Carried, IndexInv,
                               BatchesWithinIndex
  <2>2. log[n] \in Log /\ Len(log[n].entries) \in Nat
    BY <1>1, LenProperties DEF Log
  <2>3. m.prev_log_index <= Len(log[n].entries)
    BY <1>4, <2>1, <2>2 DEF AppendsBatch, PrevMatches, has_entry
  <2>4. LogWithinIndex(append_entries(log[n], m.entries))
    BY <1>1, <2>1, <2>2, <2>3, BatchKeepsIndex
  <2>5. append_entries(log[n], m.entries) \in Log
    BY <2>1, <2>2, AppendEntriesProperties
  <2>6. QED
    BY <1>2, <1>4, <2>4, <2>5 DEF AppendsBatch
<1>5. ASSUME NEW n \in Node, AppendsNewEntry(n)
      PROVE  IndexWithinLog'
  <2>1. /\ log[n] \in Log /\ Len(log[n].entries) \in Nat /\ log[n].last_log_index \in Nat
        /\ log[n].last_log_index <= Len(log[n].entries)
    BY <1>1, LenProperties DEF Log, LogWithinIndex
  <2>2. NewEntry(n).index <= log[n].last_log_index + 1
    BY <2>1 DEF NewEntry
  <2>3. LogWithinIndex(append_entries(log[n], <<NewEntry(n)>>))
    BY <1>1, <2>1, <2>2, NewEntryType, BatchKeepsIndex
  <2>4. append_entries(log[n], <<NewEntry(n)>>) \in Log
    BY <1>1, <2>1, NewEntryType, AppendEntriesProperties
  <2>5. QED
    BY <1>2, <1>5, <2>3, <2>4 DEF AppendsNewEntry
<1>6. ASSUME NEW n \in Node, log' = [log EXCEPT ![n] = EmptyLog]
      PROVE  IndexWithinLog'
  <2>1. LogWithinIndex(EmptyLog)
    BY EmptySeq DEF LogWithinIndex, EmptyLog
  <2>2. QED
    BY <1>2, <1>6, <2>1, EmptyLogType
<1>7. QED
  BY <1>1, <1>3, <1>4, <1>5, <1>6 DEF LogFrame, Restart

LEMMA IndexInvBatches == IndexInv /\ [CrashNext]_vars => BatchesWithinIndex'
<1> SUFFICES ASSUME IndexInv, [CrashNext]_vars,
                    NEW m \in Carried(net'), IsAppendRequest(m),
                    NEW i \in DOMAIN m.entries
             PROVE  m.entries[i].index <= m.prev_log_index + i
  BY DEF BatchesWithinIndex, Carried
<1>1. AppendRequestFrame /\ TypeInv
  BY Frame DEF IndexInv
<1>2. CASE m \in Carried(net)
  BY <1>2 DEF IndexInv, BatchesWithinIndex
<1>3. ASSUME NEW n \in Node, SendsNewEntry(n, m)
      PROVE  m.entries[i].index <= m.prev_log_index + i
  <2>1. log[n].last_log_index \in Nat
    BY <1>1 DEF TypeInv, TypeOK, Log
  <2>2. i = 1 /\ m.entries[i] = NewEntry(n)
    BY <1>1, <1>3, NewEntryType DEF SendsNewEntry
  <2>3. QED
    BY <1>3, <2>1, <2>2 DEF SendsNewEntry, NewEntry
<1>4. ASSUME NEW n \in Node, NEW p \in Node, IsLeader(n), m = ReissueRequest(n, p)
      PROVE  m.entries[i].index <= m.prev_log_index + i
  <2>1. /\ next_index[n][p] \in Nat /\ log[n].entries \in Seq(Entry)
        /\ m.entries = ReissueBatch(n, p)
        /\ i \in 1 .. Len(m.entries) /\ Len(m.entries) \in Nat
        /\ next_index[n][p] + i - 1 \in DOMAIN log[n].entries
        /\ m.entries[i] = log[n].entries[next_index[n][p] + i - 1]
    BY <1>1, <1>4, ReissueRequestType, LenProperties
  <2>2. m.prev_log_index = next_index[n][p] - 1
    BY <1>4 DEF ReissueRequest
  <2>3. m.entries[i].index <= next_index[n][p] + i - 1
    BY <2>1 DEF IndexInv, IndexWithinLog
  <2>4. QED
    BY <2>1, <2>2, <2>3
<1>5. QED
  BY <1>1, <1>2, <1>3, <1>4 DEF AppendRequestFrame

LEMMA NoMessageAtFirst == Init => Carried(net) = {}
  BY DEF Init, Carried, Carries

LEMMA IndexInvInit == Init => IndexInv
<1>1. Init => IndexWithinLog
  BY EmptySeq DEF Init, IndexWithinLog, EmptyLog
<1>2. Init => BatchesWithinIndex
  BY NoMessageAtFirst DEF BatchesWithinIndex
<1>3. QED
  BY <1>1, <1>2, TypeInvInit DEF IndexInv

LEMMA IndexInvStep == IndexInv /\ [CrashNext]_vars => IndexInv'
  BY TypeInvStep, IndexInvLogs, IndexInvBatches DEF IndexInv

\* No log has an entry before the position of its index, nor a last index
\* beyond its end: crashes, losses, reordering and reissues included, so
\* every index a leader may send from or apply up to is in the vector.
THEOREM IndexesWithinLogs ==
    (Spec => []IndexWithinLog) /\ (CrashSpec => []IndexWithinLog)
<1>1. CrashSpec => []IndexInv
  BY IndexInvInit, IndexInvStep, PTL DEF CrashSpec
<1>2. IndexInv => IndexWithinLog
  BY DEF IndexInv
<1>3. QED
  BY <1>1, <1>2, SpecIsCrashSpec, PTL

-----------------------------------------------------------------------------
(* Terms of entries                                                        *)

\* No request in flight carries an entry of a later term than its own.
BatchesOfTerm ==
    \A m \in Carried(net) : IsAppendRequest(m) =>
        \A i \in DOMAIN m.entries : m.entries[i].term <= m.term

\* Inductive: a receiver takes over the term of a request, so what matters is
\* that the entries of the request are not newer than that.
TermInv == TypeInv /\ EntryTermReached /\ BatchesOfTerm

LogOfTerm(l, t) == \A i \in DOMAIN l.entries : l.entries[i].term <= t

LEMMA LaterTerm ==
    ASSUME NEW l \in Log, NEW t \in Nat, NEW u \in Nat, LogOfTerm(l, t), u >= t
    PROVE  LogOfTerm(l, u)
<1>1. l.entries \in Seq(Entry)
  BY DEF Log
<1>2. \A i \in DOMAIN l.entries : l.entries[i] \in Entry
  BY <1>1, LenProperties, ElementOfSeq
<1>3. \A i \in DOMAIN l.entries : l.entries[i].term \in Nat
  BY <1>2 DEF Entry
<1>4. QED
  BY <1>3 DEF LogOfTerm

LEMMA BatchKeepsTerm ==
    ASSUME NEW l \in Log, NEW batch \in Seq(Entry), NEW t \in Nat, LogOfTerm(l, t),
           \A i \in DOMAIN batch : batch[i].term <= t
    PROVE  LogOfTerm(append_entries(l, batch), t)
<1> DEFINE l2 == append_entries(l, batch)
<1>1. /\ l.entries \in Seq(Entry) /\ l2.entries \in Seq(Entry)
      /\ Len(l.entries) \in Nat /\ Len(batch) \in Nat
      /\ Len(l2.entries) = Len(l.entries) + Len(batch)
      /\ \A i \in 1 .. Len(l2.entries) :
            l2.entries[i] = IF i <= Len(l.entries) THEN l.entries[i]
                            ELSE batch[i - Len(l.entries)]
  BY AppendEntriesProperties, ZenonT(30) DEF Log
<1>2. /\ DOMAIN l.entries = 1 .. Len(l.entries)
      /\ DOMAIN l2.entries = 1 .. Len(l2.entries)
      /\ DOMAIN batch = 1 .. Len(batch)
  BY <1>1, LenProperties
<1> HIDE DEF l2
<1>3. ASSUME NEW i \in DOMAIN l2.entries PROVE l2.entries[i].term <= t
  <2>1. CASE i <= Len(l.entries)
    BY <1>1, <1>2, <2>1, SMTT(20) DEF LogOfTerm
  <2>2. CASE ~(i <= Len(l.entries))
    <3>1. i - Len(l.entries) \in 1 .. Len(batch)
      BY <1>1, <1>2, <2>2, SMTT(20)
    <3>2. l2.entries[i] = batch[i - Len(l.entries)]
      BY <1>1, <1>2, <2>2
    <3>3. QED
      BY <1>2, <3>1, <3>2
  <2>3. QED
    BY <2>1, <2>2
<1>4. QED
  BY <1>3 DEF LogOfTerm, l2

LEMMA TermInvLogs == TermInv /\ [CrashNext]_vars => EntryTermReached'
<1> SUFFICES ASSUME TermInv, [CrashNext]_vars PROVE EntryTermReached'
  OBVIOUS
<1>1. /\ LogFrame /\ TermFrame /\ TypeInv /\ log \in [Node -> Log]
      /\ current_term \in [Node -> Nat] /\ current_term' \in [Node -> Nat]
      /\ \A p \in Node : LogOfTerm(log[p], current_term[p])
  BY Frame, TypeInvStep DEF TermInv, TypeInv, TypeOK, EntryTermReached, LogOfTerm
<1>2. \A p \in Node : LogOfTerm(log'[p], current_term'[p]) => 
        \A i \in DOMAIN log'[p].entries : log'[p].entries[i].term <= current_term'[p]
  BY DEF LogOfTerm
\* A node whose log stays as it is keeps the invariant as its term grows.
<1>3. ASSUME NEW p \in Node, log'[p] = log[p]
      PROVE  LogOfTerm(log'[p], current_term'[p])
  <2>1. CASE log'[p] = EmptyLog
    BY <2>1, EmptySeq DEF EmptyLog, LogOfTerm
  <2>2. CASE current_term'[p] >= current_term[p]
    <3>1. LogOfTerm(log[p], current_term'[p])
      BY <1>1, <2>2, LaterTerm
    <3>2. QED
      BY <1>3, <3>1
  <2>3. QED
    BY <1>1, <2>1, <2>2 DEF TermFrame
<1>4. ASSUME NEW n \in Node, NEW l \in Log, log' = [log EXCEPT ![n] = l],
             LogOfTerm(l, current_term'[n])
      PROVE  EntryTermReached'
  <2>1. \A p \in Node : LogOfTerm(log'[p], current_term'[p])
    BY <1>1, <1>3, <1>4
  <2>2. QED
    BY <1>2, <2>1 DEF EntryTermReached
<1>5. CASE log' = log
  BY <1>2, <1>3, <1>5 DEF EntryTermReached
<1>6. ASSUME NEW n \in Node, NEW m \in Carried(net), AppendsBatch(n, m)
      PROVE  EntryTermReached'
  <2>1. /\ m.entries \in Seq(Entry) /\ m.term \in Nat /\ log[n] \in Log
        /\ \A i \in DOMAIN m.entries : m.entries[i].term <= m.term
    BY <1>1, <1>6, MessageFields DEF AppendsBatch, IsAppendRequest, Carried, TermInv,
                                     BatchesOfTerm
  <2>2. append_entries(log[n], m.entries) \in Log
    BY <2>1, AppendEntriesProperties
  <2>3. current_term'[n] = m.term
    BY <1>1, <1>6 DEF AppendsBatch
  <2>4. current_term'[n] >= current_term[n] \/ append_entries(log[n], m.entries) = EmptyLog
    BY <1>1, <1>6 DEF TermFrame, AppendsBatch
  <2>5. LogOfTerm(append_entries(log[n], m.entries), m.term)
    <3>1. CASE append_entries(log[n], m.entries) = EmptyLog
      BY <3>1, EmptySeq DEF EmptyLog, LogOfTerm
    <3>2. CASE m.term >= current_term[n]
      <4>1. LogOfTerm(log[n], m.term)
        BY <1>1, <2>1, <3>2, LaterTerm
      <4>2. QED
        BY <2>1, <4>1, BatchKeepsTerm
    <3>3. QED
      BY <2>3, <2>4, <3>1, <3>2
  <2>6. QED
    BY <1>4, <1>6, <2>2, <2>3, <2>5 DEF AppendsBatch
<1>7. ASSUME NEW n \in Node, AppendsNewEntry(n)
      PROVE  EntryTermReached'
  <2>1. UNCHANGED current_term
    BY <1>7 DEF AppendsNewEntry, accept_client_request, electionVars
  <2>2. log[n] \in Log /\ NewEntry(n).term <= current_term[n]
    BY <1>1 DEF NewEntry
  <2>3. LogOfTerm(append_entries(log[n], <<NewEntry(n)>>), current_term[n])
    BY <1>1, <2>2, NewEntryType, BatchKeepsTerm
  <2>4. append_entries(log[n], <<NewEntry(n)>>) \in Log
    BY <1>1, <2>2, NewEntryType, AppendEntriesProperties
  <2>5. QED
    BY <1>4, <1>7, <2>1, <2>3, <2>4 DEF AppendsNewEntry
<1>8. ASSUME NEW n \in Node, log' = [log EXCEPT ![n] = EmptyLog]
      PROVE  EntryTermReached'
  <2>1. LogOfTerm(EmptyLog, current_term'[n])
    BY EmptySeq DEF EmptyLog, LogOfTerm
  <2>2. QED
    BY <1>4, <1>8, <2>1, EmptyLogType
<1>9. QED
  BY <1>1, <1>5, <1>6, <1>7, <1>8 DEF LogFrame, Restart

LEMMA TermInvBatches == TermInv /\ [CrashNext]_vars => BatchesOfTerm'
<1> SUFFICES ASSUME TermInv, [CrashNext]_vars,
                    NEW m \in Carried(net'), IsAppendRequest(m),
                    NEW i \in DOMAIN m.entries
             PROVE  m.entries[i].term <= m.term
  BY DEF BatchesOfTerm, Carried
<1>1. AppendRequestFrame /\ TypeInv /\ current_term \in [Node -> Nat]
  BY Frame DEF TermInv, TypeInv, TypeOK
<1>2. CASE m \in Carried(net)
  BY <1>2 DEF TermInv, BatchesOfTerm
<1>3. ASSUME NEW n \in Node, SendsNewEntry(n, m)
      PROVE  m.entries[i].term <= m.term
  BY <1>1, <1>3, NewEntryType DEF SendsNewEntry, NewEntry
<1>4. ASSUME NEW n \in Node, NEW p \in Node, IsLeader(n), m = ReissueRequest(n, p)
      PROVE  m.entries[i].term <= m.term
  <2>1. /\ m.entries = ReissueBatch(n, p)
        /\ next_index[n][p] + i - 1 \in DOMAIN log[n].entries
        /\ m.entries[i] = log[n].entries[next_index[n][p] + i - 1]
    BY <1>1, <1>4, ReissueRequestType
  <2>2. m.term = current_term[n]
    BY <1>4 DEF ReissueRequest
  <2>3. QED
    BY <2>1, <2>2 DEF TermInv, EntryTermReached
<1>5. QED
  BY <1>1, <1>2, <1>3, <1>4 DEF AppendRequestFrame

LEMMA TermInvInit == Init => TermInv
<1>1. Init => EntryTermReached
  BY EmptySeq DEF Init, EntryTermReached, EmptyLog
<1>2. Init => BatchesOfTerm
  BY NoMessageAtFirst DEF BatchesOfTerm
<1>3. QED
  BY <1>1, <1>2, TypeInvInit DEF TermInv

\* No log holds an entry of a term its node has not reached, even when nodes
\* lose their terms and logs in crashes while old requests are under way.
THEOREM EntryTermsReached ==
    (Spec => []EntryTermReached) /\ (CrashSpec => []EntryTermReached)
<1>1. TermInv /\ [CrashNext]_vars => TermInv'
  BY TypeInvStep, TermInvLogs, TermInvBatches DEF TermInv
<1>2. CrashSpec => []TermInv
  BY <1>1, TermInvInit, PTL DEF CrashSpec
<1>3. TermInv => EntryTermReached
  BY DEF TermInv
<1>4. QED
  BY <1>2, <1>3, SpecIsCrashSpec, PTL

=============================================================================
