--------------------------- MODULE RaftNode_proofs --------------------------
(***************************************************************************)
(* Proofs about RaftNode for any finite set of nodes and any bounds.       *)
(***************************************************************************)
EXTENDS RaftNode, FiniteSetTheorems, SequenceTheorems, TLAPS

-----------------------------------------------------------------------------
(* Links and the messages they carry                                       *)

Links == [Node -> [Node -> Seq(Message)]]

\* The messages of a link, and those of all links.
Carries(link) == {link[k] : k \in DOMAIN link}

Carried(links) == {m \in Message : \E i, j \in Node : m \in Carries(links[i][j])}

\* RemoveAt takes the message at k off a link; those after it move up.
LEMMA RemoveAtElements ==
    ASSUME NEW link \in Seq(Message), NEW k \in DOMAIN link
    PROVE  /\ RemoveAt(link, k) \in Seq(Message)
           /\ Len(link) \in Nat /\ DOMAIN link = 1 .. Len(link)
           /\ DOMAIN RemoveAt(link, k) = 1 .. (Len(link) - 1)
           /\ \A i \in 1 .. (Len(link) - 1) :
                 RemoveAt(link, k)[i] = link[IF i < k THEN i ELSE i + 1]
<1> DEFINE before == SubSeq(link, 1, k - 1)
           after  == SubSeq(link, k + 1, Len(link))
<1>1. /\ Len(link) \in Nat /\ DOMAIN link = 1 .. Len(link) /\ k \in 1 .. Len(link)
      /\ \A i \in 1 .. Len(link) : link[i] \in Message
  BY LenProperties, ElementOfSeq
<1>2. /\ before \in Seq(Message) /\ Len(before) = k - 1
      /\ \A i \in 1 .. (k - 1) : before[i] = link[i]
  <2>1. \A i \in 1 .. (k - 1) : link[i] \in Message
    BY <1>1
  <2>2. QED
    BY <1>1, <2>1, SubSeqProperties
<1>3. /\ after \in Seq(Message) /\ Len(after) = Len(link) - k
      /\ \A i \in 1 .. (Len(link) - k) : after[i] = link[k + i]
  <2>1. /\ \A i \in (k + 1) .. Len(link) : link[i] \in Message
        /\ k + 1 \in Int /\ Len(link) \in Int
    BY <1>1
  <2>2. /\ after \in Seq(Message)
        /\ Len(after) = IF k + 1 <= Len(link) THEN Len(link) - (k + 1) + 1 ELSE 0
        /\ \A i \in 1 .. (Len(link) - (k + 1) + 1) : after[i] = link[k + 1 + i - 1]
    <3> DEFINE from == k + 1
               to   == Len(link)
    <3>1. from \in Int /\ to \in Int /\ \A i \in from .. to : link[i] \in Message
      BY <2>1
    <3> HIDE DEF from, to
    <3>2. /\ SubSeq(link, from, to) \in Seq(Message)
          /\ Len(SubSeq(link, from, to)) = IF from <= to THEN to - from + 1 ELSE 0
          /\ \A i \in 1 .. (to - from + 1) :
                SubSeq(link, from, to)[i] = link[from + i - 1]
      BY <3>1, SubSeqProperties
    <3>3. QED
      BY <3>2, Zenon DEF from, to
  <2>3. Len(after) = Len(link) - k
    BY <1>1, <2>2, SMTT(20)
  <2>4. ASSUME NEW i \in 1 .. (Len(link) - k)
        PROVE  after[i] = link[k + i]
    <3>1. i \in 1 .. (Len(link) - (k + 1) + 1) /\ k + 1 + i - 1 = k + i
      BY <1>1
    <3>2. after[i] = link[k + 1 + i - 1]
      BY <2>2, <3>1, Zenon
    <3>3. QED
      BY <3>1, <3>2, Zenon
  <2>5. QED
    BY <2>2, <2>3, <2>4
<1> DEFINE rest == before \o after
<1> HIDE DEF before, after
<1>4. /\ rest \in Seq(Message) /\ Len(rest) = Len(link) - 1
      /\ \A i \in 1 .. (Len(link) - 1) :
            rest[i] = IF i <= k - 1 THEN before[i] ELSE after[i - (k - 1)]
  <2>1. /\ rest \in Seq(Message)
        /\ Len(rest) = Len(before) + Len(after)
        /\ \A i \in 1 .. (Len(before) + Len(after)) :
              rest[i] = IF i <= Len(before) THEN before[i] ELSE after[i - Len(before)]
    BY <1>2, <1>3, ConcatProperties, Zenon
  <2>2. Len(before) + Len(after) = Len(link) - 1
    <3>1. Len(before) = k - 1 /\ Len(after) = Len(link) - k
      BY <1>2, <1>3, Zenon
    <3>2. (k - 1) + (Len(link) - k) = Len(link) - 1
      BY <1>1
    <3>3. QED
      BY <3>1, <3>2
  <2>3. Len(before) = k - 1
    BY <1>2
  <2>4. QED
    BY <2>1, <2>2, <2>3, Zenon
<1>5. DOMAIN rest = 1 .. (Len(link) - 1)
  <2>1. rest \in Seq(Message) /\ Len(rest) = Len(link) - 1
    BY <1>4, Zenon
  <2>2. QED
    BY <2>1, LenProperties
<1> HIDE DEF rest
<1>6. ASSUME NEW i \in 1 .. (Len(link) - 1)
      PROVE  rest[i] = link[IF i < k THEN i ELSE i + 1]
  <2>1. CASE i <= k - 1
    <3>1. rest[i] = link[i] /\ i < k
      BY <1>1, <1>2, <1>4, <2>1
    <3>2. QED
      BY <3>1
  <2>2. CASE ~(i <= k - 1)
    <3>1. /\ i - (k - 1) \in 1 .. (Len(link) - k) /\ ~(i < k)
          /\ k + (i - (k - 1)) = i + 1
      BY <1>1, <2>2
    <3>2. rest[i] = link[k + (i - (k - 1))]
      BY <1>3, <1>4, <2>2, <3>1
    <3>3. QED
      BY <3>1, <3>2
  <2>3. QED
    BY <2>1, <2>2
<1>7. RemoveAt(link, k) = rest
  BY DEF RemoveAt, rest, before, after
<1>8. QED
  BY <1>1, <1>4, <1>5, <1>6, <1>7

\* It adds none.
LEMMA RemoveAtCarries ==
    ASSUME NEW link \in Seq(Message), NEW k \in DOMAIN link
    PROVE  /\ RemoveAt(link, k) \in Seq(Message)
           /\ Carries(RemoveAt(link, k)) \subseteq Carries(link)
<1>1. /\ RemoveAt(link, k) \in Seq(Message)
      /\ Len(link) \in Nat /\ DOMAIN link = 1 .. Len(link)
      /\ DOMAIN RemoveAt(link, k) = 1 .. (Len(link) - 1)
      /\ \A i \in 1 .. (Len(link) - 1) :
            RemoveAt(link, k)[i] = link[IF i < k THEN i ELSE i + 1]
  BY RemoveAtElements
<1>2. \A i \in 1 .. (Len(link) - 1) : (IF i < k THEN i ELSE i + 1) \in DOMAIN link
  BY <1>1
<1>3. QED
  BY <1>1, <1>2 DEF Carries

\* Append adds the one message.
LEMMA AppendCarries ==
    ASSUME NEW link \in Seq(Message), NEW m \in Message
    PROVE  /\ Append(link, m) \in Seq(Message)
           /\ Carries(Append(link, m)) \subseteq Carries(link) \cup {m}
<1>1. /\ Append(link, m) \in Seq(Message)
      /\ Len(link) \in Nat /\ DOMAIN link = 1 .. Len(link)
      /\ DOMAIN Append(link, m) = 1 .. (Len(link) + 1)
      /\ \A k \in 1 .. (Len(link) + 1) :
            Append(link, m)[k] = IF k <= Len(link) THEN link[k] ELSE m
  BY LenProperties
<1>2. QED
  BY <1>1 DEF Carries

LEMMA ConsumeCarried ==
    ASSUME NEW links \in Links, NEW i \in Node, NEW j \in Node,
           NEW k \in DOMAIN links[i][j]
    PROVE  /\ Consume(links, i, j, k) \in Links
           /\ Carried(Consume(links, i, j, k)) \subseteq Carried(links)
           /\ links[i][j][k] \in Carried(links) \cap Message
<1>1. links[i][j] \in Seq(Message)
  BY DEF Links
<1>2. /\ RemoveAt(links[i][j], k) \in Seq(Message)
      /\ Carries(RemoveAt(links[i][j], k)) \subseteq Carries(links[i][j])
  BY <1>1, RemoveAtCarries
<1>3. Consume(links, i, j, k) \in Links
  BY <1>2 DEF Links, Consume
<1>4. \A a, b \in Node :
         Carries(Consume(links, i, j, k)[a][b]) \subseteq Carries(links[a][b])
  BY <1>2 DEF Links, Consume
<1>5. links[i][j][k] \in Carried(links) \cap Message
  BY <1>1, LenProperties, ElementOfSeq DEF Carried, Carries
<1>6. QED
  BY <1>3, <1>4, <1>5 DEF Carried

LEMMA BroadcastCarried ==
    ASSUME NEW links \in Links, NEW n \in Node, NEW m \in Message
    PROVE  /\ Broadcast(links, n, m) \in Links
           /\ Carried(Broadcast(links, n, m)) \subseteq Carried(links) \cup {m}
<1>1. \A i, j \in Node : /\ links[i][j] \in Seq(Message)
                         /\ Append(links[i][j], m) \in Seq(Message)
                         /\ Carries(Append(links[i][j], m))
                              \subseteq Carries(links[i][j]) \cup {m}
  BY AppendCarries DEF Links
<1>2. Broadcast(links, n, m) \in Links
  BY <1>1 DEF Links, Broadcast
<1>3. \A a, b \in Node : Carries(Broadcast(links, n, m)[a][b])
                           \subseteq Carries(links[a][b]) \cup {m}
  BY <1>1 DEF Links, Broadcast
<1>4. QED
  BY <1>2, <1>3 DEF Carried

-----------------------------------------------------------------------------
(* Types of messages and logs                                              *)

LEMMA MessageFields ==
    ASSUME NEW m \in Message
    PROVE  /\ m.src \in Node /\ m.term \in Nat
           /\ m.type = "RequestVoteRequest" =>
                m.last_log_index \in Nat /\ m.last_log_term \in Nat
           /\ m.type = "RequestVoteResponse" => m.granted \in BOOLEAN
           /\ m.type = "Heartbeat" => m.leader_commit \in Nat
           /\ m.type = "AppendEntriesRequest" =>
                /\ m.prev_log_index \in Nat /\ m.prev_log_term \in Nat
                /\ m.entries \in Seq(Entry) /\ m.leader_commit \in Nat
           /\ m.type = "AppendEntriesResponse" =>
                /\ m.success \in BOOLEAN
                /\ m.conflict_index \in Nat /\ m.last_log_index \in Nat
  BY DEF Message, RequestVoteRequest, RequestVoteResponse, Heartbeat,
         AppendEntriesRequest, AppendEntriesResponse

LEMMA SubSeqOfLog ==
    ASSUME NEW entries \in Seq(Entry), NEW a \in Nat, NEW b \in Nat,
           a >= 1, b <= Len(entries)
    PROVE  /\ SubSeq(entries, a, b) \in Seq(Entry)
           /\ DOMAIN SubSeq(entries, a, b) = 1 .. Len(SubSeq(entries, a, b))
           /\ \A i \in DOMAIN SubSeq(entries, a, b) :
                 /\ a + i - 1 \in DOMAIN entries
                 /\ SubSeq(entries, a, b)[i] = entries[a + i - 1]
<1>1. /\ Len(entries) \in Nat /\ DOMAIN entries = 1 .. Len(entries)
      /\ \A i \in 1 .. Len(entries) : entries[i] \in Entry
  BY LenProperties, ElementOfSeq
<1>2. \A i \in a .. b : entries[i] \in Entry
  BY <1>1
<1>3. /\ SubSeq(entries, a, b) \in Seq(Entry)
      /\ Len(SubSeq(entries, a, b)) = IF a <= b THEN b - a + 1 ELSE 0
      /\ \A i \in 1 .. (b - a + 1) : SubSeq(entries, a, b)[i] = entries[a + i - 1]
  BY <1>2, SubSeqProperties
<1>4. DOMAIN SubSeq(entries, a, b) = 1 .. Len(SubSeq(entries, a, b))
  BY <1>3, LenProperties
<1>5. QED
  BY <1>1, <1>3, <1>4

\* What appending a batch does to a log: the entries go after those present.
LEMMA AppendEntriesProperties ==
    ASSUME NEW l \in Log, NEW batch \in Seq(Entry)
    PROVE  LET l2 == append_entries(l, batch)
           IN  /\ l2 \in Log
               /\ Len(l.entries) \in Nat /\ Len(batch) \in Nat
               /\ Len(l2.entries) = Len(l.entries) + Len(batch)
               /\ \A i \in 1 .. Len(l2.entries) :
                     l2.entries[i] = IF i <= Len(l.entries) THEN l.entries[i]
                                     ELSE batch[i - Len(l.entries)]
               /\ batch = << >> => l2 = l
               /\ batch # << >> => /\ Len(batch) >= 1
                                   /\ l2.last_log_index = batch[Len(batch)].index
<1>1. /\ l.entries \in Seq(Entry) /\ l.last_log_index \in Nat /\ l.last_log_term \in Nat
  BY DEF Log
<1>2. Len(l.entries) \in Nat /\ Len(batch) \in Nat
  BY <1>1, LenProperties
<1>3. CASE batch = << >>
  <2>1. append_entries(l, batch) = l /\ Len(batch) = 0
    BY <1>3, EmptySeq DEF append_entries
  <2>2. QED
    BY <1>1, <1>2, <1>3, <2>1
<1>4. CASE batch # << >>
  <2>1. Len(batch) >= 1
    BY <1>2, <1>4, EmptySeq
  <2>2. batch[Len(batch)] \in Entry
    BY <1>2, <2>1, ElementOfSeq
  <2>3. /\ l.entries \o batch \in Seq(Entry)
        /\ Len(l.entries \o batch) = Len(l.entries) + Len(batch)
        /\ \A i \in 1 .. Len(l.entries) + Len(batch) :
              (l.entries \o batch)[i] = IF i <= Len(l.entries) THEN l.entries[i]
                                        ELSE batch[i - Len(l.entries)]
    BY <1>1, ConcatProperties
  <2>4. append_entries(l, batch) =
          [entries |-> l.entries \o batch,
           last_log_index |-> batch[Len(batch)].index,
           last_log_term |-> batch[Len(batch)].term]
    BY <1>4 DEF append_entries
  <2>5. append_entries(l, batch) \in Log
    BY <2>2, <2>3, <2>4 DEF Log, Entry
  <2>6. QED
    BY <1>2, <1>4, <2>1, <2>3, <2>4, <2>5
<1>5. QED
  BY <1>3, <1>4

\* append_entry is the batch of one.
LEMMA AppendEntryIsBatch ==
    ASSUME NEW l \in Log, NEW e \in Entry
    PROVE  append_entry(l, e) = append_entries(l, <<e>>) /\ <<e>> \in Seq(Entry)
<1>1. <<e>> \in Seq(Entry) /\ Len(<<e>>) = 1 /\ <<e>>[1] = e /\ <<e>> # << >>
  OBVIOUS
<1>2. l.entries \in Seq(Entry)
  BY DEF Log
<1>3. Append(l.entries, e) = l.entries \o <<e>>
  BY <1>2
<1>4. QED
  BY <1>1, <1>3 DEF append_entry, append_entries

-----------------------------------------------------------------------------
(* Types, and the indexes a leader sends from                              *)

\* A refusal in flight names an index to start again from that is not 0.
RefusalsPositive ==
    \A m \in Carried(net) :
        m.type = "AppendEntriesResponse" /\ ~m.success => m.conflict_index >= 1

\* Inductive: without NextIndexPositive the previous index of a reissue need
\* not be a natural number, and with it go the types of the messages.
TypeInv == TypeOK /\ NextIndexPositive /\ RefusalsPositive

LEMMA NetIsLinks == TypeOK => net \in Links
  BY DEF TypeOK, Links

LEMMA RequestAtType ==
    ASSUME TypeOK, NEW n \in Node, NEW i
    PROVE  RequestAt(n, i) \in Nat
<1>1. requests[n] \subseteq RequestSlot
  BY DEF TypeOK
<1>2. CASE \E s \in requests[n] : s.index = i
  <2> DEFINE slot == CHOOSE s \in requests[n] : s.index = i
  <2>1. slot \in RequestSlot
    BY <1>1, <1>2
  <2>2. QED
    BY <1>2, <2>1 DEF RequestAt, RequestSlot
<1>3. CASE ~ \E s \in requests[n] : s.index = i
  BY <1>3 DEF RequestAt
<1>4. QED
  BY <1>2, <1>3

\* apply_to_state_machine keeps the types of what it writes.
LEMMA ApplyTypes ==
    ASSUME TypeOK, NEW n \in Node, NEW c \in Nat, apply_to_state_machine(n, c)
    PROVE  /\ commit_index' \in [Node -> Nat] /\ last_applied' \in [Node -> Nat]
           /\ applied' \in [Node -> Seq(Entry)]
           /\ requests' \in [Node -> SUBSET RequestSlot]
           /\ replies' \in SUBSET Reply
<1>1. /\ last_applied[n] \in Nat /\ log[n] \in Log /\ applied[n] \in Seq(Entry)
      /\ requests[n] \in SUBSET RequestSlot /\ replies \in SUBSET Reply
      /\ requests \in [Node -> SUBSET RequestSlot]
      /\ applied \in [Node -> Seq(Entry)]
  BY DEF TypeOK
<1>2. log[n].entries \in Seq(Entry) /\ Len(log[n].entries) \in Nat
  BY <1>1, LenProperties DEF Log
<1>3. AppliedUpTo(n, c) \in Seq(Entry)
  BY <1>1, <1>2, SubSeqOfLog DEF AppliedUpTo
<1>4. applied[n] \o AppliedUpTo(n, c) \in Seq(Entry)
  BY <1>1, <1>3, ConcatProperties
<1>5. applied' \in [Node -> Seq(Entry)]
  BY <1>1, <1>4 DEF apply_to_state_machine
<1>6. \A i \in Present(n, c) : i \in Nat /\ RequestAt(n, i) \in Nat
  BY <1>1, RequestAtType DEF Present
<1>7. {[index |-> i, request_id |-> RequestAt(n, i)] : i \in Present(n, c)}
        \in SUBSET RequestSlot
  BY <1>6 DEF RequestSlot
<1>8. requests' \in [Node -> SUBSET RequestSlot]
  BY <1>1, <1>7 DEF apply_to_state_machine
<1>. DEFINE ReplyTo(i) == [node |-> n, request_id |-> RequestAt(n, i),
                           success |-> TRUE, leader_hint |-> Zero]
<1>9. \A i \in Present(n, c) : ReplyTo(i) \in Reply
  BY <1>6, NodeAssumption DEF Reply
<1>10. replies' = replies \cup {ReplyTo(i) : i \in Present(n, c)}
  BY DEF apply_to_state_machine
<1>. HIDE DEF ReplyTo
<1>11. replies' \in SUBSET Reply
  BY <1>1, <1>9, <1>10
<1>12. commit_index' \in [Node -> Nat] /\ last_applied' \in [Node -> Nat]
  BY DEF TypeOK, apply_to_state_machine
<1>13. QED
  BY <1>5, <1>8, <1>11, <1>12

LEMMA AdvanceCommitTypes ==
    ASSUME TypeOK, NEW n \in Node, NEW c \in Nat, AdvanceCommit(n, c)
    PROVE  /\ commit_index' \in [Node -> Nat] /\ last_applied' \in [Node -> Nat]
           /\ applied' \in [Node -> Seq(Entry)]
           /\ requests' \in [Node -> SUBSET RequestSlot]
           /\ replies' \in SUBSET Reply
<1>1. CASE c > commit_index[n]
  BY <1>1, ApplyTypes DEF AdvanceCommit
<1>2. CASE ~(c > commit_index[n])
  BY <1>2 DEF AdvanceCommit, applyVars, TypeOK
<1>3. QED
  BY <1>1, <1>2

\* A message that is not stale brings its node to its term.
LEMMA TermTaken ==
    ASSUME TypeOK, NEW n \in Node, NEW t \in Nat, t >= current_term[n],
           handle_higher_term(n, t)
    PROVE  current_term' = [current_term EXCEPT ![n] = t]
<1>1. current_term[n] \in Nat
  BY DEF TypeOK
<1>2. (IF t > current_term[n] THEN t ELSE current_term[n]) = t
  BY <1>1
<1>3. QED
  BY <1>2 DEF handle_higher_term

\* What append_prologue, the term prologue and the vote leave well typed.
LEMMA HigherTermTypes ==
    ASSUME TypeOK, NEW n \in Node, NEW t \in Nat, handle_higher_term(n, t)
    PROVE  /\ current_term' \in [Node -> Nat] /\ role' \in [Node -> Role]
           /\ votes' \in [Node -> Nat]
           /\ VoteHeld(n, t) \in Node \cup {None}
           /\ \A p \in Node : role'[p] = "Leader" => role[p] = "Leader"
  BY DEF TypeOK, handle_higher_term, VoteHeld, Role

\* A reply that is broadcast keeps the invariant of the messages.
LEMMA ReplyCarried ==
    ASSUME RefusalsPositive, NEW links \in Links, Carried(links) \subseteq Carried(net),
           NEW n \in Node, NEW reply \in Message,
           reply.type = "AppendEntriesResponse" /\ ~reply.success
             => reply.conflict_index >= 1,
           net' = Broadcast(links, n, reply)
    PROVE  net' \in Links /\ RefusalsPositive'
<1>1. net' \in Links /\ Carried(net') \subseteq Carried(links) \cup {reply}
  BY BroadcastCarried
<1>2. QED
  BY <1>1 DEF RefusalsPositive

LEMMA TypeInvMessage ==
    ASSUME TypeInv, NEW n \in Node, NEW src \in Node, NEW k \in DOMAIN net[src][n],
           handle_message(n, src, k)
    PROVE  TypeInv'
<1> DEFINE m    == net[src][n][k]
           rest == Consume(net, src, n, k)
<1>1. /\ m \in Message /\ m \in Carried(net)
      /\ rest \in Links /\ Carried(rest) \subseteq Carried(net)
  BY ConsumeCarried, NetIsLinks DEF TypeInv
<1>2. \/ discard_stale(n, m, rest)
      \/ handle_request_vote_request(n, m, rest)
      \/ vote_counted(n, m, rest)
      \/ vote_not_counted(n, m, rest)
      \/ handle_heartbeat(n, m, rest)
      \/ handle_append_mismatch(n, m, rest)
      \/ handle_append_match(n, m, rest)
      \/ handle_append_entries_response(n, m, rest)
      \/ append_response_higher_term(n, m, rest)
  BY DEF handle_message
<1> HIDE DEF m, rest
<1>3. /\ TypeOK /\ NextIndexPositive /\ RefusalsPositive
      /\ m.src \in Node /\ m.term \in Nat
  BY <1>1, MessageFields DEF TypeInv
<1>4. ASSUME net' = rest
      PROVE  net' \in Links /\ RefusalsPositive'
  BY <1>1, <1>3, <1>4 DEF RefusalsPositive
<1>5. CASE discard_stale(n, m, rest)
  BY <1>3, <1>4, <1>5 DEF discard_stale, TypeInv, TypeOK, NextIndexPositive, Links,
       electionVars, hintVars, applyVars, replicationVars, envVars
<1>6. CASE handle_request_vote_request(n, m, rest)
  <2> DEFINE granted == VoteHeld(n, m.term) \in {None, m.src} /\ UpToDate(n, m)
             reply   == [type |-> "RequestVoteResponse", src |-> n,
                         term |-> m.term, granted |-> granted]
  <2>1. reply \in Message /\ reply.type = "RequestVoteResponse"
    BY <1>3 DEF Message, RequestVoteResponse
  <2>2. net' = Broadcast(rest, n, reply)
    BY <1>6 DEF handle_request_vote_request
  <2> HIDE DEF granted, reply
  <2>3. net' \in Links /\ RefusalsPositive'
    BY <1>1, <1>3, <2>1, <2>2, ReplyCarried
  <2>4. handle_higher_term(n, m.term)
    BY <1>6 DEF handle_request_vote_request
  <2>5. voted_for' \in [Node -> Node \cup {None}]
    BY <1>3, <1>6, <2>4, HigherTermTypes DEF TypeOK, handle_request_vote_request
  <2>6. ballots' \in SUBSET Ballot
    <3>1. [voter |-> n, term |-> m.term, candidate |-> m.src] \in Ballot
      BY <1>3 DEF Ballot
    <3>2. ballots' = ballots \/ ballots' = ballots \cup
            {[voter |-> n, term |-> m.term, candidate |-> m.src]}
      BY <1>6 DEF handle_request_vote_request
    <3>3. QED
      BY <1>3, <3>1, <3>2 DEF TypeOK
  <2>7. TypeOK'
    BY <1>3, <1>6, <2>3, <2>4, <2>5, <2>6, HigherTermTypes
       DEF TypeOK, Links, handle_request_vote_request, hintVars, applyVars,
           replicationVars, envVars
  <2>8. NextIndexPositive'
    BY <1>3, <1>6, <2>4, HigherTermTypes
       DEF NextIndexPositive, handle_request_vote_request, replicationVars
  <2>9. QED
    BY <2>3, <2>7, <2>8 DEF TypeInv
<1>7. CASE vote_counted(n, m, rest)
  <2>1. /\ net' = rest
        /\ votes' = [votes EXCEPT ![n] = @ + 1]
        /\ UNCHANGED <<current_term, voted_for, ballots, hintVars, applyVars, log, envVars>>
        /\ become_leader(n) \/ UNCHANGED <<role, replicationVars, elections>>
    BY <1>7 DEF vote_counted
  <2>2. votes' \in [Node -> Nat]
    <3>1. votes \in [Node -> Nat] /\ votes' = [votes EXCEPT ![n] = @ + 1]
      BY <1>3, <2>1 DEF TypeOK
    <3>2. QED
      BY <3>1
  <2>3. /\ role' \in [Node -> Role] /\ elections' \in SUBSET Election
        /\ next_index' \in [Node -> [Node -> Nat]]
        /\ match_index' \in [Node -> [Node -> Nat]]
        /\ NextIndexPositive'
    <3>1. CASE become_leader(n)
      <4>1. /\ commit_index[n] \in Nat /\ current_term[n] \in Nat
            /\ role \in [Node -> Role] /\ next_index \in [Node -> [Node -> Nat]]
            /\ match_index \in [Node -> [Node -> Nat]]
        BY <1>3 DEF TypeOK
      <4>2. [term |-> current_term[n], leader |-> n] \in Election
        BY <4>1 DEF Election
      <4>3. elections' \in SUBSET Election
        BY <1>3, <3>1, <4>2 DEF become_leader, TypeOK
      <4>4. /\ role' = [role EXCEPT ![n] = "Leader"]
            /\ match_index' = [match_index EXCEPT ![n] =
                                 [p \in Node |-> commit_index[n]]]
            /\ next_index' = [next_index EXCEPT ![n] =
                                [p \in Node |-> commit_index[n] + 1]]
        BY <3>1 DEF become_leader
      <4>5. /\ role' \in [Node -> Role]
            /\ next_index' \in [Node -> [Node -> Nat]]
            /\ match_index' \in [Node -> [Node -> Nat]]
            /\ NextIndexPositive'
        <5>1. [p \in Node |-> commit_index[n] + 1] \in [Node -> Nat]
          BY <4>1
        <5>2. [p \in Node |-> commit_index[n]] \in [Node -> Nat]
          BY <4>1
        <5>3. role' \in [Node -> Role]
          BY <4>1, <4>4 DEF Role
        <5>4. next_index' \in [Node -> [Node -> Nat]] /\ match_index' \in [Node -> [Node -> Nat]]
          BY <4>1, <4>4, <5>1, <5>2
        <5>5. \A q \in Node \ {n} : role'[q] = role[q] /\ next_index'[q] = next_index[q]
          BY <4>1, <4>4
        <5>6. \A p \in Node : next_index'[n][p] >= 1
          BY <4>1, <4>4
        <5>7. NextIndexPositive'
          BY <1>3, <5>5, <5>6 DEF NextIndexPositive
        <5>8. QED
          BY <5>3, <5>4, <5>7
      <4>6. QED
        BY <4>3, <4>5
    <3>2. CASE UNCHANGED <<role, replicationVars, elections>>
      BY <1>3, <3>2 DEF TypeOK, NextIndexPositive, replicationVars
    <3>3. QED
      BY <2>1, <3>1, <3>2
  <2>4. TypeOK'
    BY <1>3, <1>4, <2>1, <2>2, <2>3
       DEF TypeOK, Links, hintVars, applyVars, envVars
  <2>5. QED
    BY <1>4, <2>1, <2>3, <2>4 DEF TypeInv
<1>8. CASE vote_not_counted(n, m, rest)
  <2>1. net' = rest /\ handle_higher_term(n, m.term)
    BY <1>8 DEF vote_not_counted
  <2>2. voted_for' \in [Node -> Node \cup {None}]
    BY <1>3, <1>8, <2>1, HigherTermTypes DEF TypeOK, vote_not_counted
  <2>3. TypeOK'
    BY <1>3, <1>4, <1>8, <2>1, <2>2, HigherTermTypes
       DEF TypeOK, Links, vote_not_counted, hintVars, applyVars, replicationVars, envVars
  <2>4. NextIndexPositive'
    BY <1>3, <1>8, <2>1, HigherTermTypes
       DEF NextIndexPositive, vote_not_counted, replicationVars
  <2>5. QED
    BY <1>4, <2>1, <2>3, <2>4 DEF TypeInv
<1>9. CASE handle_heartbeat(n, m, rest)
  <2>1. net' = rest /\ handle_higher_term(n, m.term) /\ AdvanceCommit(n, m.leader_commit)
        /\ m.leader_commit \in Nat
    BY <1>1, <1>9, MessageFields DEF handle_heartbeat, append_prologue
  <2>2. voted_for' \in [Node -> Node \cup {None}]
    BY <1>3, <1>9, <2>1, HigherTermTypes DEF TypeOK, handle_heartbeat, append_prologue
  <2>3. leader_id' \in [Node -> Node \cup {None}] /\ heard' \in [Node -> BOOLEAN]
    <3>1. /\ leader_id \in [Node -> Node \cup {None}] /\ heard \in [Node -> BOOLEAN]
          /\ n \in Node /\ m.src \in Node
      BY <1>3 DEF TypeOK
    <3>2. /\ leader_id' = [leader_id EXCEPT ![n] = m.src]
          /\ \E later \in {heard[n], TRUE} : heard' = [heard EXCEPT ![n] = later]
      BY <1>9, Zenon DEF handle_heartbeat
    <3>3. QED
      BY <3>1, <3>2
  <2>4. TypeOK'
    BY <1>3, <1>4, <1>9, <2>1, <2>2, <2>3, HigherTermTypes, AdvanceCommitTypes
       DEF TypeOK, Links, handle_heartbeat, replicationVars, envVars
  <2>5. NextIndexPositive'
    BY <1>3, <1>9, <2>1, HigherTermTypes
       DEF NextIndexPositive, handle_heartbeat, replicationVars
  <2>6. QED
    BY <1>4, <2>1, <2>4, <2>5 DEF TypeInv
<1>10. CASE handle_append_mismatch(n, m, rest)
  <2> DEFINE reply == [type |-> "AppendEntriesResponse", src |-> n, term |-> m.term,
                       success |-> FALSE, conflict_index |-> ConflictIndex(m),
                       last_log_index |-> log[n].last_log_index]
  <2>1. /\ handle_higher_term(n, m.term) /\ AdvanceCommit(n, m.leader_commit)
        /\ m.prev_log_index \in Nat /\ m.leader_commit \in Nat /\ ~PrevMatches(n, m)
    BY <1>1, <1>10, MessageFields DEF handle_append_mismatch, append_prologue
  <2>2. m.prev_log_index >= 1
    BY <2>1 DEF PrevMatches
  <2>3. log[n].last_log_index \in Nat
    BY <1>3 DEF TypeOK, Log
  <2>4. reply \in Message /\ reply.conflict_index >= 1
    BY <1>3, <2>1, <2>2, <2>3 DEF Message, AppendEntriesResponse, ConflictIndex
  <2>5. net' = Broadcast(rest, n, reply)
    BY <1>10 DEF handle_append_mismatch
  <2> HIDE DEF reply
  <2>6. net' \in Links /\ RefusalsPositive'
    BY <1>1, <1>3, <2>4, <2>5, ReplyCarried
  <2>7. voted_for' \in [Node -> Node \cup {None}]
    BY <1>3, <1>10, <2>1, HigherTermTypes
       DEF TypeOK, handle_append_mismatch, append_prologue
  <2>8. TypeOK'
    BY <1>3, <1>10, <2>1, <2>6, <2>7, HigherTermTypes, AdvanceCommitTypes
       DEF TypeOK, Links, handle_append_mismatch, hintVars, replicationVars, envVars
  <2>9. NextIndexPositive'
    BY <1>3, <1>10, <2>1, HigherTermTypes
       DEF NextIndexPositive, handle_append_mismatch, replicationVars
  <2>10. QED
    BY <2>6, <2>8, <2>9 DEF TypeInv
<1>11. CASE handle_append_match(n, m, rest)
  <2> DEFINE extended == append_entries(log[n], m.entries)
             reply    == [type |-> "AppendEntriesResponse", src |-> n, term |-> m.term,
                          success |-> TRUE, conflict_index |-> 0,
                          last_log_index |-> extended.last_log_index]
  <2>1. /\ handle_higher_term(n, m.term) /\ AdvanceCommit(n, m.leader_commit)
        /\ m.entries \in Seq(Entry) /\ m.leader_commit \in Nat
        /\ log \in [Node -> Log]
    BY <1>1, <1>3, <1>11, MessageFields DEF handle_append_match, append_prologue, TypeOK
  <2>2. extended \in Log /\ extended.last_log_index \in Nat
    <3>1. extended \in Log
      BY <2>1, AppendEntriesProperties
    <3>2. QED
      BY <3>1 DEF Log
  <2>3. log' = [log EXCEPT ![n] = extended] /\ net' = Broadcast(rest, n, reply)
    BY <1>11 DEF handle_append_match
  <2>4. reply \in Message /\ reply.success
    BY <1>3, <2>2 DEF Message, AppendEntriesResponse
  <2> HIDE DEF extended, reply
  <2>5. log' \in [Node -> Log]
    BY <2>1, <2>2, <2>3
  <2>6. net' \in Links /\ RefusalsPositive'
    BY <1>1, <1>3, <2>3, <2>4, ReplyCarried
  <2>7. voted_for' \in [Node -> Node \cup {None}]
    BY <1>3, <1>11, <2>1, HigherTermTypes
       DEF TypeOK, handle_append_match, append_prologue
  <2>8. TypeOK'
    BY <1>3, <1>11, <2>1, <2>5, <2>6, <2>7, HigherTermTypes, AdvanceCommitTypes
       DEF TypeOK, Links, handle_append_match, hintVars, replicationVars, envVars
  <2>9. NextIndexPositive'
    BY <1>3, <1>11, <2>1, HigherTermTypes
       DEF NextIndexPositive, handle_append_match, replicationVars
  <2>10. QED
    BY <2>6, <2>8, <2>9 DEF TypeInv
<1>12. CASE handle_append_entries_response(n, m, rest)
  <2> DEFINE next  == IF m.success THEN m.last_log_index + 1 ELSE m.conflict_index
             match == IF m.success THEN m.last_log_index ELSE match_index[n][m.src]
  <2>1. /\ net' = rest
        /\ UNCHANGED <<electionVars, hintVars, applyVars, log, envVars>>
        /\ next_index'  = [next_index EXCEPT ![n][m.src] = next]
        /\ match_index' = [match_index EXCEPT ![n][m.src] = match]
    BY <1>12 DEF handle_append_entries_response
  <2>2. /\ next_index \in [Node -> [Node -> Nat]]
        /\ match_index \in [Node -> [Node -> Nat]]
    BY <1>3 DEF TypeOK
  <2>3. /\ m.type = "AppendEntriesResponse" /\ m.last_log_index \in Nat
        /\ m.conflict_index \in Nat /\ m.success \in BOOLEAN
    BY <1>1, <1>12, MessageFields DEF handle_append_entries_response
  <2>4. next \in Nat /\ next >= 1 /\ match \in Nat
    BY <1>1, <1>3, <2>2, <2>3 DEF RefusalsPositive
  <2> HIDE DEF next, match
  <2>5. /\ next_index' \in [Node -> [Node -> Nat]]
        /\ match_index' \in [Node -> [Node -> Nat]]
    BY <1>3, <2>1, <2>2, <2>4
  <2>6. TypeOK'
    BY <1>3, <1>4, <2>1, <2>5
       DEF TypeOK, Links, electionVars, hintVars, applyVars, envVars
  <2>7. NextIndexPositive'
    <3>1. \A q, p \in Node : next_index'[q][p] = next_index[q][p] \/ next_index'[q][p] >= 1
      BY <1>3, <2>1, <2>2, <2>4
    <3>2. QED
      BY <1>3, <2>1, <3>1 DEF NextIndexPositive, electionVars
  <2>8. QED
    BY <1>4, <2>1, <2>6, <2>7 DEF TypeInv
<1>13. CASE append_response_higher_term(n, m, rest)
  <2>1. net' = rest /\ handle_higher_term(n, m.term)
    BY <1>13 DEF append_response_higher_term
  <2>2. voted_for' \in [Node -> Node \cup {None}]
    BY <1>3, <1>13, <2>1, HigherTermTypes DEF TypeOK, append_response_higher_term
  <2>3. TypeOK'
    BY <1>3, <1>4, <1>13, <2>1, <2>2, HigherTermTypes
       DEF TypeOK, Links, append_response_higher_term, hintVars, applyVars,
           replicationVars, envVars
  <2>4. NextIndexPositive'
    BY <1>3, <1>13, <2>1, HigherTermTypes
       DEF NextIndexPositive, append_response_higher_term, replicationVars
  <2>5. QED
    BY <1>4, <2>1, <2>3, <2>4 DEF TypeInv
<1>14. QED
  BY <1>2, <1>5, <1>6, <1>7, <1>8, <1>9, <1>10, <1>11, <1>12, <1>13

\* A reissue: what is sent is a well-formed request from the previous index.
LEMMA ReissueRequestType ==
    ASSUME TypeInv, NEW n \in Node, IsLeader(n), NEW p \in Node
    PROVE  /\ ReissueRequest(n, p) \in Message
           /\ ReissueRequest(n, p).type = "AppendEntriesRequest"
           /\ next_index[n][p] \in Nat /\ next_index[n][p] >= 1
           /\ log[n].entries \in Seq(Entry)
           /\ ReissueRequest(n, p).entries = ReissueBatch(n, p)
           /\ ReissueBatch(n, p) \in Seq(Entry)
           /\ DOMAIN ReissueBatch(n, p) = 1 .. Len(ReissueBatch(n, p))
           /\ \A i \in DOMAIN ReissueBatch(n, p) :
                 /\ next_index[n][p] + i - 1 \in DOMAIN log[n].entries
                 /\ ReissueBatch(n, p)[i] = log[n].entries[next_index[n][p] + i - 1]
<1> DEFINE next == next_index[n][p]
           last == IF log[n].last_log_index <= Len(log[n].entries)
                   THEN log[n].last_log_index ELSE Len(log[n].entries)
<1>1. /\ next \in Nat /\ next >= 1 /\ log[n] \in Log /\ current_term[n] \in Nat
      /\ commit_index[n] \in Nat
  BY DEF TypeInv, TypeOK, NextIndexPositive, IsLeader
<1>2. /\ log[n].entries \in Seq(Entry) /\ log[n].last_log_index \in Nat
      /\ Len(log[n].entries) \in Nat /\ DOMAIN log[n].entries = 1 .. Len(log[n].entries)
      /\ \A i \in 1 .. Len(log[n].entries) : log[n].entries[i] \in Entry
  BY <1>1, LenProperties, ElementOfSeq DEF Log
<1>3. last \in Nat /\ last <= Len(log[n].entries)
  BY <1>2
<1>4. ReissueBatch(n, p) = SubSeq(log[n].entries, next, last)
  <2>1. (IF next_index[n][p] = 0 THEN 1 ELSE next_index[n][p]) = next
    BY <1>1
  <2>2. QED
    BY <2>1, Zenon DEF ReissueBatch
<1> HIDE DEF last, next
<1>5. /\ ReissueBatch(n, p) \in Seq(Entry)
      /\ DOMAIN ReissueBatch(n, p) = 1 .. Len(ReissueBatch(n, p))
      /\ \A i \in DOMAIN ReissueBatch(n, p) :
            /\ next + i - 1 \in DOMAIN log[n].entries
            /\ ReissueBatch(n, p)[i] = log[n].entries[next + i - 1]
  <2> DEFINE entries == log[n].entries
             batch   == ReissueBatch(n, p)
  <2>1. /\ entries \in Seq(Entry) /\ next \in Nat /\ next >= 1
        /\ last \in Nat /\ last <= Len(entries) /\ batch = SubSeq(entries, next, last)
    BY <1>1, <1>2, <1>3, <1>4, Zenon
  <2> HIDE DEF entries, batch
  <2>2. /\ batch \in Seq(Entry)
        /\ DOMAIN batch = 1 .. Len(batch)
        /\ \A i \in DOMAIN batch : /\ next + i - 1 \in DOMAIN entries
                                  /\ batch[i] = entries[next + i - 1]
    BY <2>1, SubSeqOfLog
  <2>3. QED
    BY <2>2, Zenon DEF entries, batch
<1>6. next - 1 \in Nat
  BY <1>1
<1>7. (IF has_entry(log[n], next - 1) THEN entry_at(log[n], next - 1).term ELSE 0) \in Nat
  <2>1. CASE has_entry(log[n], next - 1)
    <3>1. next - 1 \in 1 .. Len(log[n].entries)
      BY <1>1, <1>2, <1>6, <2>1 DEF has_entry
    <3>2. QED
      BY <1>2, <2>1, <3>1 DEF entry_at, Entry
  <2>2. CASE ~has_entry(log[n], next - 1)
    BY <2>2
  <2>3. QED
    BY <2>1, <2>2
<1>8. ReissueRequest(n, p) \in AppendEntriesRequest
  BY <1>1, <1>5, <1>6, <1>7 DEF ReissueRequest, AppendEntriesRequest, next
<1>9. QED
  BY <1>1, <1>2, <1>5, <1>8 DEF ReissueRequest, Message, next

\* A timer or a client request broadcasts at most one message.
LEMMA TypeInvElection ==
    ASSUME TypeInv, NEW n \in Node, handle_election_timeout(n)
    PROVE  TypeInv'
<1>1. TypeOK /\ NextIndexPositive /\ RefusalsPositive /\ net \in Links
  BY NetIsLinks DEF TypeInv
<1>2. heard' \in [Node -> BOOLEAN]
  BY <1>1 DEF handle_election_timeout, TypeOK
<1>3. CASE start_election(n)
  <2> DEFINE request == [type |-> "RequestVoteRequest", src |-> n,
                         term |-> current_term[n] + 1,
                         last_log_index |-> log[n].last_log_index,
                         last_log_term  |-> log[n].last_log_term]
  <2>1. current_term[n] \in Nat /\ log[n] \in Log
    BY <1>1 DEF TypeOK
  <2>2. request \in Message /\ request.type = "RequestVoteRequest"
    BY <2>1 DEF Message, RequestVoteRequest, Log
  <2>3. net' = Broadcast(net, n, request)
    BY <1>3 DEF start_election
  <2> HIDE DEF request
  <2>4. net' \in Links /\ RefusalsPositive'
    BY <1>1, <2>2, <2>3, ReplyCarried
  <2>5. [voter |-> n, term |-> current_term[n] + 1, candidate |-> n] \in Ballot
    BY <2>1 DEF Ballot
  <2>6. ballots' \in SUBSET Ballot
    BY <1>1, <1>3, <2>5 DEF start_election, TypeOK
  <2>7. /\ current_term' \in [Node -> Nat] /\ role' \in [Node -> Role]
        /\ voted_for' \in [Node -> Node \cup {None}] /\ votes' \in [Node -> Nat]
    BY <1>1, <1>3, SMTT(20) DEF start_election, TypeOK, Role
  <2>8. TypeOK'
    BY <1>1, <1>2, <1>3, <2>4, <2>6, <2>7
       DEF TypeOK, Links, handle_election_timeout, start_election, applyVars,
           replicationVars, envVars
  <2>9. NextIndexPositive'
    BY <1>1, <1>3 DEF NextIndexPositive, handle_election_timeout, start_election,
                      replicationVars, TypeOK
  <2>10. QED
    BY <2>4, <2>8, <2>9 DEF TypeInv
<1>4. CASE UNCHANGED <<electionVars, net>>
  BY <1>1, <1>2, <1>4 DEF TypeInv, TypeOK, NextIndexPositive, RefusalsPositive, Carried,
       handle_election_timeout, electionVars, applyVars, replicationVars, envVars
<1>5. QED
  BY <1>3, <1>4 DEF handle_election_timeout

LEMMA TypeInvHeartbeat ==
    ASSUME TypeInv, NEW n \in Node, handle_heartbeat_timeout(n)
    PROVE  TypeInv'
<1>1. TypeOK /\ NextIndexPositive /\ RefusalsPositive /\ net \in Links
  BY NetIsLinks DEF TypeInv
<1>2. PICK v \in {match_index[n][p] : p \in Node} : AdvanceCommit(n, v)
  BY DEF handle_heartbeat_timeout
<1>3. v \in Nat
  BY <1>1 DEF TypeOK
<1> DEFINE message == [type |-> "Heartbeat", src |-> n, term |-> current_term[n],
                       leader_commit |-> commit_index'[n]]
<1>4. commit_index' \in [Node -> Nat]
  BY <1>1, <1>2, <1>3, AdvanceCommitTypes
<1>5. message \in Message /\ message.type = "Heartbeat"
  BY <1>1, <1>4 DEF Message, Heartbeat, TypeOK
<1>6. net' = Broadcast(net, n, message)
  BY DEF handle_heartbeat_timeout, heartbeat
<1> HIDE DEF message
<1>7. net' \in Links /\ RefusalsPositive'
  BY <1>1, <1>5, <1>6, ReplyCarried
<1>8. TypeOK'
  BY <1>1, <1>2, <1>3, <1>7, AdvanceCommitTypes
     DEF TypeOK, Links, handle_heartbeat_timeout, electionVars, hintVars,
         replicationVars, envVars
<1>9. NextIndexPositive'
  BY <1>1 DEF NextIndexPositive, handle_heartbeat_timeout, electionVars, replicationVars
<1>10. QED
  BY <1>7, <1>8, <1>9 DEF TypeInv

LEMMA TypeInvReissue ==
    ASSUME TypeInv, NEW n \in Node, handle_reissue_timeout(n)
    PROVE  TypeInv'
<1>1. TypeOK /\ NextIndexPositive /\ RefusalsPositive /\ net \in Links /\ IsLeader(n)
  BY NetIsLinks DEF TypeInv, handle_reissue_timeout
<1>2. \A p \in Node : /\ ReissueRequest(n, p) \in Message
                      /\ ReissueRequest(n, p).type = "AppendEntriesRequest"
  BY <1>1, ReissueRequestType
<1>3. \A p \in Node : /\ net[n][p] \in Seq(Message)
                      /\ Append(net[n][p], ReissueRequest(n, p)) \in Seq(Message)
                      /\ Carries(Append(net[n][p], ReissueRequest(n, p)))
                           \subseteq Carries(net[n][p]) \cup {ReissueRequest(n, p)}
  BY <1>1, <1>2, AppendCarries DEF Links
<1>4. net' = [net EXCEPT ![n] =
                [p \in Node |-> IF p \in Behind(n)
                                THEN Append(net[n][p], ReissueRequest(n, p))
                                ELSE net[n][p]]]
  BY <1>1 DEF handle_reissue_timeout
<1>5. net' \in Links
  BY <1>1, <1>3, <1>4 DEF Links
<1>6. \A i, j \in Node : Carries(net'[i][j])
                           \subseteq Carries(net[i][j]) \cup {ReissueRequest(n, j)}
  BY <1>1, <1>3, <1>4 DEF Links
<1>7. RefusalsPositive'
  BY <1>1, <1>2, <1>6 DEF RefusalsPositive, Carried
<1>8. TypeOK'
  BY <1>1, <1>5 DEF TypeOK, Links, handle_reissue_timeout, electionVars, hintVars,
                    applyVars, replicationVars, envVars
<1>9. NextIndexPositive'
  BY <1>1 DEF NextIndexPositive, handle_reissue_timeout, electionVars, replicationVars
<1>10. QED
  BY <1>7, <1>8, <1>9 DEF TypeInv

LEMMA TypeInvReject ==
    ASSUME TypeInv, NEW n \in Node, reject_client_request(n)
    PROVE  TypeInv'
<1>1. [node |-> n, request_id |-> next_request, success |-> FALSE,
       leader_hint |-> LeaderHint(n)] \in Reply
  BY NodeAssumption DEF TypeInv, TypeOK, Reply, LeaderHint
<1>2. replies' \in SUBSET Reply
  BY <1>1 DEF TypeInv, TypeOK, reject_client_request
<1>3. next_request' \in Nat
  BY DEF TypeInv, TypeOK, reject_client_request
<1>4. UNCHANGED <<electionVars, hintVars, commit_index, last_applied, applied,
                  requests, replicationVars, log, net, losses, restarts>>
  BY DEF reject_client_request
<1>5. QED
  BY <1>2, <1>3, <1>4 DEF TypeInv, TypeOK, NextIndexPositive, RefusalsPositive, Carried,
                          electionVars, hintVars, replicationVars

\* The request and the log of a leader that accepts a client request.
LEMMA AcceptedEntry ==
    ASSUME TypeInv, NEW n \in Node, accept_client_request(n)
    PROVE  LET last  == log[n].last_log_index
               entry == [term |-> current_term[n], index |-> last + 1,
                         request_id |-> next_request]
           IN  /\ last \in Nat /\ entry \in Entry
               /\ append_entries(log[n], <<entry>>) \in Log
               /\ log' = [log EXCEPT ![n] = append_entries(log[n], <<entry>>)]
               /\ \/ net' = net
                  \/ \E request \in AppendEntriesRequest :
                        /\ request.prev_log_index = last
                        /\ request.entries = <<entry>>
                        /\ request.term = current_term[n]
                        /\ request.src = n /\ request.leader_commit = commit_index[n]
                        /\ net' = Broadcast(net, n, request)
<1> DEFINE last     == log[n].last_log_index
           entry    == [term |-> current_term[n], index |-> last + 1,
                        request_id |-> next_request]
           extended == append_entry(log[n], entry)
           request  == [type |-> "AppendEntriesRequest", src |-> n,
                        term |-> current_term[n], prev_log_index |-> last,
                        prev_log_term |-> IF last = 0 THEN 0
                                          ELSE entry_at(extended, last).term,
                        entries |-> <<entry>>, leader_commit |-> commit_index[n],
                        path |-> "broadcast"]
<1>1. /\ log[n] \in Log /\ current_term[n] \in Nat /\ next_request \in Nat
      /\ commit_index[n] \in Nat
  BY DEF TypeInv, TypeOK
<1>2. last \in Nat /\ entry \in Entry
  BY <1>1, SMTT(20) DEF Log, Entry
<1>3. extended = append_entries(log[n], <<entry>>) /\ <<entry>> \in Seq(Entry)
  BY <1>1, <1>2, AppendEntryIsBatch
<1>4. append_entries(log[n], <<entry>>) \in Log
  BY <1>1, <1>3, AppendEntriesProperties
<1>5. log' = [log EXCEPT ![n] = extended]
  BY DEF accept_client_request, NewIndex
<1>6. net' = IF last = 0 \/ has_entry(extended, last)
             THEN Broadcast(net, n, request) ELSE net
  BY DEF accept_client_request, NewIndex
<1>7. ASSUME last = 0 \/ has_entry(extended, last)
      PROVE  request \in AppendEntriesRequest
  <2>1. CASE last = 0
    BY <1>1, <1>2, <1>3, <2>1 DEF AppendEntriesRequest
  <2>2. CASE last # 0
    <3>1. extended.entries \in Seq(Entry) /\ last <= Len(extended.entries)
      BY <1>3, <1>4, <1>7, <2>2 DEF has_entry, Log
    <3>2. extended.entries[last] \in Entry
      BY <1>2, <2>2, <3>1, LenProperties, ElementOfSeq
    <3>3. entry_at(extended, last).term \in Nat
      BY <3>2 DEF entry_at, Entry
    <3>4. (IF last = 0 THEN 0 ELSE entry_at(extended, last).term) \in Nat
      BY <2>2, <3>3
    <3>5. QED
      BY <1>1, <1>2, <1>3, <3>4 DEF AppendEntriesRequest
  <2>3. QED
    BY <2>1, <2>2
<1>8. /\ request.prev_log_index = last /\ request.entries = <<entry>>
      /\ request.term = current_term[n]
      /\ request.src = n /\ request.leader_commit = commit_index[n]
  OBVIOUS
<1> HIDE DEF request, extended, entry, last
<1>9. \/ net' = net
      \/ /\ request \in AppendEntriesRequest
         /\ net' = Broadcast(net, n, request)
  BY <1>6, <1>7
<1>10. QED
  BY <1>2, <1>3, <1>4, <1>5, <1>8, <1>9 DEF last, entry

LEMMA TypeInvAccept ==
    ASSUME TypeInv, NEW n \in Node, accept_client_request(n)
    PROVE  TypeInv'
<1> DEFINE last == log[n].last_log_index
<1>1. TypeOK /\ NextIndexPositive /\ RefusalsPositive /\ net \in Links
      /\ last \in Nat /\ next_request \in Nat /\ log \in [Node -> Log]
      /\ next_index \in [Node -> [Node -> Nat]] /\ match_index \in [Node -> [Node -> Nat]]
      /\ requests \in [Node -> SUBSET RequestSlot] /\ Client \in Node
  BY NetIsLinks, NodeAssumption DEF TypeInv, TypeOK, Log, Client
<1>2. net' \in Links /\ RefusalsPositive'
  <2>1. CASE net' = net
    BY <1>1, <2>1 DEF RefusalsPositive
  <2>2. ASSUME NEW request \in AppendEntriesRequest, net' = Broadcast(net, n, request)
        PROVE  net' \in Links /\ RefusalsPositive'
    <3>1. request \in Message /\ request.type = "AppendEntriesRequest"
      BY DEF Message, AppendEntriesRequest
    <3>2. QED
      BY <1>1, <2>2, <3>1, ReplyCarried
  <2>3. QED
    BY <2>1, <2>2, AcceptedEntry
<1>3. log' \in [Node -> Log]
  <2>1. \E extended \in Log : log' = [log EXCEPT ![n] = extended]
    BY AcceptedEntry, Zenon
  <2>2. QED
    BY <1>1, <2>1
<1>4. /\ next_index'  = [next_index EXCEPT ![n][Client] = last + 2]
      /\ match_index' = [match_index EXCEPT ![n][Client] = last + 1]
  BY DEF accept_client_request
<1>5. /\ next_index' \in [Node -> [Node -> Nat]]
      /\ match_index' \in [Node -> [Node -> Nat]]
      /\ \A q, p \in Node : next_index'[q][p] = next_index[q][p] \/ next_index'[q][p] >= 1
  <2> HIDE DEF last
  <2>1. QED
    BY <1>1, <1>4
<1>6. requests' \in [Node -> SUBSET RequestSlot]
  <2>1. [index |-> last + 1, request_id |-> next_request] \in RequestSlot
    BY <1>1 DEF RequestSlot
  <2>2. emplace(requests[n], last + 1, next_request) \in SUBSET RequestSlot
    BY <1>1, <2>1 DEF emplace
  <2>3. requests' = [requests EXCEPT ![n] = emplace(requests[n], last + 1, next_request)]
    BY <1>1 DEF accept_client_request
  <2>4. QED
    BY <1>1, <2>2, <2>3
<1>7. /\ next_request' = next_request + 1
      /\ UNCHANGED <<electionVars, hintVars, commit_index, last_applied, applied,
                     replies, losses, restarts>>
  BY DEF accept_client_request
<1>8. TypeOK'
  <2>1. next_request' \in Nat /\ net' \in [Node -> [Node -> Seq(Message)]]
    BY <1>1, <1>2, <1>7 DEF Links
  <2>2. /\ UNCHANGED <<current_term, voted_for, role, votes, ballots, elections>>
        /\ UNCHANGED <<leader_id, heard, commit_index, last_applied, applied, replies>>
        /\ UNCHANGED <<losses, restarts>>
    BY <1>7 DEF electionVars, hintVars
  <2> HIDE DEF last
  <2>3. QED
    BY <1>1, <1>3, <1>5, <1>6, <2>1, <2>2 DEF TypeOK
<1>9. NextIndexPositive'
  BY <1>1, <1>5, <1>7 DEF NextIndexPositive, electionVars
<1>10. QED
  BY <1>2, <1>8, <1>9 DEF TypeInv

LEMMA TypeInvLose ==
    ASSUME TypeInv, NEW i \in Node, NEW j \in Node, Lose(i, j)
    PROVE  TypeInv'
<1>1. TypeOK /\ NextIndexPositive /\ RefusalsPositive /\ net \in Links
  BY NetIsLinks DEF TypeInv
<1>2. net' \in Links /\ Carried(net') \subseteq Carried(net)
  BY <1>1, ConsumeCarried DEF Lose
<1>3. TypeOK'
  <2>1. losses' = losses + 1 /\ losses \in Nat
    BY <1>1 DEF Lose, TypeOK
  <2>2. losses' \in Nat
    BY <2>1
  <2>3. /\ UNCHANGED <<current_term, voted_for, role, votes, ballots, elections>>
        /\ UNCHANGED <<leader_id, heard, next_index, match_index>>
        /\ UNCHANGED <<commit_index, last_applied, applied, replies, requests>>
        /\ UNCHANGED <<log, next_request, restarts>>
    BY DEF Lose, electionVars, hintVars, applyVars, replicationVars
  <2>4. net' \in [Node -> [Node -> Seq(Message)]]
    BY <1>2 DEF Links
  <2>5. QED
    BY <1>1, <2>2, <2>3, <2>4 DEF TypeOK
<1>4. NextIndexPositive' /\ RefusalsPositive'
  BY <1>1, <1>2 DEF NextIndexPositive, RefusalsPositive, Lose, electionVars, replicationVars
<1>5. QED
  BY <1>3, <1>4 DEF TypeInv

LEMMA EmptyLogType == EmptyLog \in Log /\ << >> \in Seq(Entry) /\ << >> \in Seq(Message)
  BY DEF EmptyLog, Log

LEMMA TypeInvRestart ==
    ASSUME TypeInv, NEW n \in Node, Restart(n)
    PROVE  TypeInv'
<1>1. TypeOK /\ NextIndexPositive /\ RefusalsPositive
  BY DEF TypeInv
<1>2. TypeOK'
  <2>1. /\ current_term' \in [Node -> Nat] /\ voted_for' \in [Node -> Node \cup {None}]
        /\ role' \in [Node -> Role] /\ votes' \in [Node -> Nat]
    BY <1>1 DEF TypeOK, Restart, Role
  <2>2. /\ leader_id' \in [Node -> Node \cup {None}] /\ heard' \in [Node -> BOOLEAN]
        /\ commit_index' \in [Node -> Nat] /\ last_applied' \in [Node -> Nat]
    BY <1>1 DEF TypeOK, Restart
  <2>3. /\ next_index' \in [Node -> [Node -> Nat]]
        /\ match_index' \in [Node -> [Node -> Nat]]
    BY <1>1 DEF TypeOK, Restart
  <2>4. log' \in [Node -> Log] /\ requests' \in [Node -> SUBSET RequestSlot]
    BY <1>1, EmptyLogType DEF TypeOK, Restart
  <2>5. restarts' \in Nat
    BY <1>1 DEF TypeOK, Restart
  <2>6. UNCHANGED <<applied, replies, net, next_request, losses, ballots, elections>>
    BY DEF Restart
  <2>7. QED
    BY <1>1, <2>1, <2>2, <2>3, <2>4, <2>5, <2>6 DEF TypeOK
<1>3. NextIndexPositive'
  BY <1>1 DEF TypeOK, NextIndexPositive, Restart
<1>4. RefusalsPositive'
  BY <1>1 DEF RefusalsPositive, Restart, Carried
<1>5. QED
  BY <1>2, <1>3, <1>4 DEF TypeInv

LEMMA TypeInvInit == Init => TypeInv
<1> SUFFICES ASSUME Init PROVE TypeInv
  OBVIOUS
<1>1. TypeOK
  BY EmptyLogType DEF Init, TypeOK, Role
<1>2. NextIndexPositive
  BY DEF Init, NextIndexPositive
<1>3. \A i, j \in Node : net[i][j] = << >>
  BY DEF Init
<1>4. Carried(net) = {}
  BY <1>3 DEF Carried, Carries
<1>5. QED
  BY <1>1, <1>2, <1>4 DEF TypeInv, RefusalsPositive

LEMMA TypeInvStep == TypeInv /\ [CrashNext]_vars => TypeInv'
<1> SUFFICES ASSUME TypeInv, [CrashNext]_vars PROVE TypeInv'
  OBVIOUS
<1>1. ASSUME NEW n \in Node, NodeStep(n) PROVE TypeInv'
  <2>1. CASE handle_election_timeout(n)
    BY <2>1, TypeInvElection
  <2>2. CASE handle_heartbeat_timeout(n)
    BY <2>2, TypeInvHeartbeat
  <2>3. CASE handle_reissue_timeout(n)
    BY <2>3, TypeInvReissue
  <2>4. CASE handle_parse_timeout(n)
    BY <2>4, TypeInvMessage DEF handle_parse_timeout
  <2>5. CASE handle_client_request(n)
    BY <2>5, TypeInvReject, TypeInvAccept DEF handle_client_request
  <2>6. QED
    BY <1>1, <2>1, <2>2, <2>3, <2>4, <2>5 DEF NodeStep
<1>2. ASSUME NEW i \in Node, NEW j \in Node, Lose(i, j) PROVE TypeInv'
  BY <1>2, TypeInvLose
<1>3. ASSUME NEW n \in Node, Restart(n) PROVE TypeInv'
  BY <1>3, TypeInvRestart
<1>4. CASE UNCHANGED vars
  BY <1>4 DEF TypeInv, TypeOK, NextIndexPositive, RefusalsPositive, Carried, vars,
       electionVars, hintVars, applyVars, replicationVars, envVars
<1>5. QED
  BY <1>1, <1>2, <1>3, <1>4 DEF CrashNext, Next

LEMMA TypeInvHolds == CrashSpec => []TypeInv
  BY TypeInvInit, TypeInvStep, PTL DEF CrashSpec

\* A behaviour without crashes is one of the specification with crashes.
LEMMA SpecIsCrashSpec == Spec => CrashSpec
<1>1. [Next]_vars => [CrashNext]_vars
  BY DEF CrashNext
<1>2. QED
  BY <1>1, PTL DEF Spec, CrashSpec

\* Every variable keeps its type, in every behaviour of the cluster, crashes
\* included: in particular no index on the wire is below 0.
THEOREM TypeCorrect == (Spec => []TypeOK) /\ (CrashSpec => []TypeOK)
<1>1. TypeInv => TypeOK
  BY DEF TypeInv
<1>2. QED
  BY <1>1, TypeInvHolds, SpecIsCrashSpec, PTL

\* A leader's next indexes are never 0, crashes included, so the previous
\* index handle_reissue_timeout computes does not wrap.
THEOREM NextIndexNeverZero ==
    (Spec => []NextIndexPositive) /\ (CrashSpec => []NextIndexPositive)
<1>1. TypeInv => NextIndexPositive
  BY DEF TypeInv
<1>2. QED
  BY <1>1, TypeInvHolds, SpecIsCrashSpec, PTL

-----------------------------------------------------------------------------
(* What a step puts on the links                                           *)

\* Consume and Broadcast, link by link.
LEMMA ConsumeCarries ==
    ASSUME NEW links \in Links, NEW i \in Node, NEW j \in Node,
           NEW k \in DOMAIN links[i][j]
    PROVE  \A a, b \in Node :
              Carries(Consume(links, i, j, k)[a][b]) \subseteq Carries(links[a][b])
<1>1. links[i][j] \in Seq(Message)
  BY DEF Links
<1>2. Carries(RemoveAt(links[i][j], k)) \subseteq Carries(links[i][j])
  BY <1>1, RemoveAtCarries
<1>3. QED
  BY <1>2 DEF Links, Consume

LEMMA BroadcastCarries ==
    ASSUME NEW links \in Links, NEW n \in Node, NEW m \in Message
    PROVE  \A a, b \in Node :
              Carries(Broadcast(links, n, m)[a][b])
                \subseteq Carries(links[a][b]) \cup (IF a = n /\ b # n THEN {m} ELSE {})
<1>1. \A j \in Node : /\ links[n][j] \in Seq(Message)
                      /\ Carries(Append(links[n][j], m)) \subseteq Carries(links[n][j]) \cup {m}
  BY AppendCarries DEF Links
<1>2. QED
  BY <1>1 DEF Links, Broadcast

\* What node n sends, as far as the log, the commit index and the leadership
\* of the sender are concerned.
Sends(n, m) ==
    /\ m.type = "Heartbeat" =>
         IsLeader(n) /\ m.term = current_term[n] /\ m.leader_commit = commit_index'[n]
    /\ m.type = "AppendEntriesRequest" =>
         /\ IsLeader(n) /\ m.term = current_term[n] /\ m.leader_commit = commit_index[n]
         /\ \A x \in DOMAIN m.entries : m.entries[x] \in EntriesOf(n)'
    /\ m.type = "AppendEntriesResponse" /\ m.success =>
         m.last_log_index = log'[n].last_log_index

\* A message on a link was there before the step or is sent by the node the
\* link comes from, to another.
Arrivals ==
    \A i, j \in Node : \A m \in Carries(net'[i][j]) :
        \/ m \in Carries(net[i][j])
        \/ i # j /\ m.src = i /\ Sends(i, m)

LEMMA NothingArrives ==
    ASSUME \A i, j \in Node : Carries(net'[i][j]) \subseteq Carries(net[i][j])
    PROVE  Arrivals
  BY DEF Arrivals

LEMMA BroadcastArrives ==
    ASSUME NEW links \in Links, NEW n \in Node, NEW m \in Message, m.src = n, Sends(n, m),
           \A i, j \in Node : Carries(links[i][j]) \subseteq Carries(net[i][j]),
           net' = Broadcast(links, n, m)
    PROVE  Arrivals
<1>1. \A a, b \in Node :
         Carries(net'[a][b])
           \subseteq Carries(links[a][b]) \cup (IF a = n /\ b # n THEN {m} ELSE {})
  BY BroadcastCarries
<1>2. QED
  BY <1>1 DEF Arrivals

LEMMA MessageArrivals ==
    ASSUME TypeInv, NEW n \in Node, NEW src \in Node, NEW k \in DOMAIN net[src][n],
           handle_message(n, src, k)
    PROVE  Arrivals
<1> DEFINE m    == net[src][n][k]
           rest == Consume(net, src, n, k)
<1>1. /\ m \in Message /\ rest \in Links /\ TypeOK
      /\ \A i, j \in Node : Carries(rest[i][j]) \subseteq Carries(net[i][j])
  BY ConsumeCarried, ConsumeCarries, NetIsLinks DEF TypeInv
<1>2. \/ discard_stale(n, m, rest)
      \/ handle_request_vote_request(n, m, rest)
      \/ vote_counted(n, m, rest)
      \/ vote_not_counted(n, m, rest)
      \/ handle_heartbeat(n, m, rest)
      \/ handle_append_mismatch(n, m, rest)
      \/ handle_append_match(n, m, rest)
      \/ handle_append_entries_response(n, m, rest)
      \/ append_response_higher_term(n, m, rest)
  BY DEF handle_message
<1> HIDE DEF m, rest
<1>3. m.src \in Node /\ m.term \in Nat /\ log[n] \in Log
  BY <1>1, MessageFields DEF TypeOK
<1>4. ASSUME net' = rest PROVE Arrivals
  BY <1>1, <1>4, NothingArrives
<1>5. CASE \/ discard_stale(n, m, rest) \/ vote_counted(n, m, rest)
           \/ vote_not_counted(n, m, rest) \/ handle_heartbeat(n, m, rest)
           \/ handle_append_entries_response(n, m, rest)
           \/ append_response_higher_term(n, m, rest)
  BY <1>4, <1>5 DEF discard_stale, vote_counted, vote_not_counted, handle_heartbeat,
                    handle_append_entries_response, append_response_higher_term
<1>6. CASE handle_request_vote_request(n, m, rest)
  <2> DEFINE granted == VoteHeld(n, m.term) \in {None, m.src} /\ UpToDate(n, m)
             reply   == [type |-> "RequestVoteResponse", src |-> n,
                         term |-> m.term, granted |-> granted]
  <2>1. reply \in Message /\ reply.type = "RequestVoteResponse" /\ reply.src = n
    BY <1>3 DEF Message, RequestVoteResponse
  <2>2. net' = Broadcast(rest, n, reply)
    BY <1>6 DEF handle_request_vote_request
  <2> HIDE DEF reply
  <2>3. Sends(n, reply)
    BY <2>1 DEF Sends
  <2>4. QED
    BY <1>1, <2>1, <2>2, <2>3, BroadcastArrives
<1>7. CASE handle_append_mismatch(n, m, rest)
  <2> DEFINE reply == [type |-> "AppendEntriesResponse", src |-> n, term |-> m.term,
                       success |-> FALSE, conflict_index |-> ConflictIndex(m),
                       last_log_index |-> log[n].last_log_index]
  <2>1. m.prev_log_index \in Nat /\ log[n].last_log_index \in Nat
    BY <1>1, <1>3, <1>7, MessageFields DEF handle_append_mismatch, Log
  <2>2. /\ reply \in Message /\ reply.type = "AppendEntriesResponse" /\ reply.src = n
        /\ ~reply.success
    BY <1>3, <2>1 DEF Message, AppendEntriesResponse, ConflictIndex
  <2>3. net' = Broadcast(rest, n, reply)
    BY <1>7 DEF handle_append_mismatch
  <2> HIDE DEF reply
  <2>4. Sends(n, reply)
    BY <2>2 DEF Sends
  <2>5. QED
    BY <1>1, <2>2, <2>3, <2>4, BroadcastArrives
<1>8. CASE handle_append_match(n, m, rest)
  <2> DEFINE extended == append_entries(log[n], m.entries)
             reply    == [type |-> "AppendEntriesResponse", src |-> n, term |-> m.term,
                          success |-> TRUE, conflict_index |-> 0,
                          last_log_index |-> extended.last_log_index]
  <2>1. m.entries \in Seq(Entry)
    BY <1>1, <1>8, MessageFields DEF handle_append_match
  <2>2. extended.last_log_index \in Nat
    BY <1>3, <2>1, AppendEntriesProperties DEF Log
  <2>3. log' = [log EXCEPT ![n] = extended] /\ net' = Broadcast(rest, n, reply)
    BY <1>8 DEF handle_append_match
  <2> HIDE DEF extended
  <2>4. /\ reply \in Message /\ reply.type = "AppendEntriesResponse" /\ reply.src = n
        /\ reply.last_log_index = extended.last_log_index
    BY <1>3, <2>2 DEF Message, AppendEntriesResponse
  <2> HIDE DEF reply
  <2>5. log'[n] = extended
    BY <1>1, <2>3 DEF TypeOK
  <2>6. Sends(n, reply)
    BY <2>4, <2>5 DEF Sends
  <2>7. QED
    BY <1>1, <2>3, <2>4, <2>6, BroadcastArrives
<1>9. QED
  BY <1>2, <1>5, <1>6, <1>7, <1>8

LEMMA ElectionArrivals ==
    ASSUME TypeInv, NEW n \in Node, handle_election_timeout(n)
    PROVE  Arrivals
<1>1. net \in Links /\ current_term[n] \in Nat /\ log[n] \in Log
  BY NetIsLinks DEF TypeInv, TypeOK
<1>2. CASE start_election(n)
  <2> DEFINE request == [type |-> "RequestVoteRequest", src |-> n,
                         term |-> current_term[n] + 1,
                         last_log_index |-> log[n].last_log_index,
                         last_log_term  |-> log[n].last_log_term]
  <2>1. request \in Message /\ request.type = "RequestVoteRequest" /\ request.src = n
    BY <1>1 DEF Message, RequestVoteRequest, Log
  <2>2. net' = Broadcast(net, n, request)
    BY <1>2 DEF start_election
  <2> HIDE DEF request
  <2>3. Sends(n, request)
    BY <2>1 DEF Sends
  <2>4. QED
    BY <1>1, <2>1, <2>2, <2>3, BroadcastArrives
<1>3. CASE UNCHANGED <<electionVars, net>>
  BY <1>3, NothingArrives
<1>4. QED
  BY <1>2, <1>3 DEF handle_election_timeout

LEMMA HeartbeatArrivals ==
    ASSUME TypeInv, NEW n \in Node, handle_heartbeat_timeout(n)
    PROVE  Arrivals
<1>1. net \in Links /\ current_term[n] \in Nat /\ commit_index'[n] \in Nat
  BY NetIsLinks, TypeInvHeartbeat DEF TypeInv, TypeOK
<1> DEFINE message == heartbeat(n, commit_index'[n])
<1>2. /\ message \in Message /\ message.type = "Heartbeat" /\ message.src = n
      /\ message.term = current_term[n] /\ message.leader_commit = commit_index'[n]
  BY <1>1 DEF Message, Heartbeat, heartbeat
<1>3. net' = Broadcast(net, n, message) /\ IsLeader(n)
  BY DEF handle_heartbeat_timeout
<1> HIDE DEF message
<1>4. Sends(n, message)
  BY <1>2, <1>3 DEF Sends
<1>5. QED
  BY <1>1, <1>2, <1>3, <1>4, BroadcastArrives

LEMMA ReissueArrivals ==
    ASSUME TypeInv, NEW n \in Node, handle_reissue_timeout(n)
    PROVE  Arrivals
<1>1. net \in Links /\ IsLeader(n) /\ n \notin Behind(n) /\ log' = log
  BY NetIsLinks DEF TypeInv, handle_reissue_timeout, Behind
<1>2. \A p \in Node : net[n][p] \in Seq(Message) /\ ReissueRequest(n, p) \in Message
  BY <1>1, ReissueRequestType DEF Links
<1>3. net' = [net EXCEPT ![n] =
                [p \in Node |-> IF p \in Behind(n)
                                THEN Append(net[n][p], ReissueRequest(n, p))
                                ELSE net[n][p]]]
  BY DEF handle_reissue_timeout
<1>4. \A i, j \in Node :
         Carries(net'[i][j])
           \subseteq Carries(net[i][j])
                       \cup (IF i = n /\ j # n THEN {ReissueRequest(n, j)} ELSE {})
  BY <1>1, <1>2, <1>3, AppendCarries DEF Links
<1>5. ASSUME NEW p \in Node
      PROVE  ReissueRequest(n, p).src = n /\ Sends(n, ReissueRequest(n, p))
  <2> DEFINE m == ReissueRequest(n, p)
  <2>1. /\ m.type = "AppendEntriesRequest" /\ m.src = n /\ m.term = current_term[n]
        /\ m.leader_commit = commit_index[n]
    BY DEF ReissueRequest
  <2>2. \A x \in DOMAIN m.entries : m.entries[x] \in EntriesOf(n)
    BY <1>1, ReissueRequestType DEF EntriesOf
  <2>3. EntriesOf(n)' = EntriesOf(n)
    BY <1>1 DEF EntriesOf
  <2> HIDE DEF m
  <2>4. Sends(n, m)
    BY <1>1, <2>1, <2>2, <2>3 DEF Sends
  <2>5. QED
    BY <2>1, <2>4 DEF m
<1>6. QED
  BY <1>4, <1>5 DEF Arrivals

LEMMA ClientArrivals ==
    ASSUME TypeInv, NEW n \in Node, handle_client_request(n)
    PROVE  Arrivals
<1>1. net \in Links /\ log \in [Node -> Log]
  BY NetIsLinks DEF TypeInv, TypeOK
<1>2. CASE net' = net
  BY <1>2, NothingArrives
<1>3. CASE accept_client_request(n)
  <2> DEFINE entry == [term |-> current_term[n], index |-> log[n].last_log_index + 1,
                       request_id |-> next_request]
  <2>1. /\ entry \in Entry
        /\ log' = [log EXCEPT ![n] = append_entries(log[n], <<entry>>)]
        /\ \/ net' = net
           \/ \E request \in AppendEntriesRequest :
                 /\ request.entries = <<entry>> /\ request.term = current_term[n]
                 /\ request.src = n /\ request.leader_commit = commit_index[n]
                 /\ net' = Broadcast(net, n, request)
    BY <1>3, AcceptedEntry
  <2> HIDE DEF entry
  <2>2. <<entry>> \in Seq(Entry) /\ Len(<<entry>>) = 1 /\ <<entry>>[1] = entry
    BY <2>1
  <2>3. entry \in EntriesOf(n)'
    <3> DEFINE extended == append_entries(log[n], <<entry>>)
    <3>1. /\ extended \in Log /\ Len(log[n].entries) \in Nat
          /\ Len(extended.entries) = Len(log[n].entries) + 1
          /\ \A i \in 1 .. Len(extended.entries) :
                extended.entries[i] = IF i <= Len(log[n].entries) THEN log[n].entries[i]
                                      ELSE <<entry>>[i - Len(log[n].entries)]
      <4> DEFINE l == log[n]
                 batch == <<entry>>
      <4>1. l \in Log /\ batch \in Seq(Entry) /\ Len(batch) = 1
        BY <1>1, <2>2
      <4> HIDE DEF l, batch
      <4>2. /\ append_entries(l, batch) \in Log /\ Len(l.entries) \in Nat
            /\ Len(append_entries(l, batch).entries) = Len(l.entries) + Len(batch)
            /\ \A i \in 1 .. Len(append_entries(l, batch).entries) :
                  append_entries(l, batch).entries[i]
                    = IF i <= Len(l.entries) THEN l.entries[i] ELSE batch[i - Len(l.entries)]
        BY <4>1, AppendEntriesProperties, ZenonT(30)
      <4>3. QED
        BY <4>1, <4>2, Zenon DEF l, batch
    <3>2. log'[n] = extended
      BY <1>1, <2>1
    <3> HIDE DEF extended
    <3>3. DOMAIN extended.entries = 1 .. Len(extended.entries)
      BY <3>1, LenProperties DEF Log
    <3> DEFINE last == Len(log[n].entries) + 1
    <3>4. last \in DOMAIN extended.entries /\ extended.entries[last] = entry
      <4>1. last \in 1 .. Len(extended.entries) /\ ~ (last <= Len(log[n].entries))
        BY <3>1
      <4>2. last - Len(log[n].entries) = 1
        BY <3>1
      <4>3. extended.entries[last] = <<entry>>[1]
        BY <3>1, <4>1, <4>2
      <4>4. QED
        BY <2>2, <3>3, <4>1, <4>3
    <3>5. QED
      BY <3>2, <3>4 DEF EntriesOf
  <2>4. ASSUME NEW request \in AppendEntriesRequest, request.entries = <<entry>>,
               request.term = current_term[n], request.src = n,
               request.leader_commit = commit_index[n], net' = Broadcast(net, n, request)
        PROVE  Arrivals
    <3>1. request \in Message /\ request.type = "AppendEntriesRequest"
      BY DEF Message, AppendEntriesRequest
    <3>2. IsLeader(n)
      BY <1>3 DEF accept_client_request
    <3>3. \A x \in DOMAIN request.entries : request.entries[x] = entry
      BY <2>4
    <3>4. Sends(n, request)
      BY <2>3, <2>4, <3>1, <3>2, <3>3 DEF Sends
    <3>5. QED
      BY <1>1, <2>4, <3>1, <3>4, BroadcastArrives
  <2>5. QED
    BY <1>2, <2>1, <2>4
<1>4. QED
  BY <1>2, <1>3 DEF handle_client_request, reject_client_request

LEMMA StepArrivals == TypeInv /\ [CrashNext]_vars => Arrivals
<1> SUFFICES ASSUME TypeInv, [CrashNext]_vars PROVE Arrivals
  OBVIOUS
<1>1. ASSUME NEW n \in Node, NodeStep(n) PROVE Arrivals
  <2>1. CASE handle_parse_timeout(n)
    BY <2>1, MessageArrivals DEF handle_parse_timeout
  <2>2. QED
    BY <1>1, <2>1, ElectionArrivals, HeartbeatArrivals, ReissueArrivals, ClientArrivals
       DEF NodeStep
<1>2. ASSUME NEW i \in Node, NEW j \in Node, Lose(i, j) PROVE Arrivals
  <2>1. PICK k \in DOMAIN net[i][j] : net' = Consume(net, i, j, k)
    BY <1>2 DEF Lose
  <2>2. net \in Links
    BY NetIsLinks DEF TypeInv
  <2>3. QED
    BY <2>1, <2>2, ConsumeCarries, NothingArrives
<1>3. CASE net' = net
  BY <1>3, NothingArrives
<1>4. QED
  BY <1>1, <1>2, <1>3 DEF CrashNext, Next, Restart, vars

\* A link carries what its node sends, and a node has no link to itself (it
\* hands nothing to its own pipeline).
LinkSources ==
    \A i, j \in Node : \A m \in Carries(net[i][j]) : i # j /\ m.src = i

LEMMA LinkSourcesInit == Init => LinkSources
  BY DEF Init, LinkSources, Carries

LEMMA LinkSourcesStep == TypeInv /\ LinkSources /\ [CrashNext]_vars => LinkSources'
  BY StepArrivals DEF LinkSources, Arrivals

=============================================================================
