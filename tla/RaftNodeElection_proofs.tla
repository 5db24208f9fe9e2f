---------------------- MODULE RaftNodeElection_proofs ----------------------
(***************************************************************************)
(* Proofs about the votes of RaftNode, as long as no process ends.         *)
(***************************************************************************)
EXTENDS RaftNode_proofs

\* A step moves the vote of one node at most: forwards in its term, never
\* from one candidate to another within a term, and a ballot is the vote held.
VoteFrame(n) ==
    /\ \A p \in Node \ {n} : current_term'[p] = current_term[p] /\ voted_for'[p] = voted_for[p]
    /\ current_term'[n] >= current_term[n]
    /\ current_term'[n] = current_term[n] /\ voted_for[n] # None
         => voted_for'[n] = voted_for[n]
    /\ \/ ballots' = ballots
       \/ ballots' = ballots \cup {[voter |-> n, term |-> current_term'[n],
                                    candidate |-> voted_for'[n]]}

\* Every ballot is of a term its voter has reached, and in the voter's present
\* term it is for the candidate the voter has recorded.
BallotsRecorded ==
    \A b \in ballots :
        /\ b.term <= current_term[b.voter]
        /\ b.term = current_term[b.voter] => voted_for[b.voter] = b.candidate

\* Inductive: what keeps a node from voting twice in a term is that the vote
\* it has recorded stands as long as the term does.
VoteInv == TypeInv /\ OneVotePerTerm /\ BallotsRecorded

LEMMA VoteUnchanged ==
    ASSUME TypeOK, NEW n \in Node, UNCHANGED <<current_term, voted_for, ballots>>
    PROVE  VoteFrame(n)
<1>1. current_term[n] \in Nat
  BY DEF TypeOK
<1>2. QED
  BY <1>1 DEF VoteFrame

\* The prologue of a handler: the vote is cleared by a higher term only.
LEMMA VoteCleared ==
    ASSUME TypeOK, NEW n \in Node, NEW t \in Nat, t >= current_term[n],
           handle_higher_term(n, t),
           voted_for' = [voted_for EXCEPT ![n] = VoteHeld(n, t)], ballots' = ballots
    PROVE  VoteFrame(n)
<1>1. /\ current_term \in [Node -> Nat] /\ voted_for \in [Node -> Node \cup {None}]
      /\ current_term' = [current_term EXCEPT ![n] = t]
  BY TermTaken DEF TypeOK
<1>2. t = current_term[n] => VoteHeld(n, t) = voted_for[n]
  BY <1>1 DEF VoteHeld
<1>3. QED
  BY <1>1, <1>2 DEF VoteFrame

LEMMA VoteMessage ==
    ASSUME TypeInv, NEW n \in Node, NEW src \in Node, NEW k \in DOMAIN net[src][n],
           handle_message(n, src, k)
    PROVE  VoteFrame(n)
<1> DEFINE m    == net[src][n][k]
           rest == Consume(net, src, n, k)
<1>1. m \in Message
  BY ConsumeCarried, NetIsLinks DEF TypeInv
<1>2. \/ discard_stale(n, m, rest)
      \/ handle_request_vote_request(n, m, rest)
      \/ vote_counted(n, m, rest)
      \/ vote_not_counted(n, m, rest)
      \/ handle_heartbeat(n, m, rest)
      \/ handle_append_mismatch(n, m, rest)
      \/ handle_append_match(n, m, rest)
      \/ handle_append_entries_response(n, m, rest)
      \/ append_response_higher_term(n, m, rest)
  BY DEF handle_message
<1> HIDE DEF m, rest
<1>3. /\ TypeOK /\ m.src \in Node /\ m.term \in Nat
      /\ current_term \in [Node -> Nat] /\ voted_for \in [Node -> Node \cup {None}]
  BY <1>1, MessageFields DEF TypeInv, TypeOK
<1>4. ASSUME ~Stale(n, m) PROVE m.term >= current_term[n]
  BY <1>3, <1>4 DEF Stale
<1>5. ASSUME ~Stale(n, m), handle_higher_term(n, m.term), ballots' = ballots,
             voted_for' = [voted_for EXCEPT ![n] = VoteHeld(n, m.term)]
      PROVE  VoteFrame(n)
  BY <1>3, <1>4, <1>5, VoteCleared
<1>6. CASE discard_stale(n, m, rest)
  BY <1>3, <1>6, VoteUnchanged DEF discard_stale, electionVars
<1>7. CASE handle_request_vote_request(n, m, rest)
  <2> DEFINE granted == VoteHeld(n, m.term) \in {None, m.src} /\ UpToDate(n, m)
  <2>1. /\ ~Stale(n, m) /\ handle_higher_term(n, m.term)
        /\ voted_for' = [voted_for EXCEPT ![n] =
                           IF granted THEN m.src ELSE VoteHeld(n, m.term)]
        /\ ballots' = IF granted
                      THEN ballots \cup {[voter |-> n, term |-> m.term,
                                          candidate |-> m.src]}
                      ELSE ballots
    BY <1>7 DEF handle_request_vote_request
  <2>2. CASE ~granted
    BY <1>5, <2>1, <2>2
  <2>3. CASE granted
    <3>1. /\ current_term' = [current_term EXCEPT ![n] = m.term]
          /\ voted_for' = [voted_for EXCEPT ![n] = m.src]
          /\ VoteHeld(n, m.term) \in {None, m.src} /\ m.term >= current_term[n]
      BY <1>3, <1>4, <2>1, <2>3, TermTaken
    <3>2. current_term'[n] = m.term /\ voted_for'[n] = m.src
      BY <1>3, <3>1
    <3>3. ballots' = ballots \cup {[voter |-> n, term |-> current_term'[n],
                                    candidate |-> voted_for'[n]]}
      BY <2>1, <2>3, <3>2
    <3>4. current_term'[n] = current_term[n] /\ voted_for[n] # None
            => voted_for'[n] = voted_for[n]
      BY <1>3, <3>1, <3>2 DEF VoteHeld
    <3>5. QED
      BY <1>3, <3>1, <3>2, <3>3, <3>4 DEF VoteFrame
  <2>4. QED
    BY <2>2, <2>3
<1>8. CASE vote_counted(n, m, rest)
  BY <1>3, <1>8, VoteUnchanged DEF vote_counted
<1>9. CASE vote_not_counted(n, m, rest)
  BY <1>5, <1>9 DEF vote_not_counted
<1>10. CASE handle_heartbeat(n, m, rest)
  BY <1>5, <1>10 DEF handle_heartbeat, append_prologue
<1>11. CASE handle_append_mismatch(n, m, rest)
  BY <1>5, <1>11 DEF handle_append_mismatch, append_prologue
<1>12. CASE handle_append_match(n, m, rest)
  BY <1>5, <1>12 DEF handle_append_match, append_prologue
<1>13. CASE handle_append_entries_response(n, m, rest)
  BY <1>3, <1>13, VoteUnchanged DEF handle_append_entries_response, electionVars
<1>14. CASE append_response_higher_term(n, m, rest)
  <2>1. ~Stale(n, m)
    BY <1>3, <1>14 DEF append_response_higher_term, Newer, Stale
  <2>2. QED
    BY <1>5, <1>14, <2>1 DEF append_response_higher_term
<1>15. QED
  BY <1>2, <1>6, <1>7, <1>8, <1>9, <1>10, <1>11, <1>12, <1>13, <1>14

LEMMA VoteElection ==
    ASSUME TypeInv, NEW n \in Node, handle_election_timeout(n)
    PROVE  VoteFrame(n)
<1>1. /\ TypeOK
      /\ current_term \in [Node -> Nat] /\ voted_for \in [Node -> Node \cup {None}]
  BY DEF TypeInv, TypeOK
<1>2. CASE start_election(n)
  <2>1. /\ current_term' = [current_term EXCEPT ![n] = current_term[n] + 1]
        /\ voted_for' = [voted_for EXCEPT ![n] = n]
        /\ ballots' = ballots \cup {[voter |-> n, term |-> current_term[n] + 1,
                                     candidate |-> n]}
    BY <1>2 DEF start_election
  <2>2. current_term'[n] = current_term[n] + 1 /\ voted_for'[n] = n
    BY <1>1, <2>1
  <2>3. current_term[n] + 1 > current_term[n]
    BY <1>1
  <2>4. QED
    BY <1>1, <2>1, <2>2, <2>3 DEF VoteFrame
<1>3. CASE UNCHANGED <<electionVars, net>>
  BY <1>1, <1>3, VoteUnchanged DEF electionVars
<1>4. QED
  BY <1>2, <1>3 DEF handle_election_timeout

LEMMA VoteStep ==
    ASSUME TypeInv, Next
    PROVE  \E n \in Node : VoteFrame(n)
<1>1. TypeOK
  BY DEF TypeInv
<1>2. ASSUME NEW n \in Node, NodeStep(n) PROVE VoteFrame(n)
  <2>1. CASE handle_election_timeout(n)
    BY <2>1, VoteElection
  <2>2. CASE handle_heartbeat_timeout(n)
    BY <1>1, <2>2, VoteUnchanged DEF handle_heartbeat_timeout, electionVars
  <2>3. CASE handle_reissue_timeout(n)
    BY <1>1, <2>3, VoteUnchanged DEF handle_reissue_timeout, electionVars
  <2>4. CASE handle_parse_timeout(n)
    BY <2>4, VoteMessage DEF handle_parse_timeout
  <2>5. CASE handle_client_request(n)
    BY <1>1, <2>5, VoteUnchanged
       DEF handle_client_request, reject_client_request, accept_client_request,
           electionVars
  <2>6. QED
    BY <1>2, <2>1, <2>2, <2>3, <2>4, <2>5 DEF NodeStep
<1>3. ASSUME NEW i \in Node, NEW j \in Node, Lose(i, j) PROVE VoteFrame(i)
  BY <1>1, <1>3, VoteUnchanged DEF Lose, electionVars
<1>4. QED
  BY <1>2, <1>3 DEF Next

LEMMA VoteInvKept ==
    ASSUME VoteInv, TypeOK', NEW n \in Node, VoteFrame(n)
    PROVE  OneVotePerTerm' /\ BallotsRecorded'
<1>1. /\ ballots \in SUBSET Ballot /\ current_term \in [Node -> Nat] /\ OneVotePerTerm
      /\ BallotsRecorded /\ None \notin Node /\ current_term' \in [Node -> Nat]
  BY NodeAssumption DEF VoteInv, TypeInv, TypeOK
<1>2. \A b \in ballots : b.voter \in Node /\ b.term \in Nat /\ b.candidate \in Node
  BY <1>1 DEF Ballot
<1> DEFINE new == [voter |-> n, term |-> current_term'[n], candidate |-> voted_for'[n]]
<1>3. ballots' \subseteq ballots \cup {new}
  BY DEF VoteFrame
<1>4. new.voter = n /\ new.term = current_term'[n] /\ new.candidate = voted_for'[n]
  OBVIOUS
<1> HIDE DEF new
\* What is on record of the earlier ballots of n.
<1>5. ASSUME NEW b \in ballots, b.voter = n
      PROVE  /\ b.term <= current_term'[n]
             /\ b.term = current_term'[n] => voted_for'[n] = b.candidate
  <2>1. /\ current_term[n] \in Nat /\ current_term'[n] \in Nat
        /\ current_term'[n] >= current_term[n]
        /\ b.term \in Nat /\ b.term <= current_term[n]
        /\ b.term = current_term[n] => voted_for[n] = b.candidate
    BY <1>1, <1>2, <1>5 DEF VoteFrame, BallotsRecorded
  <2>2. CASE current_term'[n] = current_term[n]
    BY <1>1, <1>2, <2>1, <2>2 DEF VoteFrame
  <2>3. CASE current_term'[n] # current_term[n]
    BY <2>1, <2>3
  <2>4. QED
    BY <2>2, <2>3
<1>6. OneVotePerTerm'
  BY <1>1, <1>3, <1>4, <1>5 DEF OneVotePerTerm
<1>7. BallotsRecorded'
  <2>1. ASSUME NEW b \in ballots, b.voter # n
        PROVE  /\ b.term <= current_term'[b.voter]
               /\ b.term = current_term'[b.voter] => voted_for'[b.voter] = b.candidate
    BY <1>1, <1>2, <2>1 DEF VoteFrame, BallotsRecorded
  <2>2. new.term <= current_term'[new.voter]
    BY <1>1, <1>4
  <2>3. QED
    BY <1>3, <1>4, <1>5, <2>1, <2>2 DEF BallotsRecorded
<1>8. QED
  BY <1>6, <1>7

LEMMA VoteInvStep == VoteInv /\ [Next]_vars => VoteInv'
<1> SUFFICES ASSUME VoteInv, [Next]_vars PROVE VoteInv'
  OBVIOUS
<1>1. TypeInv /\ TypeInv'
  BY TypeInvStep DEF VoteInv, CrashNext
<1>2. CASE Next
  BY <1>1, <1>2, VoteStep, VoteInvKept DEF VoteInv, TypeInv
<1>3. CASE UNCHANGED vars
  BY <1>1, <1>3 DEF VoteInv, OneVotePerTerm, BallotsRecorded, vars, electionVars
<1>4. QED
  BY <1>2, <1>3

\* No node votes for two candidates in one term, as long as no process ends,
\* whatever messages are lost or overtake one another.
THEOREM OneVote == Spec => []OneVotePerTerm
<1>1. Init => OneVotePerTerm /\ BallotsRecorded
  BY DEF Init, OneVotePerTerm, BallotsRecorded
<1>2. Init => VoteInv
  BY <1>1, TypeInvInit DEF VoteInv
<1>3. VoteInv => OneVotePerTerm
  BY DEF VoteInv
<1>4. QED
  BY <1>2, <1>3, VoteInvStep, PTL DEF Spec

-----------------------------------------------------------------------------
(* What is on the links of an election                                     *)

IsGrant(m) == m.type = "RequestVoteResponse" /\ m.granted

IsVoting(m) == m.type = "RequestVoteRequest" \/ IsGrant(m)

\* Two messages of an election that mean the same.
SameVote(a, b) == IsVoting(a) /\ IsVoting(b) /\ a.type = b.type /\ a.term = b.term

\* No link has two requests for votes, or two votes, of one term.
VotesOnce(link) == \A k, l \in DOMAIN link : SameVote(link[k], link[l]) => k = l

LEMMA RemoveKeepsOnce ==
    ASSUME NEW link \in Seq(Message), VotesOnce(link), NEW k \in DOMAIN link
    PROVE  /\ VotesOnce(RemoveAt(link, k))
           /\ \A m \in Carries(RemoveAt(link, k)) : ~SameVote(m, link[k])
<1> DEFINE rest == RemoveAt(link, k)
           at(i) == IF i < k THEN i ELSE i + 1
<1>1. /\ Len(link) \in Nat /\ DOMAIN link = 1 .. Len(link)
      /\ DOMAIN rest = 1 .. (Len(link) - 1)
      /\ \A i \in 1 .. (Len(link) - 1) : rest[i] = link[at(i)]
  BY RemoveAtElements
<1> HIDE DEF rest
<1>2. \A i \in DOMAIN rest : at(i) \in DOMAIN link /\ at(i) # k
  BY <1>1
<1>3. \A i, j \in DOMAIN rest : at(i) = at(j) => i = j
  BY <1>1
<1>4. \A i \in DOMAIN rest : rest[i] = link[at(i)]
  BY <1>1
<1> HIDE DEF at
<1>5. VotesOnce(rest)
  BY <1>2, <1>3, <1>4 DEF VotesOnce
<1>6. \A m \in Carries(rest) : ~SameVote(m, link[k])
  BY <1>2, <1>4 DEF VotesOnce, Carries
<1>7. QED
  BY <1>5, <1>6 DEF rest

LEMMA AppendKeepsOnce ==
    ASSUME NEW link \in Seq(Message), VotesOnce(link), NEW m \in Message,
           \A x \in Carries(link) : ~SameVote(x, m)
    PROVE  VotesOnce(Append(link, m))
<1> DEFINE longer == Append(link, m)
<1>1. /\ Len(link) \in Nat /\ DOMAIN link = 1 .. Len(link)
      /\ DOMAIN longer = 1 .. (Len(link) + 1)
      /\ \A k \in 1 .. (Len(link) + 1) :
            longer[k] = IF k <= Len(link) THEN link[k] ELSE m
  BY LenProperties
<1> HIDE DEF longer
<1>2. \A k \in DOMAIN longer : \/ k \in DOMAIN link /\ longer[k] = link[k]
                               \/ k = Len(link) + 1 /\ longer[k] = m
  BY <1>1
<1>3. \A k \in DOMAIN link : ~SameVote(link[k], m) /\ ~SameVote(m, link[k])
  BY DEF Carries, SameVote
<1>4. VotesOnce(longer)
  BY <1>2, <1>3 DEF VotesOnce
<1>5. QED
  BY <1>4 DEF longer

\* Links b carry no more of an election than links a.
Quieter(a, b) ==
    \A i, j \in Node :
        /\ VotesOnce(a[i][j]) => VotesOnce(b[i][j])
        /\ \A m \in Carries(b[i][j]) : IsVoting(m) => m \in Carries(a[i][j])

LEMMA ConsumeQuiet ==
    ASSUME NEW links \in Links, NEW i \in Node, NEW j \in Node,
           NEW k \in DOMAIN links[i][j]
    PROVE  Quieter(links, Consume(links, i, j, k))
<1>1. links[i][j] \in Seq(Message)
  BY DEF Links
<1>2. /\ VotesOnce(links[i][j]) => VotesOnce(RemoveAt(links[i][j], k))
      /\ Carries(RemoveAt(links[i][j], k)) \subseteq Carries(links[i][j])
  BY <1>1, RemoveKeepsOnce, RemoveAtCarries
<1>3. \A a, b \in Node : Consume(links, i, j, k)[a][b] =
                           IF a = i /\ b = j THEN RemoveAt(links[i][j], k) ELSE links[a][b]
  BY DEF Consume, Links
<1>4. QED
  BY <1>2, <1>3 DEF Quieter

LEMMA AppendQuiet ==
    ASSUME NEW link \in Seq(Message), NEW m \in Message, ~IsVoting(m)
    PROVE  /\ VotesOnce(link) => VotesOnce(Append(link, m))
           /\ \A x \in Carries(Append(link, m)) : IsVoting(x) => x \in Carries(link)
<1>1. \A x \in Carries(link) : ~SameVote(x, m)
  BY DEF SameVote
<1>2. QED
  BY <1>1, AppendKeepsOnce, AppendCarries

LEMMA BroadcastQuiet ==
    ASSUME NEW a \in Links, NEW b \in Links, Quieter(a, b), NEW n \in Node,
           NEW m \in Message, ~IsVoting(m)
    PROVE  Quieter(a, Broadcast(b, n, m))
<1>1. \A i, j \in Node : Broadcast(b, n, m)[i][j] =
                           IF i = n /\ j # n THEN Append(b[i][j], m) ELSE b[i][j]
  BY DEF Broadcast, Links
<1>2. \A i, j \in Node : b[i][j] \in Seq(Message)
  BY DEF Links
<1>3. \A i, j \in Node :
         /\ VotesOnce(b[i][j]) => VotesOnce(Append(b[i][j], m))
         /\ \A x \in Carries(Append(b[i][j], m)) : IsVoting(x) => x \in Carries(b[i][j])
  BY <1>2, AppendQuiet
<1>4. QED
  BY <1>1, <1>3 DEF Quieter

-----------------------------------------------------------------------------
(* How the votes a node counts relate to those that were given             *)

Vote(v, t, c) == [voter |-> v, term |-> t, candidate |-> c]

LinksOnce == \A i, j \in Node : VotesOnce(net[i][j])

\* A request for a vote in flight is its candidate's, which voted for itself,
\* and the receiver has not yet given that vote.
RequestsOfCandidates ==
    \A i, j \in Node : \A m \in Carries(net[i][j]) :
        m.type = "RequestVoteRequest" =>
            Vote(i, m.term, i) \in ballots /\ Vote(j, m.term, i) \notin ballots

\* A vote in flight was given, and not to its sender.
GrantsOfVoters ==
    \A i, j \in Node : \A m \in Carries(net[i][j]) :
        IsGrant(m) =>
            \E b \in ballots : b.voter = i /\ b.term = m.term /\ b.candidate # i

\* Whoever was voted for voted for itself.
CandidatesVoted == \A b \in ballots : Vote(b.candidate, b.term, b.candidate) \in ballots

FollowersDidNotStand ==
    \A n \in Node : role[n] = "Follower" => Vote(n, current_term[n], n) \notin ballots

\* No vote of term t is under way on a link.
NoGrant(link, t) == \A m \in Carries(link) : ~(IsGrant(m) /\ m.term = t)

\* The voters of n's term n may have counted: itself if it stood, and those
\* that voted for another than themselves, to which n may belong or not, and
\* whose reply is no longer on its way to n.
Counted(n) ==
    {v \in Node : /\ \E b \in ballots : /\ b.voter = v /\ b.term = current_term[n]
                                        /\ b.candidate = v <=> v = n
                  /\ NoGrant(net[v][n], current_term[n])}

VotesCounted == \A n \in Node : votes[n] <= Cardinality(Counted(n))

\* Inductive: that no voter is counted twice rests on every voter replying
\* once (LinksOnce, RequestsOfCandidates), whatever overtakes it on the way.
TurnoutInv ==
    /\ VoteInv /\ LinkSources /\ LinksOnce
    /\ RequestsOfCandidates /\ GrantsOfVoters /\ CandidatesVoted
    /\ FollowersDidNotStand /\ VotesCounted /\ LeaderHasTurnout

\* What a step does to the standing of node p if it neither stands for
\* election nor counts a vote.
Abides(p) ==
    \/ UNCHANGED <<current_term[p], votes[p], role[p]>>
    \/ current_term'[p] > current_term[p] /\ votes'[p] = 0 /\ role'[p] = "Follower"

\* The four kinds of steps of an election.
Idles == /\ \A p \in Node : Abides(p)
         /\ ballots' = ballots /\ Quieter(net, net')

Stands(n) ==
    /\ \A p \in Node \ {n} : Abides(p)
    /\ current_term'[n] = current_term[n] + 1 /\ votes'[n] = 1 /\ role'[n] = "Candidate"
    /\ ballots' = ballots \cup {Vote(n, current_term'[n], n)}
    /\ \E m \in RequestVoteRequest : /\ m.src = n /\ m.term = current_term'[n]
                                     /\ net' = Broadcast(net, n, m)

Grants(n, src, k) ==
    LET m == net[src][n][k]
    IN  /\ k \in DOMAIN net[src][n] /\ m.type = "RequestVoteRequest"
        /\ \A p \in Node : Abides(p)
        /\ current_term'[n] = m.term
        /\ VoteHeld(n, m.term) \in {None, m.src}
        /\ ballots' = ballots \cup {Vote(n, m.term, m.src)}
        /\ \E g \in RequestVoteResponse :
              /\ g.src = n /\ g.term = m.term
              /\ net' = Broadcast(Consume(net, src, n, k), n, g)

Counts(n, src, k) ==
    LET m == net[src][n][k]
    IN  /\ k \in DOMAIN net[src][n] /\ IsGrant(m) /\ m.term = current_term[n]
        /\ \A p \in Node \ {n} : Abides(p)
        /\ UNCHANGED current_term[n] /\ votes'[n] = votes[n] + 1
        /\ \/ UNCHANGED role[n]
           \/ role'[n] = "Leader" /\ votes'[n] >= Majority
        /\ ballots' = ballots
        /\ net' = Consume(net, src, n, k)

ElectionStep ==
    \/ Idles
    \/ \E n \in Node : Stands(n)
    \/ \E n, src \in Node : \E k \in DOMAIN net[src][n] : Grants(n, src, k) \/ Counts(n, src, k)

LEMMA SameStanding ==
    ASSUME UNCHANGED <<current_term, votes, role>>
    PROVE  \A p \in Node : Abides(p)
  BY DEF Abides

LEMMA HigherTermStanding ==
    ASSUME TypeOK, NEW n \in Node, NEW t \in Nat, t >= current_term[n],
           handle_higher_term(n, t)
    PROVE  \A p \in Node : Abides(p)
<1>1. /\ current_term \in [Node -> Nat] /\ role \in [Node -> Role] /\ votes \in [Node -> Nat]
  BY DEF TypeOK
<1>2. /\ current_term' = [current_term EXCEPT ![n] = t]
      /\ role'  = [role EXCEPT ![n] = IF t > current_term[n] THEN "Follower" ELSE @]
      /\ votes' = [votes EXCEPT ![n] = IF t > current_term[n] THEN 0 ELSE @]
  BY TermTaken DEF handle_higher_term
<1>3. \A p \in Node : p # n => UNCHANGED <<current_term[p], votes[p], role[p]>>
  BY <1>1, <1>2
<1>4. CASE t > current_term[n]
  <2>1. current_term'[n] = t /\ votes'[n] = 0 /\ role'[n] = "Follower"
    BY <1>1, <1>2, <1>4
  <2>2. QED
    BY <1>3, <1>4, <2>1 DEF Abides
<1>5. CASE ~(t > current_term[n])
  <2>1. UNCHANGED <<current_term[n], votes[n], role[n]>>
    BY <1>1, <1>2, <1>5
  <2>2. QED
    BY <1>3, <2>1 DEF Abides
<1>6. QED
  BY <1>4, <1>5

LEMMA QuietReply ==
    ASSUME NEW n \in Node, NEW src \in Node, NEW k \in DOMAIN net[src][n], net \in Links,
           NEW reply \in Message, ~IsVoting(reply),
           net' = Broadcast(Consume(net, src, n, k), n, reply)
    PROVE  Quieter(net, net')
<1>1. Consume(net, src, n, k) \in Links /\ Quieter(net, Consume(net, src, n, k))
  BY ConsumeCarried, ConsumeQuiet
<1>2. QED
  BY <1>1, BroadcastQuiet

LEMMA MessageElection ==
    ASSUME TypeInv, NEW n \in Node, NEW src \in Node, NEW k \in DOMAIN net[src][n],
           handle_message(n, src, k)
    PROVE  ElectionStep
<1> DEFINE m    == net[src][n][k]
           rest == Consume(net, src, n, k)
<1>1. m \in Message /\ TypeOK /\ net \in Links /\ rest \in Links /\ Quieter(net, rest)
  BY ConsumeCarried, ConsumeQuiet, NetIsLinks DEF TypeInv
<1>2. \/ discard_stale(n, m, rest)
      \/ handle_request_vote_request(n, m, rest)
      \/ vote_counted(n, m, rest)
      \/ vote_not_counted(n, m, rest)
      \/ handle_heartbeat(n, m, rest)
      \/ handle_append_mismatch(n, m, rest)
      \/ handle_append_match(n, m, rest)
      \/ handle_append_entries_response(n, m, rest)
      \/ append_response_higher_term(n, m, rest)
  BY DEF handle_message
<1>3. /\ m.src \in Node /\ m.term \in Nat /\ log[n] \in Log
      /\ current_term \in [Node -> Nat] /\ votes \in [Node -> Nat] /\ role \in [Node -> Role]
  BY <1>1, MessageFields DEF TypeOK
<1>4. ASSUME ~Stale(n, m), handle_higher_term(n, m.term)
      PROVE  \A p \in Node : Abides(p)
  BY <1>1, <1>3, <1>4, HigherTermStanding DEF Stale
<1>5. ASSUME NEW reply \in Message, ~IsVoting(reply), net' = Broadcast(rest, n, reply)
      PROVE  Quieter(net, net')
  BY <1>1, <1>5, QuietReply
<1>6. CASE discard_stale(n, m, rest) \/ handle_append_entries_response(n, m, rest)
  BY <1>1, <1>6, SameStanding DEF discard_stale, handle_append_entries_response,
                                   electionVars, ElectionStep, Idles
<1>7. CASE \/ vote_not_counted(n, m, rest) \/ handle_heartbeat(n, m, rest)
           \/ append_response_higher_term(n, m, rest)
  <2>1. /\ handle_higher_term(n, m.term) /\ ~Stale(n, m)
        /\ ballots' = ballots /\ net' = rest
    BY <1>3, <1>7 DEF vote_not_counted, handle_heartbeat, append_response_higher_term,
                      append_prologue, Newer, Stale
  <2>2. QED
    BY <1>1, <1>4, <2>1 DEF ElectionStep, Idles
<1>8. CASE handle_request_vote_request(n, m, rest)
  <2> DEFINE granted == VoteHeld(n, m.term) \in {None, m.src} /\ UpToDate(n, m)
             reply   == [type |-> "RequestVoteResponse", src |-> n,
                         term |-> m.term, granted |-> granted]
  <2>1. /\ ~Stale(n, m) /\ handle_higher_term(n, m.term) /\ net' = Broadcast(rest, n, reply)
        /\ m.type = "RequestVoteRequest"
        /\ ballots' = IF granted THEN ballots \cup {Vote(n, m.term, m.src)} ELSE ballots
    BY <1>8 DEF handle_request_vote_request, Vote
  <2>2. /\ reply \in RequestVoteResponse /\ reply \in Message
        /\ reply.src = n /\ reply.term = m.term /\ reply.granted = granted
        /\ reply.type = "RequestVoteResponse"
    BY <1>3, SMTT(20) DEF Message, RequestVoteResponse
  <2>3. current_term'[n] = m.term
    <3> HIDE DEF m, rest, granted, reply
    <3>1. m.term >= current_term[n]
      BY <1>3, <2>1 DEF Stale
    <3>2. current_term' = [current_term EXCEPT ![n] = m.term]
      BY <1>1, <1>3, <2>1, <3>1, TermTaken
    <3>3. QED
      BY <1>3, <3>2
  <2>4. CASE granted
    <3> DEFINE answer == reply
    <3>1. VoteHeld(n, m.term) \in {None, m.src} /\ ballots' = ballots \cup {Vote(n, m.term, m.src)}
      BY <2>1, <2>4
    <3> HIDE DEF reply, granted
    <3>2. Grants(n, src, k)
      BY <1>4, <2>1, <2>2, <2>3, <3>1 DEF Grants
    <3>3. QED
      BY <3>2 DEF ElectionStep
  <2>5. CASE ~granted
    <3>1. ~IsVoting(reply) /\ ballots' = ballots
      BY <2>1, <2>2, <2>5 DEF IsVoting, IsGrant
    <3> HIDE DEF reply, granted
    <3>2. Quieter(net, net')
      BY <1>5, <2>1, <2>2, <3>1
    <3>3. QED
      BY <1>4, <2>1, <3>1, <3>2, SMTT(20) DEF ElectionStep, Idles
  <2>6. QED
    BY <2>4, <2>5
<1>9. CASE vote_counted(n, m, rest)
  <2>1. /\ IsGrant(m) /\ net' = rest /\ current_term' = current_term /\ ballots' = ballots
        /\ votes' = [votes EXCEPT ![n] = votes[n] + 1]
        /\ \/ role' = role
           \/ votes[n] + 1 >= Majority /\ role' = [role EXCEPT ![n] = "Leader"]
        /\ ~Stale(n, m) /\ ~Newer(n, m)
    BY <1>9 DEF vote_counted, IsGrant, become_leader
  <2>2. m.term = current_term[n]
    BY <1>3, <2>1 DEF Stale, Newer
  <2>3. \A p \in Node \ {n} : Abides(p)
    BY <1>3, <2>1 DEF Abides
  <2>4. /\ votes'[n] = votes[n] + 1
        /\ \/ UNCHANGED role[n]
           \/ role'[n] = "Leader" /\ votes'[n] >= Majority
    BY <1>3, <2>1
  <2>5. Counts(n, src, k)
    BY <2>1, <2>2, <2>3, <2>4 DEF Counts
  <2>6. QED
    BY <2>5 DEF ElectionStep
<1>10. CASE handle_append_mismatch(n, m, rest)
  <2> DEFINE reply == [type |-> "AppendEntriesResponse", src |-> n, term |-> m.term,
                       success |-> FALSE, conflict_index |-> ConflictIndex(m),
                       last_log_index |-> log[n].last_log_index]
  <2>1. m.prev_log_index \in Nat /\ log[n].last_log_index \in Nat
    BY <1>1, <1>3, <1>10, MessageFields DEF handle_append_mismatch, Log
  <2>2. reply \in Message /\ ~IsVoting(reply)
    BY <1>3, <2>1 DEF Message, AppendEntriesResponse, ConflictIndex, IsVoting, IsGrant
  <2>3. /\ net' = Broadcast(rest, n, reply) /\ ballots' = ballots
        /\ handle_higher_term(n, m.term) /\ ~Stale(n, m)
    BY <1>10 DEF handle_append_mismatch, append_prologue
  <2> HIDE DEF reply
  <2>4. QED
    BY <1>4, <1>5, <2>2, <2>3 DEF ElectionStep, Idles
<1>11. CASE handle_append_match(n, m, rest)
  <2> DEFINE extended == append_entries(log[n], m.entries)
             reply    == [type |-> "AppendEntriesResponse", src |-> n, term |-> m.term,
                          success |-> TRUE, conflict_index |-> 0,
                          last_log_index |-> extended.last_log_index]
  <2>1. m.entries \in Seq(Entry)
    BY <1>1, <1>11, MessageFields DEF handle_append_match
  <2>2. extended.last_log_index \in Nat
    BY <1>3, <2>1, AppendEntriesProperties DEF Log
  <2>3. /\ net' = Broadcast(rest, n, reply) /\ ballots' = ballots
        /\ handle_higher_term(n, m.term) /\ ~Stale(n, m)
    BY <1>11 DEF handle_append_match, append_prologue
  <2> HIDE DEF extended
  <2>4. reply \in Message /\ ~IsVoting(reply)
    BY <1>3, <2>2 DEF Message, AppendEntriesResponse, IsVoting, IsGrant
  <2> HIDE DEF reply
  <2>5. QED
    BY <1>4, <1>5, <2>3, <2>4 DEF ElectionStep, Idles
<1>12. QED
  BY <1>2, <1>6, <1>7, <1>8, <1>9, <1>10, <1>11

LEMMA TimerElection ==
    ASSUME TypeInv, NEW n \in Node, handle_election_timeout(n)
    PROVE  ElectionStep
<1>1. /\ net \in Links /\ log[n] \in Log
      /\ current_term \in [Node -> Nat] /\ votes \in [Node -> Nat] /\ role \in [Node -> Role]
  BY NetIsLinks DEF TypeInv, TypeOK
<1>2. CASE start_election(n)
  <2> DEFINE request == [type |-> "RequestVoteRequest", src |-> n,
                         term |-> current_term[n] + 1,
                         last_log_index |-> log[n].last_log_index,
                         last_log_term  |-> log[n].last_log_term]
  <2>1. /\ current_term' = [current_term EXCEPT ![n] = current_term[n] + 1]
        /\ role' = [role EXCEPT ![n] = "Candidate"]
        /\ votes' = [votes EXCEPT ![n] = 1]
        /\ ballots' = ballots \cup {Vote(n, current_term[n] + 1, n)}
        /\ net' = Broadcast(net, n, request)
    BY <1>2 DEF start_election, Vote
  <2>2. /\ request \in RequestVoteRequest /\ request.src = n
        /\ request.term = current_term[n] + 1
    BY <1>1 DEF RequestVoteRequest, Log
  <2> HIDE DEF request
  <2>3. /\ current_term'[n] = current_term[n] + 1 /\ votes'[n] = 1
        /\ role'[n] = "Candidate"
        /\ \A p \in Node \ {n} : Abides(p)
    BY <1>1, <2>1 DEF Abides
  <2>4. Stands(n)
    BY <2>1, <2>2, <2>3 DEF Stands
  <2>5. QED
    BY <2>4 DEF ElectionStep
<1>3. CASE UNCHANGED <<electionVars, net>>
  BY <1>3, SameStanding DEF electionVars, ElectionStep, Idles, Quieter
<1>4. QED
  BY <1>2, <1>3 DEF handle_election_timeout

LEMMA StepIsElectionStep == TypeInv /\ [Next]_vars => ElectionStep
<1> SUFFICES ASSUME TypeInv, [Next]_vars PROVE ElectionStep
  OBVIOUS
<1>1. TypeOK /\ net \in Links
  BY NetIsLinks DEF TypeInv
<1>2. ASSUME UNCHANGED electionVars, Quieter(net, net') PROVE ElectionStep
  BY <1>2, SameStanding DEF electionVars, ElectionStep, Idles
<1>3. ASSUME NEW m \in Message, ~IsVoting(m), NEW n \in Node, net' = Broadcast(net, n, m)
      PROVE  Quieter(net, net')
  BY <1>1, <1>3, BroadcastQuiet DEF Quieter
<1>4. Quieter(net, net)
  BY DEF Quieter
<1>5. ASSUME NEW n \in Node, handle_heartbeat_timeout(n) PROVE ElectionStep
  <2>1. current_term[n] \in Nat /\ commit_index'[n] \in Nat
    BY <1>1, <1>5, TypeInvHeartbeat DEF TypeInv, TypeOK
  <2> DEFINE message == heartbeat(n, commit_index'[n])
  <2>2. message \in Message /\ ~IsVoting(message)
    BY <2>1 DEF Message, Heartbeat, heartbeat, IsVoting, IsGrant
  <2>3. net' = Broadcast(net, n, message) /\ UNCHANGED electionVars
    BY <1>5 DEF handle_heartbeat_timeout
  <2> HIDE DEF message
  <2>4. QED
    BY <1>2, <1>3, <2>2, <2>3
<1>6. ASSUME NEW n \in Node, handle_reissue_timeout(n) PROVE ElectionStep
  <2>1. IsLeader(n) /\ UNCHANGED electionVars
    BY <1>6 DEF handle_reissue_timeout
  <2>2. \A p \in Node : /\ net[n][p] \in Seq(Message) /\ ReissueRequest(n, p) \in Message
                        /\ ~IsVoting(ReissueRequest(n, p))
    <3>1. \A p \in Node : ReissueRequest(n, p) \in Message
      BY <2>1, ReissueRequestType
    <3>2. \A p \in Node : ~IsVoting(ReissueRequest(n, p))
      BY DEF ReissueRequest, IsVoting, IsGrant
    <3>3. QED
      BY <1>1, <3>1, <3>2 DEF Links
  <2>3. net' = [net EXCEPT ![n] =
                  [p \in Node |-> IF p \in Behind(n)
                                  THEN Append(net[n][p], ReissueRequest(n, p))
                                  ELSE net[n][p]]]
    BY <1>6 DEF handle_reissue_timeout
  <2>4. \A i, j \in Node : \/ net'[i][j] = net[i][j]
                           \/ i = n /\ net'[i][j] = Append(net[n][j], ReissueRequest(n, j))
    BY <1>1, <2>3 DEF Links
  <2>5. \A p \in Node :
           LET longer == Append(net[n][p], ReissueRequest(n, p))
           IN  /\ VotesOnce(net[n][p]) => VotesOnce(longer)
               /\ \A x \in Carries(longer) : IsVoting(x) => x \in Carries(net[n][p])
    BY <2>2, AppendQuiet
  <2>6. Quieter(net, net')
    BY <2>4, <2>5 DEF Quieter
  <2>7. QED
    BY <1>2, <2>1, <2>6
<1>7. ASSUME NEW n \in Node, accept_client_request(n) PROVE ElectionStep
  <2> DEFINE entry == [term |-> current_term[n], index |-> log[n].last_log_index + 1,
                       request_id |-> next_request]
  <2>1. \/ net' = net
        \/ \E request \in AppendEntriesRequest : net' = Broadcast(net, n, request)
    BY <1>7, AcceptedEntry
  <2>2. ASSUME NEW request \in AppendEntriesRequest
        PROVE  request \in Message /\ ~IsVoting(request)
    BY DEF Message, AppendEntriesRequest, IsVoting, IsGrant
  <2>3. Quieter(net, net')
    BY <1>3, <1>4, <2>1, <2>2
  <2>4. UNCHANGED electionVars
    BY <1>7 DEF accept_client_request
  <2>5. QED
    BY <1>2, <2>3, <2>4
<1>8. ASSUME NEW n \in Node, NodeStep(n) PROVE ElectionStep
  <2>1. CASE handle_parse_timeout(n)
    BY <2>1, MessageElection DEF handle_parse_timeout
  <2>2. CASE reject_client_request(n)
    BY <1>2, <1>4, <2>2 DEF reject_client_request
  <2>3. QED
    BY <1>5, <1>6, <1>7, <1>8, <2>1, <2>2, TimerElection
       DEF NodeStep, handle_client_request
<1>9. ASSUME NEW i \in Node, NEW j \in Node, Lose(i, j) PROVE ElectionStep
  <2>1. PICK k \in DOMAIN net[i][j] : net' = Consume(net, i, j, k)
    BY <1>9 DEF Lose
  <2>2. UNCHANGED electionVars
    BY <1>9 DEF Lose
  <2>3. QED
    BY <1>1, <1>2, <2>1, <2>2, ConsumeQuiet
<1>10. CASE UNCHANGED vars
  BY <1>2, <1>4, <1>10 DEF vars
<1>11. QED
  BY <1>8, <1>9, <1>10 DEF Next

LEMMA VotersAreNodes == TypeOK => \A t : Voters(t) \subseteq Node
<1> SUFFICES ASSUME TypeOK, NEW t PROVE Voters(t) \subseteq Node
  OBVIOUS
<1>1. \A b \in ballots : b.voter \in Node
  BY DEF TypeOK, Ballot
<1>2. QED
  BY <1>1 DEF Voters

LEMMA VotersAreNodesNext == TypeOK' => \A t : Voters(t)' \subseteq Node
<1> SUFFICES ASSUME TypeOK', NEW t PROVE Voters(t)' \subseteq Node
  OBVIOUS
<1>1. \A b \in ballots' : b.voter \in Node
  BY DEF TypeOK, Ballot
<1>2. QED
  BY <1>1 DEF Voters

LEMMA CountedFinite ==
    ASSUME TypeOK, NEW n \in Node
    PROVE  /\ IsFiniteSet(Counted(n)) /\ Cardinality(Counted(n)) \in Nat
           /\ Counted(n) \subseteq Voters(current_term[n])
           /\ IsFiniteSet(Voters(current_term[n]))
           /\ Cardinality(Voters(current_term[n])) \in Nat
           /\ Cardinality(Counted(n)) <= Cardinality(Voters(current_term[n]))
<1>1. Counted(n) \subseteq Voters(current_term[n])
  BY DEF Counted, Voters
<1>2. Voters(current_term[n]) \subseteq Node
  BY VotersAreNodes
<1>3. IsFiniteSet(Voters(current_term[n]))
  BY <1>2, NodeAssumption, FS_Subset
<1>4. QED
  BY <1>1, <1>3, FS_Subset, FS_CardinalityType

\* As long as the term lasts, a voter counted stays counted if none of its
\* votes of that term is sent anew.
LEMMA CountedKept ==
    ASSUME TypeOK, TypeOK', NEW n \in Node, current_term'[n] = current_term[n],
           ballots \subseteq ballots',
           \A v \in Counted(n) : NoGrant(net'[v][n], current_term[n])
    PROVE  /\ Counted(n) \subseteq Counted(n)'
           /\ Cardinality(Counted(n)) <= Cardinality(Counted(n)')
<1>1. Counted(n) \subseteq Counted(n)'
  BY DEF Counted
<1>2. IsFiniteSet(Counted(n)')
  <2>1. Counted(n)' \subseteq Node
    BY DEF Counted
  <2>2. QED
    BY <2>1, NodeAssumption, FS_Subset
<1>3. QED
  BY <1>1, <1>2, FS_Subset

LEMMA TurnoutKept ==
    ASSUME TypeOK', NEW n \in Node, current_term'[n] = current_term[n],
           ballots \subseteq ballots'
    PROVE  Cardinality(Voters(current_term[n])) <= Cardinality(Voters(current_term[n])')
<1>1. Voters(current_term[n]) \subseteq Voters(current_term[n])'
  BY DEF Voters
<1>2. Voters(current_term[n])' \subseteq Node
  BY VotersAreNodesNext
<1>3. IsFiniteSet(Voters(current_term[n])')
  BY <1>2, NodeAssumption, FS_Subset
<1>4. QED
  BY <1>1, <1>3, FS_Subset

\* What a node that abides keeps of the invariant.
LEMMA AbidesKeeps ==
    ASSUME TurnoutInv, TypeOK', NEW p \in Node, Abides(p), ballots \subseteq ballots',
           \A b \in ballots' : b \in ballots \/ b # Vote(p, b.term, p),
           \A v \in Counted(p) : NoGrant(net'[v][p], current_term[p])
    PROVE  /\ role'[p] = "Follower" => Vote(p, current_term'[p], p) \notin ballots'
           /\ votes'[p] <= Cardinality(Counted(p)')
           /\ role'[p] = "Leader" =>
                2 * Cardinality(Voters(current_term[p])') > peer_count
<1>1. /\ TypeOK /\ current_term[p] \in Nat /\ votes[p] \in Nat /\ VoteInv
      /\ Cardinality(Counted(p)') \in Nat /\ Cardinality(Voters(current_term[p])') \in Nat
      /\ Cardinality(Counted(p)) \in Nat /\ Cardinality(Voters(current_term[p])) \in Nat
      /\ peer_count \in Nat
  <2>1. TypeOK /\ VoteInv
    BY DEF TurnoutInv, VoteInv, TypeInv
  <2>2. current_term[p] \in Nat /\ votes[p] \in Nat
    BY <2>1 DEF TypeOK
  <2>3. /\ Cardinality(Counted(p)) \in Nat /\ Cardinality(Voters(current_term[p])) \in Nat
        /\ peer_count \in Nat
    BY <2>1, CountedFinite, NodeAssumption, FS_CardinalityType DEF peer_count
  <2>4. Counted(p)' \subseteq Node /\ Voters(current_term[p])' \subseteq Node
    BY VotersAreNodesNext DEF Counted
  <2>5. Cardinality(Counted(p)') \in Nat /\ Cardinality(Voters(current_term[p])') \in Nat
    BY <2>4, NodeAssumption, FS_Subset, FS_CardinalityType
  <2>6. QED
    BY <2>1, <2>2, <2>3, <2>5
<1>2. Vote(p, current_term'[p], p) \in ballots'
        => Vote(p, current_term'[p], p) \in ballots
  BY DEF Vote
<1>3. CASE UNCHANGED <<current_term[p], votes[p], role[p]>>
  <2>1. Cardinality(Counted(p)) <= Cardinality(Counted(p)')
    BY <1>1, <1>3, CountedKept
  <2>2. Cardinality(Voters(current_term[p])) <= Cardinality(Voters(current_term[p])')
    BY <1>3, TurnoutKept
  <2>3. votes'[p] <= Cardinality(Counted(p)')
    BY <1>1, <1>3, <2>1 DEF TurnoutInv, VotesCounted
  <2>4. role'[p] = "Leader" => 2 * Cardinality(Voters(current_term[p])') > peer_count
    <3>1. role'[p] = "Leader" => 2 * Cardinality(Voters(current_term[p])) > peer_count
      BY <1>3 DEF TurnoutInv, LeaderHasTurnout
    <3>2. QED
      BY <1>1, <2>2, <3>1
  <2>5. role'[p] = "Follower" => Vote(p, current_term'[p], p) \notin ballots'
    BY <1>2, <1>3 DEF TurnoutInv, FollowersDidNotStand
  <2>6. QED
    BY <2>3, <2>4, <2>5
<1>4. CASE current_term'[p] > current_term[p] /\ votes'[p] = 0 /\ role'[p] = "Follower"
  <2>1. current_term'[p] \in Nat
    BY DEF TypeOK
  <2>2. Vote(p, current_term'[p], p) \notin ballots
    BY <1>1, <1>4, <2>1 DEF VoteInv, BallotsRecorded, Vote
  <2>3. QED
    BY <1>1, <1>2, <1>4, <2>2
<1>5. QED
  BY <1>3, <1>4 DEF Abides

\* The parts of the invariant about the votes on the links and those about the
\* standing of the nodes.
LinkPart == LinksOnce /\ RequestsOfCandidates /\ GrantsOfVoters /\ CandidatesVoted

NodePart(p) ==
    /\ role[p] = "Follower" => Vote(p, current_term[p], p) \notin ballots
    /\ votes[p] <= Cardinality(Counted(p))
    /\ role[p] = "Leader" => 2 * Cardinality(Voters(current_term[p])) > peer_count

LEMMA TurnoutParts ==
    TurnoutInv <=> VoteInv /\ LinkSources /\ LinkPart /\ \A p \in Node : NodePart(p)
  BY DEF TurnoutInv, LinkPart, NodePart, FollowersDidNotStand, VotesCounted,
         LeaderHasTurnout

LEMMA TurnoutPartsNext ==
    VoteInv' /\ LinkSources' /\ LinkPart' /\ (\A p \in Node : NodePart(p)') => TurnoutInv'
  BY DEF TurnoutInv, LinkPart, NodePart, FollowersDidNotStand, VotesCounted,
         LeaderHasTurnout

LEMMA AbidesKeepsPart ==
    ASSUME TurnoutInv, TypeOK', NEW p \in Node, Abides(p), ballots \subseteq ballots',
           \A b \in ballots' : b \in ballots \/ b # Vote(p, b.term, p),
           \A v \in Counted(p) : NoGrant(net'[v][p], current_term[p])
    PROVE  NodePart(p)'
  BY AbidesKeeps DEF NodePart

LEMMA IdlesKeeps ==
    ASSUME TurnoutInv, TypeOK', Idles
    PROVE  LinkPart' /\ \A p \in Node : NodePart(p)'
<1>1. /\ LinkPart /\ ballots' = ballots /\ Quieter(net, net')
      /\ \A p \in Node : Abides(p)
  BY DEF TurnoutInv, LinkPart, Idles
<1>2. \A i, j \in Node : \A m \in Carries(net'[i][j]) :
         IsVoting(m) => m \in Carries(net[i][j])
  BY <1>1 DEF Quieter
<1>3. LinkPart'
  <2>1. LinksOnce'
    BY <1>1 DEF Quieter, LinkPart, LinksOnce
  <2>2. RequestsOfCandidates'
    BY <1>1, <1>2 DEF LinkPart, RequestsOfCandidates, IsVoting
  <2>3. GrantsOfVoters'
    BY <1>1, <1>2 DEF LinkPart, GrantsOfVoters, IsVoting
  <2>4. CandidatesVoted'
    BY <1>1 DEF LinkPart, CandidatesVoted
  <2>5. QED
    BY <2>1, <2>2, <2>3, <2>4 DEF LinkPart
<1>4. ASSUME NEW p \in Node PROVE NodePart(p)'
  <2>1. \A v \in Counted(p) : NoGrant(net'[v][p], current_term[p])
    BY <1>2 DEF Counted, NoGrant, IsVoting
  <2>2. QED
    BY <1>1, <2>1, AbidesKeepsPart
<1>5. QED
  BY <1>3, <1>4

LEMMA StandsKeeps ==
    ASSUME TurnoutInv, TypeOK', NEW n \in Node, Stands(n)
    PROVE  LinkPart' /\ \A p \in Node : NodePart(p)'
<1> DEFINE t == current_term[n] + 1
<1>1. PICK m \in RequestVoteRequest : m.src = n /\ m.term = t /\ net' = Broadcast(net, n, m)
  BY DEF Stands
<1>2. /\ LinkPart /\ VoteInv /\ LinkSources /\ TypeOK /\ net \in Links
      /\ current_term[n] \in Nat
      /\ current_term'[n] = t /\ votes'[n] = 1 /\ role'[n] = "Candidate"
      /\ ballots' = ballots \cup {Vote(n, t, n)}
      /\ \A p \in Node \ {n} : Abides(p)
  BY NetIsLinks DEF TurnoutInv, LinkPart, VoteInv, TypeInv, TypeOK, Stands
<1>3. t \in Nat /\ t > current_term[n]
  BY <1>2
<1> HIDE DEF t
<1>4. m \in Message /\ m.type = "RequestVoteRequest" /\ ~IsGrant(m)
  BY DEF Message, RequestVoteRequest, IsGrant
<1>5. \A i, j \in Node : net'[i][j] = IF i = n /\ j # n THEN Append(net[i][j], m)
                                      ELSE net[i][j]
  BY <1>1, <1>2 DEF Broadcast, Links
<1>6. \A i, j \in Node : Carries(net'[i][j])
                           \subseteq Carries(net[i][j])
                                       \cup (IF i = n /\ j # n THEN {m} ELSE {})
  BY <1>1, <1>2, <1>4, BroadcastCarries
\* No one has voted in the new term of n for n.
<1>7. \A b \in ballots : b.voter = n => b.term # t
  <2> SUFFICES ASSUME NEW b \in ballots, b.voter = n PROVE b.term # t
    OBVIOUS
  <2>1. b.term \in Nat /\ b.term <= current_term[n]
    BY <1>2 DEF VoteInv, BallotsRecorded, TypeOK, Ballot
  <2>2. QED
    BY <1>2, <1>3, <2>1
<1>8. \A v : Vote(v, t, n) \notin ballots
  <2>1. Vote(n, t, n) \notin ballots
    BY <1>7 DEF Vote
  <2>2. \A v : Vote(v, t, n).candidate = n /\ Vote(v, t, n).term = t
    BY DEF Vote
  <2>3. QED
    BY <1>2, <2>1, <2>2 DEF LinkPart, CandidatesVoted
<1>9. LinksOnce'
  <2>1. ASSUME NEW j \in Node PROVE VotesOnce(Append(net[n][j], m))
    <3>1. net[n][j] \in Seq(Message) /\ VotesOnce(net[n][j])
      BY <1>2 DEF Links, LinkPart, LinksOnce
    <3>2. \A x \in Carries(net[n][j]) : ~SameVote(x, m)
      BY <1>1, <1>2, <1>4, <1>8 DEF SameVote, LinkPart, RequestsOfCandidates
    <3>3. QED
      BY <1>4, <3>1, <3>2, AppendKeepsOnce
  <2>2. QED
    BY <1>2, <1>5, <2>1 DEF LinksOnce, LinkPart
<1>10. RequestsOfCandidates'
  <2>1. ASSUME NEW i \in Node, NEW j \in Node, NEW x \in Carries(net'[i][j]),
               x.type = "RequestVoteRequest"
        PROVE  Vote(i, x.term, i) \in ballots' /\ Vote(j, x.term, i) \notin ballots'
    <3>1. CASE x \in Carries(net[i][j])
      <4>1. /\ Vote(i, x.term, i) \in ballots /\ Vote(j, x.term, i) \notin ballots
            /\ i # j
        BY <1>2, <2>1, <3>1 DEF LinkPart, RequestsOfCandidates, LinkSources
      <4>2. Vote(j, x.term, i) # Vote(n, t, n)
        BY <4>1 DEF Vote
      <4>3. QED
        BY <1>2, <4>1, <4>2
    <3>2. CASE i = n /\ j # n /\ x = m
      <4>1. Vote(j, t, n) # Vote(n, t, n)
        BY <3>2 DEF Vote
      <4>2. QED
        BY <1>1, <1>2, <1>8, <3>2, <4>1
    <3>3. QED
      BY <1>6, <3>1, <3>2
  <2>2. QED
    BY <2>1 DEF RequestsOfCandidates
<1>11. GrantsOfVoters'
  BY <1>2, <1>4, <1>6, SMTT(20) DEF LinkPart, GrantsOfVoters
<1>12. CandidatesVoted'
  <2>1. Vote(n, t, n).candidate = n /\ Vote(n, t, n).term = t
    BY DEF Vote
  <2>2. QED
    BY <1>2, <2>1 DEF LinkPart, CandidatesVoted
<1>13. ASSUME NEW p \in Node, p # n PROVE NodePart(p)'
  <2>1. \A v \in Counted(p) : NoGrant(net'[v][p], current_term[p])
    BY <1>4, <1>6 DEF Counted, NoGrant
  <2>2. \A b \in ballots' : b \in ballots \/ b # Vote(p, b.term, p)
    BY <1>2, <1>13 DEF Vote
  <2>3. QED
    BY <1>2, <1>13, <2>1, <2>2, AbidesKeepsPart
<1>14. NodePart(n)'
  <2>1. n \in Counted(n)'
    <3>1. /\ Vote(n, t, n) \in ballots' /\ Vote(n, t, n).voter = n
          /\ Vote(n, t, n).term = t /\ Vote(n, t, n).candidate = n
      BY <1>2 DEF Vote
    <3>2. NoGrant(net'[n][n], t)
      BY <1>2, <1>5 DEF NoGrant, LinkSources
    <3>3. QED
      BY <1>2, <3>1, <3>2 DEF Counted
  <2>2. IsFiniteSet(Counted(n)')
    BY NodeAssumption, FS_Subset DEF Counted
  <2>3. Cardinality(Counted(n)') >= 1
    <3>1. /\ Cardinality({n}) = 1 /\ {n} \subseteq Counted(n)'
          /\ Cardinality({n}) <= Cardinality(Counted(n)')
      BY <2>1, <2>2, FS_Singleton, FS_Subset
    <3>2. Cardinality(Counted(n)') \in Nat
      BY <2>2, FS_CardinalityType
    <3>3. QED
      BY <3>1, <3>2
  <2>4. QED
    BY <1>2, <2>3 DEF NodePart
<1>15. QED
  BY <1>9, <1>10, <1>11, <1>12, <1>13, <1>14 DEF LinkPart

LEMMA GrantsKeeps ==
    ASSUME TurnoutInv, TypeOK', NEW n \in Node, NEW src \in Node,
           NEW k \in DOMAIN net[src][n], Grants(n, src, k)
    PROVE  LinkPart' /\ \A p \in Node : NodePart(p)'
<1> DEFINE m    == net[src][n][k]
           rest == Consume(net, src, n, k)
           t    == m.term
<1>1. PICK g \in RequestVoteResponse : /\ g.src = n /\ g.term = t
                                       /\ net' = Broadcast(rest, n, g)
  BY DEF Grants
<1>2. /\ LinkPart /\ VoteInv /\ LinkSources /\ TypeOK /\ net \in Links
      /\ current_term \in [Node -> Nat] /\ None \notin Node
  BY NetIsLinks, NodeAssumption DEF TurnoutInv, LinkPart, VoteInv, TypeInv, TypeOK
<1>3. /\ rest \in Links /\ m \in Message
      /\ \A i, j \in Node : Carries(rest[i][j]) \subseteq Carries(net[i][j])
  BY <1>2, ConsumeCarried, ConsumeCarries
<1>4. /\ m \in Carries(net[src][n]) /\ m.src = src /\ src # n /\ t \in Nat
      /\ m.type = "RequestVoteRequest" /\ net[src][n] \in Seq(Message)
  <2>1. m \in Carries(net[src][n])
    BY DEF Carries
  <2>2. m.src = src /\ src # n
    BY <1>2, <2>1 DEF LinkSources
  <2>3. t \in Nat
    BY <1>3, MessageFields
  <2>4. m.type = "RequestVoteRequest" /\ net[src][n] \in Seq(Message)
    BY <1>2 DEF Grants, Links
  <2>5. QED
    BY <2>1, <2>2, <2>3, <2>4
<1>5. /\ \A p \in Node : Abides(p)
      /\ current_term'[n] = t /\ VoteHeld(n, t) \in {None, src}
      /\ ballots' = ballots \cup {Vote(n, t, src)}
  BY <1>4 DEF Grants
<1>6. t >= current_term[n]
  BY <1>2, <1>4, <1>5 DEF Abides
<1>7. Vote(src, t, src) \in ballots /\ Vote(n, t, src) \notin ballots
  BY <1>2, <1>4 DEF LinkPart, RequestsOfCandidates
\* The request is the only one of its term on the link.
<1>8. /\ \A i, j \in Node : VotesOnce(rest[i][j])
      /\ \A x \in Carries(rest[src][n]) : ~SameVote(x, m)
  <2>1. VotesOnce(net[src][n])
    BY <1>2 DEF LinkPart, LinksOnce
  <2>2. \A x \in Carries(RemoveAt(net[src][n], k)) : ~SameVote(x, m)
    BY <1>4, <2>1, RemoveKeepsOnce
  <2>3. rest[src][n] = RemoveAt(net[src][n], k)
    BY <1>2 DEF Consume, Links
  <2>4. Quieter(net, rest)
    BY <1>2, ConsumeQuiet
  <2>5. \A i, j \in Node : VotesOnce(rest[i][j])
    BY <1>2, <2>4 DEF Quieter, LinkPart, LinksOnce
  <2> HIDE DEF rest, m
  <2>6. QED
    BY <2>2, <2>3, <2>5
\* The voter has not yet voted in that term.
<1>9. \A b \in ballots : b.voter = n => b.term # t
  <2> SUFFICES ASSUME NEW b \in ballots, b.voter = n, b.term = t PROVE FALSE
    OBVIOUS
  <2>1. b \in Ballot /\ b.candidate \in Node
    BY <1>2 DEF TypeOK, Ballot
  <2>2. b.term <= current_term[n] /\ (t = current_term[n] => voted_for[n] = b.candidate)
    BY <1>2 DEF VoteInv, BallotsRecorded
  <2>3. t = current_term[n]
    BY <1>2, <1>4, <1>6, <2>2
  <2>4. VoteHeld(n, t) = b.candidate
    BY <1>2, <2>2, <2>3 DEF VoteHeld
  <2>5. b = Vote(n, t, src)
    BY <1>2, <1>5, <2>1, <2>4 DEF Ballot, Vote
  <2>6. QED
    BY <1>7, <2>5
<1> HIDE DEF m, rest, t
<1>10. g \in Message /\ g.type = "RequestVoteResponse"
  BY DEF Message, RequestVoteResponse
<1>11. \A i, j \in Node : net'[i][j] = IF i = n /\ j # n THEN Append(rest[i][j], g)
                                       ELSE rest[i][j]
  BY <1>1, <1>3 DEF Broadcast, Links
<1>12. \A i, j \in Node : Carries(net'[i][j])
                            \subseteq Carries(rest[i][j])
                                        \cup (IF i = n /\ j # n THEN {g} ELSE {})
  BY <1>1, <1>3, <1>10, BroadcastCarries
<1>13. LinksOnce'
  <2>1. ASSUME NEW j \in Node PROVE VotesOnce(Append(rest[n][j], g))
    <3>1. rest[n][j] \in Seq(Message) /\ VotesOnce(rest[n][j])
      BY <1>3, <1>8 DEF Links
    <3>2. \A x \in Carries(rest[n][j]) : ~(IsGrant(x) /\ x.term = t)
      <4>1. \A x \in Carries(net[n][j]) :
               IsGrant(x) => \E b \in ballots : b.voter = n /\ b.term = x.term
        BY <1>2 DEF LinkPart, GrantsOfVoters
      <4>2. Carries(rest[n][j]) \subseteq Carries(net[n][j])
        BY <1>3
      <4>3. QED
        BY <1>9, <4>1, <4>2
    <3>3. \A x \in Carries(rest[n][j]) : ~SameVote(x, g)
      BY <1>1, <1>10, <3>2 DEF SameVote, IsVoting
    <3>4. QED
      BY <1>10, <3>1, <3>3, AppendKeepsOnce
  <2>2. QED
    BY <1>8, <1>11, <2>1 DEF LinksOnce
<1>14. RequestsOfCandidates'
  <2>1. ASSUME NEW i \in Node, NEW j \in Node, NEW x \in Carries(net'[i][j]),
               x.type = "RequestVoteRequest"
        PROVE  Vote(i, x.term, i) \in ballots' /\ Vote(j, x.term, i) \notin ballots'
    <3>1. x \in Carries(rest[i][j])
      BY <1>10, <1>12, <2>1
    <3>2. Vote(i, x.term, i) \in ballots /\ Vote(j, x.term, i) \notin ballots
      BY <1>2, <1>3, <2>1, <3>1 DEF LinkPart, RequestsOfCandidates
    <3>3. Vote(j, x.term, i) # Vote(n, t, src)
      <4>1. SUFFICES ASSUME j = n, i = src, x.term = t PROVE FALSE
        BY DEF Vote
      <4>2. SameVote(x, m)
        BY <1>4, <2>1, <4>1 DEF SameVote, IsVoting, t
      <4>3. QED
        BY <1>8, <3>1, <4>1, <4>2
    <3>4. QED
      BY <1>5, <3>2, <3>3
  <2>2. QED
    BY <2>1 DEF RequestsOfCandidates
<1>15. GrantsOfVoters'
  <2>1. ASSUME NEW i \in Node, NEW j \in Node, NEW x \in Carries(net'[i][j]), IsGrant(x)
        PROVE  \E b \in ballots' : b.voter = i /\ b.term = x.term /\ b.candidate # i
    <3>1. CASE x \in Carries(rest[i][j])
      <4>1. x \in Carries(net[i][j])
        BY <1>3, <3>1
      <4>2. \E b \in ballots : b.voter = i /\ b.term = x.term /\ b.candidate # i
        BY <1>2, <2>1, <4>1 DEF LinkPart, GrantsOfVoters
      <4>3. ballots \subseteq ballots'
        BY <1>5
      <4>4. QED
        BY <4>2, <4>3
    <3>2. CASE i = n /\ x = g
      <4>1. /\ Vote(n, t, src).voter = n /\ Vote(n, t, src).term = t
            /\ Vote(n, t, src).candidate = src
        BY DEF Vote
      <4>2. QED
        BY <1>1, <1>4, <1>5, <3>2, <4>1
    <3>3. QED
      BY <1>12, <3>1, <3>2
  <2>2. QED
    BY <2>1 DEF GrantsOfVoters
<1>16. CandidatesVoted'
  <2>1. Vote(n, t, src).candidate = src /\ Vote(n, t, src).term = t
    BY DEF Vote
  <2>2. QED
    BY <1>2, <1>5, <1>7, <2>1 DEF LinkPart, CandidatesVoted
<1>17. ASSUME NEW p \in Node PROVE NodePart(p)'
  <2>1. \A v \in Counted(p) : NoGrant(net'[v][p], current_term[p])
    <3> SUFFICES ASSUME NEW v \in Counted(p), NEW x \in Carries(net'[v][p]),
                        IsGrant(x), x.term = current_term[p]
                 PROVE  FALSE
      BY DEF NoGrant
    <3>1. /\ v \in Node /\ NoGrant(net[v][p], current_term[p])
          /\ \E b \in ballots : b.voter = v /\ b.term = current_term[p]
      BY DEF Counted
    <3>2. x \notin Carries(rest[v][p])
      BY <1>3, <3>1 DEF NoGrant
    <3>3. v = n /\ x = g
      BY <1>12, <3>1, <3>2
    <3>4. QED
      BY <1>1, <1>9, <3>1, <3>3
  <2>2. \A b \in ballots' : b \in ballots \/ b # Vote(p, b.term, p)
    BY <1>4, <1>5 DEF Vote
  <2>3. QED
    BY <1>5, <2>1, <2>2, AbidesKeepsPart
<1>18. QED
  BY <1>13, <1>14, <1>15, <1>16, <1>17 DEF LinkPart

LEMMA CountsKeeps ==
    ASSUME TurnoutInv, TypeOK', NEW n \in Node, NEW src \in Node,
           NEW k \in DOMAIN net[src][n], Counts(n, src, k)
    PROVE  LinkPart' /\ \A p \in Node : NodePart(p)'
<1> DEFINE m    == net[src][n][k]
           rest == Consume(net, src, n, k)
           t    == current_term[n]
<1>1. /\ LinkPart /\ VoteInv /\ LinkSources /\ TypeOK /\ net \in Links
      /\ VotesCounted /\ FollowersDidNotStand /\ LeaderHasTurnout
      /\ votes[n] \in Nat /\ role[n] \in Role /\ role'[n] \in Role
  BY NetIsLinks DEF TurnoutInv, LinkPart, VoteInv, TypeInv, TypeOK
<1>2. /\ net' = rest /\ ballots' = ballots /\ IsGrant(m) /\ m.term = t
      /\ current_term'[n] = t /\ votes'[n] = votes[n] + 1
      /\ \A p \in Node \ {n} : Abides(p)
      /\ \/ role'[n] = role[n]
         \/ role'[n] = "Leader" /\ votes'[n] >= Majority
  BY DEF Counts
<1>3. m \in Carries(net[src][n]) /\ net[src][n] \in Seq(Message) /\ src # n
  <2>1. m \in Carries(net[src][n])
    BY DEF Carries
  <2>2. src # n
    BY <1>1, <2>1 DEF LinkSources
  <2>3. net[src][n] \in Seq(Message)
    BY <1>1 DEF Links
  <2>4. QED
    BY <2>1, <2>2, <2>3
<1>4. Quieter(net, rest)
  BY <1>1, ConsumeQuiet
<1>5. \A i, j \in Node : \A x \in Carries(net'[i][j]) :
         IsVoting(x) => x \in Carries(net[i][j])
  BY <1>2, <1>4 DEF Quieter
<1>6. NoGrant(net'[src][n], t)
  <2>1. VotesOnce(net[src][n])
    BY <1>1 DEF LinkPart, LinksOnce
  <2>2. \A x \in Carries(RemoveAt(net[src][n], k)) : ~SameVote(x, m)
    BY <1>3, <2>1, RemoveKeepsOnce
  <2>3. rest[src][n] = RemoveAt(net[src][n], k)
    BY <1>1 DEF Consume, Links
  <2> HIDE DEF rest, m
  <2>4. QED
    BY <1>2, <2>2, <2>3 DEF NoGrant, SameVote, IsVoting, IsGrant
<1> HIDE DEF m, rest
<1>7. LinkPart'
  <2>1. LinksOnce'
    BY <1>1, <1>2, <1>4 DEF Quieter, LinkPart, LinksOnce
  <2>2. RequestsOfCandidates'
    BY <1>1, <1>2, <1>5 DEF LinkPart, RequestsOfCandidates, IsVoting
  <2>3. GrantsOfVoters'
    BY <1>1, <1>2, <1>5 DEF LinkPart, GrantsOfVoters, IsVoting
  <2>4. CandidatesVoted'
    BY <1>1, <1>2 DEF LinkPart, CandidatesVoted
  <2>5. QED
    BY <2>1, <2>2, <2>3, <2>4 DEF LinkPart
<1>8. ASSUME NEW p \in Node, p # n PROVE NodePart(p)'
  <2>1. \A v \in Counted(p) : NoGrant(net'[v][p], current_term[p])
    BY <1>5 DEF Counted, NoGrant, IsVoting
  <2>2. QED
    BY <1>2, <1>8, <2>1, AbidesKeepsPart
<1>9. NodePart(n)'
  <2>1. src \notin Counted(n)
    BY <1>2, <1>3 DEF Counted, NoGrant
  <2>2. src \in Counted(n)'
    <3>1. PICK b \in ballots : b.voter = src /\ b.term = t /\ b.candidate # src
      BY <1>1, <1>2, <1>3 DEF LinkPart, GrantsOfVoters
    <3>2. QED
      BY <1>2, <1>3, <1>6, <3>1 DEF Counted
  <2>3. Counted(n) \subseteq Counted(n)'
    <3>1. \A v \in Counted(n) : NoGrant(net'[v][n], t)
      BY <1>5 DEF Counted, NoGrant, IsVoting
    <3>2. QED
      BY <1>1, <1>2, <3>1, CountedKept
  <2>4. /\ IsFiniteSet(Counted(n)') /\ Cardinality(Counted(n)') \in Nat
        /\ Counted(n)' \subseteq Voters(t)'
        /\ Cardinality(Voters(t)') \in Nat
        /\ Cardinality(Counted(n)') <= Cardinality(Voters(t)')
    <3>1. Counted(n)' \subseteq Voters(t)'
      BY <1>2 DEF Counted, Voters
    <3>2. IsFiniteSet(Voters(t)')
      BY VotersAreNodesNext, NodeAssumption, FS_Subset
    <3>3. QED
      BY <3>1, <3>2, FS_Subset, FS_CardinalityType
  <2>5. Cardinality(Counted(n)') >= Cardinality(Counted(n)) + 1
    <3>1. IsFiniteSet(Counted(n)) /\ Cardinality(Counted(n)) \in Nat
      BY <1>1, CountedFinite
    <3>2. Cardinality(Counted(n) \cup {src}) = Cardinality(Counted(n)) + 1
      BY <2>1, <3>1, FS_AddElement
    <3>3. Cardinality(Counted(n) \cup {src}) <= Cardinality(Counted(n)')
      BY <2>2, <2>3, <2>4, FS_Subset
    <3>4. QED
      BY <2>4, <3>1, <3>2, <3>3
  <2>6. votes'[n] <= Cardinality(Counted(n)')
    <3>1. votes[n] <= Cardinality(Counted(n)) /\ Cardinality(Counted(n)) \in Nat
      BY <1>1, CountedFinite DEF VotesCounted
    <3>2. QED
      BY <1>1, <1>2, <2>4, <2>5, <3>1
  <2>7. role'[n] = "Follower" => Vote(n, t, n) \notin ballots
    BY <1>1, <1>2 DEF FollowersDidNotStand
  <2>8. role'[n] = "Leader" => 2 * Cardinality(Voters(t)') > peer_count
    <3>1. CASE role'[n] = role[n]
      <4>1. Voters(t)' = Voters(t)
        BY <1>2 DEF Voters
      <4>2. QED
        BY <1>1, <3>1, <4>1 DEF LeaderHasTurnout
    <3>2. CASE votes'[n] >= Majority
      <4>1. /\ peer_count \in Nat /\ Majority \in Nat
            /\ 2 * Majority > peer_count
        BY NodeAssumption, FS_CardinalityType DEF peer_count, Majority
      <4>2. Cardinality(Voters(t)') >= Majority
        BY <1>1, <1>2, <2>4, <2>6, <3>2, <4>1
      <4>3. QED
        BY <2>4, <4>1, <4>2
    <3>3. QED
      BY <1>2, <3>1, <3>2
  <2>9. QED
    BY <1>2, <2>6, <2>7, <2>8 DEF NodePart
<1>10. QED
  BY <1>7, <1>8, <1>9

LEMMA TurnoutInvInit == Init => TurnoutInv
<1> SUFFICES ASSUME Init PROVE TurnoutInv
  OBVIOUS
<1>1. VoteInv /\ LinkSources
  BY TypeInvInit, LinkSourcesInit DEF Init, VoteInv, OneVotePerTerm, BallotsRecorded
<1>2. LinkPart
  BY DEF Init, LinkPart, LinksOnce, VotesOnce, RequestsOfCandidates, GrantsOfVoters,
         CandidatesVoted, Carries
<1>3. ASSUME NEW p \in Node PROVE NodePart(p)
  <2>1. TypeOK
    BY <1>1 DEF VoteInv, TypeInv
  <2>2. Cardinality(Counted(p)) \in Nat
    BY <2>1, CountedFinite
  <2>3. votes[p] = 0 /\ role[p] = "Follower" /\ ballots = {}
    BY DEF Init
  <2>4. QED
    BY <2>2, <2>3 DEF NodePart
<1>4. QED
  BY <1>1, <1>2, <1>3, TurnoutParts

LEMMA TurnoutInvStep == TurnoutInv /\ [Next]_vars => TurnoutInv'
<1> SUFFICES ASSUME TurnoutInv, [Next]_vars PROVE TurnoutInv'
  OBVIOUS
<1>1. VoteInv /\ VoteInv' /\ TypeInv /\ TypeOK' /\ LinkSources
  BY VoteInvStep DEF TurnoutInv, VoteInv, TypeInv
<1>2. [CrashNext]_vars
  BY DEF CrashNext
<1>3. LinkSources'
  BY <1>1, <1>2, LinkSourcesStep
<1>4. LinkPart' /\ \A p \in Node : NodePart(p)'
  BY <1>1, StepIsElectionStep, IdlesKeeps, StandsKeeps, GrantsKeeps, CountsKeeps
     DEF ElectionStep
<1>5. QED
  BY <1>1, <1>3, <1>4, TurnoutPartsNext

LEMMA TurnoutInvHolds == Spec => []TurnoutInv
  BY TurnoutInvInit, TurnoutInvStep, PTL DEF Spec

\* A node never counts more votes than nodes voted in its term, though nothing
\* ties a vote to the node that counts it, as long as no process ends.
THEOREM VotesTurnedOut == Spec => []VotesWithinTurnout
<1>1. TurnoutInv => VotesWithinTurnout
  <2> SUFFICES ASSUME TurnoutInv, NEW n \in Node
               PROVE  votes[n] <= Cardinality(Voters(current_term[n]))
    BY DEF VotesWithinTurnout
  <2>1. TypeOK /\ votes[n] \in Nat /\ votes[n] <= Cardinality(Counted(n))
    BY DEF TurnoutInv, VotesCounted, VoteInv, TypeInv, TypeOK
  <2>2. QED
    BY <2>1, CountedFinite
<1>2. QED
  BY <1>1, TurnoutInvHolds, PTL

\* In the term of a leader a majority of the nodes have voted, as long as no
\* process ends, whatever order the replies come in.
THEOREM LeadersHaveTurnout == Spec => []LeaderHasTurnout
<1>1. TurnoutInv => LeaderHasTurnout
  BY DEF TurnoutInv
<1>2. QED
  BY <1>1, TurnoutInvHolds, PTL

\* With three nodes, a follower that is handed a majority of votes could only
\* have them from the third node: the candidate, which is another, has voted
\* for itself and sends no vote.
LEMMA FollowerCountsOne ==
    ASSUME peer_count = 3, TurnoutInv, NEW n \in Node, NEW src \in Node,
           NEW k \in DOMAIN net[src][n], Counts(n, src, k), role[n] = "Follower",
           Cardinality(Counted(n)') >= votes'[n], votes'[n] \in Nat
    PROVE  votes'[n] < Majority
<1> DEFINE t == current_term[n]
           m == net[src][n][k]
<1>1. /\ TypeOK /\ OneVotePerTerm /\ FollowersDidNotStand /\ GrantsOfVoters
      /\ CandidatesVoted /\ None \notin Node
  BY NodeAssumption DEF TurnoutInv, VoteInv, TypeInv
<1>2. ballots' = ballots /\ current_term'[n] = t
  BY DEF Counts
<1>3. PICK b \in ballots : b.voter = src /\ b.term = t /\ b.candidate # src
  <2>1. m \in Carries(net[src][n]) /\ IsGrant(m) /\ m.term = t
    BY DEF Counts, Carries
  <2> HIDE DEF m, t
  <2>2. QED
    BY <1>1, <2>1 DEF GrantsOfVoters
<1> DEFINE c == b.candidate
<1>4. c \in Node /\ Vote(c, t, c) \in ballots /\ Vote(n, t, n) \notin ballots /\ c # n
  <2>1. b \in Ballot /\ Vote(c, t, c) \in ballots
    BY <1>1, <1>3 DEF TypeOK, CandidatesVoted
  <2>2. Vote(n, t, n) \notin ballots
    BY <1>1 DEF FollowersDidNotStand
  <2>3. QED
    BY <2>1, <2>2 DEF Ballot
<1>5. \A v \in Counted(n)' :
         \E x \in ballots : x.voter = v /\ x.term = t /\ (x.candidate = v <=> v = n)
  BY <1>2 DEF Counted
<1> HIDE DEF t, c
<1>6. n \notin Counted(n)'
  <2> SUFFICES ASSUME NEW x \in ballots, x.voter = n, x.term = t, x.candidate = n
               PROVE  FALSE
    BY <1>5
  <2>1. x = Vote(n, t, n)
    BY <1>1 DEF TypeOK, Ballot, Vote
  <2>2. QED
    BY <1>4, <2>1
<1>7. c \notin Counted(n)'
  <2> SUFFICES ASSUME NEW x \in ballots, x.voter = c, x.term = t, x.candidate # c
               PROVE  FALSE
    BY <1>4, <1>5
  <2>1. /\ Vote(c, t, c).voter = c /\ Vote(c, t, c).term = t
        /\ Vote(c, t, c).candidate = c
    BY DEF Vote
  <2>2. QED
    BY <1>1, <1>4, <2>1 DEF OneVotePerTerm
<1>8. Cardinality((Node \ {n}) \ {c}) = 1 /\ IsFiniteSet((Node \ {n}) \ {c})
  <2>1. /\ IsFiniteSet(Node) /\ Cardinality(Node) = 3
    BY NodeAssumption DEF peer_count
  <2>2. IsFiniteSet(Node \ {n}) /\ Cardinality(Node \ {n}) = 2
    BY <2>1, FS_RemoveElement
  <2>3. c \in Node \ {n}
    BY <1>4
  <2> DEFINE others == Node \ {n}
  <2>4. IsFiniteSet(others) /\ Cardinality(others) = 2 /\ c \in others
    BY <2>2, <2>3
  <2> HIDE DEF others
  <2>5. IsFiniteSet(others \ {c}) /\ Cardinality(others \ {c}) = 1
    <3>1. /\ IsFiniteSet(others \ {c})
          /\ Cardinality(others \ {c}) = Cardinality(others) - 1
      BY <2>4, FS_RemoveElement, Zenon
    <3>2. QED
      BY <2>4, <3>1
  <2>6. QED
    BY <2>5 DEF others
<1>9. Counted(n)' \subseteq (Node \ {n}) \ {c}
  BY <1>6, <1>7 DEF Counted
<1>10. Cardinality(Counted(n)') <= 1 /\ Cardinality(Counted(n)') \in Nat
  BY <1>8, <1>9, FS_Subset, FS_CardinalityType
<1>11. Majority = 2
  BY DEF Majority
<1>12. QED
  BY <1>10, <1>11

LEMMA OnlyCandidatesElectedStep ==
    ASSUME peer_count = 3, TurnoutInv, TurnoutInv', [Next]_vars,
           NEW n \in Node, role[n] = "Follower"
    PROVE  role'[n] # "Leader"
<1>1. ElectionStep
  BY StepIsElectionStep DEF TurnoutInv, VoteInv
<1>2. CASE Abides(n)
  BY <1>2 DEF Abides
<1>3. ASSUME NEW src \in Node, NEW k \in DOMAIN net[src][n], Counts(n, src, k)
      PROVE  role'[n] # "Leader"
  <2>1. votes'[n] <= Cardinality(Counted(n)') /\ votes'[n] \in Nat
    BY DEF TurnoutInv, VotesCounted, VoteInv, TypeInv, TypeOK
  <2>2. Cardinality(Counted(n)') \in Nat
    <3>1. Counted(n)' \subseteq Node
      BY DEF Counted
    <3>2. QED
      BY <3>1, NodeAssumption, FS_Subset, FS_CardinalityType
  <2>3. Majority \in Nat
    BY DEF Majority
  <2>4. votes'[n] < Majority
    BY <1>3, <2>1, <2>2, FollowerCountsOne
  <2>5. QED
    BY <1>3, <2>1, <2>3, <2>4 DEF Counts
<1>4. QED
  BY <1>1, <1>2, <1>3 DEF ElectionStep, Idles, Stands, Grants, Counts

\* In a cluster of three nodes only a candidate becomes leader, as long as no
\* process ends, though handle_request_vote_response counts a vote whatever
\* the role and whomever the vote was for.
THEOREM CandidatesElected ==
    ASSUME peer_count = 3
    PROVE  Spec => OnlyCandidatesElected
<1>1. TurnoutInv /\ TurnoutInv' /\ [Next]_vars
        => [\A n \in Node : role[n] = "Follower" => role'[n] # "Leader"]_vars
  BY OnlyCandidatesElectedStep
<1>2. QED
  BY <1>1, TurnoutInvHolds, PTL DEF Spec, OnlyCandidatesElected

=============================================================================
