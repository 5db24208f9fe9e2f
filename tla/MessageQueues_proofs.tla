------------------------ MODULE MessageQueues_proofs ------------------------
(***************************************************************************)
(* Proofs about MessageQueues: its types, that what try_dequeue_bulk       *)
(* takes fits the buffer it is given, and that it implements MessageLink.  *)
(***************************************************************************)
EXTENDS MessageQueues, TLAPS, SequenceTheorems

Queues == [Priority -> Seq(Msg)]

\* Inductive: a loop's buffer holds no more than it has room for.
QueueInv == TypeOK /\ BatchWithinBuffer

LEMMA SubSeqOfMessages ==
  ASSUME NEW s \in Seq(Msg), NEW i \in Nat, NEW j \in Nat, i >= 1, j <= Len(s)
  PROVE  /\ SubSeq(s, i, j) \in Seq(Msg)
         /\ Len(SubSeq(s, i, j)) = IF i <= j THEN j - i + 1 ELSE 0
  BY SubSeqProperties

\* The room a loop has left.
Fits(poll) == poll \in Poll /\ Len(poll.batch) <= MaxBatch

\* What is taken of a queue is messages, and no more than there is room for.
LEMMA TakenFits ==
  ASSUME NEW queue \in Queues, NEW poll \in Poll, Fits(poll), ~Exhausted(poll)
  PROVE  /\ Taken(queue, poll) \in Seq(Msg)
         /\ Len(Taken(queue, poll)) <= MaxBatch - Len(poll.batch)
         /\ Len(Taken(queue, poll)) <= Len(queue[poll.prio])
<1> DEFINE q == queue[poll.prio]
           room == MaxBatch - Len(poll.batch)
           j == IF Len(q) < room THEN Len(q) ELSE room
<1>1. poll.prio \in Priority /\ poll.batch \in Seq(Msg)
  BY DEF Poll, Exhausted, Priority, MAX_PRIORITY
<1>2. q \in Seq(Msg) /\ Len(q) \in Nat /\ room \in Nat
  BY <1>1, QueueAssumption, LenProperties DEF Queues, Fits
<1> HIDE DEF q, room
<1>3. j \in Nat /\ j <= Len(q) /\ j <= room
  BY <1>2
<1>4. SubSeq(q, 1, j) \in Seq(Msg) /\ Len(SubSeq(q, 1, j)) = j
  BY <1>2, <1>3, SubSeqOfMessages
<1> QED BY <1>3, <1>4 DEF Taken, q, room

\* One turn of try_dequeue_bulk.
LEMMA PolledFits ==
  ASSUME NEW queue \in Queues, NEW poll \in Poll, Fits(poll), ~Exhausted(poll)
  PROVE  Fits(Polled(queue, poll)) /\ Left(queue, poll) \in Queues
<1> DEFINE t == Taken(queue, poll)
<1>1. /\ poll.prio \in Priority /\ poll.prio + 1 \in 0 .. MAX_PRIORITY
      /\ poll.batch \in Seq(Msg) /\ Len(poll.batch) \in Nat
  BY LenProperties DEF Poll, Exhausted, Priority, MAX_PRIORITY
<1>2. t \in Seq(Msg) /\ Len(t) \in Nat /\ Len(t) <= MaxBatch - Len(poll.batch)
      /\ Len(t) <= Len(queue[poll.prio])
  BY TakenFits, LenProperties
<1> HIDE DEF t
<1>3. poll.batch \o t \in Seq(Msg) /\ Len(poll.batch \o t) = Len(poll.batch) + Len(t)
  BY <1>1, <1>2, ConcatProperties
<1>4. Fits(Polled(queue, poll))
  <2>1. Polled(queue, poll) = [prio |-> poll.prio + 1, batch |-> poll.batch \o t]
    BY DEF Polled, t
  <2>2. Polled(queue, poll) \in Poll
    BY <1>1, <1>3, <2>1 DEF Poll
  <2>3. Len(Polled(queue, poll).batch) <= MaxBatch
    BY <1>1, <1>2, <1>3, <2>1, QueueAssumption
  <2> QED BY <2>2, <2>3 DEF Fits
<1>5. Left(queue, poll) \in Queues
  <2> DEFINE q == queue[poll.prio]
             rest == SubSeq(q, Len(t) + 1, Len(q))
  <2>1. q \in Seq(Msg) /\ Len(q) \in Nat
    BY <1>1, LenProperties DEF Queues
  <2>2. rest \in Seq(Msg)
    BY <1>2, <2>1, SubSeqOfMessages
  <2>3. Left(queue, poll) = [queue EXCEPT ![poll.prio] = rest]
    BY DEF Left, t
  <2> HIDE DEF rest
  <2> QED BY <1>1, <2>2, <2>3 DEF Queues
<1> QED BY <1>4, <1>5

LEMMA IdleFits == Fits(Idle)
<1>1. << >> \in Seq(Msg) /\ Len(<< >>) = 0
  BY EmptySeq
<1> QED BY <1>1, QueueAssumption DEF Fits, Idle, Poll, MAX_PRIORITY

LEMMA NumberedMessage ==
  ASSUME NEW kind \in Kind, NEW no \in Nat \ {0}
  PROVE  Numbered(kind, no) \in Msg
<1>1. kind \in AnyKind
  BY QueueAssumption
<1>2. kind.type \in {k.type : k \in AnyKind}
  BY <1>1
<1>3. kind.path \in {"broadcast", "direct"}
  BY <1>1 DEF AnyKind
<1> QED BY <1>2, <1>3 DEF Numbered, Msg

LEMMA PrioritiesOfMessages ==
  ASSUME NEW m \in Msg
  PROVE  SendPriority(m) \in Priority /\ ReceivePriority(m) \in Priority
  BY DEF SendPriority, ReceivePriority, Priority, MAX_PRIORITY

LEMMA Enqueued ==
  ASSUME NEW queue \in Queues, NEW p \in Priority, NEW m \in Msg
  PROVE  [queue EXCEPT ![p] = Append(@, m)] \in Queues
<1>1. Append(queue[p], m) \in Seq(Msg)
  BY AppendProperties DEF Queues
<1> QED BY <1>1 DEF Queues

-----------------------------------------------------------------------------

\* QueueInv without its definitions of sets of sequences.
LEMMA QueueInvParts ==
  QueueInv <=> /\ to_pipeline \in Queues /\ to_deser \in Queues
               /\ Fits(serialize) /\ Fits(receive)
               /\ from_ser \in [Producer -> Seq(Msg)]
               /\ stream \in Seq(Msg) /\ to_raftnode \in Seq(Msg)
               /\ is_running \in [Side -> BOOLEAN]
               /\ sent \in Nat /\ handled \in Seq(Nat) /\ connects \in Nat
  BY DEF QueueInv, TypeOK, BatchWithinBuffer, Fits, Queues

\* The same of the next state.
LEMMA QueueInvNext ==
  ASSUME to_pipeline' \in Queues, to_deser' \in Queues,
         Fits(serialize'), Fits(receive'),
         from_ser' \in [Producer -> Seq(Msg)],
         stream' \in Seq(Msg), to_raftnode' \in Seq(Msg),
         is_running' \in [Side -> BOOLEAN],
         sent' \in Nat, handled' \in Seq(Nat), connects' \in Nat
  PROVE  QueueInv'
  BY DEF QueueInv, TypeOK, BatchWithinBuffer, Fits, Queues

LEMMA HeadTail ==
  ASSUME NEW S, NEW s \in Seq(S), s # << >>
  PROVE  Head(s) \in S /\ Tail(s) \in Seq(S)
  BY HeadTailProperties

LEMMA InitQueueInv == Init => QueueInv
<1> SUFFICES ASSUME Init PROVE QueueInv
  OBVIOUS
<1>1. << >> \in Seq(Msg) /\ << >> \in Seq(Nat)
  BY EmptySeq
<1> QED BY <1>1, IdleFits, QueueInvParts DEF Init, Queues

LEMMA SendStep ==
  ASSUME QueueInv, NEW kind \in Kind, send(kind)
  PROVE  QueueInv'
<1> DEFINE m == Numbered(kind, sent + 1)
<1>1. sent \in Nat /\ sent + 1 \in Nat \ {0}
  BY QueueInvParts
<1>2. m \in Msg
  BY <1>1, NumberedMessage
<1>3. CASE IsDirect(m)
  <2>1. from_ser' = [from_ser EXCEPT !["node"] = Append(@, m)] /\ to_pipeline' = to_pipeline
    BY <1>3 DEF send
  <2>2. Append(from_ser["node"], m) \in Seq(Msg)
    BY <1>2, AppendProperties, QueueInvParts DEF Producer
  <2> HIDE DEF m
  <2>3. from_ser' \in [Producer -> Seq(Msg)]
    BY <2>1, <2>2, QueueInvParts
  <2> QED BY <1>1, <2>1, <2>3, QueueInvParts, QueueInvNext DEF send
<1>4. CASE ~IsDirect(m)
  <2>1. /\ to_pipeline' = [to_pipeline EXCEPT ![SendPriority(m)] = Append(@, m)]
        /\ from_ser' = from_ser
    BY <1>4 DEF send
  <2> HIDE DEF m
  <2>2. to_pipeline' \in Queues
    BY <1>2, <2>1, Enqueued, PrioritiesOfMessages, QueueInvParts
  <2> QED BY <1>1, <2>1, <2>2, QueueInvParts, QueueInvNext DEF send
<1> QED BY <1>3, <1>4

LEMMA SerializeStep == QueueInv /\ (serialize_poll \/ serialize_done) => QueueInv'
<1> SUFFICES ASSUME QueueInv, serialize_poll \/ serialize_done PROVE QueueInv'
  OBVIOUS
<1>1. serialize \in Poll /\ to_pipeline \in Queues /\ Fits(serialize)
  BY QueueInvParts DEF Fits
<1>2. CASE serialize_poll
  <2>1. Fits(serialize') /\ to_pipeline' \in Queues
    BY <1>1, <1>2, PolledFits DEF serialize_poll, Fits
  <2> QED BY <1>2, <2>1, QueueInvParts, QueueInvNext DEF serialize_poll
<1>3. CASE serialize_done
  <2>1. Fits(serialize')
    BY <1>3, IdleFits DEF serialize_done, Fits
  <2>2. from_ser["serialize"] \o serialize.batch \in Seq(Msg)
    BY <1>1, ConcatProperties, QueueInvParts DEF Poll, Producer
  <2>3. from_ser' \in [Producer -> Seq(Msg)]
    BY <1>3, <2>2, QueueInvParts DEF serialize_done
  <2> QED BY <1>3, <2>1, <2>3, QueueInvParts, QueueInvNext DEF serialize_done
<1> QED BY <1>2, <1>3

LEMMA WriteStep ==
  ASSUME QueueInv, NEW p \in Producer, write(p)
  PROVE  QueueInv'
<1>1. from_ser[p] \in Seq(Msg) /\ from_ser[p] # << >> /\ stream \in Seq(Msg)
  BY QueueInvParts DEF write
<1>2. Head(from_ser[p]) \in Msg /\ Tail(from_ser[p]) \in Seq(Msg)
  BY <1>1, HeadTail
<1>3. Append(stream, Head(from_ser[p])) \in Seq(Msg)
  BY <1>1, <1>2, AppendProperties
<1>4. stream' \in Seq(Msg) /\ from_ser' \in [Producer -> Seq(Msg)]
  BY <1>1, <1>2, <1>3, QueueInvParts DEF write
<1> QED BY <1>4, QueueInvParts, QueueInvNext DEF write

LEMMA ReadStep == QueueInv /\ read_cb => QueueInv'
<1> SUFFICES ASSUME QueueInv, read_cb PROVE QueueInv'
  OBVIOUS
<1>1. Head(stream) \in Msg /\ Tail(stream) \in Seq(Msg)
  BY HeadTail, QueueInvParts DEF read_cb
<1>2. to_deser' \in Queues
  BY <1>1, Enqueued, PrioritiesOfMessages, QueueInvParts DEF read_cb
<1> QED BY <1>1, <1>2, QueueInvParts, QueueInvNext DEF read_cb

LEMMA ReceiveStep == QueueInv /\ (receive_poll \/ receive_done) => QueueInv'
<1> SUFFICES ASSUME QueueInv, receive_poll \/ receive_done PROVE QueueInv'
  OBVIOUS
<1>1. receive \in Poll /\ to_deser \in Queues /\ Fits(receive)
  BY QueueInvParts DEF Fits
<1>2. CASE receive_poll
  <2>1. Fits(receive') /\ to_deser' \in Queues
    BY <1>1, <1>2, PolledFits DEF receive_poll, Fits
  <2> QED BY <1>2, <2>1, QueueInvParts, QueueInvNext DEF receive_poll
<1>3. CASE receive_done
  <2>1. Fits(receive')
    BY <1>3, IdleFits DEF receive_done, Fits
  <2>2. to_raftnode \o receive.batch \in Seq(Msg)
    BY <1>1, ConcatProperties, QueueInvParts DEF Poll
  <2> QED BY <1>3, <2>1, <2>2, QueueInvParts, QueueInvNext DEF receive_done
<1> QED BY <1>2, <1>3

LEMMA HandleStep == QueueInv /\ handle => QueueInv'
<1> SUFFICES ASSUME QueueInv, handle PROVE QueueInv'
  OBVIOUS
<1>1. Head(to_raftnode) \in Msg /\ Tail(to_raftnode) \in Seq(Msg)
  BY HeadTail, QueueInvParts DEF handle
<1>2. Append(handled, Head(to_raftnode).no) \in Seq(Nat)
  BY <1>1, AppendProperties, QueueInvParts DEF Msg
<1> QED BY <1>1, <1>2, QueueInvParts, QueueInvNext DEF handle

LEMMA ConnectionStep ==
  QueueInv /\ (connect \/ \E s \in Side : disconnect(s)) => QueueInv'
<1>1. ASSUME QueueInv, connect PROVE QueueInv'
  BY <1>1, QueueInvParts, QueueInvNext DEF connect
<1>2. ASSUME QueueInv, NEW s \in Side, disconnect(s) PROVE QueueInv'
  <2>1. << >> \in Seq(Msg)
    BY EmptySeq
  <2> QED BY <1>2, <2>1, QueueInvParts, QueueInvNext DEF disconnect
<1> QED BY <1>1, <1>2

LEMMA QueueInvHolds == Spec => []QueueInv
<1>1. QueueInv /\ [Next]_vars => QueueInv'
  <2> SUFFICES ASSUME QueueInv, [Next]_vars PROVE QueueInv'
    OBVIOUS
  <2>1. CASE UNCHANGED vars
    BY <2>1, QueueInvParts, QueueInvNext DEF vars
  <2>2. CASE Next
    BY <2>2, SendStep, SerializeStep, WriteStep, ReadStep, ReceiveStep, HandleStep,
       ConnectionStep DEF Next
  <2> QED BY <2>1, <2>2
<1> QED BY <1>1, InitQueueInv, PTL DEF Spec

\* Every queue and buffer holds messages, and every priority used has a queue
\* (queues_[prio] in PriorityQueue), for any kinds, batch size and bounds.
THEOREM TypeCorrect == Spec => []TypeOK
<1>1. QueueInv => TypeOK
  BY DEF QueueInv
<1> QED BY <1>1, QueueInvHolds, PTL

\* Neither loop ever writes beyond its buffer, for every size of the buffer and
\* whatever is enqueued between the turns of try_dequeue_bulk.
THEOREM BatchesFit == Spec => []BatchWithinBuffer
<1>1. QueueInv => BatchWithinBuffer
  BY DEF QueueInv
<1> QED BY <1>1, QueueInvHolds, PTL

-----------------------------------------------------------------------------
(* Where messages are, and in which order                                  *)

\* The places on the way, each with its stage: the next to the receiver is 1.
ToPipeline(p) == <<7, p>>

Serialize == <<6, 0>>

FromSer(p) == <<5, p>>

Stream == <<4, 0>>

ToDeser(p) == <<3, p>>

Receive == <<2, 0>>

ToRaftnode == <<1, 0>>

Place ==
    {ToPipeline(p) : p \in Priority} \cup {FromSer(p) : p \in Producer}
      \cup {ToDeser(p) : p \in Priority} \cup {Serialize, Stream, Receive, ToRaftnode}

\* The messages that come to the place x.
Goes(x, m) ==
    /\ x[1] = 7 => ~IsDirect(m) /\ SendPriority(m) = x[2]
    /\ x[1] = 6 => ~IsDirect(m)
    /\ x[1] = 5 => (IsDirect(m) <=> x[2] = "node")
    /\ x[1] = 3 => ReceivePriority(m) = x[2]

\* Those of a lane take one way.
LEMMA OneWay ==
  ASSUME NEW x \in Place, NEW y \in Place, x[1] = y[1], NEW m, NEW n, Goes(x, m), Goes(y, n),
         Lane(m) = Lane(n)
  PROVE  x = y
<1>1. /\ IsDirect(m) <=> IsDirect(n)
      /\ SendPriority(m) = SendPriority(n) /\ ReceivePriority(m) = ReceivePriority(n)
  BY DEF Lane
<1> QED BY <1>1 DEF Place, ToPipeline, Serialize, FromSer, Stream, ToDeser, Receive, ToRaftnode,
           Goes, Producer

Stages == \A x \in Place : x[1] \in 1 .. 7

LEMMA PlaceStages ==
  /\ Stages
  /\ \A p \in Priority : /\ ToPipeline(p) \in Place /\ ToPipeline(p)[1] = 7
                         /\ ToDeser(p) \in Place /\ ToDeser(p)[1] = 3
                         /\ ToPipeline(p)[2] = p /\ ToDeser(p)[2] = p
  /\ \A p \in Producer : FromSer(p) \in Place /\ FromSer(p)[1] = 5 /\ FromSer(p)[2] = p
  /\ Serialize \in Place /\ Serialize[1] = 6 /\ Stream \in Place /\ Stream[1] = 4
  /\ Receive \in Place /\ Receive[1] = 2 /\ ToRaftnode \in Place /\ ToRaftnode[1] = 1
  BY DEF Stages, Place, ToPipeline, Serialize, FromSer, Stream, ToDeser, Receive, ToRaftnode

\* What is at position i of the place x is further than what is at j of y.
Precedes(x, i, y, j) == x[1] < y[1] \/ (x = y /\ i < j)

InPlace(at) == \A x \in Place : \A i \in DOMAIN at[x] : Goes(x, at[x][i])

InOrder(at) ==
    \A x, y \in Place : \A i \in DOMAIN at[x], j \in DOMAIN at[y] :
        Precedes(x, i, y, j) /\ Lane(at[x][i]) = Lane(at[y][j]) => at[x][i].no < at[y][j].no

UpTo(at, no) == \A x \in Place : \A i \in DOMAIN at[x] : at[x][i].no <= no

\* Inductive: at holds the messages of every place.
Orderly(at, no) == InPlace(at) /\ InOrder(at) /\ UpTo(at, no)

Everything(at) == UNION {ToSet(at[x]) : x \in Place}

Sequences(at) == \A x \in Place : at[x] \in Seq(Msg)

\* Messages are lost, all of a place or the first.
Shortened(at, at2) ==
    \A x \in Place : \/ at2[x] = at[x] \/ at2[x] = << >>
                     \/ at[x] # << >> /\ at2[x] = Tail(at[x])

LEMMA ShortenedAt ==
  ASSUME NEW at, NEW at2, Sequences(at), Shortened(at, at2), NEW x \in Place
  PROVE  \E d \in Nat : \A i \in DOMAIN at2[x] :
            i \in Int /\ i + d \in DOMAIN at[x] /\ at2[x][i] = at[x][i + d]
<1>1. /\ at[x] \in Seq(Msg) /\ Len(at[x]) \in Nat
      /\ DOMAIN at[x] = 1 .. Len(at[x])
  BY LenProperties DEF Sequences
<1>2. CASE at2[x] = at[x]
  <2>1. \A i \in DOMAIN at2[x] : i \in Int /\ i + 0 = i
    BY <1>1, <1>2
  <2> QED BY <1>2, <2>1
<1>3. CASE at2[x] = << >>
  BY <1>3
<1>4. CASE at[x] # << >> /\ at2[x] = Tail(at[x])
  <2>1. /\ Tail(at[x]) \in Seq(Msg) /\ Len(Tail(at[x])) = Len(at[x]) - 1
        /\ \A i \in 1 .. Len(Tail(at[x])) : Tail(at[x])[i] = at[x][i + 1]
    BY <1>1, <1>4, HeadTailProperties
  <2>2. DOMAIN Tail(at[x]) = 1 .. Len(at[x]) - 1
    BY <1>1, <2>1, LenProperties
  <2>3. \A i \in DOMAIN at2[x] : i \in Int /\ i + 1 \in DOMAIN at[x] /\ at2[x][i] = at[x][i + 1]
    BY <1>1, <1>4, <2>1, <2>2
  <2> QED BY <2>3
<1> QED BY <1>2, <1>3, <1>4 DEF Shortened

LEMMA ShortenedOrderly ==
  ASSUME NEW at, NEW at2, NEW no, Sequences(at), Orderly(at, no), Shortened(at, at2)
  PROVE  Orderly(at2, no)
<1>1. InPlace(at2)
  <2> SUFFICES ASSUME NEW x \in Place, NEW i \in DOMAIN at2[x] PROVE Goes(x, at2[x][i])
    BY DEF InPlace
  <2>1. PICK d \in Nat : \A ii \in DOMAIN at2[x] :
            ii \in Int /\ ii + d \in DOMAIN at[x] /\ at2[x][ii] = at[x][ii + d]
    BY ShortenedAt
  <2>2. i + d \in DOMAIN at[x] /\ at2[x][i] = at[x][i + d]
    BY <2>1
  <2> HIDE DEF Goes
  <2> QED BY <2>2 DEF Orderly, InPlace
<1>2. UpTo(at2, no)
  <2> SUFFICES ASSUME NEW x \in Place, NEW i \in DOMAIN at2[x] PROVE at2[x][i].no <= no
    BY DEF UpTo
  <2>1. PICK d \in Nat : \A ii \in DOMAIN at2[x] :
            ii \in Int /\ ii + d \in DOMAIN at[x] /\ at2[x][ii] = at[x][ii + d]
    BY ShortenedAt
  <2> QED BY <2>1 DEF Orderly, UpTo
<1>3. InOrder(at2)
  <2> SUFFICES ASSUME NEW x \in Place, NEW y \in Place,
                      NEW i \in DOMAIN at2[x], NEW j \in DOMAIN at2[y],
                      Precedes(x, i, y, j), Lane(at2[x][i]) = Lane(at2[y][j])
               PROVE  at2[x][i].no < at2[y][j].no
    BY DEF InOrder
  <2>1. PICK d \in Nat : \A ii \in DOMAIN at2[x] :
            ii \in Int /\ ii + d \in DOMAIN at[x] /\ at2[x][ii] = at[x][ii + d]
    BY ShortenedAt
  <2>2. PICK e \in Nat : \A jj \in DOMAIN at2[y] :
            jj \in Int /\ jj + e \in DOMAIN at[y] /\ at2[y][jj] = at[y][jj + e]
    BY ShortenedAt
  <2>3. CASE x[1] < y[1]
    <3>1. Precedes(x, i + d, y, j + e)
      BY <2>3 DEF Precedes
    <3> QED BY <2>1, <2>2, <3>1 DEF Orderly, InOrder
  <2>4. CASE x = y /\ i < j
    <3>1. i \in Int /\ j \in Int /\ i + d < j + d
      BY <2>1, <2>4
    <3>2. Precedes(x, i + d, x, j + d)
      BY <3>1 DEF Precedes
    <3>3. /\ i + d \in DOMAIN at[x] /\ at2[x][i] = at[x][i + d]
          /\ j + d \in DOMAIN at[x] /\ at2[x][j] = at[x][j + d]
      BY <2>1, <2>4
    <3> QED BY <2>4, <3>2, <3>3 DEF Orderly, InOrder
  <2> QED BY <2>3, <2>4 DEF Precedes
<1> QED BY <1>1, <1>2, <1>3 DEF Orderly

LEMMA ShortenedSubset ==
  ASSUME NEW at, NEW at2, Sequences(at), Shortened(at, at2)
  PROVE  Everything(at2) \subseteq Everything(at)
<1> SUFFICES ASSUME NEW x \in Place, NEW i \in DOMAIN at2[x]
             PROVE  \E j \in DOMAIN at[x] : at2[x][i] = at[x][j]
  BY DEF Everything, ToSet
<1> QED BY ShortenedAt

\* The first k messages of the sequence q move to the end of r.
Passed(q, q2, r, r2, k) ==
    /\ k \in 0 .. Len(q)
    /\ Len(q2) = Len(q) - k
    /\ \A i \in 1 .. (Len(q) - k) : q2[i] = q[i + k]
    /\ Len(r2) = Len(r) + k
    /\ \A i \in 1 .. Len(r) : r2[i] = r[i]
    /\ \A i \in 1 .. k : r2[Len(r) + i] = q[i]

\* Those of the place x move to y, the next on the way.
Moved(at, at2, x, y, k) ==
    /\ x \in Place /\ y \in Place /\ x[1] = y[1] + 1
    /\ Passed(at[x], at2[x], at[y], at2[y], k)
    /\ \A i \in 1 .. k : Goes(y, at[x][i])
    /\ \A z \in Place \ {x, y} : at2[z] = at[z]

\* Where the message at position i of the place z was: at j of u.
Was(at, x, y, k, z, i, u, j) ==
    \/ u = z /\ z # x /\ i = j /\ (z = y => i <= Len(at[y]))
    \/ u = z /\ z = x /\ j = i + k
    \/ u = x /\ z = y /\ i = j + Len(at[y]) /\ 1 <= j /\ j <= k

LEMMA StageOfPlace ==
  ASSUME NEW x \in Place
  PROVE  x[1] \in Int /\ x[1] \in 1 .. 7
BY PlaceStages DEF Stages

LEMMA MovedPlaces ==
  ASSUME NEW at, NEW at2, Sequences(at), NEW x, NEW y, NEW k, Moved(at, at2, x, y, k)
  PROVE  /\ x \in Place /\ y \in Place /\ x # y /\ x[1] = y[1] + 1
         /\ x[1] \in Int /\ y[1] \in Int
         /\ k \in Int /\ 0 <= k /\ k <= Len(at[x])
         /\ Len(at[x]) \in Nat /\ Len(at[y]) \in Nat
         /\ Len(at2[x]) = Len(at[x]) - k
         /\ Len(at2[y]) = Len(at[y]) + k
<1>1. x \in Place /\ y \in Place /\ x[1] = y[1] + 1
  BY DEF Moved, Passed
<1>2. x[1] \in Int /\ y[1] \in Int
  BY <1>1, StageOfPlace
<1>3. at[x] \in Seq(Msg) /\ at[y] \in Seq(Msg)
  BY <1>1 DEF Sequences
<1>4. Len(at[x]) \in Nat /\ Len(at[y]) \in Nat
  BY <1>3, LenProperties
<1>5. /\ k \in 0 .. Len(at[x])
      /\ Len(at2[x]) = Len(at[x]) - k
      /\ Len(at2[y]) = Len(at[y]) + k
  BY DEF Moved, Passed
<1> QED BY <1>1, <1>2, <1>4, <1>5

\* Positions counted from elsewhere.
LEMMA PositionsShift ==
  ASSUME NEW K \in Nat, NEW L \in Nat, NEW i \in Int
  PROVE  /\ i \in 1 .. K => i + L \in 1 .. (K + L) /\ L + i \in 1 .. (L + K)
         /\ i \in 1 .. (L + K) /\ ~(i <= L) =>
              i - L \in 1 .. K /\ i = (i - L) + L /\ i = L + (i - L)
         /\ L <= K /\ i \in 1 .. K /\ ~(i <= L) => i - L \in 1 .. (K - L) /\ i = (i - L) + L
         /\ L <= K /\ i \in 1 .. (K - L) => i + L \in 1 .. K
  OBVIOUS

LEMMA MovedFrom ==
  ASSUME NEW at, NEW at2, Sequences(at), Sequences(at2), NEW x, NEW y, NEW k,
         Moved(at, at2, x, y, k), NEW z \in Place, NEW i \in DOMAIN at2[z]
  PROVE  \E u \in Place : \E j \in DOMAIN at[u] :
            i \in Int /\ j \in Int /\ at2[z][i] = at[u][j] /\ Was(at, x, y, k, z, i, u, j)
<1>1. \A v \in Place : /\ Len(at[v]) \in Nat /\ DOMAIN at[v] = 1 .. Len(at[v])
                       /\ Len(at2[v]) \in Nat /\ DOMAIN at2[v] = 1 .. Len(at2[v])
  <2> TAKE v \in Place
  <2>1. at[v] \in Seq(Msg) /\ at2[v] \in Seq(Msg)
    BY DEF Sequences
  <2> QED BY <2>1, LenProperties
<1>2. /\ x \in Place /\ y \in Place /\ x # y /\ k \in Int /\ 0 <= k /\ k <= Len(at[x])
      /\ Len(at[x]) \in Nat /\ Len(at[y]) \in Nat
      /\ Len(at2[x]) = Len(at[x]) - k /\ Len(at2[y]) = Len(at[y]) + k
  BY MovedPlaces
<1>3. CASE z = x
  <2>1. /\ i + k \in DOMAIN at[x] /\ i \in Int /\ i + k \in Int
        /\ i \in 1 .. (Len(at[x]) - k)
    <3>1. DOMAIN at2[x] = 1 .. (Len(at[x]) - k) /\ DOMAIN at[x] = 1 .. Len(at[x])
      BY <1>1, <1>2
    <3>2. i \in 1 .. (Len(at[x]) - k) /\ i \in Int
      BY <1>3, <3>1
    <3>3. k \in Nat /\ k <= Len(at[x]) /\ Len(at[x]) \in Nat
      BY <1>2
    <3>4. i + k \in 1 .. Len(at[x]) /\ i + k \in Int
      BY <3>2, <3>3, PositionsShift
    <3> QED BY <3>1, <3>2, <3>4
  <2>3. at2[z][i] = at[x][i + k]
    BY <1>3, <2>1 DEF Moved, Passed
  <2>2. Was(at, x, y, k, z, i, x, i + k)
    BY <1>3 DEF Was
  <2> QED BY <1>2, <2>1, <2>2, <2>3
<1>4. CASE z = y /\ i <= Len(at[y])
  <2>1. i \in DOMAIN at[y] /\ i \in Int /\ i \in 1 .. Len(at[y])
    BY <1>1, <1>2, <1>4, SMTT(20)
  <2>3. at2[z][i] = at[y][i]
    BY <1>4, <2>1 DEF Moved, Passed
  <2>2. Was(at, x, y, k, z, i, y, i)
    BY <1>2, <1>4 DEF Was
  <2> QED BY <1>2, <2>1, <2>2, <2>3
<1>5. CASE z = y /\ ~(i <= Len(at[y]))
  <2> DEFINE j == i - Len(at[y])
  <2>4. i \in 1 .. (Len(at[y]) + k) /\ i \in Int
    <3>1. DOMAIN at2[y] = 1 .. (Len(at[y]) + k)
      BY <1>1, <1>2
    <3> QED BY <1>5, <3>1
  <2>5. j \in 1 .. k /\ i = j + Len(at[y]) /\ i = Len(at[y]) + j
    <3>1. k \in Nat /\ Len(at[y]) \in Nat
      BY <1>2
    <3> QED BY <1>5, <2>4, <3>1, PositionsShift
  <2>6. DOMAIN at[x] = 1 .. Len(at[x])
    BY <1>1, <1>2
  <2>1. /\ i \in Int /\ j \in 1 .. k /\ j \in DOMAIN at[x] /\ i = j + Len(at[y])
        /\ i = Len(at[y]) + j
    BY <1>2, <2>4, <2>5, <2>6
  <2> HIDE DEF j
  <2>2. at2[z][i] = at[x][j]
    BY <1>5, <2>1 DEF Moved, Passed
  <2>3. Was(at, x, y, k, z, i, x, j)
    BY <1>5, <2>1 DEF Was
  <2> QED BY <1>2, <2>1, <2>2, <2>3
<1>6. CASE z # x /\ z # y
  <2>1. i \in DOMAIN at[z] /\ at2[z][i] = at[z][i] /\ i \in Int
    BY <1>1, <1>6, SMTT(20) DEF Moved, Passed
  <2>2. Was(at, x, y, k, z, i, z, i)
    BY <1>6 DEF Was
  <2> QED BY <2>1, <2>2
<1> QED BY <1>3, <1>4, <1>5, <1>6

\* Moving keeps who is before whom.
LEMMA MovedPrecedes ==
  ASSUME NEW at, NEW at2, Sequences(at), NEW x, NEW y, NEW k, Moved(at, at2, x, y, k),
         NEW z \in Place, NEW w \in Place, NEW i \in Int, NEW h \in Int,
         NEW u \in Place, NEW v \in Place, NEW j \in Int, NEW l \in Int,
         Precedes(z, i, w, h), Was(at, x, y, k, z, i, u, j), Was(at, x, y, k, w, h, v, l),
         1 <= h, u[1] = v[1] => u = v
  PROVE  Precedes(u, j, v, l)
<1>1. /\ x \in Place /\ y \in Place /\ x # y /\ x[1] = y[1] + 1
      /\ x[1] \in Int /\ y[1] \in Int /\ k \in Int /\ 0 <= k
  BY MovedPlaces, ZenonT(30)
<1>2. z[1] \in Int /\ w[1] \in Int /\ u[1] \in Int /\ v[1] \in Int /\ Len(at[y]) \in Int
  BY StageOfPlace, MovedPlaces
<1> DEFINE L == Len(at[y])
<1>3. /\ L \in Int
      /\ \/ u = z /\ z # x /\ i = j /\ (z = y => i <= L)
         \/ u = z /\ z = x /\ j = i + k
         \/ u = x /\ z = y /\ i = j + L /\ 1 <= j /\ j <= k
      /\ \/ v = w /\ w # x /\ h = l /\ (w = y => h <= L)
         \/ v = w /\ w = x /\ l = h + k
         \/ v = x /\ w = y /\ h = l + L /\ 1 <= l /\ l <= k
  BY <1>2 DEF Was
<1>4. z[1] < w[1] \/ (z = w /\ i < h)
  BY DEF Precedes
<1> HIDE DEF L
<1> SUFFICES u[1] < v[1] \/ (u = v /\ j < l)
  BY DEF Precedes
<1>5. CASE u = z /\ z # x /\ i = j /\ (z = y => i <= L)
  BY <1>1, <1>2, <1>3, <1>4, <1>5
<1>6. CASE u = z /\ z = x /\ j = i + k
  BY <1>1, <1>2, <1>3, <1>4, <1>6
<1>7. CASE u = x /\ z = y /\ i = j + L /\ 1 <= j /\ j <= k
  <2>1. CASE v = w /\ w # x /\ h = l /\ (w = y => h <= L)
    <3>1. CASE z[1] < w[1]
      <4>1. u[1] <= w[1]
        BY <1>1, <1>2, <1>7, <3>1
      <4> QED BY <1>1, <1>2, <1>7, <2>1, <4>1
    <3>2. CASE z = w /\ i < h
      <4>1. w = y /\ h <= L /\ i = j + L /\ 1 <= j
        BY <1>7, <2>1, <3>2
      <4> QED BY <1>3, <3>2, <4>1
    <3> QED BY <1>4, <3>1, <3>2
  <2>2. CASE v = w /\ w = x /\ l = h + k
    BY <1>1, <1>2, <1>3, <1>4, <1>7, <2>2
  <2>3. CASE v = x /\ w = y /\ h = l + L /\ 1 <= l /\ l <= k
    BY <1>1, <1>2, <1>3, <1>4, <1>7, <2>3
  <2> QED BY <1>3, <2>1, <2>2, <2>3
<1> QED BY <1>3, <1>5, <1>6, <1>7

LEMMA MovedOrderly ==
  ASSUME NEW at, NEW at2, NEW no, Sequences(at), Sequences(at2), Orderly(at, no),
         NEW x, NEW y, NEW k, Moved(at, at2, x, y, k)
  PROVE  Orderly(at2, no)
<1>1. InPlace(at2)
  <2> SUFFICES ASSUME NEW z \in Place, NEW i \in DOMAIN at2[z] PROVE Goes(z, at2[z][i])
    BY DEF InPlace
  <2>1. PICK u \in Place : \E j \in DOMAIN at[u] :
            i \in Int /\ j \in Int /\ at2[z][i] = at[u][j] /\ Was(at, x, y, k, z, i, u, j)
    BY MovedFrom
  <2>2. PICK j \in DOMAIN at[u] :
            i \in Int /\ j \in Int /\ at2[z][i] = at[u][j] /\ Was(at, x, y, k, z, i, u, j)
    BY <2>1
  <2>3. CASE u = z
    BY <2>2, <2>3 DEF Orderly, InPlace
  <2>4. CASE u = x /\ z = y /\ j \in 1 .. k
    <3>1. Goes(y, at[x][j])
      BY <2>4 DEF Moved, Passed
    <3> QED BY <2>2, <2>4, <3>1
  <2>5. k \in Int
    BY MovedPlaces
  <2> QED BY <2>2, <2>3, <2>4, <2>5 DEF Was
<1>2. UpTo(at2, no)
  <2> SUFFICES ASSUME NEW z \in Place, NEW i \in DOMAIN at2[z] PROVE at2[z][i].no <= no
    BY DEF UpTo
  <2>1. PICK u \in Place : \E j \in DOMAIN at[u] :
            i \in Int /\ j \in Int /\ at2[z][i] = at[u][j] /\ Was(at, x, y, k, z, i, u, j)
    BY MovedFrom
  <2> QED BY <2>1 DEF Orderly, UpTo
<1>3. InOrder(at2)
  <2> SUFFICES ASSUME NEW z \in Place, NEW w \in Place,
                      NEW i \in DOMAIN at2[z], NEW h \in DOMAIN at2[w],
                      Precedes(z, i, w, h), Lane(at2[z][i]) = Lane(at2[w][h])
               PROVE  at2[z][i].no < at2[w][h].no
    BY DEF InOrder
  <2>1. PICK u \in Place : \E j \in DOMAIN at[u] :
            i \in Int /\ j \in Int /\ at2[z][i] = at[u][j] /\ Was(at, x, y, k, z, i, u, j)
    BY MovedFrom
  <2>2. PICK j \in DOMAIN at[u] :
            i \in Int /\ j \in Int /\ at2[z][i] = at[u][j] /\ Was(at, x, y, k, z, i, u, j)
    BY <2>1
  <2>3. PICK v \in Place : \E l \in DOMAIN at[v] :
            h \in Int /\ l \in Int /\ at2[w][h] = at[v][l] /\ Was(at, x, y, k, w, h, v, l)
    BY MovedFrom
  <2>4. PICK l \in DOMAIN at[v] :
            h \in Int /\ l \in Int /\ at2[w][h] = at[v][l] /\ Was(at, x, y, k, w, h, v, l)
    BY <2>3
  <2>5. 1 <= h
    <3>1. at2[w] \in Seq(Msg)
      BY DEF Sequences
    <3> QED BY <3>1, LenProperties
  <2>6. Goes(u, at[u][j]) /\ Goes(v, at[v][l]) /\ Lane(at[u][j]) = Lane(at[v][l])
    BY <2>2, <2>4 DEF Orderly, InPlace
  <2>7. u[1] = v[1] => u = v
    BY <2>6, OneWay
  <2>8. Precedes(u, j, v, l)
    BY <2>2, <2>4, <2>5, <2>7, MovedPrecedes
  <2> QED BY <2>2, <2>4, <2>6, <2>8 DEF Orderly, InOrder
<1> QED BY <1>1, <1>2, <1>3 DEF Orderly

LEMMA MovedEverything ==
  ASSUME NEW at, NEW at2, Sequences(at), Sequences(at2),
         NEW x, NEW y, NEW k, Moved(at, at2, x, y, k)
  PROVE  Everything(at2) = Everything(at)
<1>1. Everything(at2) \subseteq Everything(at)
  <2> SUFFICES ASSUME NEW z \in Place, NEW i \in DOMAIN at2[z]
               PROVE  \E u \in Place : \E j \in DOMAIN at[u] : at2[z][i] = at[u][j]
    BY DEF Everything, ToSet
  <2> QED BY MovedFrom
<1>2. Everything(at) \subseteq Everything(at2)
  <2> SUFFICES ASSUME NEW z \in Place, NEW i \in DOMAIN at[z]
               PROVE  \E u \in Place : \E j \in DOMAIN at2[u] : at[z][i] = at2[u][j]
    BY DEF Everything, ToSet
  <2>1. /\ x \in Place /\ y \in Place /\ x # y /\ k \in Int /\ 0 <= k /\ k <= Len(at[x])
        /\ Len(at[x]) \in Nat /\ Len(at[y]) \in Nat
        /\ Len(at2[x]) = Len(at[x]) - k /\ Len(at2[y]) = Len(at[y]) + k
    BY MovedPlaces
  <2>2. /\ at[z] \in Seq(Msg) /\ at2[x] \in Seq(Msg) /\ at2[y] \in Seq(Msg)
    BY <2>1 DEF Sequences
  <2>3. /\ i \in 1 .. Len(at[z])
        /\ DOMAIN at2[x] = 1 .. Len(at2[x]) /\ DOMAIN at2[y] = 1 .. Len(at2[y])
    BY <2>2, LenProperties
  <2>4. CASE z = x /\ i <= k
    <3>1. i \in 1 .. k /\ Len(at[y]) + i \in DOMAIN at2[y]
      <4>1. i \in 1 .. k
        BY <2>1, <2>3, <2>4
      <4>2. Len(at[y]) + i \in 1 .. (Len(at[y]) + k)
        <5>1. k \in Nat /\ Len(at[y]) \in Nat /\ i \in Int
          BY <2>1, <4>1
        <5> QED BY <4>1, <5>1, PositionsShift
      <4>3. DOMAIN at2[y] = 1 .. (Len(at[y]) + k)
        BY <2>1, <2>3
      <4> QED BY <4>1, <4>2, <4>3
    <3>2. at2[y][Len(at[y]) + i] = at[x][i]
      BY <3>1 DEF Moved, Passed
    <3> QED BY <2>1, <2>4, <3>1, <3>2
  <2>5. CASE z = x /\ ~(i <= k)
    <3> DEFINE j == i - k
    <3>1. j \in 1 .. (Len(at[x]) - k) /\ j \in DOMAIN at2[x] /\ i = j + k
      <4>1. DOMAIN at2[x] = 1 .. (Len(at[x]) - k)
        BY <2>1, <2>3
      <4>2. i \in 1 .. Len(at[x]) /\ i \in Int /\ ~(i <= k)
        BY <2>3, <2>5
      <4>3. k \in Nat /\ k <= Len(at[x]) /\ Len(at[x]) \in Nat
        BY <2>1
      <4>4. j \in 1 .. (Len(at[x]) - k) /\ i = j + k
        BY <4>2, <4>3, PositionsShift
      <4> QED BY <4>1, <4>4
    <3> HIDE DEF j
    <3>2. at2[x][j] = at[x][i]
      BY <3>1 DEF Moved, Passed
    <3> QED BY <2>1, <2>5, <3>1, <3>2
  <2>6. CASE z = y
    <3>1. i \in 1 .. Len(at[y]) /\ i \in DOMAIN at2[y]
      BY <2>1, <2>3, <2>6
    <3>2. at2[y][i] = at[y][i]
      BY <3>1 DEF Moved, Passed
    <3> QED BY <2>1, <2>6, <3>1, <3>2
  <2>7. CASE z # x /\ z # y
    BY <2>7 DEF Moved, Passed
  <2> QED BY <2>4, <2>5, <2>6, <2>7
<1> QED BY <1>1, <1>2

\* The message m is put at the end of the place z, where its way begins.
Entered(at, at2, z, m) ==
    /\ z \in Place /\ m \in Msg /\ Goes(z, m)
    /\ z[1] = 7 \/ (IsDirect(m) /\ z[1] = 5)
    /\ at2[z] = Append(at[z], m)
    /\ \A x \in Place \ {z} : at2[x] = at[x]

LEMMA EnteredAt ==
  ASSUME NEW at, NEW at2, Sequences(at), NEW z, NEW m, Entered(at, at2, z, m),
         NEW x \in Place, NEW i \in DOMAIN at2[x]
  PROVE  /\ i \in Int
         /\ \/ i \in DOMAIN at[x] /\ at2[x][i] = at[x][i] /\ (x = z => i < Len(at[z]) + 1)
            \/ x = z /\ i = Len(at[z]) + 1 /\ at2[x][i] = m
<1>1. at[x] \in Seq(Msg) /\ m \in Msg
  BY DEF Sequences, Entered
<1>2. Len(at[x]) \in Nat /\ DOMAIN at[x] = 1 .. Len(at[x])
  BY <1>1, LenProperties
<1>3. CASE x # z
  BY <1>2, <1>3 DEF Entered
<1>4. CASE x = z
  <2>1. at2[x] = Append(at[x], m)
    BY <1>4 DEF Entered
  <2>2. /\ at2[x] \in Seq(Msg) /\ Len(at2[x]) = Len(at[x]) + 1
        /\ \A j \in 1 .. Len(at[x]) : at2[x][j] = at[x][j]
        /\ at2[x][Len(at[x]) + 1] = m
    BY <1>1, <2>1, AppendProperties
  <2>3. i \in 1 .. (Len(at[x]) + 1)
    BY <2>2, LenProperties
  <2> QED BY <1>2, <1>4, <2>2, <2>3
<1> QED BY <1>3, <1>4

\* No message on the way is as late.
LEMMA EnteredOrderly ==
  ASSUME NEW at, NEW at2, NEW no \in Nat, Sequences(at), Orderly(at, no), NEW z, NEW m,
         Entered(at, at2, z, m), m.no = no + 1
  PROVE  Orderly(at2, no + 1)
<1>1. InPlace(at2)
  <2> SUFFICES ASSUME NEW x \in Place, NEW i \in DOMAIN at2[x] PROVE Goes(x, at2[x][i])
    BY DEF InPlace
  <2>1. Goes(z, m)
    BY DEF Entered
  <2> QED BY <2>1, EnteredAt DEF Orderly, InPlace
<1>2. \A x \in Place : \A i \in DOMAIN at[x] : at[x][i].no \in Int /\ at[x][i].no <= no
  <2> SUFFICES ASSUME NEW x \in Place, NEW i \in DOMAIN at[x]
               PROVE  at[x][i].no \in Int /\ at[x][i].no <= no
    OBVIOUS
  <2>1. at[x] \in Seq(Msg)
    BY DEF Sequences
  <2>2. at[x][i] \in Msg
    BY <2>1, LenProperties, ElementOfSeq
  <2> QED BY <2>2 DEF Msg, Orderly, UpTo
<1>3. UpTo(at2, no + 1)
  <2> SUFFICES ASSUME NEW x \in Place, NEW i \in DOMAIN at2[x] PROVE at2[x][i].no <= no + 1
    BY DEF UpTo
  <2> QED BY <1>2, EnteredAt
<1>4. InOrder(at2)
  <2> SUFFICES ASSUME NEW x \in Place, NEW y \in Place,
                      NEW i \in DOMAIN at2[x], NEW j \in DOMAIN at2[y],
                      Precedes(x, i, y, j), Lane(at2[x][i]) = Lane(at2[y][j])
               PROVE  at2[x][i].no < at2[y][j].no
    BY DEF InOrder
  <2>1. /\ i \in Int
        /\ \/ i \in DOMAIN at[x] /\ at2[x][i] = at[x][i] /\ (x = z => i < Len(at[z]) + 1)
           \/ x = z /\ i = Len(at[z]) + 1 /\ at2[x][i] = m
    BY EnteredAt
  <2>2. /\ j \in Int
        /\ \/ j \in DOMAIN at[y] /\ at2[y][j] = at[y][j] /\ (y = z => j < Len(at[z]) + 1)
           \/ y = z /\ j = Len(at[z]) + 1 /\ at2[y][j] = m
    BY EnteredAt
  <2>3. CASE /\ i \in DOMAIN at[x] /\ at2[x][i] = at[x][i]
             /\ j \in DOMAIN at[y] /\ at2[y][j] = at[y][j]
    BY <2>3 DEF Orderly, InOrder
  <2>4. CASE /\ i \in DOMAIN at[x] /\ at2[x][i] = at[x][i] /\ at2[y][j] = m
    <3>1. at[x][i].no \in Int /\ at[x][i].no <= no
      BY <1>2, <2>4
    <3> QED BY <2>4, <3>1
  <2>5. CASE x = z /\ i = Len(at[z]) + 1 /\ at2[x][i] = m
    <3>1. z \in Place /\ Len(at[z]) \in Int
      <4>1. z \in Place
        BY DEF Entered
      <4>2. at[z] \in Seq(Msg)
        BY <4>1 DEF Sequences
      <4> QED BY <4>1, <4>2, LenProperties
    <3>2. x[1] \in Int /\ y[1] \in 1 .. 7
      BY StageOfPlace
    <3>3. x[1] < y[1]
      BY <2>1, <2>2, <2>5, <3>1 DEF Precedes
    <3>4. y[1] \in {6, 7} /\ IsDirect(m) /\ y # z
      BY <2>5, <3>2, <3>3 DEF Entered
    <3>5. Goes(y, at2[y][j])
      BY <1>1 DEF InPlace
    <3>6. ~IsDirect(at2[y][j])
      BY <3>4, <3>5 DEF Goes
    <3>7. IsDirect(at2[y][j]) <=> IsDirect(m)
      BY <2>5 DEF Lane
    <3> QED BY <3>4, <3>6, <3>7
  <2> QED BY <2>1, <2>2, <2>3, <2>4, <2>5
<1> QED BY <1>1, <1>3, <1>4 DEF Orderly

LEMMA EnteredEverything ==
  ASSUME NEW at, NEW at2, Sequences(at), NEW z, NEW m, Entered(at, at2, z, m)
  PROVE  Everything(at2) = Everything(at) \cup {m}
<1>1. Everything(at2) \subseteq Everything(at) \cup {m}
  <2> SUFFICES ASSUME NEW x \in Place, NEW i \in DOMAIN at2[x]
               PROVE  at2[x][i] = m \/ \E j \in DOMAIN at[x] : at2[x][i] = at[x][j]
    BY DEF Everything, ToSet
  <2> QED BY EnteredAt
<1>2. /\ z \in Place /\ m \in Msg /\ at2[z] = Append(at[z], m)
      /\ \A x \in Place \ {z} : at2[x] = at[x]
  BY DEF Entered
<1>3. at[z] \in Seq(Msg)
  BY <1>2 DEF Sequences
<1>4. /\ at2[z] \in Seq(Msg) /\ Len(at2[z]) = Len(at[z]) + 1
      /\ \A i \in 1 .. Len(at[z]) : at2[z][i] = at[z][i]
      /\ at2[z][Len(at[z]) + 1] = m
  BY <1>2, <1>3, AppendProperties
<1>5. /\ DOMAIN at[z] = 1 .. Len(at[z]) /\ DOMAIN at2[z] = 1 .. (Len(at[z]) + 1)
      /\ Len(at[z]) \in Nat
  BY <1>3, <1>4, LenProperties
<1>6. m \in Everything(at2)
  <2>1. Len(at[z]) + 1 \in DOMAIN at2[z]
    BY <1>5
  <2> QED BY <1>2, <1>4, <2>1 DEF Everything, ToSet
<1>7. Everything(at) \subseteq Everything(at2)
  <2> SUFFICES ASSUME NEW x \in Place, NEW i \in DOMAIN at[x]
               PROVE  \E j \in DOMAIN at2[x] : at[x][i] = at2[x][j]
    BY DEF Everything, ToSet
  <2>1. CASE x = z
    <3>1. i \in DOMAIN at2[z] /\ at2[z][i] = at[z][i]
      BY <1>4, <1>5, <2>1, SMTT(20)
    <3> QED BY <2>1, <3>1
  <2>2. CASE x # z
    BY <1>2, <2>2
  <2> QED BY <2>1, <2>2
<1> QED BY <1>1, <1>6, <1>7

\* What is handled next is the first of its lane, and it is nowhere else.
Handled(at, at2, m) ==
    /\ at[ToRaftnode] # << >> /\ m = Head(at[ToRaftnode])
    /\ at2[ToRaftnode] = Tail(at[ToRaftnode])
    /\ \A x \in Place \ {ToRaftnode} : at2[x] = at[x]

LEMMA FirstStage ==
  ASSUME NEW x \in Place, x # ToRaftnode
  PROVE  ToRaftnode[1] < x[1]
BY DEF Place, ToPipeline, Serialize, FromSer, Stream, ToDeser, Receive, ToRaftnode

LEMMA HandledFirst ==
  ASSUME NEW at, NEW at2, NEW no, Sequences(at), Orderly(at, no), NEW m, Handled(at, at2, m)
  PROVE  /\ m \in Everything(at)
         /\ \A n \in Everything(at) : n # m /\ Lane(m) = Lane(n) => m.no < n.no
<1>1. ToRaftnode \in Place
  BY PlaceStages
<1>2. /\ at[ToRaftnode] \in Seq(Msg) /\ at[ToRaftnode] # << >>
  BY <1>1 DEF Sequences, Handled
<1>3. 1 \in DOMAIN at[ToRaftnode] /\ m = at[ToRaftnode][1]
  <2>1. Len(at[ToRaftnode]) \in Nat \ {0} /\ DOMAIN at[ToRaftnode] = 1 .. Len(at[ToRaftnode])
    BY <1>2, EmptySeq, LenProperties
  <2> QED BY <1>2, <2>1 DEF Handled
<1>4. m \in Everything(at)
  BY <1>1, <1>3 DEF Everything, ToSet
<1>5. ASSUME NEW x \in Place, NEW i \in DOMAIN at[x], at[x][i] # m, Lane(m) = Lane(at[x][i])
      PROVE  m.no < at[x][i].no
  <2>1. Precedes(ToRaftnode, 1, x, i)
    <3>1. CASE x # ToRaftnode
      BY <3>1, FirstStage DEF Precedes
    <3>2. CASE x = ToRaftnode
      <4>1. i \in 1 .. Len(at[ToRaftnode]) /\ i # 1
        BY <1>2, <1>3, <1>5, <3>2, LenProperties
      <4>2. 1 < i
        <5>1. Len(at[ToRaftnode]) \in Nat
          BY <1>2, LenProperties
        <5> QED BY <4>1, <5>1
      <4> QED BY <3>2, <4>2 DEF Precedes
    <3> QED BY <3>1, <3>2
  <2> QED BY <1>1, <1>3, <1>5, <2>1 DEF Orderly, InOrder
<1>6. \A n \in Everything(at) : n # m /\ Lane(m) = Lane(n) => m.no < n.no
  BY <1>5 DEF Everything, ToSet
<1> QED BY <1>4, <1>6

LEMMA HandledEverything ==
  ASSUME NEW at, NEW at2, NEW no, Sequences(at), Orderly(at, no), NEW m, Handled(at, at2, m)
  PROVE  Everything(at2) = Everything(at) \ {m}
<1>1. ToRaftnode \in Place
  BY PlaceStages
<1>2. /\ at[ToRaftnode] \in Seq(Msg) /\ at[ToRaftnode] # << >>
      /\ m = Head(at[ToRaftnode]) /\ at2[ToRaftnode] = Tail(at[ToRaftnode])
      /\ \A x \in Place \ {ToRaftnode} : at2[x] = at[x]
  BY <1>1 DEF Sequences, Handled
<1>3. Shortened(at, at2)
  BY <1>2 DEF Shortened
<1>4. Everything(at2) \subseteq Everything(at)
  BY <1>3, ShortenedSubset
<1> DEFINE q == at[ToRaftnode]
<1>5. /\ Len(q) \in Nat /\ DOMAIN q = 1 .. Len(q) /\ m = q[1] /\ 1 \in DOMAIN q
      /\ DOMAIN at2[ToRaftnode] = 1 .. (Len(q) - 1)
      /\ \A i \in 1 .. (Len(q) - 1) : at2[ToRaftnode][i] = q[i + 1]
  <2>1. Len(q) \in Nat \ {0} /\ DOMAIN q = 1 .. Len(q)
    BY <1>2, EmptySeq, LenProperties
  <2>2. /\ Tail(q) \in Seq(Msg) /\ Len(Tail(q)) = Len(q) - 1
        /\ \A i \in 1 .. Len(Tail(q)) : Tail(q)[i] = q[i + 1]
    BY <1>2, HeadTailProperties
  <2>3. DOMAIN Tail(q) = 1 .. Len(Tail(q))
    BY <2>2, LenProperties
  <2> QED BY <1>2, <2>1, <2>2, <2>3
<1> HIDE DEF q
<1>6. ASSUME NEW x \in Place, NEW i \in DOMAIN at2[x], at2[x][i] = m
      PROVE  FALSE
  <2>1. PICK j \in DOMAIN at[x] : Precedes(ToRaftnode, 1, x, j) /\ at2[x][i] = at[x][j]
    <3>1. CASE x # ToRaftnode
      <4>1. Precedes(ToRaftnode, 1, x, i)
        BY <3>1, FirstStage DEF Precedes
      <4> QED BY <1>2, <1>6, <3>1, <4>1
    <3>2. CASE x = ToRaftnode
      <4>1. i \in 1 .. (Len(q) - 1)
        BY <1>5, <1>6, <3>2
      <4>2. i + 1 \in DOMAIN q /\ 1 < i + 1
        BY <1>5, <4>1
      <4>3. at2[x][i] = at[x][i + 1]
        BY <1>5, <3>2, <4>1 DEF q
      <4>4. i + 1 \in DOMAIN at[x]
        BY <3>2, <4>2 DEF q
      <4>5. Precedes(ToRaftnode, 1, x, i + 1)
        BY <3>2, <4>2 DEF Precedes
      <4> QED BY <4>3, <4>4, <4>5
    <3> QED BY <3>1, <3>2
  <2>2. at[ToRaftnode][1] = m /\ 1 \in DOMAIN at[ToRaftnode]
    BY <1>5 DEF q
  <2>3. at[ToRaftnode][1].no < at[x][j].no
    BY <1>1, <1>6, <2>1, <2>2 DEF Orderly, InOrder
  <2>4. m \in Msg
    BY <1>2, HeadTail
  <2>5. m.no \in Int
    BY <2>4 DEF Msg
  <2>6. m.no < m.no
    BY <1>6, <2>1, <2>2, <2>3
  <2> QED BY <2>5, <2>6
<1>7. m \notin Everything(at2)
  BY <1>6 DEF Everything, ToSet
<1>8. ASSUME NEW x \in Place, NEW i \in DOMAIN at[x], at[x][i] # m
      PROVE  \E z \in Place : \E j \in DOMAIN at2[z] : at[x][i] = at2[z][j]
  <2>1. CASE x # ToRaftnode
    BY <1>2, <1>8, <2>1
  <2>2. CASE x = ToRaftnode
    <3> DEFINE j == i - 1
    <3>1. i \in 1 .. Len(q) /\ i # 1
      BY <1>5, <1>8, <2>2 DEF q
    <3>2. j \in 1 .. (Len(q) - 1) /\ i = j + 1
      BY <1>5, <3>1
    <3> HIDE DEF j
    <3>3. j \in DOMAIN at2[ToRaftnode] /\ at2[ToRaftnode][j] = at[x][i]
      BY <1>5, <2>2, <3>2 DEF q
    <3> QED BY <1>1, <3>3
  <2> QED BY <2>1, <2>2
<1>9. Everything(at) \ {m} \subseteq Everything(at2)
  BY <1>8 DEF Everything, ToSet
<1> QED BY <1>4, <1>7, <1>9

-----------------------------------------------------------------------------
(* The places of MessageQueues                                             *)

Spread(queue, buf, ser, wire, queue2, buf2, last) ==
    [x \in Place |-> CASE x[1] = 7 -> queue[x[2]]
                       [] x[1] = 6 -> buf
                       [] x[1] = 5 -> ser[x[2]]
                       [] x[1] = 4 -> wire
                       [] x[1] = 3 -> queue2[x[2]]
                       [] x[1] = 2 -> buf2
                       [] x[1] = 1 -> last]

At == Spread(to_pipeline, serialize.batch, from_ser, stream, to_deser, receive.batch,
             to_raftnode)

LEMMA SpreadPlaces ==
  ASSUME NEW queue, NEW buf, NEW ser, NEW wire, NEW queue2, NEW buf2, NEW last, NEW at,
         at = Spread(queue, buf, ser, wire, queue2, buf2, last)
  PROVE  /\ \A p \in Priority : at[ToPipeline(p)] = queue[p] /\ at[ToDeser(p)] = queue2[p]
         /\ \A p \in Producer : at[FromSer(p)] = ser[p]
         /\ at[Serialize] = buf /\ at[Stream] = wire
         /\ at[Receive] = buf2 /\ at[ToRaftnode] = last
<1>1. ASSUME NEW p \in Priority
      PROVE  at[ToPipeline(p)] = queue[p] /\ at[ToDeser(p)] = queue2[p]
  <2>1. /\ ToPipeline(p) \in Place /\ ToPipeline(p)[1] = 7 /\ ToPipeline(p)[2] = p
        /\ ToDeser(p) \in Place /\ ToDeser(p)[1] = 3 /\ ToDeser(p)[2] = p
    BY PlaceStages
  <2> QED BY <2>1 DEF Spread
<1>2. ASSUME NEW p \in Producer PROVE at[FromSer(p)] = ser[p]
  <2>1. FromSer(p) \in Place /\ FromSer(p)[1] = 5 /\ FromSer(p)[2] = p
    BY PlaceStages
  <2> QED BY <2>1 DEF Spread
<1>0. /\ Serialize \in Place /\ Serialize[1] = 6 /\ Stream \in Place /\ Stream[1] = 4
      /\ Receive \in Place /\ Receive[1] = 2 /\ ToRaftnode \in Place /\ ToRaftnode[1] = 1
  BY PlaceStages
<1>3. at[Serialize] = buf /\ at[Stream] = wire
  BY <1>0 DEF Spread
<1>4. at[Receive] = buf2 /\ at[ToRaftnode] = last
  BY <1>0 DEF Spread
<1> QED BY <1>1, <1>2, <1>3, <1>4

LEMMA AtPlaces ==
  /\ \A p \in Priority : At[ToPipeline(p)] = to_pipeline[p] /\ At[ToDeser(p)] = to_deser[p]
  /\ \A p \in Producer : At[FromSer(p)] = from_ser[p]
  /\ At[Serialize] = serialize.batch /\ At[Stream] = stream
  /\ At[Receive] = receive.batch /\ At[ToRaftnode] = to_raftnode
BY SpreadPlaces DEF At

\* The same of the next state.
LEMMA AtPlacesNext ==
  /\ \A p \in Priority : At'[ToPipeline(p)] = to_pipeline'[p] /\ At'[ToDeser(p)] = to_deser'[p]
  /\ \A p \in Producer : At'[FromSer(p)] = from_ser'[p]
  /\ At'[Serialize] = serialize'.batch /\ At'[Stream] = stream'
  /\ At'[Receive] = receive'.batch /\ At'[ToRaftnode] = to_raftnode'
BY SpreadPlaces DEF At

\* Every place is one of these.
LEMMA Places ==
  ASSUME NEW x \in Place
  PROVE  \/ \E p \in Priority : x = ToPipeline(p) \/ x = ToDeser(p)
         \/ \E p \in Producer : x = FromSer(p)
         \/ x \in {Serialize, Stream, Receive, ToRaftnode}
BY DEF Place

\* All of a sequence moves to the end of another.
LEMMA ConcatMoves ==
  ASSUME NEW s \in Seq(Msg), NEW r \in Seq(Msg)
  PROVE  /\ Len(r \o s) = Len(r) + Len(s)
         /\ \A i \in 1 .. Len(r) : (r \o s)[i] = r[i]
         /\ \A i \in 1 .. Len(s) : (r \o s)[Len(r) + i] = s[i]
<1> DEFINE L == Len(r)
           K == Len(s)
<1>1. /\ Len(r \o s) = L + K
      /\ \A i \in 1 .. (L + K) : (r \o s)[i] = IF i <= L THEN r[i] ELSE s[i - L]
  BY ConcatProperties
<1>2. L \in Nat /\ K \in Nat
  BY LenProperties
<1> HIDE DEF L, K
<1>3. ASSUME NEW i \in 1 .. L PROVE (r \o s)[i] = r[i]
  <2>1. i \in 1 .. (L + K) /\ i <= L
    BY <1>2
  <2> QED BY <1>1, <2>1
<1>4. ASSUME NEW i \in 1 .. K PROVE (r \o s)[L + i] = s[i]
  <2>1. L + i \in 1 .. (L + K) /\ ~(L + i <= L) /\ (L + i) - L = i
    BY <1>2
  <2>2. (r \o s)[L + i] = s[(L + i) - L]
    BY <1>1, <2>1
  <2> QED BY <2>1, <2>2
<1> QED BY <1>1, <1>3, <1>4 DEF L, K

\* A turn of try_dequeue_bulk moves the first messages of a queue to the buffer.
LEMMA PolledMoves ==
  ASSUME NEW queue \in Queues, NEW poll \in Poll, Fits(poll), ~Exhausted(poll),
         NEW p, p = poll.prio
  PROVE  /\ p \in Priority
         /\ Passed(queue[p], Left(queue, poll)[p], poll.batch, Polled(queue, poll).batch,
                   Len(Taken(queue, poll)))
         /\ \A r \in Priority : r # p => Left(queue, poll)[r] = queue[r]
<1> DEFINE k == Len(Taken(queue, poll))
           t == Taken(queue, poll)
           q == queue[p]
           room == MaxBatch - Len(poll.batch)
           j == IF Len(q) < room THEN Len(q) ELSE room
<1>1. p \in Priority /\ poll.batch \in Seq(Msg) /\ Len(poll.batch) \in Nat
  BY LenProperties DEF Poll, Exhausted, Priority, MAX_PRIORITY
<1>2. q \in Seq(Msg) /\ Len(q) \in Nat /\ room \in Nat
  BY <1>1, QueueAssumption, LenProperties DEF Queues, Fits
<1>3. t = SubSeq(q, 1, j)
  BY DEF Taken
<1> HIDE DEF room, q, k
<1>4. j \in Nat /\ j <= Len(q)
  BY <1>2
<1> HIDE DEF j, t
<1>5. \A i \in 1 .. j : q[i] \in Msg
  <2> TAKE i \in 1 .. j
  <2>1. i \in 1 .. Len(q)
    BY <1>2, <1>4
  <2> QED BY <1>2, <2>1, ElementOfSeq
<1>6. /\ t \in Seq(Msg) /\ Len(t) = j /\ \A i \in 1 .. j : t[i] = q[i]
  <2>1. /\ t \in Seq(Msg) /\ Len(t) = (IF 1 <= j THEN j - 1 + 1 ELSE 0)
        /\ \A i \in 1 .. (j - 1 + 1) : t[i] = q[1 + i - 1]
    BY <1>3, <1>4, <1>5, SubSeqProperties
  <2> QED BY <1>4, <2>1
<1>7. k = j
  BY <1>6 DEF t, k
<1>8. Left(queue, poll) = [queue EXCEPT ![p] = SubSeq(q, k + 1, Len(q))]
  BY DEF Left, q, k
<1>9. /\ Left(queue, poll)[p] = SubSeq(q, k + 1, Len(q))
      /\ \A r \in Priority : r # p => Left(queue, poll)[r] = queue[r]
  BY <1>1, <1>8 DEF Queues
<1>10. /\ Len(SubSeq(q, k + 1, Len(q))) = Len(q) - k
       /\ \A i \in 1 .. (Len(q) - k) : SubSeq(q, k + 1, Len(q))[i] = q[i + k]
  <2>1. \A i \in (k + 1) .. Len(q) : q[i] \in Msg
    <3> TAKE i \in (k + 1) .. Len(q)
    <3>1. i \in 1 .. Len(q)
      BY <1>2, <1>4, <1>7
    <3> QED BY <1>2, <3>1, ElementOfSeq
  <2>2. /\ Len(SubSeq(q, k + 1, Len(q)))
             = (IF k + 1 <= Len(q) THEN Len(q) - (k + 1) + 1 ELSE 0)
        /\ \A i \in 1 .. (Len(q) - (k + 1) + 1) :
              SubSeq(q, k + 1, Len(q))[i] = q[(k + 1) + i - 1]
    BY <1>2, <1>4, <1>7, <2>1, SubSeqProperties
  <2>3. Len(q) - (k + 1) + 1 = Len(q) - k
    BY <1>2, <1>4, <1>7
  <2>4. Len(SubSeq(q, k + 1, Len(q))) = Len(q) - k
    BY <1>2, <1>4, <1>7, <2>2
  <2>5. ASSUME NEW i \in 1 .. (Len(q) - k)
        PROVE  SubSeq(q, k + 1, Len(q))[i] = q[i + k]
    <3>1. (k + 1) + i - 1 = i + k
      BY <1>4, <1>7
    <3> QED BY <2>2, <2>3, <3>1
  <2> QED BY <2>4, <2>5
<1>11. Polled(queue, poll).batch = poll.batch \o t
  BY DEF Polled, t
<1>12. /\ Len(poll.batch \o t) = Len(poll.batch) + k
       /\ \A i \in 1 .. Len(poll.batch) : (poll.batch \o t)[i] = poll.batch[i]
       /\ \A i \in 1 .. k : (poll.batch \o t)[Len(poll.batch) + i] = q[i]
  <2>1. t \in Seq(Msg) /\ Len(t) = k /\ \A i \in 1 .. k : t[i] = q[i]
    BY <1>6, <1>7
  <2> DEFINE batch == poll.batch
  <2>2. batch \in Seq(Msg)
    BY <1>1
  <2> HIDE DEF batch
  <2>3. /\ Len(batch \o t) = Len(batch) + Len(t)
        /\ \A i \in 1 .. Len(batch) : (batch \o t)[i] = batch[i]
        /\ \A i \in 1 .. Len(t) : (batch \o t)[Len(batch) + i] = t[i]
    BY <2>1, <2>2, ConcatMoves
  <2>4. /\ Len(batch \o t) = Len(batch) + k
        /\ \A i \in 1 .. k : (batch \o t)[Len(batch) + i] = q[i]
    BY <2>1, <2>3
  <2> QED BY <2>3, <2>4 DEF batch
<1>13. k \in 0 .. Len(queue[p])
  BY <1>2, <1>4, <1>7 DEF q
<1>14. Passed(q, Left(queue, poll)[p], poll.batch, Polled(queue, poll).batch, k)
  BY <1>9, <1>10, <1>11, <1>12, <1>13 DEF Passed, q
<1> QED BY <1>1, <1>9, <1>14 DEF q, k

\* The first of a sequence moves to the end of another.
LEMMA FirstMoves ==
  ASSUME NEW s \in Seq(Msg), s # << >>, NEW r \in Seq(Msg)
  PROVE  /\ Head(s) = s[1] /\ 1 \in 0 .. Len(s)
         /\ Len(Tail(s)) = Len(s) - 1
         /\ \A i \in 1 .. (Len(s) - 1) : Tail(s)[i] = s[i + 1]
         /\ Len(Append(r, Head(s))) = Len(r) + 1
         /\ \A i \in 1 .. Len(r) : Append(r, Head(s))[i] = r[i]
         /\ \A i \in 1 .. 1 : Append(r, Head(s))[Len(r) + i] = s[i]
<1>1. /\ Head(s) \in Msg /\ Len(Tail(s)) = Len(s) - 1
      /\ \A i \in 1 .. Len(Tail(s)) : Tail(s)[i] = s[i + 1]
  BY HeadTailProperties
<1>2. Len(s) \in Nat \ {0} /\ Head(s) = s[1]
  BY EmptySeq
<1>3. /\ Len(Append(r, Head(s))) = Len(r) + 1
      /\ \A i \in 1 .. Len(r) : Append(r, Head(s))[i] = r[i]
      /\ Append(r, Head(s))[Len(r) + 1] = Head(s)
  BY <1>1, AppendProperties
<1>4. \A i \in 1 .. 1 : i = 1
  OBVIOUS
<1> QED BY <1>1, <1>2, <1>3, <1>4

-----------------------------------------------------------------------------
(* The steps                                                               *)

\* Inductive: as many numbers are given as messages were sent, and what is on
\* the way is in the order of its lane.
OrderInv == QueueInv /\ Orderly(At, sent)

LEMMA AtSequences == QueueInv => Sequences(At)
<1> SUFFICES ASSUME QueueInv PROVE Sequences(At)
  OBVIOUS
<1>1. /\ \A p \in Priority : to_pipeline[p] \in Seq(Msg) /\ to_deser[p] \in Seq(Msg)
      /\ \A p \in Producer : from_ser[p] \in Seq(Msg)
      /\ serialize.batch \in Seq(Msg) /\ receive.batch \in Seq(Msg)
      /\ stream \in Seq(Msg) /\ to_raftnode \in Seq(Msg)
  BY QueueInvParts DEF Queues, Fits, Poll
<1>2. ASSUME NEW x \in Place PROVE At[x] \in Seq(Msg)
  BY <1>1, Places, AtPlaces, ZenonT(30)
<1> QED BY <1>2 DEF Sequences

LEMMA AtSequencesNext == QueueInv' => Sequences(At')
<1> SUFFICES ASSUME QueueInv' PROVE Sequences(At')
  OBVIOUS
<1>1. /\ \A p \in Priority : to_pipeline'[p] \in Seq(Msg) /\ to_deser'[p] \in Seq(Msg)
      /\ \A p \in Producer : from_ser'[p] \in Seq(Msg)
      /\ serialize'.batch \in Seq(Msg) /\ receive'.batch \in Seq(Msg)
      /\ stream' \in Seq(Msg) /\ to_raftnode' \in Seq(Msg)
  BY DEF QueueInv, TypeOK, Poll
<1>2. ASSUME NEW x \in Place PROVE At'[x] \in Seq(Msg)
  BY <1>1, Places, AtPlacesNext, ZenonT(30)
<1> QED BY <1>2 DEF Sequences

LEMMA SerializePollMoves ==
  ASSUME QueueInv, InPlace(At), serialize_poll
  PROVE  Moved(At, At', ToPipeline(serialize.prio), Serialize,
               Len(Taken(to_pipeline, serialize)))
<1> DEFINE p == serialize.prio
           k == Len(Taken(to_pipeline, serialize))
<1>1. /\ serialize \in Poll /\ to_pipeline \in Queues /\ Fits(serialize) /\ ~Exhausted(serialize)
      /\ serialize' = Polled(to_pipeline, serialize)
      /\ to_pipeline' = Left(to_pipeline, serialize)
      /\ UNCHANGED <<from_ser, stream, to_deser, receive, to_raftnode>>
  BY QueueInvParts DEF Fits, serialize_poll
<1> HIDE DEF p, k
<1>2. /\ p \in Priority
      /\ Passed(to_pipeline[p], to_pipeline'[p], serialize.batch, serialize'.batch, k)
      /\ \A r \in Priority : r # p => to_pipeline'[r] = to_pipeline[r]
  BY <1>1, PolledMoves DEF p, k
<1> DEFINE x == ToPipeline(p)
           y == Serialize
<1>3. /\ x \in Place /\ y \in Place /\ x[1] = y[1] + 1 /\ x[1] = 7 /\ y[1] = 6
  BY <1>2, PlaceStages
<1>4. /\ At[x] = to_pipeline[p] /\ At'[x] = to_pipeline'[p]
      /\ At[y] = serialize.batch /\ At'[y] = serialize'.batch
  BY <1>2, AtPlaces, AtPlacesNext
<1>5. ASSUME NEW z \in Place, z # x, z # y PROVE At'[z] = At[z]
  <2>1. CASE \E r \in Priority : z = ToPipeline(r)
    <3>1. PICK r \in Priority : z = ToPipeline(r)
      BY <2>1
    <3>2. r # p
      BY <1>5, <3>1
    <3> QED BY <1>2, <3>1, <3>2, AtPlaces, AtPlacesNext
  <2>2. CASE \E r \in Priority : z = ToDeser(r)
    BY <1>1, <2>2, AtPlaces, AtPlacesNext
  <2>3. CASE \E r \in Producer : z = FromSer(r)
    BY <1>1, <2>3, AtPlaces, AtPlacesNext
  <2>4. CASE z \in {Stream, Receive, ToRaftnode}
    BY <1>1, <2>4, AtPlaces, AtPlacesNext
  <2> QED BY <1>5, <2>1, <2>2, <2>3, <2>4, Places
<1> HIDE DEF x, y
<1>6. ASSUME NEW i \in 1 .. k PROVE Goes(y, At[x][i])
  <2>1. i \in DOMAIN At[x]
    <3>1. to_pipeline[p] \in Seq(Msg)
      BY <1>1, <1>2 DEF Queues
    <3>2. k \in 0 .. Len(to_pipeline[p])
      BY <1>2 DEF Passed
    <3> QED BY <1>4, <3>1, <3>2, LenProperties
  <2> QED BY <1>3, <2>1 DEF InPlace, Goes
<1>7. Moved(At, At', x, y, k)
  BY <1>2, <1>3, <1>4, <1>5, <1>6 DEF Moved
<1> QED BY <1>7 DEF p, k, x, y

\* What the moves of whole buffers and of first messages pass.
LEMMA AllPassed ==
  ASSUME NEW s \in Seq(Msg), NEW r \in Seq(Msg)
  PROVE  Passed(s, << >>, r, r \o s, Len(s))
<1>1. Len(s) \in Nat
  BY LenProperties
<1>2. Len(s) \in 0 .. Len(s) /\ Len(<< >>) = Len(s) - Len(s)
  BY <1>1
<1>3. \A i \in 1 .. (Len(s) - Len(s)) : << >>[i] = s[i + Len(s)]
  BY <1>1
<1> QED BY <1>2, <1>3, ConcatMoves DEF Passed

LEMMA FirstPassed ==
  ASSUME NEW s \in Seq(Msg), s # << >>, NEW r \in Seq(Msg)
  PROVE  Passed(s, Tail(s), r, Append(r, Head(s)), 1) /\ Head(s) = s[1]
BY FirstMoves DEF Passed

\* What passes is in place where it comes from.
LEMMA PassedPlace ==
  ASSUME NEW at, Sequences(at), InPlace(at), NEW x \in Place, NEW q2, NEW r, NEW r2, NEW k,
         Passed(at[x], q2, r, r2, k), NEW i \in 1 .. k
  PROVE  i \in DOMAIN at[x] /\ Goes(x, at[x][i]) /\ at[x][i] \in Msg
<1>1. at[x] \in Seq(Msg) /\ k \in 0 .. Len(at[x])
  BY DEF Sequences, Passed
<1>2. Len(at[x]) \in Nat /\ DOMAIN at[x] = 1 .. Len(at[x])
  BY <1>1, LenProperties
<1>3. i \in 1 .. Len(at[x])
  BY <1>1, <1>2
<1> QED BY <1>1, <1>2, <1>3, ElementOfSeq DEF InPlace

LEMMA ReceivePollMoves ==
  ASSUME QueueInv, InPlace(At), receive_poll
  PROVE  Moved(At, At', ToDeser(receive.prio), Receive, Len(Taken(to_deser, receive)))
<1> DEFINE p == receive.prio
           k == Len(Taken(to_deser, receive))
<1>1. /\ receive \in Poll /\ to_deser \in Queues /\ Fits(receive) /\ ~Exhausted(receive)
      /\ receive' = Polled(to_deser, receive)
      /\ to_deser' = Left(to_deser, receive)
      /\ UNCHANGED <<to_pipeline, serialize, from_ser, stream, to_raftnode>>
  BY QueueInvParts DEF Fits, receive_poll
<1> HIDE DEF p, k
<1>2. /\ p \in Priority
      /\ Passed(to_deser[p], to_deser'[p], receive.batch, receive'.batch, k)
      /\ \A r \in Priority : r # p => to_deser'[r] = to_deser[r]
  BY <1>1, PolledMoves DEF p, k
<1> DEFINE x == ToDeser(p)
           y == Receive
<1>3. /\ x \in Place /\ y \in Place /\ x[1] = y[1] + 1 /\ x[1] = 3 /\ y[1] = 2
  BY <1>2, PlaceStages
<1>4. /\ At[x] = to_deser[p] /\ At'[x] = to_deser'[p]
      /\ At[y] = receive.batch /\ At'[y] = receive'.batch
  BY <1>2, AtPlaces, AtPlacesNext
<1>5. ASSUME NEW z \in Place, z # x, z # y PROVE At'[z] = At[z]
  <2>1. CASE \E r \in Priority : z = ToDeser(r)
    <3>1. PICK r \in Priority : z = ToDeser(r)
      BY <2>1
    <3>2. r # p
      BY <1>5, <3>1
    <3> QED BY <1>2, <3>1, <3>2, AtPlaces, AtPlacesNext
  <2>2. CASE \E r \in Priority : z = ToPipeline(r)
    BY <1>1, <2>2, AtPlaces, AtPlacesNext
  <2>3. CASE \E r \in Producer : z = FromSer(r)
    BY <1>1, <2>3, AtPlaces, AtPlacesNext
  <2>4. CASE z \in {Serialize, Stream, ToRaftnode}
    BY <1>1, <2>4, AtPlaces, AtPlacesNext
  <2> QED BY <1>5, <2>1, <2>2, <2>3, <2>4, Places
<1> HIDE DEF x, y
<1>6. ASSUME NEW i \in 1 .. k PROVE Goes(y, At[x][i])
  BY <1>3 DEF Goes
<1>7. Moved(At, At', x, y, k)
  BY <1>2, <1>3, <1>4, <1>5, <1>6 DEF Moved
<1> QED BY <1>7 DEF p, k, x, y

LEMMA SerializeDoneMoves ==
  ASSUME QueueInv, InPlace(At), serialize_done
  PROVE  \/ Moved(At, At', Serialize, FromSer("serialize"), Len(serialize.batch))
         \/ Shortened(At, At')
<1>1. /\ serialize.batch \in Seq(Msg) /\ from_ser["serialize"] \in Seq(Msg)
      /\ from_ser \in [Producer -> Seq(Msg)] /\ "serialize" \in Producer
  BY QueueInvParts DEF Fits, Poll, Producer
<1>2. /\ serialize'.batch = << >>
      /\ UNCHANGED <<to_pipeline, stream, to_deser, receive, to_raftnode>>
  BY DEF serialize_done, Idle
<1>3. /\ Serialize \in Place /\ FromSer("serialize") \in Place
      /\ Serialize[1] = 6 /\ FromSer("serialize")[1] = 5 /\ FromSer("serialize")[2] = "serialize"
  BY <1>1, PlaceStages
<1>4. /\ At[Serialize] = serialize.batch /\ At'[Serialize] = serialize'.batch
      /\ At[FromSer("serialize")] = from_ser["serialize"]
      /\ At'[FromSer("serialize")] = from_ser'["serialize"]
  BY <1>1, AtPlaces, AtPlacesNext
<1>5. ASSUME NEW z \in Place, z # Serialize, z # FromSer("serialize") PROVE At'[z] = At[z]
  <2>1. CASE \E p \in Priority : z = ToPipeline(p) \/ z = ToDeser(p)
    BY <1>2, <2>1, AtPlaces, AtPlacesNext
  <2>2. CASE \E p \in Producer : z = FromSer(p)
    <3>1. PICK p \in Producer : z = FromSer(p)
      BY <2>2
    <3>2. p # "serialize"
      BY <1>5, <3>1
    <3>3. from_ser'[p] = from_ser[p]
      BY <1>1, <3>2 DEF serialize_done
    <3> QED BY <3>1, <3>3, AtPlaces, AtPlacesNext
  <2>3. CASE z \in {Stream, Receive, ToRaftnode}
    BY <1>2, <2>3, AtPlaces, AtPlacesNext
  <2> QED BY <1>5, <2>1, <2>2, <2>3, Places
<1>6. CASE is_running["sender"]
  <2>1. from_ser'["serialize"] = from_ser["serialize"] \o serialize.batch
    BY <1>1, <1>6 DEF serialize_done
  <2>2. Passed(At[Serialize], At'[Serialize], At[FromSer("serialize")],
               At'[FromSer("serialize")], Len(serialize.batch))
    BY <1>1, <1>2, <1>4, <2>1, AllPassed
  <2>3. ASSUME NEW i \in 1 .. Len(serialize.batch)
        PROVE  Goes(FromSer("serialize"), At[Serialize][i])
    <3>1. ~IsDirect(At[Serialize][i])
      <4>1. i \in DOMAIN At[Serialize]
        BY <1>1, <1>4, LenProperties
      <4> QED BY <1>3, <4>1 DEF InPlace, Goes
    <3> QED BY <1>3, <3>1 DEF Goes
  <2>4. Serialize[1] = FromSer("serialize")[1] + 1
    BY <1>3
  <2> QED BY <1>3, <1>5, <2>2, <2>3, <2>4 DEF Moved
<1>7. CASE ~is_running["sender"]
  <2>1. from_ser' = from_ser
    BY <1>7 DEF serialize_done
  <2>2. \A z \in Place : At'[z] = At[z] \/ At'[z] = << >>
    BY <1>2, <1>4, <1>5, <2>1
  <2> QED BY <2>2 DEF Shortened
<1> QED BY <1>6, <1>7

LEMMA WriteMoves ==
  ASSUME QueueInv, NEW p \in Producer, write(p)
  PROVE  Moved(At, At', FromSer(p), Stream, 1) \/ Shortened(At, At')
<1>1. /\ from_ser[p] \in Seq(Msg) /\ stream \in Seq(Msg) /\ from_ser[p] # << >>
      /\ from_ser \in [Producer -> Seq(Msg)]
  BY QueueInvParts DEF write
<1>2. /\ from_ser'[p] = Tail(from_ser[p])
      /\ UNCHANGED <<to_pipeline, serialize, to_deser, receive, to_raftnode>>
  BY <1>1 DEF write
<1>3. /\ FromSer(p) \in Place /\ Stream \in Place
      /\ FromSer(p)[1] = 5 /\ Stream[1] = 4
  BY PlaceStages
<1>4. /\ At[FromSer(p)] = from_ser[p] /\ At'[FromSer(p)] = from_ser'[p]
      /\ At[Stream] = stream /\ At'[Stream] = stream'
  BY AtPlaces, AtPlacesNext
<1>5. ASSUME NEW z \in Place, z # Stream, z # FromSer(p) PROVE At'[z] = At[z]
  <2>1. CASE \E r \in Priority : z = ToPipeline(r) \/ z = ToDeser(r)
    BY <1>2, <2>1, AtPlaces, AtPlacesNext
  <2>2. CASE \E r \in Producer : z = FromSer(r)
    <3>1. PICK r \in Producer : z = FromSer(r)
      BY <2>2
    <3>2. r # p
      BY <1>5, <3>1
    <3>3. from_ser'[r] = from_ser[r]
      BY <1>1, <3>2 DEF write
    <3> QED BY <3>1, <3>3, AtPlaces, AtPlacesNext
  <2>3. CASE z \in {Serialize, Receive, ToRaftnode}
    BY <1>2, <2>3, AtPlaces, AtPlacesNext
  <2> QED BY <1>5, <2>1, <2>2, <2>3, Places
<1>6. CASE is_running["receiver"]
  <2>1. stream' = Append(stream, Head(from_ser[p]))
    BY <1>6 DEF write
  <2>2. Passed(At[FromSer(p)], At'[FromSer(p)], At[Stream], At'[Stream], 1)
    BY <1>1, <1>2, <1>4, <2>1, FirstPassed
  <2>3. \A i \in 1 .. 1 : Goes(Stream, At[FromSer(p)][i])
    BY <1>3 DEF Goes
  <2>4. FromSer(p)[1] = Stream[1] + 1
    BY <1>3
  <2> QED BY <1>3, <1>5, <2>2, <2>3, <2>4 DEF Moved
<1>7. CASE ~is_running["receiver"]
  <2>1. stream' = stream
    BY <1>7 DEF write
  <2>2. At'[Stream] = At[Stream]
    BY <1>4, <2>1
  <2>3. At[FromSer(p)] # << >> /\ At'[FromSer(p)] = Tail(At[FromSer(p)])
    BY <1>1, <1>2, <1>4
  <2> QED BY <1>5, <2>2, <2>3 DEF Shortened
<1> QED BY <1>6, <1>7

LEMMA ReadMoves ==
  ASSUME QueueInv, read_cb
  PROVE  Moved(At, At', Stream, ToDeser(ReceivePriority(Head(stream))), 1)
<1> DEFINE p == ReceivePriority(Head(stream))
<1>1. /\ stream \in Seq(Msg) /\ stream # << >> /\ stream' = Tail(stream)
      /\ to_deser' = [to_deser EXCEPT ![p] = Append(@, Head(stream))]
      /\ to_deser \in Queues
      /\ UNCHANGED <<to_pipeline, serialize, from_ser, receive, to_raftnode>>
  BY QueueInvParts DEF read_cb
<1>2. p \in Priority
  <2>1. Head(stream) \in Msg
    BY <1>1, HeadTail
  <2> QED BY <2>1, PrioritiesOfMessages
<1>3. Head(stream) = stream[1] /\ ReceivePriority(stream[1]) = p
  BY <1>1, FirstPassed
<1> HIDE DEF p
<1>4. /\ to_deser'[p] = Append(to_deser[p], Head(stream)) /\ to_deser[p] \in Seq(Msg)
      /\ \A r \in Priority : r # p => to_deser'[r] = to_deser[r]
  BY <1>1, <1>2 DEF Queues
<1>5. /\ Stream \in Place /\ ToDeser(p) \in Place
      /\ Stream[1] = 4 /\ ToDeser(p)[1] = 3 /\ ToDeser(p)[2] = p
  BY <1>2, PlaceStages
<1>6. /\ At[Stream] = stream /\ At'[Stream] = stream'
      /\ At[ToDeser(p)] = to_deser[p] /\ At'[ToDeser(p)] = to_deser'[p]
  BY <1>2, AtPlaces, AtPlacesNext
<1>7. ASSUME NEW z \in Place, z # Stream, z # ToDeser(p) PROVE At'[z] = At[z]
  <2>1. CASE \E r \in Priority : z = ToDeser(r)
    <3>1. PICK r \in Priority : z = ToDeser(r)
      BY <2>1
    <3>2. r # p
      BY <1>7, <3>1
    <3> QED BY <1>4, <3>1, <3>2, AtPlaces, AtPlacesNext
  <2>2. CASE \E r \in Priority : z = ToPipeline(r)
    BY <1>1, <2>2, AtPlaces, AtPlacesNext
  <2>3. CASE \E r \in Producer : z = FromSer(r)
    BY <1>1, <2>3, AtPlaces, AtPlacesNext
  <2>4. CASE z \in {Serialize, Receive, ToRaftnode}
    BY <1>1, <2>4, AtPlaces, AtPlacesNext
  <2> QED BY <1>7, <2>1, <2>2, <2>3, <2>4, Places
<1>8. Passed(At[Stream], At'[Stream], At[ToDeser(p)], At'[ToDeser(p)], 1)
  BY <1>1, <1>4, <1>6, FirstPassed
<1>9. \A i \in 1 .. 1 : Goes(ToDeser(p), At[Stream][i])
  <2> TAKE i \in 1 .. 1
  <2>1. i = 1
    OBVIOUS
  <2>2. ReceivePriority(At[Stream][i]) = p
    BY <1>3, <1>6, <2>1
  <2> QED BY <1>5, <2>2 DEF Goes
<1>10. Stream[1] = ToDeser(p)[1] + 1
  BY <1>5
<1>11. Moved(At, At', Stream, ToDeser(p), 1)
  BY <1>5, <1>7, <1>8, <1>9, <1>10 DEF Moved
<1> QED BY <1>11 DEF p

LEMMA ReceiveDoneMoves ==
  ASSUME QueueInv, receive_done
  PROVE  Moved(At, At', Receive, ToRaftnode, Len(receive.batch))
<1>1. /\ receive.batch \in Seq(Msg) /\ to_raftnode \in Seq(Msg)
  BY QueueInvParts DEF Fits, Poll
<1>2. /\ receive'.batch = << >> /\ to_raftnode' = to_raftnode \o receive.batch
      /\ UNCHANGED <<to_pipeline, serialize, from_ser, stream, to_deser>>
  BY DEF receive_done, Idle
<1>3. /\ Receive \in Place /\ ToRaftnode \in Place /\ Receive[1] = 2 /\ ToRaftnode[1] = 1
  BY PlaceStages
<1>4. /\ At[Receive] = receive.batch /\ At'[Receive] = receive'.batch
      /\ At[ToRaftnode] = to_raftnode /\ At'[ToRaftnode] = to_raftnode'
  BY AtPlaces, AtPlacesNext
<1>5. ASSUME NEW z \in Place, z # Receive, z # ToRaftnode PROVE At'[z] = At[z]
  <2>1. CASE \E r \in Priority : z = ToPipeline(r) \/ z = ToDeser(r)
    BY <1>2, <2>1, AtPlaces, AtPlacesNext
  <2>2. CASE \E r \in Producer : z = FromSer(r)
    BY <1>2, <2>2, AtPlaces, AtPlacesNext
  <2>3. CASE z \in {Serialize, Stream}
    BY <1>2, <2>3, AtPlaces, AtPlacesNext
  <2> QED BY <1>5, <2>1, <2>2, <2>3, Places
<1>6. Passed(At[Receive], At'[Receive], At[ToRaftnode], At'[ToRaftnode], Len(receive.batch))
  BY <1>1, <1>2, <1>4, AllPassed
<1>7. \A i \in 1 .. Len(receive.batch) : Goes(ToRaftnode, At[Receive][i])
  BY <1>3 DEF Goes
<1>8. Receive[1] = ToRaftnode[1] + 1
  BY <1>3
<1> QED BY <1>3, <1>5, <1>6, <1>7, <1>8 DEF Moved

LEMMA SendEnters ==
  ASSUME QueueInv, NEW kind \in Kind, send(kind)
  PROVE  \E z : Entered(At, At', z, Numbered(kind, sent + 1))
<1> DEFINE m == Numbered(kind, sent + 1)
<1>1. sent + 1 \in Nat \ {0} /\ from_ser \in [Producer -> Seq(Msg)] /\ to_pipeline \in Queues
  BY QueueInvParts
<1>2. m \in Msg
  BY <1>1, NumberedMessage
<1>3. UNCHANGED <<serialize, stream, to_deser, receive, to_raftnode>>
  BY DEF send
<1>4. CASE IsDirect(m)
  <2>1. from_ser' = [from_ser EXCEPT !["node"] = Append(@, m)] /\ to_pipeline' = to_pipeline
    BY <1>4 DEF send
  <2> HIDE DEF m
  <2>2. /\ FromSer("node") \in Place /\ FromSer("node")[1] = 5 /\ FromSer("node")[2] = "node"
        /\ "node" \in Producer
    BY PlaceStages DEF Producer
  <2>3. Goes(FromSer("node"), m)
    BY <1>4, <2>2 DEF Goes
  <2>4. At'[FromSer("node")] = Append(At[FromSer("node")], m)
    <3>1. from_ser'["node"] = Append(from_ser["node"], m)
      BY <1>1, <2>1, <2>2
    <3> QED BY <2>2, <3>1, AtPlaces, AtPlacesNext
  <2>5. ASSUME NEW z \in Place, z # FromSer("node") PROVE At'[z] = At[z]
    <3>1. CASE \E p \in Priority : z = ToPipeline(p) \/ z = ToDeser(p)
      BY <1>3, <2>1, <3>1, AtPlaces, AtPlacesNext
    <3>2. CASE \E p \in Producer : z = FromSer(p)
      <4>1. PICK p \in Producer : z = FromSer(p)
        BY <3>2
      <4>2. p # "node"
        BY <2>5, <4>1
      <4>3. from_ser'[p] = from_ser[p]
        BY <1>1, <2>1, <4>2
      <4> QED BY <4>1, <4>3, AtPlaces, AtPlacesNext
    <3>3. CASE z \in {Serialize, Stream, Receive, ToRaftnode}
      BY <1>3, <3>3, AtPlaces, AtPlacesNext
    <3> QED BY <3>1, <3>2, <3>3, Places
  <2>6. Entered(At, At', FromSer("node"), m)
    BY <1>2, <1>4, <2>2, <2>3, <2>4, <2>5 DEF Entered
  <2> QED BY <2>6 DEF m
<1>5. CASE ~IsDirect(m)
  <2> DEFINE p == SendPriority(m)
  <2>1. /\ to_pipeline' = [to_pipeline EXCEPT ![p] = Append(@, m)] /\ from_ser' = from_ser
    BY <1>5 DEF send
  <2> HIDE DEF m
  <2>2. p \in Priority
    BY <1>2, PrioritiesOfMessages
  <2>3. SendPriority(m) = p
    OBVIOUS
  <2> HIDE DEF p
  <2>4. /\ to_pipeline'[p] = Append(to_pipeline[p], m)
        /\ \A r \in Priority : r # p => to_pipeline'[r] = to_pipeline[r]
    BY <1>1, <2>1, <2>2 DEF Queues
  <2>5. ToPipeline(p) \in Place /\ ToPipeline(p)[1] = 7 /\ ToPipeline(p)[2] = p
    BY <2>2, PlaceStages
  <2>6. Goes(ToPipeline(p), m)
    BY <1>5, <2>3, <2>5 DEF Goes
  <2>7. At'[ToPipeline(p)] = Append(At[ToPipeline(p)], m)
    BY <2>2, <2>4, AtPlaces, AtPlacesNext
  <2>8. ASSUME NEW z \in Place, z # ToPipeline(p) PROVE At'[z] = At[z]
    <3>1. CASE \E r \in Priority : z = ToPipeline(r)
      <4>1. PICK r \in Priority : z = ToPipeline(r)
        BY <3>1
      <4>2. r # p
        BY <2>8, <4>1
      <4> QED BY <2>4, <4>1, <4>2, AtPlaces, AtPlacesNext
    <3>2. CASE \E r \in Priority : z = ToDeser(r)
      BY <1>3, <3>2, AtPlaces, AtPlacesNext
    <3>3. CASE \E r \in Producer : z = FromSer(r)
      BY <2>1, <3>3, AtPlaces, AtPlacesNext
    <3>4. CASE z \in {Serialize, Stream, Receive, ToRaftnode}
      BY <1>3, <3>4, AtPlaces, AtPlacesNext
    <3> QED BY <3>1, <3>2, <3>3, <3>4, Places
  <2>9. Entered(At, At', ToPipeline(p), m)
    BY <1>2, <2>5, <2>6, <2>7, <2>8 DEF Entered
  <2> QED BY <2>9 DEF m
<1> QED BY <1>4, <1>5

LEMMA HandleHandles ==
  ASSUME handle
  PROVE  Handled(At, At', Head(to_raftnode))
<1>1. /\ to_raftnode # << >> /\ to_raftnode' = Tail(to_raftnode)
      /\ UNCHANGED <<to_pipeline, serialize, from_ser, stream, to_deser, receive>>
  BY DEF handle
<1>2. At[ToRaftnode] = to_raftnode /\ At'[ToRaftnode] = to_raftnode'
  BY AtPlaces, AtPlacesNext
<1>3. ASSUME NEW z \in Place, z # ToRaftnode PROVE At'[z] = At[z]
  <2>1. CASE \E r \in Priority : z = ToPipeline(r) \/ z = ToDeser(r)
    BY <1>1, <2>1, AtPlaces, AtPlacesNext
  <2>2. CASE \E r \in Producer : z = FromSer(r)
    BY <1>1, <2>2, AtPlaces, AtPlacesNext
  <2>3. CASE z \in {Serialize, Stream, Receive}
    BY <1>1, <2>3, AtPlaces, AtPlacesNext
  <2> QED BY <1>3, <2>1, <2>2, <2>3, Places
<1> QED BY <1>1, <1>2, <1>3 DEF Handled

\* A connection that comes or goes loses at most what is in the stream.
LEMMA ConnectionShortens ==
  ASSUME UNCHANGED <<to_pipeline, serialize, from_ser, to_deser, receive, to_raftnode>>,
         stream' = stream \/ stream' = << >>
  PROVE  Shortened(At, At')
<1>1. ASSUME NEW z \in Place PROVE At'[z] = At[z] \/ At'[z] = << >>
  <2>1. CASE \E r \in Priority : z = ToPipeline(r) \/ z = ToDeser(r)
    BY <2>1, AtPlaces, AtPlacesNext
  <2>2. CASE \E r \in Producer : z = FromSer(r)
    BY <2>2, AtPlaces, AtPlacesNext
  <2>3. CASE z \in {Serialize, Receive, ToRaftnode}
    BY <2>3, AtPlaces, AtPlacesNext
  <2>4. CASE z = Stream
    BY <2>4, AtPlaces, AtPlacesNext
  <2> QED BY <2>1, <2>2, <2>3, <2>4, Places
<1> QED BY <1>1 DEF Shortened

\* What is on the way is what is in the places.
LEMMA SpreadEverything ==
  ASSUME NEW queue, NEW buf, NEW ser, NEW wire, NEW queue2, NEW buf2, NEW last, NEW at,
         at = Spread(queue, buf, ser, wire, queue2, buf2, last),
         DOMAIN queue = Priority, DOMAIN queue2 = Priority, DOMAIN ser = Producer
  PROVE  Everything(at) =
           Queued(queue) \cup ToSet(buf) \cup Queued(ser) \cup ToSet(wire)
             \cup Queued(queue2) \cup ToSet(buf2) \cup ToSet(last)
<1> DEFINE way == Queued(queue) \cup ToSet(buf) \cup Queued(ser) \cup ToSet(wire)
                    \cup Queued(queue2) \cup ToSet(buf2) \cup ToSet(last)
<1>2. way \subseteq Everything(at)
  <2>1. ASSUME NEW p \in Priority
        PROVE  ToSet(queue[p]) \subseteq Everything(at) /\ ToSet(queue2[p]) \subseteq Everything(at)
    <3>1. ToPipeline(p) \in Place /\ ToDeser(p) \in Place
      BY PlaceStages
    <3>2. at[ToPipeline(p)] = queue[p] /\ at[ToDeser(p)] = queue2[p]
      BY SpreadPlaces
    <3> QED BY <3>1, <3>2 DEF Everything
  <2>2. ASSUME NEW p \in Producer PROVE ToSet(ser[p]) \subseteq Everything(at)
    <3>1. FromSer(p) \in Place /\ at[FromSer(p)] = ser[p]
      BY PlaceStages, SpreadPlaces
    <3> QED BY <3>1 DEF Everything
  <2>3. /\ ToSet(buf) \subseteq Everything(at) /\ ToSet(wire) \subseteq Everything(at)
        /\ ToSet(buf2) \subseteq Everything(at) /\ ToSet(last) \subseteq Everything(at)
    <3>1. /\ Serialize \in Place /\ Stream \in Place /\ Receive \in Place /\ ToRaftnode \in Place
          /\ at[Serialize] = buf /\ at[Stream] = wire /\ at[Receive] = buf2
          /\ at[ToRaftnode] = last
      BY PlaceStages, SpreadPlaces
    <3> QED BY <3>1 DEF Everything
  <2> QED BY <2>1, <2>2, <2>3 DEF Queued
<1>3. Everything(at) \subseteq way
  <2>1. ASSUME NEW x \in Place PROVE ToSet(at[x]) \subseteq way
    <3>1. CASE \E p \in Priority : x = ToPipeline(p) \/ x = ToDeser(p)
      BY <3>1, SpreadPlaces DEF Queued
    <3>2. CASE \E p \in Producer : x = FromSer(p)
      BY <3>2, SpreadPlaces DEF Queued
    <3>3. CASE x \in {Serialize, Stream, Receive, ToRaftnode}
      BY <3>3, SpreadPlaces
    <3> QED BY <3>1, <3>2, <3>3, Places
  <2> HIDE DEF way
  <2> QED BY <2>1 DEF Everything
<1> QED BY <1>2, <1>3

LEMMA OnTheWayPlaces == QueueInv => OnTheWay = Everything(At)
<1> SUFFICES ASSUME QueueInv PROVE OnTheWay = Everything(At)
  OBVIOUS
<1>1. /\ DOMAIN to_pipeline = Priority /\ DOMAIN to_deser = Priority
      /\ DOMAIN from_ser = Producer
  BY DEF QueueInv, TypeOK
<1> QED BY <1>1, SpreadEverything DEF OnTheWay, At

LEMMA OnTheWayPlacesNext == QueueInv' => OnTheWay' = Everything(At')
<1> SUFFICES ASSUME QueueInv' PROVE OnTheWay' = Everything(At')
  OBVIOUS
<1>1. /\ DOMAIN to_pipeline' = Priority /\ DOMAIN to_deser' = Priority
      /\ DOMAIN from_ser' = Producer
  BY DEF QueueInv, TypeOK
<1> QED BY <1>1, SpreadEverything DEF OnTheWay, At

-----------------------------------------------------------------------------
(* MessageQueues implements MessageLink                                    *)

\* Messages move on or are lost, and none is sent or handled.
LEMMA KeepsOrLoses ==
  ASSUME OrderInv, QueueInv', sent' = sent, handled' = handled,
         Shortened(At, At') \/ \E x, y, k : Moved(At, At', x, y, k)
  PROVE  OrderInv' /\ [Link!Next]_<<sent, OnTheWay, handled>>
<1>1. /\ Sequences(At) /\ Sequences(At') /\ Orderly(At, sent)
      /\ OnTheWay = Everything(At) /\ OnTheWay' = Everything(At')
  BY AtSequences, AtSequencesNext, OnTheWayPlaces, OnTheWayPlacesNext DEF OrderInv
<1>2. CASE Shortened(At, At')
  <2>1. Orderly(At', sent)
    BY <1>1, <1>2, ShortenedOrderly
  <2>2. OnTheWay' \subseteq OnTheWay
    BY <1>1, <1>2, ShortenedSubset
  <2>3. Link!Lose
    BY <2>2 DEF Link!Lose
  <2> QED BY <2>1, <2>3 DEF OrderInv, Link!Next
<1>3. CASE \E x, y, k : Moved(At, At', x, y, k)
  <2>1. PICK x, y, k : Moved(At, At', x, y, k)
    BY <1>3
  <2>2. Orderly(At', sent)
    BY <1>1, <2>1, MovedOrderly
  <2>3. OnTheWay' = OnTheWay
    BY <1>1, <2>1, MovedEverything
  <2> QED BY <2>2, <2>3 DEF OrderInv
<1> QED BY <1>2, <1>3

LEMMA SendImplements ==
  ASSUME OrderInv, QueueInv', NEW kind \in Kind, send(kind)
  PROVE  OrderInv' /\ [Link!Next]_<<sent, OnTheWay, handled>>
<1> DEFINE m == Numbered(kind, sent + 1)
<1>1. /\ Sequences(At) /\ Orderly(At, sent) /\ sent \in Nat
      /\ OnTheWay = Everything(At) /\ OnTheWay' = Everything(At')
  BY AtSequences, OnTheWayPlaces, OnTheWayPlacesNext, QueueInvParts DEF OrderInv
<1>2. sent' = sent + 1 /\ handled' = handled /\ m.no = sent + 1
  BY DEF send, Numbered
<1>3. PICK z : Entered(At, At', z, m)
  BY SendEnters DEF OrderInv
<1>4. Link!Numbered(kind, sent + 1) = m
  BY DEF Link!Numbered, Numbered
<1> HIDE DEF m
<1>5. Orderly(At', sent + 1)
  BY <1>1, <1>2, <1>3, EnteredOrderly
<1>6. OnTheWay' = OnTheWay \cup {m}
  BY <1>1, <1>3, EnteredEverything
<1>7. Link!Send
  BY <1>2, <1>4, <1>6 DEF Link!Send
<1> QED BY <1>2, <1>5, <1>7 DEF OrderInv, Link!Next

LEMMA HandleImplements ==
  ASSUME OrderInv, QueueInv', handle
  PROVE  OrderInv' /\ [Link!Next]_<<sent, OnTheWay, handled>>
<1> DEFINE m == Head(to_raftnode)
<1>1. /\ Sequences(At) /\ Orderly(At, sent)
      /\ OnTheWay = Everything(At) /\ OnTheWay' = Everything(At')
  BY AtSequences, OnTheWayPlaces, OnTheWayPlacesNext DEF OrderInv
<1>2. sent' = sent /\ handled' = Append(handled, m.no)
  BY DEF handle
<1>3. m \in Msg
  BY HeadTail, QueueInvParts DEF OrderInv, handle
<1>4. Handled(At, At', m)
  BY HandleHandles
<1> HIDE DEF m
<1>5. /\ m \in OnTheWay /\ OnTheWay' = OnTheWay \ {m}
      /\ \A n \in OnTheWay : n # m /\ Lane(m) = Lane(n) => m.no < n.no
  BY <1>1, <1>4, HandledFirst, HandledEverything
<1>6. Orderly(At', sent')
  <2>1. Shortened(At, At')
    BY <1>4 DEF Handled, Shortened
  <2> QED BY <1>1, <1>2, <2>1, ShortenedOrderly
<1>7. ASSUME NEW n \in OnTheWay, n.no < m.no PROVE Link!MayOvertake(m, n)
  <2>1. n.no \in Int /\ m.no \in Int
    <3>1. n \in Msg
      <4>1. PICK x \in Place : n \in ToSet(At[x])
        BY <1>1 DEF Everything
      <4>2. At[x] \in Seq(Msg)
        BY <1>1 DEF Sequences
      <4>3. PICK i \in DOMAIN At[x] : n = At[x][i]
        BY <4>1 DEF ToSet
      <4> QED BY <4>2, <4>3, LenProperties, ElementOfSeq
    <3> QED BY <1>3, <3>1 DEF Msg
  <2>2. Lane(m) # Lane(n)
    BY <1>5, <1>7, <2>1
  <2>3. Link!Lane(m) = Lane(m) /\ Link!Lane(n) = Lane(n)
    BY DEF Link!Lane, Lane, Link!IsDirect, IsDirect, Link!SendPriority, SendPriority,
           Link!ReceivePriority, ReceivePriority
  <2> QED BY <2>2, <2>3 DEF Link!MayOvertake
<1>8. Link!Deliver(m)
  BY <1>2, <1>5, <1>7 DEF Link!Deliver
<1> QED BY <1>5, <1>6, <1>8 DEF OrderInv, Link!Next

LEMMA StepImplements ==
  ASSUME OrderInv, QueueInv', [Next]_vars
  PROVE  OrderInv' /\ [Link!Next]_<<sent, OnTheWay, handled>>
<1> USE DEF OrderInv
<1>1. Sequences(At) /\ InPlace(At)
  BY AtSequences DEF Orderly
<1>2. ASSUME NEW kind \in Kind, send(kind)
      PROVE  OrderInv' /\ [Link!Next]_<<sent, OnTheWay, handled>>
  BY <1>2, SendImplements
<1>3. CASE serialize_poll
  BY <1>1, <1>3, SerializePollMoves, KeepsOrLoses DEF serialize_poll
<1>4. CASE serialize_done
  BY <1>1, <1>4, SerializeDoneMoves, KeepsOrLoses DEF serialize_done
<1>5. ASSUME NEW p \in Producer, write(p)
      PROVE  OrderInv' /\ [Link!Next]_<<sent, OnTheWay, handled>>
  BY <1>5, WriteMoves, KeepsOrLoses DEF write
<1>6. CASE read_cb
  BY <1>6, ReadMoves, KeepsOrLoses DEF read_cb
<1>7. CASE receive_poll
  BY <1>1, <1>7, ReceivePollMoves, KeepsOrLoses DEF receive_poll
<1>8. CASE receive_done
  BY <1>8, ReceiveDoneMoves, KeepsOrLoses DEF receive_done
<1>9. CASE handle
  BY <1>9, HandleImplements
<1>10. CASE connect \/ \E s \in Side : disconnect(s)
  <2>1. /\ UNCHANGED <<to_pipeline, serialize, from_ser, to_deser, receive, to_raftnode,
                       sent, handled>>
        /\ stream' = stream \/ stream' = << >>
    BY <1>10 DEF connect, disconnect
  <2> QED BY <2>1, ConnectionShortens, KeepsOrLoses
<1>11. CASE UNCHANGED vars
  BY <1>11, ConnectionShortens, KeepsOrLoses DEF vars
<1> QED BY <1>2, <1>3, <1>4, <1>5, <1>6, <1>7, <1>8, <1>9, <1>10, <1>11 DEF Next

LEMMA InitImplements == Init => OrderInv /\ Link!Init
<1> SUFFICES ASSUME Init PROVE OrderInv /\ Link!Init
  OBVIOUS
<1>1. QueueInv
  BY InitQueueInv
<1>2. \A x \in Place : At[x] = << >>
  BY Places, AtPlaces DEF Init, Idle
<1>3. \A x \in Place : DOMAIN At[x] = {}
  BY <1>2
<1>4. Orderly(At, sent)
  BY <1>3 DEF Orderly, InPlace, InOrder, UpTo
<1>5. Everything(At) = {}
  BY <1>3 DEF Everything, ToSet
<1>6. OnTheWay = {}
  BY <1>1, <1>5, OnTheWayPlaces
<1> QED BY <1>1, <1>4, <1>6 DEF OrderInv, Link!Init, Init

\* The seven queues and six threads keep the order MessageLink promises, and
\* lose, repeat and invent nothing beyond what it allows: for any kinds of
\* messages, batch size, number of messages and number of connections.
THEOREM LinkImplemented == Spec => ImplementsLink
<1>1. OrderInv /\ QueueInv' /\ [Next]_vars => OrderInv' /\ [Link!Next]_<<sent, OnTheWay, handled>>
  BY StepImplements
<1> QED BY <1>1, InitImplements, QueueInvHolds, PTL DEF Spec, ImplementsLink, Link!Spec

=============================================================================
