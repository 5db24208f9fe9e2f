--------------------------- MODULE PeerConnection ---------------------------
(***************************************************************************)
(* The connection between two nodes: class Pipeline of raft/peer, and the  *)
(* parts of Transport (raft/transport) that connect, accept and shake      *)
(* hands.  Of two nodes the one with the lower id connects, whenever it    *)
(* has something to broadcast and its pipeline is not running; the other   *)
(* accepts.  Each node has one pipeline for the other.                     *)
(*                                                                         *)
(* Threads of a node, each a source of actions: the node's own event loop  *)
(* (send_to_pipeline), the serialize, receive and accept loops of the      *)
(* transport, and the pipeline's event loop.  A frame is written or read   *)
(* in one action: sockets block, and a thread that waits for the rest of a *)
(* frame does nothing else.  Message priorities are left out here, and so  *)
(* is connect_mutex_, which only the serialize thread ever takes.          *)
(***************************************************************************)
EXTENDS Naturals, Sequences, SequencesExt

CONSTANTS Conn,       \* TCP connections (a closed one is used again)
          None,       \* no connection: a descriptor of -1
          MaxSend,    \* bound: messages sent by both sides together, over-long
                      \* ones aside
          MaxFault    \* bound: processes ended, connections broken by the
                      \* network and handshakes that take longer than 3 s

ASSUME ConnAssumption == None \notin Conn

Side == {"connecting", "accepting"}

Other(s) == IF s = "connecting" THEN "accepting" ELSE "connecting"

\* The threads that put messages in from_ser_queue_: the serialize loop, and
\* the node's event loop when it reissues.  The queue keeps the order of each
\* of them only.
Producer == {"serialize", "node"}

\* seq numbers a thread's messages; a torn message was cut by the end of the
\* process that was writing it.
Msg == [producer : Producer, seq : Nat \ {0}, size : {"fits"}, torn : BOOLEAN]

\* A message longer than read_buf.  It has no number: it ends the connection it
\* is read from, and is not handed to anybody.
Overlong == [producer : Producer, seq : {0}, size : {"too_long"}, torn : BOOLEAN]

\* What a pipeline writes, after the handshake.
Outgoing == Msg \cup Overlong

\* The handshake: a header with the flag kRaftNode and the sender's id.
Hello == [producer |-> "serialize", seq |-> 0, size |-> "fits", torn |-> FALSE]

VARIABLES
    up,           \* the process runs
    is_running,   \* Pipeline::is_running_
    stream,       \* Pipeline::stream_
    loop,         \* how far Pipeline::event_loop has got
    connecting,   \* the connection try_connect_to_peer has made and not yet
                  \* given to the pipeline
    backlog,      \* connections the listener has not accepted
    handshaking,  \* connections with HandshakeData
    open,         \* open[c]: the sides that have a descriptor of c
    broken,       \* connections the network has broken
    wire,         \* wire[c][s]: what s wrote to c and the other has not read
    from_ser,     \* from_ser[s][p]: from_ser_queue_, one sequence per thread
    to_deser,     \* to_deser_queue_
    sent,         \* sent[s][p]: number of the thread's last message
    received,     \* received[s][p]: numbers of those of its messages that were
                  \* handed to the other side's node, in that order
    faults        \* for the bound

pipelineVars == <<is_running, stream, loop>>
acceptVars   == <<backlog, handshaking>>
tcpVars      == <<open, broken, wire>>
queueVars    == <<from_ser, to_deser>>
countVars    == <<sent, received>>

vars == <<up, pipelineVars, connecting, acceptVars, tcpVars, queueVars, countVars, faults>>

Progress == {"none", "posted", "looping", "breaking", "closed"}

TypeOK ==
    /\ up          \in [Side -> BOOLEAN]
    /\ is_running  \in [Side -> BOOLEAN]
    /\ stream      \in [Side -> Conn \cup {None}]
    /\ loop        \in [Side -> Progress]
    /\ connecting  \in Conn \cup {None}
    /\ backlog     \subseteq Conn
    /\ handshaking \subseteq Conn
    /\ open        \in [Conn -> SUBSET Side]
    /\ broken      \subseteq Conn
    /\ wire        \in [Conn -> [Side -> Seq(Outgoing \cup {Hello})]]
    /\ from_ser    \in [Side -> [Producer -> Seq(Outgoing)]]
    /\ to_deser    \in [Side -> Seq(Msg)]
    /\ sent        \in [Side -> [Producer -> Nat]]
    /\ received    \in [Side -> [Producer -> Seq(Nat)]]
    /\ faults \in Nat

Init ==
    /\ up          = [s \in Side |-> TRUE]
    /\ is_running  = [s \in Side |-> FALSE]
    /\ stream      = [s \in Side |-> None]
    /\ loop        = [s \in Side |-> "none"]
    /\ connecting  = None
    /\ backlog     = {}
    /\ handshaking = {}
    /\ open        = [c \in Conn |-> {}]
    /\ broken      = {}
    /\ wire        = [c \in Conn |-> [s \in Side |-> << >>]]
    /\ from_ser    = [s \in Side |-> [p \in Producer |-> << >>]]
    /\ to_deser    = [s \in Side |-> << >>]
    /\ sent        = [s \in Side |-> [p \in Producer |-> 0]]
    /\ received    = [s \in Side |-> [p \in Producer |-> << >>]]
    /\ faults = 0

-----------------------------------------------------------------------------
(* TCP, as far as the code relies on it                                    *)

\* What s writes to c can still arrive.
Reaches(s, c) == Other(s) \in open[c] /\ c \notin broken

\* s has read all that will come: the other side is gone, or the network.
Ended(s, c) == wire[c][Other(s)] = << >> /\ ~Reaches(s, c)

\* Mutant of close: the descriptors stay open.
CloseForgotten(s, cs, w) == wire' = w /\ UNCHANGED <<open, broken>>

\* s closes its descriptors of the connections cs, having written w: what it
\* has not read is gone; what it wrote may still arrive.
close(s, cs, w) ==
    /\ open' = [c \in Conn |-> IF c \in cs THEN open[c] \ {s} ELSE open[c]]
    /\ wire' = [c \in Conn |->
                  IF c \notin cs THEN w[c]
                  ELSE [t \in Side |-> IF t = s /\ Other(s) \in open[c]
                                       THEN w[c][s] ELSE << >>]]
    /\ broken' = broken \ {c \in cs : Other(s) \notin open[c]}

\* The network fails the connection at both ends.
Break(c) ==
    /\ faults < MaxFault
    /\ open[c] # {} /\ c \notin broken
    /\ broken' = broken \cup {c}
    /\ faults' = faults + 1
    /\ UNCHANGED <<up, pipelineVars, connecting, acceptVars, open, wire, queueVars,
                   countVars>>

\* The end of what s wrote is lost, the connection being reset or broken.
CutShort(s, c) ==
    /\ s \notin open[c] \/ c \in broken
    /\ wire[c][s] # << >>
    /\ wire' = [wire EXCEPT ![c][s] = Front(@)]
    /\ UNCHANGED <<up, pipelineVars, connecting, acceptVars, open, broken, queueVars,
                   countVars, faults>>

-----------------------------------------------------------------------------
(* Pipeline                                                                *)

\* Mutant of run: the test of is_running_ is missing.
RunAlways(s, c, w) ==
    /\ is_running' = [is_running EXCEPT ![s] = TRUE]
    /\ stream'     = [stream EXCEPT ![s] = c]
    /\ loop'       = [loop EXCEPT ![s] = "posted"]
    /\ wire' = w
    /\ UNCHANGED <<open, broken>>

\* Pipeline::run on connection c, w being written: a second connection is not
\* taken, and its stream is closed by the caller, who still owns it.
run(s, c, w) ==
    IF is_running[s]
    THEN close(s, {c}, w) /\ UNCHANGED pipelineVars
    ELSE /\ is_running' = [is_running EXCEPT ![s] = TRUE]
         /\ stream'     = [stream EXCEPT ![s] = c]
         /\ loop'       = [loop EXCEPT ![s] = "posted"]
         /\ wire' = w
         /\ UNCHANGED <<open, broken>>

\* The watchers are started.
event_loop(s) ==
    /\ loop[s] = "posted"
    /\ loop' = [loop EXCEPT ![s] = "looping"]
    /\ UNCHANGED <<up, is_running, stream, connecting, acceptVars, tcpVars, queueVars,
                   countVars, faults>>

\* The frames the other side has written to the connection of s.
Incoming(s) == wire[stream[s]][Other(s)]

\* The message does not fit read_buf.
TooLong(m) == m \in Overlong

\* A message is read.  One that was cut short is enqueued like a whole one, if
\* enough of it is there to tell what it is: the result of ParseFromArray is
\* reported and not acted upon.
read_cb(s) ==
    /\ loop[s] = "looping"
    /\ Incoming(s) # << >>
    /\ LET m == Head(Incoming(s)) IN
         IF TooLong(m)
         THEN /\ loop' = [loop EXCEPT ![s] = "breaking"]
              /\ UNCHANGED to_deser
         ELSE /\ \/ to_deser' = [to_deser EXCEPT ![s] = Append(@, m)]
                 \/ m.torn /\ UNCHANGED to_deser
              /\ UNCHANGED loop
    /\ wire' = [wire EXCEPT ![stream[s]][Other(s)] = Tail(@)]
    /\ UNCHANGED <<up, is_running, stream, connecting, acceptVars, open, broken, from_ser,
                   countVars, faults>>

\* The end of the stream, or an error, is read in place of a header.
read_cb_ended(s) ==
    /\ loop[s] = "looping"
    /\ Ended(s, stream[s])
    /\ loop' = [loop EXCEPT ![s] = "breaking"]
    /\ UNCHANGED <<up, is_running, stream, connecting, acceptVars, tcpVars, queueVars,
                   countVars, faults>>

\* The write timer may fire once more after ev_break.
Writing(s) == loop[s] \in {"looping", "breaking"}

\* Mutant of handle_write_timeout: the message stays in the queue.
WriteWithoutDequeue(s, p) ==
    /\ Writing(s)
    /\ from_ser[s][p] # << >>
    /\ Reaches(s, stream[s])
    /\ Len(wire[stream[s]][s]) < MaxSend
    /\ wire' = [wire EXCEPT ![stream[s]][s] = Append(@, Head(from_ser[s][p]))]
    /\ UNCHANGED <<up, pipelineVars, connecting, acceptVars, open, broken, queueVars,
                   countVars, faults>>

\* One message of the batch: the result of write_exact is not looked at.
handle_write_timeout(s, p) ==
    /\ Writing(s)
    /\ from_ser[s][p] # << >>
    /\ from_ser' = [from_ser EXCEPT ![s][p] = Tail(@)]
    /\ wire' = IF Reaches(s, stream[s])
               THEN [wire EXCEPT ![stream[s]][s] = Append(@, Head(from_ser[s][p]))]
               ELSE wire
    /\ UNCHANGED <<up, pipelineVars, connecting, acceptVars, open, broken, to_deser,
                   countVars, faults>>

\* ev_run has returned: stream_.close().
close_stream(s) ==
    /\ loop[s] = "breaking"
    /\ loop'   = [loop EXCEPT ![s] = "closed"]
    /\ stream' = [stream EXCEPT ![s] = None]
    /\ close(s, {stream[s]}, wire)
    /\ UNCHANGED <<up, is_running, connecting, acceptVars, queueVars, countVars, faults>>

\* Mutant of end_event_loop: the flag is not reset.
EndStillRunning(s) ==
    /\ loop[s] = "closed"
    /\ loop' = [loop EXCEPT ![s] = "none"]
    /\ UNCHANGED <<up, is_running, stream, connecting, acceptVars, tcpVars, queueVars,
                   countVars, faults>>

\* is_running_.store(false), the last statement of event_loop.
end_event_loop(s) ==
    /\ loop[s] = "closed"
    /\ loop'       = [loop EXCEPT ![s] = "none"]
    /\ is_running' = [is_running EXCEPT ![s] = FALSE]
    /\ UNCHANGED <<up, stream, connecting, acceptVars, tcpVars, queueVars, countVars, faults>>

-----------------------------------------------------------------------------
(* The transport: sending                                                  *)

\* Whether a queue or a stream is free of over-long messages.
NoneOverlong(q) == \A i \in DOMAIN q : ~TooLong(q[i])

\* No over-long message is on its way.
NoOverlong ==
    \A s \in Side : /\ \A p \in Producer : NoneOverlong(from_ser[s][p])
                   /\ \A c \in Conn : NoneOverlong(wire[c][s])

\* A producer enqueues its next message (bound: MaxSend).
enqueue_next(s, p) ==
    /\ \A t \in Side : sent[t]["serialize"] + sent[t]["node"] < MaxSend
    /\ from_ser' = [from_ser EXCEPT ![s][p] =
                      Append(@, [producer |-> p, seq |-> sent[s][p] + 1,
                                 size |-> "fits", torn |-> FALSE])]
    /\ sent' = [sent EXCEPT ![s][p] = @ + 1]
    /\ UNCHANGED <<up, pipelineVars, connecting, acceptVars, tcpVars, to_deser, received, faults>>

\* Or an over-long one, any number of times: the leader reissues it every 30 ms
\* and is never told that it arrived (bound: one on its way at a time).
enqueue_overlong(s, p) ==
    /\ NoOverlong
    /\ from_ser' = [from_ser EXCEPT ![s][p] =
                      Append(@, [producer |-> p, seq |-> 0,
                                 size |-> "too_long", torn |-> FALSE])]
    /\ UNCHANGED <<up, pipelineVars, connecting, acceptVars, tcpVars, to_deser, countVars, faults>>

enqueue(s, p) == enqueue_next(s, p) \/ enqueue_overlong(s, p)

\* RaftNode::send_to_pipeline does not ask whether the pipeline runs.
send_to_pipeline(s) == up[s] /\ enqueue(s, "node")

\* A broadcast to a pipeline that runs.  To one that does not, the accepting
\* side broadcasts nothing, and the connecting side connects instead.
broadcast(s) ==
    /\ up[s] /\ is_running[s]
    /\ s = "connecting" => connecting = None
    /\ enqueue(s, "serialize")

\* try_connect_to_peer as far as connect(): the kernel of the other side
\* answers as long as its process listens.  If not, nothing changes.
try_connect_to_peer(c) ==
    /\ up["connecting"] /\ ~is_running["connecting"]
    /\ connecting = None
    /\ up["accepting"]
    /\ open[c] = {}
    /\ connecting' = c
    /\ backlog' = backlog \cup {c}
    /\ open' = [open EXCEPT ![c] = Side]
    /\ UNCHANGED <<up, pipelineVars, handshaking, broken, wire, queueVars, countVars, faults>>

\* The rest of it: write the handshake, and run.
start_connected ==
    /\ connecting # None
    /\ run("connecting", connecting,
           IF Reaches("connecting", connecting)
           THEN [wire EXCEPT ![connecting]["connecting"] = <<Hello>>] ELSE wire)
    /\ connecting' = None
    /\ UNCHANGED <<up, acceptVars, queueVars, countVars, faults>>

-----------------------------------------------------------------------------
(* The transport: accepting and receiving                                  *)

\* accept_cb and start_handshake.
accept_cb(c) ==
    /\ c \in backlog
    /\ backlog'     = backlog \ {c}
    /\ handshaking' = handshaking \cup {c}
    /\ UNCHANGED <<up, pipelineVars, connecting, tcpVars, queueVars, countVars, faults>>

\* Mutant of handshake_cb: the header is looked at and left in the stream.
HandshakeNotRead(c) ==
    /\ c \in handshaking
    /\ handshaking' = handshaking \ {c}
    /\ wire[c]["connecting"] # << >>
    /\ run("accepting", c, wire)
    /\ UNCHANGED <<up, connecting, backlog, queueVars, countVars, faults>>

\* The header has come, or the end of the connection.
handshake_cb(c) ==
    /\ c \in handshaking
    /\ handshaking' = handshaking \ {c}
    /\ \/ /\ wire[c]["connecting"] # << >>
          /\ run("accepting", c, [wire EXCEPT ![c]["connecting"] = Tail(@)])
       \/ /\ Ended("accepting", c)
          /\ close("accepting", {c}, wire)
          /\ UNCHANGED pipelineVars
    /\ UNCHANGED <<up, connecting, backlog, queueVars, countVars, faults>>

\* Three seconds without a handshake, or with one that was not handled yet.
handle_handshake_timeout(c) ==
    /\ c \in handshaking
    /\ faults < MaxFault
    /\ faults' = faults + 1
    /\ handshaking' = handshaking \ {c}
    /\ close("accepting", {c}, wire)
    /\ UNCHANGED <<up, pipelineVars, connecting, backlog, queueVars, countVars>>

\* handle_receive_timeout hands the messages of a pipeline that runs to the
\* node; those of one that does not stay.
handle_receive_timeout(s) ==
    /\ is_running[s]
    /\ to_deser[s] # << >>
    /\ to_deser' = [to_deser EXCEPT ![s] = Tail(@)]
    /\ received' = [received EXCEPT ![Other(s)][Head(to_deser[s]).producer] =
                      Append(@, Head(to_deser[s]).seq)]
    /\ UNCHANGED <<up, pipelineVars, connecting, acceptVars, tcpVars, from_ser, sent, faults>>

-----------------------------------------------------------------------------
(* Processes                                                               *)

\* The process of s ends, having written w: its descriptors are closed and
\* what it kept in memory is gone.
end_process(s, w) ==
    /\ up' = [up EXCEPT ![s] = FALSE]
    /\ is_running' = [is_running EXCEPT ![s] = FALSE]
    /\ stream'     = [stream EXCEPT ![s] = None]
    /\ loop'       = [loop EXCEPT ![s] = "none"]
    /\ close(s, {c \in Conn : s \in open[c]}, w)
    /\ from_ser' = [from_ser EXCEPT ![s] = [p \in Producer |-> << >>]]
    /\ to_deser' = [to_deser EXCEPT ![s] = << >>]
    /\ IF s = "connecting"
       THEN connecting' = None /\ UNCHANGED acceptVars
       ELSE backlog' = {} /\ handshaking' = {} /\ UNCHANGED connecting
    /\ UNCHANGED countVars

\* What the process has written when it ends: it may have been writing.
WrittenAtEnd(s) ==
    {wire} \cup
      {[wire EXCEPT ![stream[s]][s] = Append(@, [Head(from_ser[s][p]) EXCEPT !.torn = TRUE])] :
          p \in {q \in Producer : /\ Writing(s) /\ Reaches(s, stream[s])
                                  /\ from_ser[s][q] # << >>}}

Crash(s) ==
    /\ up[s]
    /\ faults < MaxFault
    /\ faults' = faults + 1
    /\ \E w \in WrittenAtEnd(s) : end_process(s, w)

\* A write to a connection the other end of which is gone raises SIGPIPE,
\* which the program neither handles nor ignores.
Sigpipe(s) ==
    /\ Writing(s) /\ ~Reaches(s, stream[s])
    /\ \E p \in Producer : from_ser[s][p] # << >>
    /\ end_process(s, wire)
    /\ UNCHANGED faults

Start(s) ==
    /\ ~up[s]
    /\ up' = [up EXCEPT ![s] = TRUE]
    /\ UNCHANGED <<pipelineVars, connecting, acceptVars, tcpVars, queueVars, countVars, faults>>

-----------------------------------------------------------------------------

PipelineStep(s) ==
    \/ event_loop(s) \/ read_cb(s) \/ read_cb_ended(s)
    \/ \E p \in Producer : handle_write_timeout(s, p)
    \/ close_stream(s) \/ end_event_loop(s)

ConnectStep == (\E c \in Conn : try_connect_to_peer(c)) \/ start_connected

AcceptStep == \E c \in Conn : accept_cb(c) \/ handshake_cb(c)

Disturbance ==
    \/ \E c \in Conn : Break(c) \/ handle_handshake_timeout(c)
    \/ \E s \in Side : \E c \in Conn : CutShort(s, c)
    \/ \E s \in Side : Crash(s) \/ Sigpipe(s) \/ Start(s)

Next ==
    \/ ConnectStep \/ AcceptStep \/ Disturbance
    \/ \E s \in Side : \/ PipelineStep(s) \/ handle_receive_timeout(s)
                       \/ broadcast(s) \/ send_to_pipeline(s)

Spec == Init /\ [][Next]_vars

\* The event loops of the pipelines run on, and try_connect_to_peer comes to its
\* end.  Nothing is assumed of the environment, in particular not that a process
\* that ended is started again.
Fairness ==
    /\ WF_vars(start_connected)
    /\ \A s \in Side : /\ WF_vars(event_loop(s))
                       /\ WF_vars(read_cb(s) \/ read_cb_ended(s))
                       /\ WF_vars(close_stream(s))
                       /\ WF_vars(end_event_loop(s))

FairSpec == Spec /\ Fairness

-----------------------------------------------------------------------------
(* Properties                                                              *)

\* The ways in which a side may own the descriptor of a connection.
Owners(s, c) ==
    {o \in {"stream", "connecting", "backlog", "handshaking"} :
        \/ o = "stream" /\ stream[s] = c
        \/ o = "connecting"  /\ s = "connecting" /\ connecting = c
        \/ o = "backlog"     /\ s = "accepting" /\ c \in backlog
        \/ o = "handshaking" /\ s = "accepting" /\ c \in handshaking}

\* Every descriptor has one owner: none is leaked when a connection is refused
\* or a handshake times out, and none is closed while it is served.
OneOwner ==
    \A s \in Side : \A c \in Conn : s \in open[c] <=> \E o \in Owners(s, c) : Owners(s, c) = {o}

\* The two pipelines serve one connection, unless one of them is about to
\* find out that its own has ended.
SameConnection ==
    \A s \in Side :
        stream[s] # None /\ stream[Other(s)] # None /\ stream[s] # stream[Other(s)]
            => \E t \in Side : ~Reaches(t, stream[t])

\* No message is handed to a node twice, or never sent, across any number of
\* connections, refused handshakes, timeouts and restarts, whatever was left in
\* a stream, in from_ser_queue_ or in to_deser_queue_.
Channel == INSTANCE LossyChannel WITH
    Sender   <- Side \X Producer,
    sent     <- [q \in Side \X Producer |-> sent[q[1]][q[2]]],
    received <- [q \in Side \X Producer |-> received[q[1]][q[2]]]

ImplementsChannel == Channel!Spec

Connected ==
    /\ \A s \in Side : loop[s] = "looping"
    /\ stream["connecting"] = stream["accepting"]
    /\ stream["connecting"] \notin broken

\* The connecting side connects when it broadcasts: that needs an election, a
\* leader there or a client's request (handle_serialize_timeout); two followers
\* of a third node broadcast nothing.
GoesOnBroadcasting == WF_vars(\E c \in Conn : try_connect_to_peer(c))

\* The accept loop serves its watchers: it does not while client_cb waits for
\* the rest of a client's request.
GoesOnAccepting == WF_vars(AcceptStep)

\* Two processes that stay up, of which one goes on broadcasting and the other
\* accepting, end with both pipelines on one connection, however connecting,
\* refusing, timing out and noticing a broken connection interleave (event_loop,
\* try_connect_to_peer, handshake_cb).  Unless an over-long message is reissued
\* again and again: each ends the connection it is read from.
EventuallyConnected ==
    (<>[](\A s \in Side : up[s]) /\ <>[]NoOverlong /\ GoesOnBroadcasting /\ GoesOnAccepting)
        => <>[]Connected

=============================================================================
