------------------------ MODULE PeerConnection_proofs ------------------------
(***************************************************************************)
(* Proofs about PeerConnection: its types, who owns the descriptors, which *)
(* connection the two pipelines serve, and that the connection implements  *)
(* LossyChannel.                                                           *)
(***************************************************************************)
EXTENDS PeerConnection, TLAPS, SequenceTheorems

-----------------------------------------------------------------------------
(* Descriptors                                                             *)

OwnTypes ==
    /\ is_running  \in [Side -> BOOLEAN]
    /\ stream      \in [Side -> Conn \cup {None}]
    /\ loop        \in [Side -> Progress]
    /\ connecting  \in Conn \cup {None}
    /\ backlog     \subseteq Conn
    /\ handshaking \subseteq Conn
    /\ open        \in [Conn -> SUBSET Side]
    /\ broken      \subseteq Conn

\* A pipeline that runs has an event loop, and a stream until that has ended.
PipelineState ==
    \A s \in Side :
        /\ is_running[s] <=> loop[s] # "none"
        /\ stream[s] # None <=> loop[s] \in {"posted", "looping", "breaking"}

\* A node connects only while its pipeline does not run, and so run never
\* refuses the connection it has made.
ConnectsWhenIdle == connecting # None => ~is_running["connecting"]

\* The accepting side has a connection in one place.
AcceptsOnce ==
    /\ backlog \cap handshaking = {}
    /\ stream["accepting"] \notin backlog \cup handshaking

\* The descriptors there are.
Opened ==
    \A c \in Conn :
        /\ "connecting" \in open[c] <=> stream["connecting"] = c \/ connecting = c
        /\ "accepting" \in open[c] <=>
             stream["accepting"] = c \/ c \in backlog \cup handshaking

\* Inductive: what is_running_ says of the pipeline is part of it.
OwnInv == OwnTypes /\ PipelineState /\ ConnectsWhenIdle /\ AcceptsOnce /\ Opened

ownVars == <<pipelineVars, connecting, acceptVars, open, broken>>

LEMMA Sides ==
  ASSUME NEW s \in Side
  PROVE  Other(s) \in Side /\ Other(s) # s /\ Other(Other(s)) = s
  BY DEF Side, Other

LEMMA OwnInvInit == Init => OwnInv
  BY ConnAssumption DEF Init, OwnInv, OwnTypes, PipelineState, ConnectsWhenIdle, AcceptsOnce,
     Opened, Side, Progress

LEMMA OwnInvSame == OwnInv /\ UNCHANGED ownVars => OwnInv'
  BY DEF ownVars, pipelineVars, acceptVars, OwnInv, OwnTypes, PipelineState, ConnectsWhenIdle,
     AcceptsOnce, Opened

\* What close does to the descriptors.
LEMMA CloseOpen ==
  ASSUME OwnTypes, NEW s \in Side, NEW cs, NEW w, close(s, cs, w)
  PROVE  /\ open' \in [Conn -> SUBSET Side] /\ broken' \subseteq Conn
         /\ \A c \in Conn : \A t \in Side :
               t \in open'[c] <=> t \in open[c] /\ ~(t = s /\ c \in cs)
<1>1. /\ open' = [c \in Conn |-> IF c \in cs THEN open[c] \ {s} ELSE open[c]]
      /\ broken' = broken \ {c \in cs : Other(s) \notin open[c]}
  BY DEF close
<1> QED BY <1>1 DEF OwnTypes

\* event_loop, and the ends of a stream that read_cb sees.
LEMMA LoopStep ==
  ASSUME OwnInv, NEW s \in Side,
         loop[s] \in {"posted", "looping"}, NEW l \in {"looping", "breaking"},
         loop' = [loop EXCEPT ![s] = l],
         UNCHANGED <<is_running, stream, connecting, acceptVars, open, broken>>
  PROVE  OwnInv'
  BY DEF acceptVars, OwnInv, OwnTypes, PipelineState, ConnectsWhenIdle, AcceptsOnce, Opened,
     Progress

LEMMA CloseStreamStep ==
  ASSUME OwnInv, NEW s \in Side, close_stream(s)
  PROVE  OwnInv'
<1>1. /\ loop[s] = "breaking" /\ loop' = [loop EXCEPT ![s] = "closed"]
      /\ stream' = [stream EXCEPT ![s] = None]
      /\ close(s, {stream[s]}, wire)
      /\ UNCHANGED <<is_running, connecting, backlog, handshaking>>
  BY DEF close_stream, acceptVars
<1>2. OwnTypes /\ stream[s] \in Conn
  BY <1>1 DEF OwnInv, OwnTypes, PipelineState
<1>3. /\ open' \in [Conn -> SUBSET Side] /\ broken' \subseteq Conn
      /\ \A c \in Conn : \A t \in Side :
            t \in open'[c] <=> t \in open[c] /\ ~(t = s /\ c = stream[s])
  BY <1>1, <1>2, CloseOpen
<1>4. OwnTypes' /\ PipelineState'
  BY <1>1, <1>3 DEF OwnInv, OwnTypes, PipelineState, Progress
<1>5. ConnectsWhenIdle' /\ AcceptsOnce'
  BY <1>1, <1>2, ConnAssumption
     DEF OwnInv, OwnTypes, ConnectsWhenIdle, AcceptsOnce, Side
<1>6. is_running[s]
  BY <1>1 DEF OwnInv, PipelineState
<1>7. Opened'
  BY <1>1, <1>2, <1>3, <1>6, ConnAssumption
     DEF OwnInv, OwnTypes, ConnectsWhenIdle, AcceptsOnce, Opened, Side
<1> QED BY <1>4, <1>5, <1>7 DEF OwnInv

LEMMA EndLoopStep ==
  ASSUME OwnInv, NEW s \in Side, end_event_loop(s)
  PROVE  OwnInv'
  BY DEF end_event_loop, acceptVars, tcpVars, OwnInv, OwnTypes, PipelineState,
     ConnectsWhenIdle, AcceptsOnce, Opened, Progress

LEMMA ConnectOpens ==
  ASSUME OwnInv, NEW c \in Conn, try_connect_to_peer(c)
  PROVE  OwnInv'
<1>1. /\ ~is_running["connecting"] /\ connecting = None /\ open[c] = {}
      /\ connecting' = c /\ backlog' = backlog \cup {c}
      /\ open' = [open EXCEPT ![c] = Side]
      /\ UNCHANGED <<is_running, stream, loop, handshaking, broken>>
  BY DEF try_connect_to_peer, pipelineVars
<1>2. /\ stream["connecting"] # c /\ stream["accepting"] # c
      /\ c \notin backlog \cup handshaking
  BY <1>1 DEF OwnInv, Opened
<1>3. OwnTypes' /\ PipelineState' /\ ConnectsWhenIdle' /\ AcceptsOnce'
  BY <1>1, <1>2 DEF OwnInv, OwnTypes, PipelineState, ConnectsWhenIdle, AcceptsOnce
<1>4. Opened'
  BY <1>1, <1>2, ConnAssumption DEF OwnInv, OwnTypes, Opened, Side
<1> QED BY <1>3, <1>4 DEF OwnInv

\* run on a connection that the caller has the descriptor of and gives up.
LEMMA RunConnecting ==
  ASSUME OwnInv, NEW w, connecting # None, run("connecting", connecting, w),
         connecting' = None, UNCHANGED <<backlog, handshaking>>
  PROVE  OwnInv'
<1>1. ~is_running["connecting"]
  BY DEF OwnInv, ConnectsWhenIdle
<1>2. /\ is_running' = [is_running EXCEPT !["connecting"] = TRUE]
      /\ stream'     = [stream EXCEPT !["connecting"] = connecting]
      /\ loop'       = [loop EXCEPT !["connecting"] = "posted"]
      /\ UNCHANGED <<open, broken>>
  BY <1>1 DEF run
<1>3. stream["connecting"] = None /\ connecting \in Conn
  BY <1>1 DEF OwnInv, OwnTypes, PipelineState, Side, Progress
<1>4. OwnTypes' /\ PipelineState'
  BY <1>2, <1>3, ConnAssumption DEF OwnInv, OwnTypes, PipelineState, Side, Progress
<1>5. ConnectsWhenIdle' /\ AcceptsOnce' /\ Opened'
  BY <1>2, <1>3, ConnAssumption
     DEF OwnInv, OwnTypes, ConnectsWhenIdle, AcceptsOnce, Opened, Side
<1> QED BY <1>4, <1>5 DEF OwnInv

LEMMA CloseHandshake ==
  ASSUME OwnInv, NEW c \in handshaking, NEW w, close("accepting", {c}, w),
         handshaking' = handshaking \ {c},
         UNCHANGED <<is_running, stream, loop, connecting, backlog>>
  PROVE  OwnInv'
<1>1. /\ open' \in [Conn -> SUBSET Side] /\ broken' \subseteq Conn
      /\ \A d \in Conn : \A t \in Side :
            t \in open'[d] <=> t \in open[d] /\ ~(t = "accepting" /\ d = c)
  BY CloseOpen DEF OwnInv, Side
<1>2. OwnTypes' /\ PipelineState' /\ ConnectsWhenIdle' /\ AcceptsOnce'
  BY <1>1 DEF OwnInv, OwnTypes, PipelineState, ConnectsWhenIdle, AcceptsOnce
<1>3. Opened'
  BY <1>1 DEF OwnInv, OwnTypes, AcceptsOnce, Opened, Side
<1> QED BY <1>2, <1>3 DEF OwnInv

LEMMA RunAccepting ==
  ASSUME OwnInv, NEW c \in handshaking, NEW w, run("accepting", c, w),
         handshaking' = handshaking \ {c}, UNCHANGED <<connecting, backlog>>
  PROVE  OwnInv'
<1>1. CASE is_running["accepting"]
  <2>1. close("accepting", {c}, w) /\ UNCHANGED <<is_running, stream, loop>>
    BY <1>1 DEF run, pipelineVars
  <2> QED BY <2>1, CloseHandshake
<1>2. CASE ~is_running["accepting"]
  <2>1. /\ is_running' = [is_running EXCEPT !["accepting"] = TRUE]
        /\ stream'     = [stream EXCEPT !["accepting"] = c]
        /\ loop'       = [loop EXCEPT !["accepting"] = "posted"]
        /\ UNCHANGED <<open, broken>>
    BY <1>2 DEF run
  <2>2. stream["accepting"] = None /\ c \in Conn
    BY <1>2 DEF OwnInv, OwnTypes, PipelineState, Side, Progress
  <2>3. OwnTypes' /\ PipelineState'
    BY <2>1, <2>2, ConnAssumption DEF OwnInv, OwnTypes, PipelineState, Side, Progress
  <2>4. ConnectsWhenIdle' /\ AcceptsOnce' /\ Opened'
    BY <2>1, <2>2, ConnAssumption
       DEF OwnInv, OwnTypes, ConnectsWhenIdle, AcceptsOnce, Opened, Side
  <2> QED BY <2>3, <2>4 DEF OwnInv
<1> QED BY <1>1, <1>2

LEMMA EndProcessStep ==
  ASSUME OwnInv, NEW s \in Side, NEW w, end_process(s, w)
  PROVE  OwnInv'
<1>1. /\ is_running' = [is_running EXCEPT ![s] = FALSE]
      /\ stream'     = [stream EXCEPT ![s] = None]
      /\ loop'       = [loop EXCEPT ![s] = "none"]
      /\ IF s = "connecting"
         THEN connecting' = None /\ UNCHANGED <<backlog, handshaking>>
         ELSE backlog' = {} /\ handshaking' = {} /\ UNCHANGED connecting
  BY DEF end_process, acceptVars
<1>2. /\ open' \in [Conn -> SUBSET Side] /\ broken' \subseteq Conn
      /\ \A c \in Conn : \A t \in Side : t \in open'[c] <=> t \in open[c] /\ t # s
  <2>1. close(s, {c \in Conn : s \in open[c]}, w) /\ OwnTypes
    BY DEF end_process, OwnInv
  <2> QED BY <2>1, CloseOpen
<1>3. OwnTypes' /\ PipelineState'
  BY <1>1, <1>2 DEF OwnInv, OwnTypes, PipelineState, Progress
<1>4. ConnectsWhenIdle' /\ AcceptsOnce' /\ Opened'
  <2>1. CASE s = "connecting"
    BY <1>1, <1>2, <2>1, ConnAssumption
       DEF OwnInv, OwnTypes, ConnectsWhenIdle, AcceptsOnce, Opened, Side
  <2>2. CASE s = "accepting"
    BY <1>1, <1>2, <2>2, ConnAssumption
       DEF OwnInv, OwnTypes, ConnectsWhenIdle, AcceptsOnce, Opened, Side
  <2> QED BY <2>1, <2>2 DEF Side
<1> QED BY <1>3, <1>4 DEF OwnInv

LEMMA OwnInvStep == OwnInv /\ [Next]_vars => OwnInv'
<1> SUFFICES ASSUME OwnInv, [Next]_vars PROVE OwnInv'
  OBVIOUS
<1>1. CASE UNCHANGED vars
  BY <1>1, OwnInvSame DEF vars, tcpVars, ownVars
<1>2. ASSUME NEW s \in Side, PipelineStep(s) PROVE OwnInv'
  <2>1. CASE event_loop(s)
    BY <2>1, LoopStep DEF event_loop, tcpVars
  <2>2. CASE read_cb(s)
    <3>1. /\ loop[s] = "looping"
          /\ loop' = [loop EXCEPT ![s] = "breaking"] \/ loop' = loop
          /\ UNCHANGED <<is_running, stream, connecting, acceptVars, open, broken>>
      BY <2>2 DEF read_cb
    <3> QED BY <3>1, LoopStep, OwnInvSame DEF ownVars, pipelineVars
  <2>3. CASE read_cb_ended(s)
    BY <2>3, LoopStep DEF read_cb_ended, tcpVars
  <2>4. CASE \E p \in Producer : handle_write_timeout(s, p)
    BY <2>4, OwnInvSame DEF handle_write_timeout, ownVars
  <2> QED BY <1>2, <2>1, <2>2, <2>3, <2>4, CloseStreamStep, EndLoopStep DEF PipelineStep
<1>3. CASE ConnectStep
  <2>1. CASE start_connected
    BY <2>1, RunConnecting DEF start_connected, acceptVars
  <2> QED BY <1>3, <2>1, ConnectOpens DEF ConnectStep
<1>4. ASSUME NEW c \in Conn, accept_cb(c) \/ handshake_cb(c) PROVE OwnInv'
  <2>1. CASE accept_cb(c)
    BY <2>1 DEF accept_cb, pipelineVars, tcpVars, OwnInv, OwnTypes, PipelineState,
       ConnectsWhenIdle, AcceptsOnce, Opened
  <2>2. CASE handshake_cb(c)
    BY <2>2, RunAccepting, CloseHandshake DEF handshake_cb, pipelineVars
  <2> QED BY <1>4, <2>1, <2>2
<1>5. ASSUME NEW s \in Side, Crash(s) \/ Sigpipe(s) PROVE OwnInv'
  BY <1>5, EndProcessStep DEF Crash, Sigpipe
<1>6. ASSUME NEW c \in Conn, Break(c) PROVE OwnInv'
  BY <1>6 DEF Break, pipelineVars, acceptVars, OwnInv, OwnTypes, PipelineState,
     ConnectsWhenIdle, AcceptsOnce, Opened
<1>7. ASSUME NEW c \in Conn, handle_handshake_timeout(c) PROVE OwnInv'
  BY <1>7, CloseHandshake DEF handle_handshake_timeout, pipelineVars
<1>8. ASSUME NEW s \in Side, Start(s) \/ \E c \in Conn : CutShort(s, c) PROVE OwnInv'
  BY <1>8, OwnInvSame DEF Start, CutShort, tcpVars, ownVars
<1>9. CASE Disturbance
  BY <1>5, <1>6, <1>7, <1>8, <1>9, SMTT(20) DEF Disturbance
<1>10. ASSUME NEW s \in Side,
              handle_receive_timeout(s) \/ broadcast(s) \/ send_to_pipeline(s)
       PROVE  OwnInv'
  <2>1. UNCHANGED <<pipelineVars, connecting, acceptVars, tcpVars>>
    BY <1>10 DEF handle_receive_timeout, broadcast, send_to_pipeline, enqueue, enqueue_next,
                 enqueue_overlong
  <2> QED BY <2>1, OwnInvSame DEF tcpVars, ownVars
<1> QED BY <1>1, <1>2, <1>3, <1>4, <1>9, <1>10 DEF Next, AcceptStep

LEMMA OwnInvHolds == Spec => []OwnInv
  BY OwnInvInit, OwnInvStep, PTL DEF Spec

\* The connecting side has no connection in two places either.
LEMMA ConnectsOnce ==
  ASSUME OwnInv, NEW c \in Conn, connecting = c
  PROVE  stream["connecting"] # c
  BY ConnAssumption DEF OwnInv, OwnTypes, ConnectsWhenIdle, PipelineState, Side

\* No descriptor is leaked or closed while it is served, whatever the callbacks
\* of the two processes do in which order: run and its callers agree on who
\* closes a refused connection, for any number of connections and faults.
THEOREM DescriptorsOwned == Spec => []OneOwner
<1>1. ASSUME OwnInv PROVE OneOwner
  <2> SUFFICES ASSUME NEW s \in Side, NEW c \in Conn
               PROVE  s \in open[c] <=> \E o \in Owners(s, c) : Owners(s, c) = {o}
    BY DEF OneOwner
  <2>1. CASE s = "connecting"
    <3>1. Owners(s, c) = {o \in {"stream", "connecting"} :
                            \/ o = "stream" /\ stream[s] = c
                            \/ o = "connecting" /\ connecting = c}
      BY <2>1 DEF Owners
    <3>2. s \in open[c] <=> stream[s] = c \/ connecting = c
      BY <1>1, <2>1 DEF OwnInv, Opened
    <3>3. ~(stream[s] = c /\ connecting = c)
      BY <1>1, <2>1, ConnectsOnce
    <3> QED BY <3>1, <3>2, <3>3
  <2>2. CASE s = "accepting"
    <3>1. Owners(s, c) = {o \in {"stream", "backlog", "handshaking"} :
                            \/ o = "stream" /\ stream[s] = c
                            \/ o = "backlog" /\ c \in backlog
                            \/ o = "handshaking" /\ c \in handshaking}
      BY <2>2 DEF Owners
    <3>2. s \in open[c] <=> stream[s] = c \/ c \in backlog \/ c \in handshaking
      BY <1>1, <2>2 DEF OwnInv, Opened
    <3>3. /\ ~(c \in backlog /\ c \in handshaking)
          /\ ~(stream[s] = c /\ c \in backlog)
          /\ ~(stream[s] = c /\ c \in handshaking)
      BY <1>1, <2>2 DEF OwnInv, AcceptsOnce
    <3> QED BY <3>1, <3>2, <3>3
  <2> QED BY <2>1, <2>2 DEF Side
<1> QED BY <1>1, OwnInvHolds, PTL

\* Two pipelines that serve different connections do not stay that way: the
\* connecting side has a descriptor of its own stream only, so that the accepting
\* side's connection has ended.
THEOREM PipelinesMeet == Spec => []SameConnection
<1>1. ASSUME OwnInv PROVE SameConnection
  <2> SUFFICES ASSUME stream["connecting"] # None, stream["accepting"] # None,
                      stream["connecting"] # stream["accepting"]
               PROVE  ~Reaches("accepting", stream["accepting"])
    BY DEF SameConnection, Side, Other
  <2>1. connecting = None /\ stream["accepting"] \in Conn
    BY <1>1 DEF OwnInv, OwnTypes, ConnectsWhenIdle, PipelineState, Side
  <2>2. "connecting" \notin open[stream["accepting"]]
    BY <1>1, <2>1, ConnAssumption DEF OwnInv, Opened
  <2> QED BY <2>2 DEF Reaches, Other
<1> QED BY <1>1, OwnInvHolds, PTL

-----------------------------------------------------------------------------
(* Sequences of frames                                                     *)

Frame == Outgoing \cup {Hello}

\* A stream that may begin with a handshake.
Greeted(q) == q \in Seq(Frame) /\ \A i \in 2 .. Len(q) : q[i] \in Outgoing

LEMMA Frames ==
  /\ Hello \notin Outgoing
  /\ \A q \in Seq(Outgoing) : q \in Seq(Frame) /\ Greeted(q)
  /\ Msg \subseteq Outgoing /\ Seq(Msg) \subseteq Seq(Frame)
  /\ \A m \in Outgoing : (TooLong(m) <=> m \notin Msg) /\ (m \in Msg <=> m.seq # 0)
<1>1. Hello \notin Outgoing
  BY DEF Hello, Outgoing, Msg, Overlong
<1>2. ASSUME NEW q \in Seq(Outgoing) PROVE q \in Seq(Frame) /\ Greeted(q)
  BY SeqMonotonic, ElementOfSeq, LenProperties DEF Frame, Greeted
<1>3. Msg \subseteq Outgoing /\ Seq(Msg) \subseteq Seq(Frame)
  BY SeqMonotonic DEF Outgoing, Frame
<1>4. ASSUME NEW m \in Outgoing PROVE (TooLong(m) <=> m \notin Msg) /\ (m \in Msg <=> m.seq # 0)
  BY DEF Outgoing, Msg, Overlong, TooLong
<1> QED BY <1>1, <1>2, <1>3, <1>4

LEMMA SequenceTail ==
  ASSUME NEW S, NEW q \in Seq(S), q # << >>
  PROVE  /\ Len(q) \in Nat \ {0} /\ q[1] = Head(q) /\ Head(q) \in S
         /\ Tail(q) \in Seq(S) /\ Len(Tail(q)) = Len(q) - 1
         /\ \A i \in 1 .. Len(q) - 1 : Tail(q)[i] = q[i + 1]
  BY EmptySeq, HeadTailProperties

LEMMA SequenceFront ==
  ASSUME NEW S, NEW q \in Seq(S), q # << >>
  PROVE  /\ Front(q) \in Seq(S) /\ Len(Front(q)) = Len(q) - 1
         /\ \A i \in 1 .. Len(q) - 1 : Front(q)[i] = q[i]
<1>1. Len(q) \in Nat \ {0}
  BY EmptySeq
<1> DEFINE n == Len(q) - 1
<1>2. n \in Nat /\ \A i \in 1 .. n : q[i] \in S
  BY <1>1, ElementOfSeq
<1> HIDE DEF n
<1>3. /\ SubSeq(q, 1, n) \in Seq(S)
      /\ Len(SubSeq(q, 1, n)) = IF 1 <= n THEN n - 1 + 1 ELSE 0
      /\ \A i \in 1 .. n - 1 + 1 : SubSeq(q, 1, n)[i] = q[1 + i - 1]
  BY <1>2, SubSeqProperties
<1>4. Len(SubSeq(q, 1, n)) = n /\ \A i \in 1 .. n : SubSeq(q, 1, n)[i] = q[i]
  BY <1>2, <1>3
<1> QED BY <1>3, <1>4 DEF Front, n

LEMMA SequenceAppend ==
  ASSUME NEW S, NEW q \in Seq(S), NEW m \in S
  PROVE  /\ Append(q, m) \in Seq(S) /\ Len(q) \in Nat
         /\ Len(Append(q, m)) = Len(q) + 1 /\ Append(q, m)[Len(q) + 1] = m
         /\ \A i \in 1 .. Len(q) : Append(q, m)[i] = q[i]
  BY LenProperties, AppendProperties

\* A stream stays one as it is written, read or cut, and what is read from the
\* rest of it is a message.
LEMMA GreetedStream ==
  ASSUME NEW q, Greeted(q)
  PROVE  /\ \A m \in Outgoing : Greeted(Append(q, m))
         /\ q # << >> => Greeted(Front(q)) /\ Tail(q) \in Seq(Outgoing)
<1>1. q \in Seq(Frame) /\ Len(q) \in Nat /\ \A i \in 2 .. Len(q) : q[i] \in Outgoing
  BY LenProperties DEF Greeted
<1>2. ASSUME NEW m \in Outgoing PROVE Greeted(Append(q, m))
  <2>1. m \in Frame
    BY DEF Frame
  <2> QED BY <1>1, <1>2, <2>1, SequenceAppend DEF Greeted
<1>3. ASSUME q # << >> PROVE Greeted(Front(q))
  BY <1>1, <1>3, SequenceFront DEF Greeted
<1>4. ASSUME q # << >> PROVE Tail(q) \in Seq(Outgoing)
  <2>1. /\ Tail(q) \in Seq(Frame) /\ Len(Tail(q)) = Len(q) - 1
        /\ \A i \in 1 .. Len(q) - 1 : Tail(q)[i] = q[i + 1]
    BY <1>1, <1>4, SequenceTail
  <2>2. \A i \in 1 .. Len(Tail(q)) : Tail(q)[i] \in Outgoing
    BY <1>1, <2>1
  <2>3. SubSeq(Tail(q), 1, Len(Tail(q))) \in Seq(Outgoing)
    BY <1>1, <2>1, <2>2, SubSeqProperties, LenProperties
  <2> QED BY <2>1, <2>3, SubSeqFull
<1> QED BY <1>2, <1>3, <1>4

LEMMA MessageStream ==
  ASSUME NEW q \in Seq(Outgoing)
  PROVE  /\ \A m \in Outgoing : Append(q, m) \in Seq(Outgoing)
         /\ q # << >> => Front(q) \in Seq(Outgoing) /\ Tail(q) \in Seq(Outgoing)
  BY SequenceAppend, SequenceFront, SequenceTail

-----------------------------------------------------------------------------
(* Types                                                                   *)

\* The variables that OwnTypes leaves, except wire.
QueueTypes ==
    /\ up       \in [Side -> BOOLEAN]
    /\ from_ser \in [Side -> [Producer -> Seq(Outgoing)]]
    /\ to_deser \in [Side -> Seq(Msg)]
    /\ sent     \in [Side -> [Producer -> Nat]]
    /\ received \in [Side -> [Producer -> Seq(Nat)]]
    /\ faults \in Nat

Wires(w) == w \in [Conn -> [Side -> Seq(Frame)]]

\* Nothing is left of a connection that both sides have closed.
Cleared == \A c \in Conn : open[c] = {} => \A s \in Side : wire[c][s] = << >>

\* No handshake has been written to a new connection, and none read.
NotGreeted ==
    connecting # None => /\ wire[connecting]["connecting"] = << >>
                         /\ stream["accepting"] # connecting

\* The handshake comes first, and the pipeline that accepts does not see it.
Greetings ==
    \A c \in Conn :
        /\ wire[c]["accepting"] \in Seq(Outgoing)
        /\ Greeted(wire[c]["connecting"])
        /\ stream["accepting"] = c => wire[c]["connecting"] \in Seq(Outgoing)

WireInv == Wires(wire) /\ Cleared /\ NotGreeted /\ Greetings

\* What most steps may do to the stream from s in c, and what a pipeline that
\* writes does.
Drains(s, c) ==
    \/ wire'[c][s] \in {wire[c][s], << >>}
    \/ wire[c][s] # << >> /\ wire'[c][s] \in {Tail(wire[c][s]), Front(wire[c][s])}
    \/ s = "connecting" /\ connecting = c /\ connecting' # c /\ wire'[c][s] = <<Hello>>

Flows(s, c) ==
    \/ Drains(s, c)
    \/ stream[s] = c /\ \E m \in Outgoing : wire'[c][s] = Append(wire[c][s], m)

\* The accepting pipeline takes a connection once the handshake has been read.
TakesGreeted ==
    \A c \in Conn :
        stream'["accepting"] = c =>
            \/ stream["accepting"] = c
            \/ /\ wire[c]["connecting"] # << >>
               /\ wire'[c]["connecting"] = Tail(wire[c]["connecting"])

MakesNew == connecting' \in {connecting, None} \/ open[connecting'] = {}

LEMMA WireInvKept ==
  ASSUME OwnInv, OwnInv', WireInv, Wires(wire'), Cleared',
         \A s \in Side, c \in Conn : Flows(s, c), TakesGreeted, MakesNew
  PROVE  WireInv'
<1>1. ASSUME NEW c \in Conn PROVE wire'[c]["accepting"] \in Seq(Outgoing)
  <2>1. wire[c]["accepting"] \in Seq(Outgoing) /\ << >> \in Seq(Outgoing)
    BY EmptySeq DEF WireInv, Greetings
  <2>2. \/ wire'[c]["accepting"] \in {wire[c]["accepting"], << >>}
        \/ /\ wire[c]["accepting"] # << >>
           /\ wire'[c]["accepting"] \in {Tail(wire[c]["accepting"]), Front(wire[c]["accepting"])}
        \/ \E m \in Outgoing : wire'[c]["accepting"] = Append(wire[c]["accepting"], m)
    BY DEF Side, Flows, Drains
  <2> QED BY <2>1, <2>2, MessageStream
<1>2. ASSUME NEW c \in Conn PROVE Greeted(wire'[c]["connecting"])
  <2>1. Greeted(wire[c]["connecting"]) /\ Greeted(<< >>)
    BY EmptySeq, Frames DEF WireInv, Greetings
  <2>2. \/ wire'[c]["connecting"] \in {wire[c]["connecting"], << >>, <<Hello>>}
        \/ /\ wire[c]["connecting"] # << >>
           /\ wire'[c]["connecting"] \in
                {Tail(wire[c]["connecting"]), Front(wire[c]["connecting"])}
        \/ \E m \in Outgoing : wire'[c]["connecting"] = Append(wire[c]["connecting"], m)
    BY DEF Side, Flows, Drains
  <2>3. Greeted(<<Hello>>)
    BY DEF Greeted, Frame
  <2> QED BY <2>1, <2>2, <2>3, GreetedStream, Frames
<1>3. ASSUME NEW c \in Conn, stream'["accepting"] = c
      PROVE  wire'[c]["connecting"] \in Seq(Outgoing)
  <2>1. CASE stream["accepting"] = c
    <3>1. wire[c]["connecting"] \in Seq(Outgoing) /\ << >> \in Seq(Outgoing)
      BY <2>1, EmptySeq DEF WireInv, Greetings
    <3>2. connecting # c
      BY <2>1, ConnAssumption DEF WireInv, NotGreeted
    <3>3. \/ wire'[c]["connecting"] \in {wire[c]["connecting"], << >>}
          \/ /\ wire[c]["connecting"] # << >>
             /\ wire'[c]["connecting"] \in
                  {Tail(wire[c]["connecting"]), Front(wire[c]["connecting"])}
          \/ \E m \in Outgoing : wire'[c]["connecting"] = Append(wire[c]["connecting"], m)
      BY <3>2 DEF Side, Flows, Drains
    <3> QED BY <3>1, <3>3, MessageStream
  <2>2. CASE stream["accepting"] # c
    <3>1. /\ wire[c]["connecting"] # << >>
          /\ wire'[c]["connecting"] = Tail(wire[c]["connecting"])
      BY <1>3, <2>2 DEF TakesGreeted
    <3> QED BY <3>1, GreetedStream DEF WireInv, Greetings
  <2> QED BY <2>1, <2>2
<1>4. NotGreeted'
  <2> SUFFICES ASSUME NEW c \in Conn, connecting' = c
               PROVE  wire'[c]["connecting"] = << >> /\ stream'["accepting"] # c
    BY DEF NotGreeted, OwnInv, OwnTypes
  <2>1. /\ wire[c]["connecting"] = << >> /\ stream["accepting"] # c
        /\ stream["connecting"] # c
    <3>1. CASE connecting = c
      BY <3>1, ConnectsOnce, ConnAssumption DEF WireInv, NotGreeted
    <3>2. CASE connecting # c
      <4>1. open[c] = {}
        BY <3>2, ConnAssumption DEF MakesNew
      <4> QED BY <4>1 DEF OwnInv, Opened, WireInv, Cleared, Side
    <3> QED BY <3>1, <3>2
  <2>2. Flows("connecting", c)
    BY DEF Side
  <2>3. wire'[c]["connecting"] = << >>
    BY <2>1, <2>2 DEF Flows, Drains
  <2> QED BY <2>1, <2>3 DEF TakesGreeted
<1> QED BY <1>1, <1>2, <1>3, <1>4 DEF WireInv, Greetings

\* What every step does to the streams, and what those do that write no message.
WiresKept == Wires(wire') /\ Cleared' /\ TakesGreeted /\ MakesNew

WiresFlow == WiresKept /\ \A s \in Side, c \in Conn : Flows(s, c)

WiresDrain == WiresKept /\ \A s \in Side, c \in Conn : Drains(s, c)

LEMMA DrainsFlow == WiresDrain => WiresFlow
  BY DEF WiresDrain, WiresFlow, Flows

\* A step that leaves the streams alone, or ends a pipeline.
LEMMA WiresSame ==
  ASSUME WireInv, UNCHANGED <<wire, open>>, connecting' \in {connecting, None},
         stream'["accepting"] \in {stream["accepting"], None}
  PROVE  WiresDrain
  BY ConnAssumption
     DEF WireInv, Wires, Cleared, WiresDrain, WiresKept, Drains, TakesGreeted, MakesNew

LEMMA CloseWires ==
  ASSUME OwnTypes, NEW s \in Side, NEW cs, NEW w, Wires(w), close(s, cs, w),
         \A c \in Conn : open[c] = {} => \A r \in Side : w[c][r] = << >>
  PROVE  /\ Wires(wire') /\ Cleared'
         /\ \A c \in Conn, r \in Side : wire'[c][r] \in {w[c][r], << >>}
<1>1. wire' = [c \in Conn |->
                 IF c \notin cs THEN w[c]
                 ELSE [t \in Side |-> IF t = s /\ Other(s) \in open[c] THEN w[c][s] ELSE << >>]]
  BY DEF close
<1>2. << >> \in Seq(Frame)
  BY EmptySeq
<1>3. ASSUME NEW c \in Conn
      PROVE  /\ wire'[c] \in [Side -> Seq(Frame)]
             /\ \A r \in Side : wire'[c][r] \in {w[c][r], << >>}
  <2>1. CASE c \notin cs
    BY <1>1, <2>1 DEF Wires
  <2>2. CASE c \in cs
    <3>1. wire'[c] = [t \in Side |-> IF t = s /\ Other(s) \in open[c] THEN w[c][s] ELSE << >>]
      BY <1>1, <2>2
    <3> QED BY <1>2, <3>1 DEF Wires
  <2> QED BY <2>1, <2>2
<1>4. Wires(wire')
  BY <1>1, <1>3 DEF Wires
<1>5. ASSUME NEW c \in Conn, open'[c] = {}, NEW r \in Side
      PROVE  wire'[c][r] = << >>
  <2>1. \A t \in Side : t \in open'[c] <=> t \in open[c] /\ ~(t = s /\ c \in cs)
    BY CloseOpen
  <2>2. CASE c \in cs
    <3>1. Other(s) \notin open[c]
      BY <1>5, <2>1, Sides
    <3> QED BY <1>1, <2>2, <3>1
  <2>3. CASE c \notin cs
    <3>1. open[c] = {}
      BY <1>5, <2>1, <2>3 DEF OwnTypes
    <3> QED BY <1>1, <2>3, <3>1
  <2> QED BY <2>2, <2>3
<1> QED BY <1>3, <1>4, <1>5 DEF Cleared

\* close with the streams as they are.
LEMMA ClosesOnly ==
  ASSUME OwnInv, WireInv, NEW s \in Side, NEW cs, close(s, cs, wire),
         connecting' \in {connecting, None},
         stream'["accepting"] \in {stream["accepting"], None}
  PROVE  WiresDrain
<1>1. /\ Wires(wire') /\ Cleared'
      /\ \A c \in Conn, r \in Side : wire'[c][r] \in {wire[c][r], << >>}
  BY CloseWires DEF OwnInv, WireInv, Cleared
<1>2. TakesGreeted /\ MakesNew
  BY ConnAssumption DEF TakesGreeted, MakesNew
<1> QED BY <1>1, <1>2 DEF WiresDrain, WiresKept, Drains

\* The stream from s is read by the other side, or cut short.
LEMMA WireShortens ==
  ASSUME WireInv, NEW c \in Conn, NEW s \in Side, wire[c][s] # << >>,
         NEW q, q = Tail(wire[c][s]) \/ q = Front(wire[c][s]),
         wire' = [wire EXCEPT ![c][s] = q],
         UNCHANGED <<open, stream, connecting>>
  PROVE  WiresDrain
<1>1. wire[c][s] \in Seq(Frame) /\ open[c] # {}
  BY DEF WireInv, Wires, Cleared
<1>2. q \in Seq(Frame)
  <2>1. Tail(wire[c][s]) \in Seq(Frame)
    BY <1>1, SequenceTail
  <2>2. Front(wire[c][s]) \in Seq(Frame)
    BY <1>1, SequenceFront
  <2> QED BY <2>1, <2>2
<1>3. /\ wire'[c][s] = q
      /\ \A d \in Conn, r \in Side : d # c \/ r # s => wire'[d][r] = wire[d][r]
  BY DEF WireInv, Wires
<1>4. Wires(wire')
  BY <1>2 DEF WireInv, Wires
<1>5. Cleared'
  BY <1>1, <1>3 DEF WireInv, Cleared
<1>6. \A r \in Side, d \in Conn : Drains(r, d)
  BY <1>3 DEF Drains
<1> QED BY <1>4, <1>5, <1>6 DEF WiresDrain, WiresKept, TakesGreeted, MakesNew

\* A message is written by the pipeline of s, and possibly torn.
Wrote(s, m) == [wire EXCEPT ![stream[s]][s] = Append(@, m)]

LEMMA WireWritten ==
  ASSUME OwnInv, WireInv, NEW s \in Side, NEW m \in Outgoing, Writing(s),
         Reaches(s, stream[s])
  PROVE  /\ stream[s] \in Conn /\ Wires(Wrote(s, m))
         /\ \A c \in Conn, r \in Side :
               Wrote(s, m)[c][r] = IF c = stream[s] /\ r = s THEN Append(wire[c][r], m)
                                                         ELSE wire[c][r]
         /\ open[stream[s]] # {}
<1>1. stream[s] \in Conn
  BY DEF OwnInv, OwnTypes, PipelineState, Writing
<1>2. Append(wire[stream[s]][s], m) \in Seq(Frame)
  <2>1. wire[stream[s]][s] \in Seq(Frame) /\ m \in Frame
    BY <1>1 DEF WireInv, Wires, Frame
  <2> QED BY <2>1, SequenceAppend
<1>3. Wires(Wrote(s, m))
  BY <1>1, <1>2 DEF WireInv, Wires, Wrote
<1>4. ASSUME NEW c \in Conn, NEW r \in Side
      PROVE  Wrote(s, m)[c][r] = IF c = stream[s] /\ r = s THEN Append(wire[c][r], m)
                                                        ELSE wire[c][r]
  BY <1>1 DEF WireInv, Wires, Wrote
<1> QED BY <1>1, <1>3, <1>4 DEF Reaches

\* Inductive: what is typed, who owns what, and what is in the streams.
TypeInv == OwnInv /\ WireInv /\ QueueTypes

LEMMA TypeInvInit == Init => TypeInv
<1> SUFFICES ASSUME Init PROVE TypeInv
  OBVIOUS
<1>1. << >> \in Seq(Outgoing) /\ << >> \in Seq(Nat) /\ << >> \in Seq(Frame) /\ Greeted(<< >>)
  BY EmptySeq, Frames
<1>2. QueueTypes
  BY <1>1 DEF Init, QueueTypes
<1>3. Wires(wire) /\ \A c \in Conn : wire[c] = [s \in Side |-> << >>]
  BY <1>1 DEF Init, Wires
<1>4. WireInv
  BY <1>1, <1>3 DEF Init, WireInv, Cleared, NotGreeted, Greetings, Side
<1> QED BY <1>2, <1>4, OwnInvInit DEF TypeInv

\* The steps of a pipeline.
LEMMA ReadFlows ==
  ASSUME TypeInv, NEW s \in Side, read_cb(s)
  PROVE  /\ WiresDrain /\ QueueTypes' /\ Head(Incoming(s)) \in Outgoing
         /\ \/ to_deser' = to_deser
            \/ /\ Head(Incoming(s)) \in Msg
               /\ to_deser' = [to_deser EXCEPT ![s] = Append(@, Head(Incoming(s)))]
<1> DEFINE c == stream[s]
           m == Head(Incoming(s))
<1>1. c \in Conn /\ Other(s) \in Side
  BY Sides DEF read_cb, TypeInv, OwnInv, OwnTypes, PipelineState
<1>2. Incoming(s) \in Seq(Outgoing) /\ Incoming(s) # << >>
  <2>1. CASE s = "accepting"
    BY <1>1, <2>1 DEF read_cb, TypeInv, WireInv, Greetings, Incoming, Other
  <2>2. CASE s = "connecting"
    BY <1>1, <2>2 DEF read_cb, TypeInv, WireInv, Greetings, Incoming, Other
  <2> QED BY <2>1, <2>2 DEF Side
<1>3. m \in Outgoing
  BY <1>2, SequenceTail
<1>4. WiresDrain
  <2>1. /\ wire[c][Other(s)] # << >>
        /\ wire' = [wire EXCEPT ![c][Other(s)] = Tail(wire[c][Other(s)])]
        /\ UNCHANGED <<open, stream, connecting>>
    BY <1>2 DEF read_cb, Incoming
  <2> QED BY <1>1, <2>1, WireShortens DEF TypeInv
<1>5. \/ to_deser' = to_deser
      \/ m \in Msg /\ to_deser' = [to_deser EXCEPT ![s] = Append(@, m)]
  BY <1>3, Frames DEF read_cb
<1>6. QueueTypes'
  <2>1. m \in Msg => Append(to_deser[s], m) \in Seq(Msg)
    BY SequenceAppend DEF TypeInv, QueueTypes
  <2>2. to_deser' \in [Side -> Seq(Msg)]
    BY <1>5, <2>1 DEF TypeInv, QueueTypes
  <2> QED BY <2>2 DEF read_cb, countVars, TypeInv, QueueTypes
<1> QED BY <1>3, <1>4, <1>5, <1>6

LEMMA WriteFlows ==
  ASSUME TypeInv, NEW s \in Side, NEW p \in Producer, handle_write_timeout(s, p)
  PROVE  WiresFlow /\ QueueTypes' /\ Head(from_ser[s][p]) \in Outgoing
<1> DEFINE m == Head(from_ser[s][p])
<1>1. m \in Outgoing /\ Tail(from_ser[s][p]) \in Seq(Outgoing)
  <2>1. from_ser[s][p] \in Seq(Outgoing) /\ from_ser[s][p] # << >>
    BY DEF handle_write_timeout, TypeInv, QueueTypes
  <2> QED BY <2>1, SequenceTail
<1>2. WiresFlow
  <2>1. UNCHANGED <<open, stream, connecting>>
    BY DEF handle_write_timeout, pipelineVars
  <2>2. CASE Reaches(s, stream[s])
    <3>1. Writing(s) /\ wire' = Wrote(s, m)
      BY <2>2 DEF handle_write_timeout, Wrote
    <3>2. /\ stream[s] \in Conn /\ Wires(wire') /\ open[stream[s]] # {}
          /\ \A c \in Conn, r \in Side :
                wire'[c][r] = IF c = stream[s] /\ r = s THEN Append(wire[c][r], m)
                                                        ELSE wire[c][r]
      BY <1>1, <2>2, <3>1, WireWritten DEF TypeInv
    <3>3. Cleared'
      BY <2>1, <3>2 DEF TypeInv, WireInv, Cleared
    <3>4. \A r \in Side, d \in Conn : Flows(r, d)
      BY <1>1, <3>2, ZenonT(30) DEF Flows, Drains
    <3> QED BY <2>1, <3>2, <3>3, <3>4 DEF WiresFlow, WiresKept, TakesGreeted, MakesNew
  <2>3. CASE ~Reaches(s, stream[s])
    BY <2>1, <2>3, WiresSame, DrainsFlow DEF handle_write_timeout, TypeInv
  <2> QED BY <2>2, <2>3
<1>3. QueueTypes'
  <2>1. from_ser' \in [Side -> [Producer -> Seq(Outgoing)]]
    BY <1>1 DEF handle_write_timeout, TypeInv, QueueTypes
  <2> QED BY <2>1 DEF handle_write_timeout, countVars, TypeInv, QueueTypes
<1> QED BY <1>1, <1>2, <1>3

LEMMA PipelineFlows ==
  ASSUME TypeInv, NEW s \in Side,
         event_loop(s) \/ read_cb_ended(s) \/ close_stream(s) \/ end_event_loop(s)
  PROVE  WiresDrain /\ QueueTypes'
<1>1. QueueTypes'
  BY DEF event_loop, read_cb_ended, close_stream, end_event_loop, queueVars, countVars,
     TypeInv, QueueTypes
<1>2. ASSUME event_loop(s) \/ read_cb_ended(s) \/ end_event_loop(s) PROVE WiresDrain
  BY <1>2, WiresSame DEF event_loop, read_cb_ended, end_event_loop, tcpVars, TypeInv
<1>3. ASSUME close_stream(s) PROVE WiresDrain
  <2>1. stream'["accepting"] \in {stream["accepting"], None}
    BY <1>3 DEF close_stream, TypeInv, OwnInv, OwnTypes, Side
  <2>2. connecting' = connecting /\ close(s, {stream[s]}, wire)
    BY <1>3 DEF close_stream
  <2> QED BY <2>1, <2>2, ClosesOnly DEF TypeInv
<1> QED BY <1>1, <1>2, <1>3

\* Connecting and accepting.
LEMMA ConnectFlows ==
  ASSUME TypeInv, NEW c \in Conn, try_connect_to_peer(c)
  PROVE  WiresDrain /\ QueueTypes'
<1>1. /\ open[c] = {} /\ open' = [open EXCEPT ![c] = Side]
      /\ connecting' = c /\ UNCHANGED <<wire, stream>>
  BY DEF try_connect_to_peer, pipelineVars
<1>2. Cleared'
  BY <1>1 DEF TypeInv, OwnInv, OwnTypes, WireInv, Cleared, Side
<1>3. WiresDrain
  BY <1>1, <1>2 DEF TypeInv, WireInv, WiresDrain, WiresKept, Drains, TakesGreeted, MakesNew
<1>4. QueueTypes'
  BY DEF try_connect_to_peer, queueVars, countVars, TypeInv, QueueTypes
<1> QED BY <1>3, <1>4

LEMMA StartFlows ==
  ASSUME TypeInv, start_connected
  PROVE  WiresDrain /\ QueueTypes'
<1> DEFINE c == connecting
<1>1. c \in Conn /\ ~is_running["connecting"]
  BY DEF start_connected, TypeInv, OwnInv, OwnTypes, ConnectsWhenIdle
<1>2. /\ wire' = IF Reaches("connecting", c)
                 THEN [wire EXCEPT ![c]["connecting"] = <<Hello>>] ELSE wire
      /\ stream' = [stream EXCEPT !["connecting"] = c]
      /\ connecting' = None /\ UNCHANGED open
  BY <1>1 DEF start_connected, run
<1>3. open[c] # {}
  BY <1>1 DEF TypeInv, OwnInv, Opened
<1>4. stream'["accepting"] = stream["accepting"]
  BY <1>2 DEF TypeInv, OwnInv, OwnTypes, Side
<1>5. <<Hello>> \in Seq(Frame)
  BY DEF Frame
<1>6. Wires(wire')
  BY <1>1, <1>2, <1>5 DEF TypeInv, WireInv, Wires, Side
<1>7. \A d \in Conn, s \in Side :
         wire'[d][s] = IF d = c /\ s = "connecting" /\ Reaches("connecting", c)
                       THEN <<Hello>> ELSE wire[d][s]
  BY <1>1, <1>2 DEF TypeInv, WireInv, Wires, Side
<1>8. Cleared'
  BY <1>1, <1>2, <1>3, <1>7 DEF TypeInv, WireInv, Cleared
<1>9. \A s \in Side, d \in Conn : Drains(s, d)
  BY <1>1, <1>2, <1>7, ConnAssumption DEF Drains
<1>10. QueueTypes'
  BY DEF start_connected, queueVars, countVars, TypeInv, QueueTypes
<1> QED BY <1>2, <1>4, <1>6, <1>7, <1>8, <1>9, <1>10 DEF WiresDrain, WiresKept, TakesGreeted, MakesNew

LEMMA HandshakeFlows ==
  ASSUME TypeInv, NEW c \in Conn, handshake_cb(c)
  PROVE  WiresDrain /\ QueueTypes'
<1>1. c \in handshaking /\ UNCHANGED connecting
  BY DEF handshake_cb
<1>2. open[c] # {} /\ OwnTypes
  BY <1>1 DEF TypeInv, OwnInv, Opened
<1>3. ASSUME wire[c]["connecting"] # << >>,
             run("accepting", c, [wire EXCEPT ![c]["connecting"] = Tail(@)])
      PROVE  WiresDrain
  <2> DEFINE w == [wire EXCEPT ![c]["connecting"] = Tail(wire[c]["connecting"])]
  <2>1. Tail(wire[c]["connecting"]) \in Seq(Frame)
    <3>1. wire[c]["connecting"] \in Seq(Frame)
      BY DEF TypeInv, WireInv, Wires, Side
    <3> QED BY <1>3, <3>1, SequenceTail
  <2>2. Wires(w)
    BY <2>1 DEF TypeInv, WireInv, Wires
  <2>3. \A d \in Conn, r \in Side :
           w[d][r] = IF d = c /\ r = "connecting" THEN Tail(wire[d][r]) ELSE wire[d][r]
    BY DEF TypeInv, WireInv, Wires, Side
  <2>4. \A d \in Conn : open[d] = {} => \A r \in Side : w[d][r] = << >>
    BY <1>2, <2>3 DEF TypeInv, WireInv, Cleared
  <2> HIDE DEF w
  <2>5. CASE is_running["accepting"]
    <3>1. close("accepting", {c}, w) /\ UNCHANGED stream
      BY <1>3, <2>5 DEF run, pipelineVars, w
    <3>2. /\ Wires(wire') /\ Cleared'
          /\ \A d \in Conn, r \in Side : wire'[d][r] \in {w[d][r], << >>}
      BY <1>2, <2>2, <2>4, <3>1, CloseWires DEF Side
    <3>3. ASSUME NEW r \in Side, NEW d \in Conn PROVE Drains(r, d)
      <4>1. wire'[d][r] \in {w[d][r], << >>}
        BY <3>2
      <4>2. w[d][r] \in {wire[d][r], Tail(wire[d][r])}
        BY <2>3
      <4> QED BY <1>3, <2>3, <4>1, <4>2 DEF Drains
    <3> QED BY <1>1, <3>1, <3>2, <3>3 DEF WiresDrain, WiresKept, TakesGreeted, MakesNew
  <2>6. CASE ~is_running["accepting"]
    <3>1. /\ wire' = w /\ stream' = [stream EXCEPT !["accepting"] = c]
          /\ UNCHANGED open
      BY <1>3, <2>6 DEF run, w
    <3>2. Cleared'
      BY <2>4, <3>1 DEF Cleared
    <3>3. \A r \in Side, d \in Conn : Drains(r, d)
      BY <1>3, <2>3, <3>1 DEF Drains
    <3>4. stream'["accepting"] = c
      BY <3>1 DEF TypeInv, OwnInv, OwnTypes, Side
    <3>5. TakesGreeted
      BY <1>3, <2>3, <3>1, <3>4 DEF TakesGreeted, Side
    <3> QED BY <1>1, <2>2, <3>1, <3>2, <3>3, <3>5 DEF WiresDrain, WiresKept, MakesNew
  <2> QED BY <2>5, <2>6
<1>4. ASSUME close("accepting", {c}, wire), UNCHANGED pipelineVars PROVE WiresDrain
  BY <1>1, <1>4, ClosesOnly DEF pipelineVars, TypeInv, Side
<1>5. QueueTypes' /\ WiresDrain
  BY <1>3, <1>4 DEF handshake_cb, queueVars, countVars, TypeInv, QueueTypes
<1> QED BY <1>5

\* What a process leaves that ends: the streams as they were, or with a message
\* that is torn.
Torn(m) == [m EXCEPT !.torn = TRUE]

LEMMA TornMessage ==
  ASSUME NEW m \in Outgoing
  PROVE  Torn(m) \in Outgoing /\ Torn(m).producer = m.producer /\ Torn(m).seq = m.seq
  BY DEF Torn, Outgoing, Msg, Overlong

LEMMA WrittenBeforeEnd ==
  ASSUME TypeInv, NEW s \in Side, NEW w \in WrittenAtEnd(s)
  PROVE  \/ w = wire
         \/ \E p \in Producer :
              /\ Writing(s) /\ Reaches(s, stream[s]) /\ from_ser[s][p] # << >>
              /\ Head(from_ser[s][p]) \in Outgoing
              /\ w = Wrote(s, Torn(Head(from_ser[s][p])))
<1> SUFFICES ASSUME w # wire
             PROVE  \E p \in Producer :
                      /\ Writing(s) /\ Reaches(s, stream[s]) /\ from_ser[s][p] # << >>
                      /\ Head(from_ser[s][p]) \in Outgoing
                      /\ w = Wrote(s, Torn(Head(from_ser[s][p])))
  OBVIOUS
<1>1. PICK p \in Producer : /\ Writing(s) /\ Reaches(s, stream[s]) /\ from_ser[s][p] # << >>
                            /\ w = Wrote(s, Torn(Head(from_ser[s][p])))
  BY DEF WrittenAtEnd, Wrote, Torn
<1>2. from_ser[s][p] \in Seq(Outgoing)
  BY DEF TypeInv, QueueTypes
<1>3. Head(from_ser[s][p]) \in Outgoing
  BY <1>1, <1>2, SequenceTail
<1> QED BY <1>1, <1>3

LEMMA EndFlows ==
  ASSUME TypeInv, NEW s \in Side, NEW w, end_process(s, w),
         w = wire \/ \E m \in Outgoing : Writing(s) /\ Reaches(s, stream[s]) /\ w = Wrote(s, m)
  PROVE  /\ WiresFlow
         /\ \A c \in Conn, r \in Side : wire'[c][r] \in {w[c][r], << >>}
<1>1. /\ close(s, {c \in Conn : s \in open[c]}, w) /\ OwnTypes
      /\ connecting' \in {connecting, None}
  BY DEF end_process, TypeInv, OwnInv
<1>2. stream'["accepting"] \in {stream["accepting"], None}
  BY DEF end_process, TypeInv, OwnInv, OwnTypes, Side
<1> DEFINE Clean == \A c \in Conn : open[c] = {} => \A r \in Side : w[c][r] = << >>
           Grows == \A c \in Conn, r \in Side :
                       \/ w[c][r] = wire[c][r]
                       \/ stream[r] = c /\ \E m \in Outgoing : w[c][r] = Append(wire[c][r], m)
<1>3. Wires(w) /\ Clean /\ Grows
  <2>1. CASE w = wire
    BY <2>1 DEF TypeInv, WireInv, Cleared
  <2>2. ASSUME NEW m \in Outgoing, Writing(s), Reaches(s, stream[s]), w = Wrote(s, m)
        PROVE  Wires(w) /\ Clean /\ Grows
    <3>1. /\ stream[s] \in Conn /\ Wires(w) /\ open[stream[s]] # {}
          /\ \A c \in Conn, r \in Side :
                w[c][r] = IF c = stream[s] /\ r = s THEN Append(wire[c][r], m) ELSE wire[c][r]
      BY <2>2, WireWritten DEF TypeInv
    <3>2. Clean
      BY <3>1 DEF TypeInv, WireInv, Cleared
    <3>3. Grows
      BY <3>1
    <3> QED BY <3>1, <3>2, <3>3
  <2> QED BY <2>1, <2>2
<1>4. /\ Wires(wire') /\ Cleared'
      /\ \A c \in Conn, r \in Side : wire'[c][r] \in {w[c][r], << >>}
  BY <1>1, <1>3, CloseWires
<1>5. \A r \in Side, c \in Conn : Flows(r, c)
  BY <1>3, <1>4, SMTT(20) DEF Flows, Drains
<1>6. TakesGreeted /\ MakesNew
  BY <1>1, <1>2, ConnAssumption DEF TakesGreeted, MakesNew
<1> QED BY <1>4, <1>5, <1>6 DEF WiresFlow, WiresKept

LEMMA EndTypes ==
  ASSUME TypeInv, NEW s \in Side, NEW w, end_process(s, w),
         faults' \in Nat
  PROVE  QueueTypes'
<1>1. << >> \in Seq(Outgoing)
  BY EmptySeq
<1> QED BY <1>1 DEF end_process, countVars, TypeInv, QueueTypes

LEMMA ProcessFlows ==
  ASSUME TypeInv, NEW s \in Side, Crash(s) \/ Sigpipe(s)
  PROVE  WiresFlow /\ QueueTypes'
<1>1. ASSUME Crash(s) PROVE WiresFlow /\ QueueTypes'
  <2>1. PICK w \in WrittenAtEnd(s) : end_process(s, w)
    BY <1>1 DEF Crash
  <2>2. WiresFlow
    <3>1. \/ w = wire
          \/ \E m \in Outgoing : Writing(s) /\ Reaches(s, stream[s]) /\ w = Wrote(s, m)
      BY WrittenBeforeEnd, TornMessage
    <3> QED BY <2>1, <3>1, EndFlows
  <2>3. faults' \in Nat
    BY <1>1 DEF Crash, TypeInv, QueueTypes
  <2> QED BY <2>1, <2>2, <2>3, EndTypes
<1>2. ASSUME Sigpipe(s) PROVE WiresFlow /\ QueueTypes'
  <2>1. end_process(s, wire) /\ faults' \in Nat
    BY <1>2 DEF Sigpipe, TypeInv, QueueTypes
  <2> QED BY <2>1, EndFlows, EndTypes
<1> QED BY <1>1, <1>2

LEMMA RestartFlows ==
  ASSUME TypeInv, NEW s \in Side, Start(s)
  PROVE  WiresDrain /\ QueueTypes'
<1>1. WiresDrain
  BY WiresSame DEF Start, pipelineVars, tcpVars, TypeInv
<1>2. QueueTypes'
  BY DEF Start, queueVars, countVars, TypeInv, QueueTypes
<1> QED BY <1>1, <1>2

LEMMA NetworkFlows ==
  ASSUME TypeInv, NEW c \in Conn
  PROVE  /\ Break(c) \/ handle_handshake_timeout(c) \/ accept_cb(c) => WiresDrain /\ QueueTypes'
         /\ \A s \in Side : CutShort(s, c) => WiresDrain /\ QueueTypes'
<1>1. ASSUME Break(c) PROVE WiresDrain /\ QueueTypes'
  <2>1. WiresDrain
    BY <1>1, WiresSame DEF Break, pipelineVars, TypeInv
  <2> QED BY <1>1, <2>1 DEF Break, queueVars, countVars, TypeInv, QueueTypes
<1>2. ASSUME handle_handshake_timeout(c) PROVE WiresDrain /\ QueueTypes'
  <2>1. close("accepting", {c}, wire) /\ UNCHANGED <<stream, connecting>>
    BY <1>2 DEF handle_handshake_timeout, pipelineVars
  <2>2. WiresDrain
    BY <2>1, ClosesOnly DEF TypeInv, Side
  <2> QED BY <1>2, <2>2 DEF handle_handshake_timeout, queueVars, countVars, TypeInv, QueueTypes
<1>3. ASSUME accept_cb(c) PROVE WiresDrain /\ QueueTypes'
  <2>1. WiresDrain
    BY <1>3, WiresSame DEF accept_cb, pipelineVars, tcpVars, TypeInv
  <2> QED BY <1>3, <2>1 DEF accept_cb, queueVars, countVars, TypeInv, QueueTypes
<1>4. ASSUME NEW s \in Side, CutShort(s, c) PROVE WiresDrain /\ QueueTypes'
  <2>1. /\ wire[c][s] # << >> /\ UNCHANGED <<open, stream, connecting>>
        /\ wire' = [wire EXCEPT ![c][s] = Front(wire[c][s])]
    BY <1>4 DEF CutShort, pipelineVars
  <2>2. WiresDrain
    BY <2>1, WireShortens DEF TypeInv
  <2> QED BY <1>4, <2>2 DEF CutShort, queueVars, countVars, TypeInv, QueueTypes
<1> QED BY <1>1, <1>2, <1>3, <1>4

\* What a producer enqueues.
LEMMA NextMessage ==
  ASSUME TypeInv, NEW s \in Side, NEW p \in Producer, enqueue_next(s, p)
  PROVE  \E m \in Outgoing :
            /\ m \in Msg /\ m.producer = p /\ m.seq = sent[s][p] + 1
            /\ from_ser' = [from_ser EXCEPT ![s][p] = Append(@, m)]
<1> DEFINE m == [producer |-> p, seq |-> sent[s][p] + 1, size |-> "fits", torn |-> FALSE]
<1>1. m \in Msg /\ m.producer = p /\ m.seq = sent[s][p] + 1
  BY DEF Msg, TypeInv, QueueTypes
<1>2. from_ser' = [from_ser EXCEPT ![s][p] = Append(@, m)]
  BY DEF enqueue_next
<1> HIDE DEF m
<1> QED BY <1>1, <1>2, Frames

LEMMA OverlongMessage ==
  ASSUME NEW s \in Side, NEW p \in Producer, enqueue_overlong(s, p)
  PROVE  \E m \in Outgoing :
            m.seq = 0 /\ from_ser' = [from_ser EXCEPT ![s][p] = Append(@, m)]
<1> DEFINE m == [producer |-> p, seq |-> 0, size |-> "too_long", torn |-> FALSE]
<1>1. m \in Outgoing /\ m.seq = 0
  BY DEF Outgoing, Overlong
<1>2. from_ser' = [from_ser EXCEPT ![s][p] = Append(@, m)]
  BY DEF enqueue_overlong
<1> HIDE DEF m
<1> QED BY <1>1, <1>2

LEMMA TransportFlows ==
  ASSUME TypeInv, NEW s \in Side,
         handle_receive_timeout(s) \/ broadcast(s) \/ send_to_pipeline(s)
  PROVE  WiresDrain /\ QueueTypes'
<1>1. WiresDrain
  BY WiresSame, ZenonT(30)
     DEF handle_receive_timeout, broadcast, send_to_pipeline, enqueue, enqueue_next,
         enqueue_overlong, pipelineVars, tcpVars, TypeInv
<1>2. ASSUME handle_receive_timeout(s) PROVE QueueTypes'
  <2> DEFINE m == Head(to_deser[s])
  <2>1. m \in Msg /\ Tail(to_deser[s]) \in Seq(Msg)
    <3>1. to_deser[s] \in Seq(Msg) /\ to_deser[s] # << >>
      BY <1>2 DEF handle_receive_timeout, TypeInv, QueueTypes
    <3> QED BY <3>1, SequenceTail
  <2>2. Append(received[Other(s)][m.producer], m.seq) \in Seq(Nat)
    <3>1. received[Other(s)][m.producer] \in Seq(Nat) /\ m.seq \in Nat
      BY <2>1, Sides DEF Msg, TypeInv, QueueTypes
    <3> QED BY <3>1, SequenceAppend
  <2>3. /\ to_deser' = [to_deser EXCEPT ![s] = Tail(@)]
        /\ received' = [received EXCEPT ![Other(s)][m.producer] = Append(@, m.seq)]
        /\ UNCHANGED <<up, faults, from_ser, sent>>
    BY <1>2 DEF handle_receive_timeout
  <2>4. received' \in [Side -> [Producer -> Seq(Nat)]]
    BY <2>2, <2>3 DEF TypeInv, QueueTypes
  <2>5. to_deser' \in [Side -> Seq(Msg)]
    BY <2>1, <2>3 DEF TypeInv, QueueTypes
  <2> QED BY <2>3, <2>4, <2>5 DEF TypeInv, QueueTypes
<1>3. ASSUME NEW p \in Producer, enqueue(s, p), UNCHANGED up PROVE QueueTypes'
  <2>1. PICK m \in Outgoing : from_ser' = [from_ser EXCEPT ![s][p] = Append(@, m)]
    BY <1>3, NextMessage, OverlongMessage DEF enqueue
  <2>2. Append(from_ser[s][p], m) \in Seq(Outgoing)
    BY SequenceAppend DEF TypeInv, QueueTypes
  <2>3. from_ser' \in [Side -> [Producer -> Seq(Outgoing)]]
    BY <2>1, <2>2 DEF TypeInv, QueueTypes
  <2>4. sent' \in [Side -> [Producer -> Nat]]
    <3>1. CASE enqueue_next(s, p)
      BY <3>1 DEF enqueue_next, TypeInv, QueueTypes
    <3>2. CASE enqueue_overlong(s, p)
      BY <3>2 DEF enqueue_overlong, countVars, TypeInv, QueueTypes
    <3> QED BY <1>3, <3>1, <3>2 DEF enqueue
  <2>5. UNCHANGED <<to_deser, received, faults>>
    BY <1>3 DEF enqueue, enqueue_next, enqueue_overlong, countVars
  <2> QED BY <1>3, <2>3, <2>4, <2>5 DEF TypeInv, QueueTypes
<1> QED BY <1>1, <1>2, <1>3 DEF broadcast, send_to_pipeline, enqueue, enqueue_next,
                              enqueue_overlong, Producer

LEMMA StepFlows == TypeInv /\ Next => WiresFlow /\ QueueTypes'
<1> SUFFICES ASSUME TypeInv, Next PROVE WiresFlow /\ QueueTypes'
  OBVIOUS
<1>1. ASSUME NEW s \in Side, PipelineStep(s) PROVE WiresFlow /\ QueueTypes'
  BY <1>1, ReadFlows, WriteFlows, PipelineFlows, DrainsFlow DEF PipelineStep
<1>2. CASE ConnectStep
  BY <1>2, ConnectFlows, StartFlows, DrainsFlow DEF ConnectStep
<1>3. CASE AcceptStep
  BY <1>3, NetworkFlows, HandshakeFlows, DrainsFlow DEF AcceptStep
<1>4. CASE Disturbance
  BY <1>4, NetworkFlows, ProcessFlows, RestartFlows, DrainsFlow DEF Disturbance
<1> QED BY <1>1, <1>2, <1>3, <1>4, TransportFlows, DrainsFlow DEF Next

LEMMA TypeInvStep == TypeInv /\ [Next]_vars => TypeInv'
<1> SUFFICES ASSUME TypeInv, [Next]_vars PROVE TypeInv'
  OBVIOUS
<1>1. OwnInv'
  BY OwnInvStep DEF TypeInv
<1>2. WiresFlow /\ QueueTypes'
  <2>1. CASE UNCHANGED vars
    <3>1. WiresFlow
      BY <2>1, WiresSame, DrainsFlow DEF vars, pipelineVars, tcpVars, TypeInv
    <3> QED BY <2>1, <3>1 DEF vars, queueVars, countVars, TypeInv, QueueTypes
  <2> QED BY <2>1, StepFlows
<1> QED BY <1>1, <1>2, WireInvKept DEF WiresFlow, WiresKept, TypeInv

LEMMA TypeInvHolds == Spec => []TypeInv
  BY TypeInvInit, TypeInvStep, PTL DEF Spec

\* Every variable keeps its type: in particular the handshake of 14 bytes is never
\* taken for a message by a pipeline, however connecting, timing out and crashing
\* interleave (handshake_cb reads it, read_cb reads the rest).
THEOREM TypeCorrect == Spec => []TypeOK
<1>1. TypeInv => TypeOK
  BY DEF TypeInv, OwnInv, OwnTypes, WireInv, Wires, Frame, QueueTypes, TypeOK
<1> QED BY <1>1, TypeInvHolds, PTL

-----------------------------------------------------------------------------
(* The messages on their way from one side to the other                    *)

\* q has the message with number n of thread p.
Holds(q, p, n) == \E i \in 1 .. Len(q) : q[i].producer = p /\ q[i].seq = n

\* q has no message twice.
Distinct(q) ==
    \A i, j \in 1 .. Len(q) :
        /\ q[i].seq # 0
        /\ q[i].producer = q[j].producer /\ q[i].seq = q[j].seq
        => i = j

\* r has nothing that q has not.
Part(r, q) ==
    /\ Distinct(q) => Distinct(r)
    /\ \A p \in Producer, n \in Nat \ {0} : Holds(r, p, n) => Holds(q, p, n)

LEMMA PartOfStream ==
  ASSUME NEW q \in Seq(Frame)
  PROVE  /\ Part(q, q) /\ Part(<< >>, q) /\ Part(<<Hello>>, q)
         /\ q # << >> => Part(Tail(q), q) /\ Part(Front(q), q)
<1>1. Part(q, q) /\ Part(<< >>, q)
  BY DEF Part, Distinct, Holds
<1>2. Part(<<Hello>>, q)
  BY DEF Part, Distinct, Holds, Hello
<1>3. ASSUME q # << >> PROVE Part(Tail(q), q)
  <2>1. /\ Len(q) \in Nat \ {0} /\ Len(Tail(q)) = Len(q) - 1
        /\ \A i \in 1 .. Len(q) - 1 : Tail(q)[i] = q[i + 1]
    BY <1>3, SequenceTail
  <2>2. Distinct(q) => Distinct(Tail(q))
    <3> SUFFICES ASSUME Distinct(q),
                        NEW i \in 1 .. Len(q) - 1, NEW j \in 1 .. Len(q) - 1,
                        q[i + 1].seq # 0, q[i + 1].producer = q[j + 1].producer,
                        q[i + 1].seq = q[j + 1].seq
                 PROVE  i = j
      BY <2>1 DEF Distinct
    <3>1. i + 1 \in 1 .. Len(q) /\ j + 1 \in 1 .. Len(q)
      BY <2>1
    <3>2. i + 1 = j + 1
      BY <3>1 DEF Distinct
    <3> QED BY <3>2
  <2>3. ASSUME NEW p \in Producer, NEW n \in Nat \ {0}, Holds(Tail(q), p, n)
        PROVE  Holds(q, p, n)
    <3>1. PICK i \in 1 .. Len(q) - 1 : q[i + 1].producer = p /\ q[i + 1].seq = n
      BY <2>1, <2>3 DEF Holds
    <3>2. i + 1 \in 1 .. Len(q)
      BY <2>1
    <3> QED BY <3>1, <3>2 DEF Holds
  <2> QED BY <2>2, <2>3 DEF Part
<1>4. ASSUME q # << >> PROVE Part(Front(q), q)
  <2>1. /\ Len(q) \in Nat \ {0} /\ Len(Front(q)) = Len(q) - 1
        /\ \A i \in 1 .. Len(q) - 1 : Front(q)[i] = q[i]
    BY <1>4, SequenceFront, EmptySeq
  <2>2. \A i \in 1 .. Len(q) - 1 : i \in 1 .. Len(q)
    BY <2>1
  <2> QED BY <2>1, <2>2 DEF Part, Distinct, Holds
<1> QED BY <1>1, <1>2, <1>3, <1>4

\* The message that leaves a queue is not in it any more.
LEMMA HeadLeaves ==
  ASSUME NEW q \in Seq(Frame), q # << >>
  PROVE  /\ Holds(q, Head(q).producer, Head(q).seq)
         /\ Distinct(q) /\ Head(q).seq # 0
               => ~Holds(Tail(q), Head(q).producer, Head(q).seq)
<1>1. /\ Len(q) \in Nat \ {0} /\ q[1] = Head(q) /\ Len(Tail(q)) = Len(q) - 1
      /\ \A i \in 1 .. Len(q) - 1 : Tail(q)[i] = q[i + 1]
  BY SequenceTail
<1>2. 1 \in 1 .. Len(q)
  BY <1>1
<1>3. ASSUME Distinct(q), Head(q).seq # 0, Holds(Tail(q), Head(q).producer, Head(q).seq)
      PROVE  FALSE
  <2>1. PICK i \in 1 .. Len(q) - 1 :
               q[i + 1].producer = Head(q).producer /\ q[i + 1].seq = Head(q).seq
    BY <1>1, <1>3 DEF Holds
  <2>2. i + 1 \in 1 .. Len(q) /\ i + 1 # 1
    BY <1>1
  <2> QED BY <1>1, <1>2, <1>3, <2>1, <2>2 DEF Distinct
<1> QED BY <1>1, <1>2, <1>3 DEF Holds

LEMMA AppendHolds ==
  ASSUME NEW q \in Seq(Frame), NEW m \in Frame
  PROVE  /\ \A p, n : Holds(Append(q, m), p, n) <=>
                         Holds(q, p, n) \/ (m.producer = p /\ m.seq = n)
         /\ Distinct(q) /\ (m.seq = 0 \/ ~Holds(q, m.producer, m.seq)) => Distinct(Append(q, m))
<1> DEFINE r == Append(q, m)
<1>1. /\ Len(q) \in Nat /\ Len(r) = Len(q) + 1 /\ r[Len(q) + 1] = m
      /\ \A i \in 1 .. Len(q) : r[i] = q[i]
  BY SequenceAppend
<1> HIDE DEF r
<1>2. \A i : i \in 1 .. Len(r) <=> i \in 1 .. Len(q) \/ i = Len(q) + 1
  BY <1>1
<1>3. \A p, n : Holds(r, p, n) <=> Holds(q, p, n) \/ (m.producer = p /\ m.seq = n)
  BY <1>1, <1>2 DEF Holds
<1>4. Distinct(q) /\ (m.seq = 0 \/ ~Holds(q, m.producer, m.seq)) => Distinct(r)
  BY <1>1, <1>2 DEF Distinct, Holds
<1> QED BY <1>3, <1>4 DEF r

\* An over-long message is not one of those that are counted.
LEMMA AppendUncounted ==
  ASSUME NEW q \in Seq(Frame), NEW m \in Outgoing, m.seq = 0
  PROVE  Part(Append(q, m), q)
<1>1. m \in Frame
  BY DEF Frame
<1> QED BY <1>1, AppendHolds DEF Part

LEMMA AppendToSet ==
  ASSUME NEW q \in Seq(Nat), NEW n \in Nat
  PROVE  ToSet(Append(q, n)) = ToSet(q) \cup {n}
<1> DEFINE r == Append(q, n)
<1>1. /\ Len(q) \in Nat /\ Len(r) = Len(q) + 1 /\ r[Len(q) + 1] = n /\ r \in Seq(Nat)
      /\ \A i \in 1 .. Len(q) : r[i] = q[i]
  BY SequenceAppend
<1>2. DOMAIN r = 1 .. Len(r) /\ DOMAIN q = 1 .. Len(q)
  BY <1>1, LenProperties
<1> HIDE DEF r
<1>3. \A i : i \in 1 .. Len(r) <=> i \in 1 .. Len(q) \/ i = Len(q) + 1
  BY <1>1
<1> QED BY <1>1, <1>2, <1>3 DEF ToSet, r

\* The messages of one side: fs its from_ser_queue_, ws its streams, td the
\* to_deser_queue_ of the other side, sn what it has sent, rc what was received.
Carriers(fs, ws, td, sn, rc) ==
    /\ fs \in [Producer -> Seq(Outgoing)] /\ ws \in [Conn -> Seq(Frame)] /\ td \in Seq(Msg)
    /\ sn \in [Producer -> Nat] /\ rc \in [Producer -> Seq(Nat)]

\* A message is in one place, once.
OnePlace(fs, ws, td) ==
    /\ \A p \in Producer : Distinct(fs[p])
    /\ \A c \in Conn : Distinct(ws[c])
    /\ Distinct(td)
    /\ \A p \in Producer, n \in Nat \ {0} :
         /\ \A r \in Producer : Holds(fs[r], p, n) =>
                /\ r = p /\ ~Holds(td, p, n)
                /\ \A c \in Conn : ~Holds(ws[c], p, n)
         /\ Holds(td, p, n) => \A c \in Conn : ~Holds(ws[c], p, n)
         /\ \A c, d \in Conn : Holds(ws[c], p, n) /\ Holds(ws[d], p, n) => c = d

\* It was sent and not yet received.
Pending(p, n, sn, rc) == n \in 1 .. sn[p] /\ n \notin ToSet(rc[p])

AllPending(fs, ws, td, sn, rc) ==
    \A p \in Producer, n \in Nat \ {0} :
        \/ Holds(fs[p], p, n) \/ Holds(td, p, n) \/ \E c \in Conn : Holds(ws[c], p, n)
        => Pending(p, n, sn, rc)

\* Inductive, for each side.
Passage(fs, ws, td, sn, rc) ==
    /\ OnePlace(fs, ws, td)
    /\ AllPending(fs, ws, td, sn, rc)
    /\ \A p \in Producer : ToSet(rc[p]) \subseteq 1 .. sn[p]

\* Messages are lost.
LEMMA PassageLoses ==
  ASSUME NEW fs, NEW ws, NEW td, NEW sn, NEW rc, NEW fs2, NEW ws2, NEW td2,
         Passage(fs, ws, td, sn, rc),
         \A p \in Producer : Part(fs2[p], fs[p]),
         \A c \in Conn : Part(ws2[c], ws[c]), Part(td2, td)
  PROVE  Passage(fs2, ws2, td2, sn, rc)
<1>1. \A p \in Producer, n \in Nat \ {0} :
         /\ \A r \in Producer : Holds(fs2[r], p, n) => Holds(fs[r], p, n)
         /\ \A c \in Conn : Holds(ws2[c], p, n) => Holds(ws[c], p, n)
         /\ Holds(td2, p, n) => Holds(td, p, n)
  BY DEF Part
<1>2. /\ \A p \in Producer : Distinct(fs2[p])
      /\ \A c \in Conn : Distinct(ws2[c])
      /\ Distinct(td2)
  BY DEF Part, Passage, OnePlace
<1>3. OnePlace(fs2, ws2, td2)
  BY <1>1, <1>2 DEF Passage, OnePlace
<1>4. AllPending(fs2, ws2, td2, sn, rc)
  BY <1>1 DEF Passage, AllPending
<1> QED BY <1>3, <1>4 DEF Passage

\* Thread p sends its next message.
LEMMA PassageSends ==
  ASSUME NEW fs, NEW ws, NEW td, NEW sn, NEW rc, Carriers(fs, ws, td, sn, rc),
         Passage(fs, ws, td, sn, rc), NEW p \in Producer, NEW m \in Msg,
         m.producer = p, m.seq = sn[p] + 1
  PROVE  Passage([fs EXCEPT ![p] = Append(@, m)], ws, td, [sn EXCEPT ![p] = @ + 1], rc)
<1> DEFINE fs2 == [fs EXCEPT ![p] = Append(@, m)]
           sn2 == [sn EXCEPT ![p] = @ + 1]
           k == sn[p] + 1
<1>1. fs[p] \in Seq(Frame) /\ m \in Frame /\ sn[p] \in Nat /\ k \in Nat \ {0}
  BY Frames DEF Carriers, Frame, Outgoing
<1>2. \A r \in Producer : fs2[r] = IF r = p THEN Append(fs[p], m) ELSE fs[r]
  BY DEF Carriers
<1>3. \A r \in Producer : sn2[r] = IF r = p THEN k ELSE sn[r]
  BY DEF Carriers
<1> HIDE DEF fs2, sn2
<1>4. \A q, n : Holds(fs2[p], q, n) <=> Holds(fs[p], q, n) \/ (q = p /\ n = k)
  BY <1>1, <1>2, AppendHolds
<1>5. \A n \in Nat : n \in 1 .. sn[p] => n # k /\ n \in 1 .. k
  BY <1>1
<1>6. /\ ~Holds(fs[p], p, k) /\ ~Holds(td, p, k) /\ \A c \in Conn : ~Holds(ws[c], p, k)
      /\ k \notin ToSet(rc[p])
  BY <1>1, <1>5 DEF Passage, AllPending, Pending
<1>7. \A r \in Producer : Distinct(fs2[r])
  BY <1>1, <1>2, <1>6, AppendHolds DEF Passage, OnePlace
<1>8. \A r \in Producer : ~Holds(fs[r], p, k)
  BY <1>1, <1>6 DEF Passage, OnePlace
<1>9. OnePlace(fs2, ws, td)
  <2> SUFFICES ASSUME NEW q \in Producer, NEW n \in Nat \ {0}, NEW r \in Producer,
                      Holds(fs2[r], q, n)
               PROVE  r = q /\ ~Holds(td, q, n) /\ \A c \in Conn : ~Holds(ws[c], q, n)
    BY <1>7 DEF Passage, OnePlace
  <2>1. CASE Holds(fs[r], q, n)
    BY <2>1 DEF Passage, OnePlace
  <2>2. CASE r = p /\ q = p /\ n = k
    BY <1>6, <2>2
  <2> QED BY <1>2, <1>4, <2>1, <2>2
<1>10. AllPending(fs2, ws, td, sn2, rc)
  <2> SUFFICES ASSUME NEW q \in Producer, NEW n \in Nat \ {0},
                      \/ Holds(fs2[q], q, n) \/ Holds(td, q, n)
                      \/ \E c \in Conn : Holds(ws[c], q, n)
               PROVE  Pending(q, n, sn2, rc)
    BY DEF AllPending
  <2>1. CASE Pending(q, n, sn, rc)
    BY <1>3, <1>5, <2>1 DEF Pending
  <2>2. CASE ~Pending(q, n, sn, rc)
    <3>1. q = p /\ n = k
      BY <1>2, <1>4, <2>2 DEF Passage, AllPending
    <3> QED BY <1>1, <1>3, <1>6, <3>1 DEF Pending
  <2> QED BY <2>1, <2>2
<1>11. ASSUME NEW r \in Producer PROVE ToSet(rc[r]) \subseteq 1 .. sn2[r]
  <2>1. ToSet(rc[r]) \subseteq 1 .. sn[r]
    BY DEF Passage
  <2>2. CASE r = p
    <3>1. 1 .. sn[p] \subseteq 1 .. k
      BY <1>1
    <3>2. sn2[r] = k
      BY <1>3, <2>2
    <3> HIDE DEF k
    <3> QED BY <2>1, <2>2, <3>1, <3>2
  <2>3. CASE r # p
    BY <1>3, <2>1, <2>3
  <2> QED BY <2>2, <2>3
<1> QED BY <1>9, <1>10, <1>11 DEF Passage, fs2, sn2

\* The first message of fs[p], torn or not, is written to the stream of c.
LEMMA PassageWrites ==
  ASSUME NEW fs, NEW ws, NEW td, NEW sn, NEW rc, Carriers(fs, ws, td, sn, rc),
         Passage(fs, ws, td, sn, rc), NEW p \in Producer, NEW c \in Conn,
         fs[p] # << >>, NEW m \in Msg,
         m.producer = Head(fs[p]).producer, m.seq = Head(fs[p]).seq
  PROVE  Passage([fs EXCEPT ![p] = Tail(@)], [ws EXCEPT ![c] = Append(@, m)], td, sn, rc)
<1> DEFINE fs2 == [fs EXCEPT ![p] = Tail(@)]
           ws2 == [ws EXCEPT ![c] = Append(@, m)]
           k == m.seq
<1>1. fs[p] \in Seq(Frame) /\ ws[c] \in Seq(Frame) /\ m \in Frame /\ k \in Nat \ {0}
      /\ m.producer \in Producer
  BY Frames DEF Carriers, Frame, Outgoing, Msg
<1>2. \A r \in Producer : fs2[r] = IF r = p THEN Tail(fs[p]) ELSE fs[r]
  BY DEF Carriers
<1>3. \A d \in Conn : ws2[d] = IF d = c THEN Append(ws[c], m) ELSE ws[d]
  BY DEF Carriers
<1> HIDE DEF fs2, ws2
<1>4. Holds(fs[p], m.producer, k)
  BY <1>1, HeadLeaves
<1>5. /\ m.producer = p /\ ~Holds(td, p, k) /\ \A d \in Conn : ~Holds(ws[d], p, k)
      /\ Pending(p, k, sn, rc)
  BY <1>1, <1>4 DEF Passage, OnePlace, AllPending
<1>6. ~Holds(fs2[p], p, k)
  BY <1>1, <1>2, <1>5, HeadLeaves DEF Passage, OnePlace
<1>7. \A r \in Producer : Part(fs2[r], fs[r])
  <2>1. \A r \in Producer : fs[r] \in Seq(Frame)
    BY Frames DEF Carriers
  <2> QED BY <1>2, <2>1, PartOfStream
<1>8. \A r \in Producer, q \in Producer, n \in Nat \ {0} :
         Holds(fs2[r], q, n) => Holds(fs[r], q, n) /\ ~(q = p /\ n = k)
  BY <1>1, <1>4, <1>5, <1>6, <1>7 DEF Part, Passage, OnePlace
<1>9. \A d \in Conn : \A q, n : Holds(ws2[d], q, n) <=>
                              Holds(ws[d], q, n) \/ (d = c /\ q = p /\ n = k)
  BY <1>1, <1>3, <1>5, AppendHolds
<1>10. /\ \A r \in Producer : Distinct(fs2[r])
       /\ \A d \in Conn : Distinct(ws2[d])
  BY <1>1, <1>3, <1>5, <1>7, AppendHolds DEF Part, Passage, OnePlace
<1>11. OnePlace(fs2, ws2, td)
  <2>1. ASSUME NEW q \in Producer, NEW n \in Nat \ {0}
        PROVE  /\ \A r \in Producer : Holds(fs2[r], q, n) =>
                     /\ r = q /\ ~Holds(td, q, n)
                     /\ \A d \in Conn : ~Holds(ws2[d], q, n)
               /\ Holds(td, q, n) => \A d \in Conn : ~Holds(ws2[d], q, n)
               /\ \A d, e \in Conn : Holds(ws2[d], q, n) /\ Holds(ws2[e], q, n) => d = e
    <3>1. /\ \A r \in Producer : Holds(fs[r], q, n) =>
               /\ r = q /\ ~Holds(td, q, n) /\ \A d \in Conn : ~Holds(ws[d], q, n)
          /\ Holds(td, q, n) => \A d \in Conn : ~Holds(ws[d], q, n)
          /\ \A d, e \in Conn : Holds(ws[d], q, n) /\ Holds(ws[e], q, n) => d = e
      BY DEF Passage, OnePlace
    <3>2. CASE q = p /\ n = k
      <4>1. \A r \in Producer : ~Holds(fs2[r], q, n)
        BY <1>8, <3>2
      <4>2. ~Holds(td, q, n) /\ \A d \in Conn : Holds(ws2[d], q, n) => d = c
        BY <1>5, <1>9, <3>2
      <4> QED BY <4>1, <4>2
    <3>3. CASE ~(q = p /\ n = k)
      BY <1>8, <1>9, <3>1, <3>3
    <3> QED BY <3>2, <3>3
  <2> QED BY <1>10, <2>1 DEF Passage, OnePlace
<1>12. AllPending(fs2, ws2, td, sn, rc)
  BY <1>5, <1>8, <1>9, ZenonT(30) DEF Passage, AllPending
<1> QED BY <1>11, <1>12 DEF Passage, fs2, ws2

\* The first message of the stream of c is read.
LEMMA PassageReads ==
  ASSUME NEW fs, NEW ws, NEW td, NEW sn, NEW rc, Carriers(fs, ws, td, sn, rc),
         Passage(fs, ws, td, sn, rc), NEW c \in Conn,
         ws[c] # << >>, Head(ws[c]) \in Msg
  PROVE  Passage(fs, [ws EXCEPT ![c] = Tail(@)], Append(td, Head(ws[c])), sn, rc)
<1> DEFINE m == Head(ws[c])
           ws2 == [ws EXCEPT ![c] = Tail(@)]
           td2 == Append(td, m)
           p == m.producer
           k == m.seq
<1>1. ws[c] \in Seq(Frame) /\ td \in Seq(Frame) /\ m \in Frame /\ k \in Nat \ {0}
      /\ p \in Producer
  BY Frames DEF Carriers, Frame, Outgoing, Msg
<1>2. \A d \in Conn : ws2[d] = IF d = c THEN Tail(ws[c]) ELSE ws[d]
  BY DEF Carriers
<1>3. Holds(ws[c], p, k)
  BY <1>1, HeadLeaves
<1>4. Distinct(ws[c]) => ~Holds(Tail(ws[c]), p, k)
  BY <1>1, HeadLeaves
<1>5. \A q, n : Holds(td2, q, n) <=> Holds(td, q, n) \/ (q = p /\ n = k)
  BY <1>1, AppendHolds
<1>6. Distinct(td) /\ ~Holds(td, p, k) => Distinct(td2)
  BY <1>1, AppendHolds
<1> HIDE DEF m, ws2, td2, p, k
<1>7. /\ ~Holds(td, p, k) /\ \A r \in Producer : ~Holds(fs[r], p, k)
      /\ Pending(p, k, sn, rc)
      /\ \A d \in Conn : Holds(ws[d], p, k) => d = c
  BY <1>1, <1>3 DEF Passage, OnePlace, AllPending
<1>8. \A d \in Conn : Part(ws2[d], ws[d])
  <2>1. \A d \in Conn : ws[d] \in Seq(Frame)
    BY DEF Carriers
  <2> QED BY <1>2, <2>1, PartOfStream
<1>9. \A d \in Conn, q \in Producer, n \in Nat \ {0} :
         Holds(ws2[d], q, n) => Holds(ws[d], q, n) /\ ~(q = p /\ n = k)
  BY <1>1, <1>2, <1>4, <1>7, <1>8 DEF Part, Passage, OnePlace
<1>10. Distinct(td2) /\ \A d \in Conn : Distinct(ws2[d])
  BY <1>6, <1>7, <1>8 DEF Part, Passage, OnePlace
<1>11. OnePlace(fs, ws2, td2)
  <2>1. ASSUME NEW q \in Producer, NEW n \in Nat \ {0}
        PROVE  /\ \A r \in Producer : Holds(fs[r], q, n) =>
                     /\ r = q /\ ~Holds(td2, q, n)
                     /\ \A d \in Conn : ~Holds(ws2[d], q, n)
               /\ Holds(td2, q, n) => \A d \in Conn : ~Holds(ws2[d], q, n)
               /\ \A d, e \in Conn : Holds(ws2[d], q, n) /\ Holds(ws2[e], q, n) => d = e
    BY <1>5, <1>7, <1>9 DEF Passage, OnePlace
  <2> QED BY <1>10, <2>1 DEF Passage, OnePlace
<1>12. AllPending(fs, ws2, td2, sn, rc)
  BY <1>5, <1>7, <1>9 DEF Passage, AllPending
<1> QED BY <1>11, <1>12 DEF Passage, ws2, td2, m

\* The first message of to_deser_queue_ is handed to the node.
LEMMA PassageReceives ==
  ASSUME NEW fs, NEW ws, NEW td, NEW sn, NEW rc, Carriers(fs, ws, td, sn, rc),
         Passage(fs, ws, td, sn, rc), td # << >>, NEW m, m = Head(td)
  PROVE  /\ m.producer \in Producer
         /\ m.seq \in (1 .. sn[m.producer]) \ ToSet(rc[m.producer])
         /\ Passage(fs, ws, Tail(td), sn, [rc EXCEPT ![m.producer] = Append(@, m.seq)])
<1> DEFINE rc2 == [rc EXCEPT ![m.producer] = Append(@, m.seq)]
           p == m.producer
           k == m.seq
<1>1. td \in Seq(Frame) /\ m \in Msg
  BY Frames, SequenceTail DEF Carriers
<1>2. k \in Nat \ {0} /\ p \in Producer
  BY <1>1 DEF Msg
<1>3. Holds(td, p, k) /\ (Distinct(td) => ~Holds(Tail(td), p, k)) /\ Part(Tail(td), td)
  BY <1>1, <1>2, HeadLeaves, PartOfStream
<1>4. ToSet(Append(rc[p], k)) = ToSet(rc[p]) \cup {k}
  BY <1>2, AppendToSet DEF Carriers
<1>5. \A q \in Producer : ToSet(rc2[q]) = IF q = p THEN ToSet(rc[q]) \cup {k} ELSE ToSet(rc[q])
  BY <1>2, <1>4 DEF Carriers
<1> HIDE DEF rc2, p, k
<1>6. Pending(p, k, sn, rc)
  BY <1>2, <1>3 DEF Passage, AllPending
<1>7. Passage(fs, ws, Tail(td), sn, rc)
  <2>1. /\ \A q \in Producer : Part(fs[q], fs[q])
        /\ \A c \in Conn : Part(ws[c], ws[c])
    BY DEF Part
  <2> QED BY <1>3, <2>1, PassageLoses
<1>8. /\ ~Holds(Tail(td), p, k) /\ ~Holds(fs[p], p, k)
      /\ \A c \in Conn : ~Holds(ws[c], p, k)
  BY <1>2, <1>3 DEF Passage, OnePlace
<1>9. AllPending(fs, ws, Tail(td), sn, rc2)
  <2> SUFFICES ASSUME NEW q \in Producer, NEW n \in Nat \ {0},
                      \/ Holds(fs[q], q, n) \/ Holds(Tail(td), q, n)
                      \/ \E c \in Conn : Holds(ws[c], q, n)
               PROVE  Pending(q, n, sn, rc2)
    BY DEF AllPending
  <2>1. Pending(q, n, sn, rc) /\ ~(q = p /\ n = k)
    BY <1>7, <1>8 DEF Passage, AllPending
  <2> QED BY <1>5, <2>1 DEF Pending
<1>10. \A q \in Producer : ToSet(rc2[q]) \subseteq 1 .. sn[q]
  BY <1>5, <1>6 DEF Passage, Pending
<1> QED BY <1>2, <1>6, <1>7, <1>9, <1>10 DEF Passage, Pending, rc2, p, k

-----------------------------------------------------------------------------
(* Every step carries each side's messages on, or loses them               *)

Streams(s) == [c \in Conn |-> wire[c][s]]

PassageOf(s) ==
    Passage(from_ser[s], Streams(s), to_deser[Other(s)], sent[s], received[s])

PassageInv == \A s \in Side : PassageOf(s)

LEMMA CarriersOf ==
  ASSUME TypeInv, NEW s \in Side
  PROVE  Carriers(from_ser[s], Streams(s), to_deser[Other(s)], sent[s], received[s])
  BY Sides DEF TypeInv, WireInv, Wires, QueueTypes, Streams, Carriers

LEMMA PassageInit == Init => PassageInv
<1> SUFFICES ASSUME Init, NEW s \in Side PROVE PassageOf(s)
  BY DEF PassageInv
<1>1. /\ \A p \in Producer : from_ser[s][p] = << >> /\ sent[s][p] = 0
                            /\ received[s][p] = << >>
      /\ \A c \in Conn : Streams(s)[c] = << >>
      /\ to_deser[Other(s)] = << >>
  BY Sides DEF Init, Streams
<1>2. /\ \A p, n : ~Holds(<< >>, p, n)
      /\ Distinct(<< >>) /\ ToSet(<< >>) = {}
  BY DEF Holds, Distinct, ToSet
<1> QED BY <1>1, <1>2 DEF PassageOf, Passage, OnePlace, AllPending

\* A step that sends, writes and receives nothing of s.
LEMMA PassageDrains ==
  ASSUME TypeInv, PassageInv, NEW s \in Side,
         \A p \in Producer : from_ser'[s][p] \in {from_ser[s][p], << >>},
         \A c \in Conn : Drains(s, c),
         to_deser'[Other(s)] \in {to_deser[Other(s)], << >>},
         sent'[s] = sent[s], received'[s] = received[s]
  PROVE  PassageOf(s)'
<1>1. /\ \A p \in Producer : from_ser[s][p] \in Seq(Frame)
      /\ \A c \in Conn : wire[c][s] \in Seq(Frame)
      /\ to_deser[Other(s)] \in Seq(Frame)
  BY Sides, Frames DEF TypeInv, WireInv, Wires, QueueTypes
<1>2. \A p \in Producer : Part(from_ser'[s][p], from_ser[s][p])
  BY <1>1, PartOfStream
<1>3. \A c \in Conn : Part(Streams(s)'[c], Streams(s)[c])
  <2>1. \A c \in Conn : Part(wire'[c][s], wire[c][s])
    BY <1>1, PartOfStream DEF Drains
  <2> QED BY <2>1 DEF Streams
<1>4. Part(to_deser'[Other(s)], to_deser[Other(s)])
  BY <1>1, PartOfStream
<1>5. Passage(from_ser'[s], Streams(s)', to_deser'[Other(s)], sent[s], received[s])
  BY <1>2, <1>3, <1>4, PassageLoses DEF PassageInv, PassageOf
<1> QED BY <1>5 DEF PassageOf

\* What most steps leave alone.
LEMMA PassageQuiet ==
  ASSUME TypeInv, PassageInv, WiresDrain, UNCHANGED <<queueVars, countVars>>
  PROVE  PassageInv'
<1> SUFFICES ASSUME NEW s \in Side PROVE PassageOf(s)'
  BY DEF PassageInv
<1> QED BY PassageDrains DEF WiresDrain, queueVars, countVars

\* A step that does not touch what carries the messages of s.
LEMMA PassageSame ==
  ASSUME PassageInv, NEW s \in Side, from_ser'[s] = from_ser[s],
         \A c \in Conn : wire'[c][s] = wire[c][s], to_deser'[Other(s)] = to_deser[Other(s)],
         sent'[s] = sent[s], received'[s] = received[s]
  PROVE  PassageOf(s)'
<1>1. Streams(s)' = Streams(s)
  BY DEF Streams
<1> QED BY <1>1 DEF PassageInv, PassageOf

\* What is proved of s and of the other side.
LEMMA BothSides ==
  ASSUME NEW s \in Side, PassageOf(s)', PassageOf(Other(s))'
  PROVE  PassageInv'
<1>1. \A r \in Side : r = s \/ r = Other(s)
  BY DEF Side, Other
<1> QED BY <1>1 DEF PassageInv

\* An over-long message changes nothing for those that are counted: fs, ws and td
\* have it at the end of one of them.
LEMMA PassageIgnores ==
  ASSUME NEW fs, NEW ws, NEW td, NEW sn, NEW rc, Carriers(fs, ws, td, sn, rc),
         Passage(fs, ws, td, sn, rc), NEW p \in Producer, NEW m \in Outgoing, m.seq = 0
  PROVE  /\ Passage([fs EXCEPT ![p] = Append(@, m)], ws, td, sn, rc)
         /\ \A c \in Conn : fs[p] # << >> =>
               Passage([fs EXCEPT ![p] = Tail(@)], [ws EXCEPT ![c] = Append(@, m)], td, sn, rc)
<1>1. /\ \A r \in Producer : fs[r] \in Seq(Frame)
      /\ \A d \in Conn : ws[d] \in Seq(Frame)
      /\ td \in Seq(Frame)
  BY Frames DEF Carriers
<1>2. /\ \A r \in Producer : Part(fs[r], fs[r])
      /\ \A d \in Conn : Part(ws[d], ws[d])
      /\ Part(td, td)
  BY <1>1, PartOfStream
<1>3. Passage([fs EXCEPT ![p] = Append(@, m)], ws, td, sn, rc)
  <2> DEFINE fs2 == [fs EXCEPT ![p] = Append(@, m)]
  <2>1. \A r \in Producer : fs2[r] = IF r = p THEN Append(fs[p], m) ELSE fs[r]
    BY DEF Carriers
  <2> HIDE DEF fs2
  <2>2. \A r \in Producer : Part(fs2[r], fs[r])
    BY <1>1, <1>2, <2>1, AppendUncounted
  <2>3. Passage(fs2, ws, td, sn, rc)
    BY <1>2, <2>2, PassageLoses
  <2> QED BY <2>3 DEF fs2
<1>4. ASSUME NEW c \in Conn, fs[p] # << >>
      PROVE  Passage([fs EXCEPT ![p] = Tail(@)], [ws EXCEPT ![c] = Append(@, m)], td, sn, rc)
  <2> DEFINE fs2 == [fs EXCEPT ![p] = Tail(@)]
             ws2 == [ws EXCEPT ![c] = Append(@, m)]
  <2>1. /\ \A r \in Producer : fs2[r] = IF r = p THEN Tail(fs[p]) ELSE fs[r]
        /\ \A d \in Conn : ws2[d] = IF d = c THEN Append(ws[c], m) ELSE ws[d]
    BY DEF Carriers
  <2> HIDE DEF fs2, ws2
  <2>2. \A r \in Producer : Part(fs2[r], fs[r])
    BY <1>1, <1>2, <1>4, <2>1, PartOfStream
  <2>3. \A d \in Conn : Part(ws2[d], ws[d])
    BY <1>1, <1>2, <2>1, AppendUncounted
  <2>4. Passage(fs2, ws2, td, sn, rc)
    BY <1>2, <2>2, <2>3, PassageLoses
  <2> QED BY <2>4 DEF fs2, ws2
<1> QED BY <1>3, <1>4

LEMMA EnqueuePassage ==
  ASSUME TypeInv, PassageInv, NEW s \in Side, NEW p \in Producer, enqueue(s, p)
  PROVE  PassageInv'
<1>1. CASE enqueue_next(s, p)
  <2>1. PICK m \in Msg : /\ m.producer = p /\ m.seq = sent[s][p] + 1
                         /\ from_ser' = [from_ser EXCEPT ![s][p] = Append(@, m)]
    BY <1>1, NextMessage
  <2>2. /\ sent' = [sent EXCEPT ![s][p] = @ + 1]
        /\ UNCHANGED <<wire, to_deser, received>>
    BY <1>1 DEF enqueue_next, tcpVars
  <2>3. /\ from_ser'[s] = [from_ser[s] EXCEPT ![p] = Append(@, m)]
        /\ sent'[s] = [sent[s] EXCEPT ![p] = @ + 1]
        /\ from_ser'[Other(s)] = from_ser[Other(s)] /\ sent'[Other(s)] = sent[Other(s)]
    BY <2>1, <2>2, Sides DEF TypeInv, QueueTypes
  <2>4. PassageOf(s)'
    <3>1. Passage([from_ser[s] EXCEPT ![p] = Append(@, m)], Streams(s), to_deser[Other(s)],
                  [sent[s] EXCEPT ![p] = @ + 1], received[s])
      BY <2>1, CarriersOf, PassageSends DEF PassageInv, PassageOf
    <3> QED BY <2>2, <2>3, <3>1 DEF PassageOf, Streams
  <2>5. PassageOf(Other(s))'
    BY <2>2, <2>3, Sides, PassageSame
  <2> QED BY <2>4, <2>5, BothSides
<1>2. CASE enqueue_overlong(s, p)
  <2>1. PICK m \in Outgoing : /\ m.seq = 0
                              /\ from_ser' = [from_ser EXCEPT ![s][p] = Append(@, m)]
    BY <1>2, OverlongMessage
  <2>2. UNCHANGED <<wire, to_deser, sent, received>>
    BY <1>2 DEF enqueue_overlong, tcpVars, countVars
  <2>3. /\ from_ser'[s] = [from_ser[s] EXCEPT ![p] = Append(@, m)]
        /\ from_ser'[Other(s)] = from_ser[Other(s)]
    BY <2>1, Sides DEF TypeInv, QueueTypes
  <2>4. PassageOf(s)'
    <3>1. Passage([from_ser[s] EXCEPT ![p] = Append(@, m)], Streams(s), to_deser[Other(s)],
                  sent[s], received[s])
      BY <2>1, CarriersOf, PassageIgnores DEF PassageInv, PassageOf
    <3> QED BY <2>2, <2>3, <3>1 DEF PassageOf, Streams
  <2>5. PassageOf(Other(s))'
    BY <2>2, <2>3, Sides, PassageSame
  <2> QED BY <2>4, <2>5, BothSides
<1> QED BY <1>1, <1>2 DEF enqueue

\* The first message of p, torn or not, has been written.
LEMMA WrotePassage ==
  ASSUME TypeInv, PassageInv, NEW s \in Side, NEW p \in Producer, from_ser[s][p] # << >>,
         Writing(s), Reaches(s, stream[s]), NEW m \in Outgoing,
         m.producer = Head(from_ser[s][p]).producer, m.seq = Head(from_ser[s][p]).seq
  PROVE  Passage([from_ser[s] EXCEPT ![p] = Tail(@)], [c \in Conn |-> Wrote(s, m)[c][s]],
                 to_deser[Other(s)], sent[s], received[s])
<1>1. /\ stream[s] \in Conn
      /\ \A c \in Conn : Wrote(s, m)[c][s] = IF c = stream[s] THEN Append(wire[c][s], m)
                                                             ELSE wire[c][s]
  BY WireWritten DEF TypeInv
<1>2. [c \in Conn |-> Wrote(s, m)[c][s]] = [Streams(s) EXCEPT ![stream[s]] = Append(@, m)]
  BY <1>1 DEF Streams
<1>3. Passage([from_ser[s] EXCEPT ![p] = Tail(@)], [Streams(s) EXCEPT ![stream[s]] = Append(@, m)],
              to_deser[Other(s)], sent[s], received[s])
  <2>1. CASE m \in Msg
    BY <1>1, <2>1, CarriersOf, PassageWrites DEF PassageInv, PassageOf
  <2>2. CASE m.seq = 0
    BY <1>1, <2>2, CarriersOf, PassageIgnores DEF PassageInv, PassageOf
  <2> QED BY <2>1, <2>2, Frames
<1> QED BY <1>2, <1>3

LEMMA WritePassage ==
  ASSUME TypeInv, PassageInv, NEW s \in Side, NEW p \in Producer, handle_write_timeout(s, p)
  PROVE  PassageInv'
<1> DEFINE m == Head(from_ser[s][p])
<1>1. /\ from_ser[s][p] # << >> /\ Writing(s) /\ m \in Outgoing
      /\ from_ser' = [from_ser EXCEPT ![s][p] = Tail(@)]
      /\ wire' = IF Reaches(s, stream[s]) THEN Wrote(s, m) ELSE wire
      /\ UNCHANGED <<to_deser, sent, received>>
  BY WriteFlows DEF handle_write_timeout, countVars, Wrote
<1>2. /\ from_ser'[s] = [from_ser[s] EXCEPT ![p] = Tail(@)]
      /\ from_ser'[Other(s)] = from_ser[Other(s)]
  BY <1>1, Sides DEF TypeInv, QueueTypes
<1>3. PassageOf(s)'
  <2>1. CASE Reaches(s, stream[s])
    <3>1. Passage([from_ser[s] EXCEPT ![p] = Tail(@)], [c \in Conn |-> Wrote(s, m)[c][s]],
                  to_deser[Other(s)], sent[s], received[s])
      BY <1>1, <2>1, WrotePassage
    <3> QED BY <1>1, <1>2, <2>1, <3>1 DEF PassageOf, Streams
  <2>2. CASE ~Reaches(s, stream[s])
    <3>1. /\ from_ser[s][p] \in Seq(Frame)
          /\ \A q \in Producer : from_ser[s][q] \in Seq(Frame)
          /\ \A c \in Conn : wire[c][s] \in Seq(Frame)
          /\ to_deser[Other(s)] \in Seq(Frame)
      BY Sides, Frames DEF TypeInv, WireInv, Wires, QueueTypes
    <3>2. \A q \in Producer : Part(from_ser'[s][q], from_ser[s][q])
      BY <1>1, <1>2, <3>1, PartOfStream DEF TypeInv, QueueTypes
    <3>3. \A c \in Conn : Part(Streams(s)[c], Streams(s)[c])
      BY <3>1, PartOfStream DEF Streams
    <3>4. Passage(from_ser'[s], Streams(s), to_deser[Other(s)], sent[s], received[s])
      BY <3>1, <3>2, <3>3, PartOfStream, PassageLoses DEF PassageInv, PassageOf
    <3> QED BY <1>1, <2>2, <3>4 DEF PassageOf, Streams
  <2> QED BY <2>1, <2>2
<1>4. PassageOf(Other(s))'
  <2>1. \A c \in Conn : wire'[c][Other(s)] = wire[c][Other(s)]
    BY <1>1, WireWritten, Sides DEF TypeInv
  <2> QED BY <1>1, <1>2, <2>1, Sides, PassageSame
<1> QED BY <1>3, <1>4, BothSides

LEMMA ReadPassage ==
  ASSUME TypeInv, PassageInv, NEW s \in Side, read_cb(s)
  PROVE  PassageInv'
<1> DEFINE r == Other(s)
           c == stream[s]
           m == Head(wire[c][r])
<1>1. c \in Conn /\ r \in Side /\ r # s /\ Other(r) = s
  BY ReadFlows, Sides DEF read_cb, Incoming, TypeInv, OwnInv, OwnTypes, PipelineState
<1>2. /\ wire[c][r] # << >> /\ wire' = [wire EXCEPT ![c][r] = Tail(@)]
      /\ \/ to_deser' = to_deser
         \/ m \in Msg /\ to_deser' = [to_deser EXCEPT ![s] = Append(@, m)]
      /\ UNCHANGED <<from_ser, sent, received>>
  BY ReadFlows DEF read_cb, Incoming, countVars
<1> HIDE DEF r, c, m
<1>3. /\ \A d \in Conn : wire'[d][r] = IF d = c THEN Tail(wire[d][r]) ELSE wire[d][r]
      /\ \A d \in Conn : wire'[d][s] = wire[d][s]
  BY <1>1, <1>2 DEF TypeInv, WireInv, Wires
<1>4. PassageOf(s)'
  <2>1. to_deser'[Other(s)] = to_deser[Other(s)]
    BY <1>1, <1>2, Sides DEF TypeInv, QueueTypes
  <2> QED BY <1>2, <1>3, <2>1, PassageSame
<1>5. PassageOf(r)'
  <2>1. CASE to_deser' = to_deser
    <3>1. \A d \in Conn : Drains(r, d)
      BY <1>2, <1>3 DEF Drains
    <3> QED BY <1>1, <1>2, <2>1, <3>1, PassageDrains
  <2>2. CASE m \in Msg /\ to_deser' = [to_deser EXCEPT ![s] = Append(@, m)]
    <3>1. to_deser'[s] = Append(to_deser[s], m)
      BY <2>2 DEF TypeInv, QueueTypes
    <3>2. Streams(r)' = [Streams(r) EXCEPT ![c] = Tail(@)]
      BY <1>1, <1>3 DEF Streams
    <3>3. Streams(r)[c] # << >> /\ Head(Streams(r)[c]) = m
      BY <1>1, <1>2 DEF Streams, m
    <3>4. Passage(from_ser[r], [Streams(r) EXCEPT ![c] = Tail(@)], Append(to_deser[s], m),
                  sent[r], received[r])
      BY <1>1, <2>2, <3>3, CarriersOf, PassageReads DEF PassageInv, PassageOf
    <3> QED BY <1>1, <1>2, <3>1, <3>2, <3>4 DEF PassageOf
  <2> QED BY <1>2, <2>1, <2>2
<1> QED BY <1>4, <1>5, BothSides DEF r

LEMMA ReceivePassage ==
  ASSUME TypeInv, PassageInv, NEW s \in Side, handle_receive_timeout(s)
  PROVE  /\ PassageInv'
         /\ \E p \in Producer :
              \E n \in (1 .. sent[Other(s)][p]) \ ToSet(received[Other(s)][p]) :
                 received' = [received EXCEPT ![Other(s)][p] = Append(@, n)]
<1> DEFINE r == Other(s)
           m == Head(to_deser[s])
<1>1. r \in Side /\ r # s /\ Other(r) = s
  BY Sides
<1>2. /\ to_deser[s] # << >>
      /\ to_deser' = [to_deser EXCEPT ![s] = Tail(@)]
      /\ received' = [received EXCEPT ![r][m.producer] = Append(@, m.seq)]
      /\ UNCHANGED <<wire, from_ser, sent>>
  BY DEF handle_receive_timeout, tcpVars
<1> HIDE DEF r, m
<1>3. /\ m.producer \in Producer
      /\ m.seq \in (1 .. sent[r][m.producer]) \ ToSet(received[r][m.producer])
      /\ Passage(from_ser[r], Streams(r), Tail(to_deser[s]), sent[r],
                 [received[r] EXCEPT ![m.producer] = Append(@, m.seq)])
  BY <1>1, <1>2, CarriersOf, PassageReceives DEF PassageInv, PassageOf, m
<1>4. /\ to_deser'[s] = Tail(to_deser[s]) /\ to_deser'[r] = to_deser[r]
      /\ received'[r] = [received[r] EXCEPT ![m.producer] = Append(@, m.seq)]
      /\ received'[s] = received[s]
  BY <1>1, <1>2 DEF TypeInv, QueueTypes
<1>5. PassageOf(r)'
  BY <1>1, <1>2, <1>3, <1>4 DEF PassageOf, Streams
<1>6. PassageOf(s)'
  BY <1>2, <1>4, PassageSame DEF r
<1> QED BY <1>2, <1>3, <1>5, <1>6, BothSides DEF r

LEMMA EndPassage ==
  ASSUME TypeInv, PassageInv, NEW s \in Side, Crash(s) \/ Sigpipe(s)
  PROVE  PassageInv'
<1>1. PICK w : /\ end_process(s, w)
               /\ \/ w = wire
                  \/ \E p \in Producer :
                       /\ Writing(s) /\ Reaches(s, stream[s]) /\ from_ser[s][p] # << >>
                       /\ Head(from_ser[s][p]) \in Outgoing
                       /\ w = Wrote(s, Torn(Head(from_ser[s][p])))
  BY WrittenBeforeEnd DEF Crash, Sigpipe
<1>2. \A c \in Conn, r \in Side : wire'[c][r] \in {w[c][r], << >>}
  BY <1>1, TornMessage, EndFlows
<1>3. /\ from_ser' = [from_ser EXCEPT ![s] = [p \in Producer |-> << >>]]
      /\ to_deser' = [to_deser EXCEPT ![s] = << >>]
      /\ UNCHANGED <<sent, received>>
  BY <1>1 DEF end_process, countVars
<1>4. /\ \A p \in Producer : from_ser'[s][p] = << >>
      /\ to_deser'[s] = << >> /\ to_deser'[Other(s)] = to_deser[Other(s)]
      /\ from_ser'[Other(s)] = from_ser[Other(s)]
  BY <1>3, Sides DEF TypeInv, QueueTypes
<1>5. CASE w = wire
  <2>1. \A r \in Side, c \in Conn : Drains(r, c)
    BY <1>2, <1>5 DEF Drains
  <2>2. PassageOf(s)'
    BY <1>3, <1>4, <2>1, PassageDrains
  <2>3. PassageOf(Other(s))'
    BY <1>3, <1>4, <2>1, Sides, PassageDrains
  <2> QED BY <2>2, <2>3, BothSides
<1>6. ASSUME NEW p \in Producer, Writing(s), Reaches(s, stream[s]), from_ser[s][p] # << >>,
             Head(from_ser[s][p]) \in Outgoing, w = Wrote(s, Torn(Head(from_ser[s][p])))
      PROVE  PassageInv'
  <2> DEFINE m == Torn(Head(from_ser[s][p]))
             fs == [from_ser[s] EXCEPT ![p] = Tail(@)]
             ws == [c \in Conn |-> w[c][s]]
  <2>1. m \in Outgoing /\ m.producer = Head(from_ser[s][p]).producer
        /\ m.seq = Head(from_ser[s][p]).seq
    BY <1>6, TornMessage
  <2>2. Passage(fs, ws, to_deser[Other(s)], sent[s], received[s])
    BY <1>6, <2>1, WrotePassage
  <2>3. Wires(w) /\ \A c \in Conn : w[c][Other(s)] = wire[c][Other(s)]
    BY <1>6, <2>1, WireWritten, Sides DEF TypeInv
  <2>4. PassageOf(Other(s))'
    <3>1. \A c \in Conn : Drains(Other(s), c)
      BY <1>2, <2>3, Sides DEF Drains
    <3> QED BY <1>3, <1>4, <3>1, Sides, PassageDrains
  <2>5. PassageOf(s)'
    <3>1. /\ \A q \in Producer : fs[q] \in Seq(Frame)
          /\ \A c \in Conn : ws[c] \in Seq(Frame) /\ Streams(s)'[c] \in {ws[c], << >>}
          /\ to_deser[Other(s)] \in Seq(Frame)
      <4>1. from_ser[s][p] \in Seq(Outgoing)
        BY DEF TypeInv, QueueTypes
      <4>2. Tail(from_ser[s][p]) \in Seq(Outgoing)
        BY <1>6, <4>1, SequenceTail
      <4>3. \A q \in Producer : fs[q] \in Seq(Outgoing)
        BY <4>2 DEF TypeInv, QueueTypes
      <4>4. to_deser[Other(s)] \in Seq(Msg)
        BY Sides DEF TypeInv, QueueTypes
      <4>5. \A c \in Conn : ws[c] \in Seq(Frame) /\ Streams(s)'[c] \in {ws[c], << >>}
        BY <1>2, <2>3 DEF Streams, Wires
      <4> QED BY <4>3, <4>4, <4>5, Frames
    <3> HIDE DEF fs, ws
    <3>2. \A q \in Producer : Part(from_ser'[s][q], fs[q])
      BY <1>4, <3>1, PartOfStream
    <3>3. \A c \in Conn : Part(Streams(s)'[c], ws[c])
      BY <3>1, PartOfStream
    <3>4. Part(to_deser'[Other(s)], to_deser[Other(s)])
      BY <1>4, <3>1, PartOfStream
    <3>5. Passage(from_ser'[s], Streams(s)', to_deser'[Other(s)], sent[s], received[s])
      BY <2>2, <3>2, <3>3, <3>4, PassageLoses
    <3> QED BY <1>3, <3>5 DEF PassageOf
  <2> QED BY <2>4, <2>5, BothSides
<1> QED BY <1>1, <1>5, <1>6

\* The steps that LossyChannel does not see.
Quiet == UNCHANGED <<sent, received>>

LEMMA PassageStep ==
  ASSUME TypeInv, PassageInv, [Next]_vars
  PROVE  /\ PassageInv'
         /\ \/ Quiet
            \/ \E s \in Side, p \in Producer : enqueue_next(s, p)
            \/ \E s \in Side : handle_receive_timeout(s)
<1>1. CASE UNCHANGED vars
  <2>1. WiresDrain
    BY <1>1, WiresSame DEF vars, pipelineVars, tcpVars, TypeInv
  <2> QED BY <1>1, <2>1, PassageQuiet DEF vars, countVars, Quiet
<1>2. ASSUME NEW s \in Side, PipelineStep(s) PROVE PassageInv' /\ Quiet
  <2>1. CASE event_loop(s) \/ read_cb_ended(s) \/ close_stream(s) \/ end_event_loop(s)
    <3>1. UNCHANGED <<queueVars, countVars>>
      BY <2>1 DEF event_loop, read_cb_ended, close_stream, end_event_loop
    <3> QED BY <2>1, <3>1, PipelineFlows, PassageQuiet DEF countVars, Quiet
  <2>2. CASE read_cb(s)
    BY <2>2, ReadPassage DEF read_cb, countVars, Quiet
  <2>3. ASSUME NEW p \in Producer, handle_write_timeout(s, p) PROVE PassageInv' /\ Quiet
    BY <2>3, WritePassage DEF handle_write_timeout, countVars, Quiet
  <2> QED BY <1>2, <2>1, <2>2, <2>3 DEF PipelineStep
<1>3. ASSUME ConnectStep PROVE PassageInv' /\ Quiet
  <2>1. WiresDrain
    BY <1>3, ConnectFlows, StartFlows DEF ConnectStep
  <2>2. UNCHANGED <<queueVars, countVars>>
    BY <1>3 DEF ConnectStep, try_connect_to_peer, start_connected
  <2> QED BY <2>1, <2>2, PassageQuiet DEF countVars, Quiet
<1>4. ASSUME AcceptStep PROVE PassageInv' /\ Quiet
  <2>1. WiresDrain
    BY <1>4, NetworkFlows, HandshakeFlows DEF AcceptStep
  <2>2. UNCHANGED <<queueVars, countVars>>
    BY <1>4 DEF AcceptStep, accept_cb, handshake_cb
  <2> QED BY <2>1, <2>2, PassageQuiet DEF countVars, Quiet
<1>5. ASSUME NEW c \in Conn, NEW s \in Side,
             Break(c) \/ handle_handshake_timeout(c) \/ CutShort(s, c) \/ Start(s)
      PROVE  PassageInv' /\ Quiet
  <2>1. WiresDrain
    BY <1>5, NetworkFlows, RestartFlows
  <2>2. UNCHANGED <<queueVars, countVars>>
    BY <1>5 DEF Break, handle_handshake_timeout, CutShort, Start
  <2> QED BY <2>1, <2>2, PassageQuiet DEF countVars, Quiet
<1>6. ASSUME NEW s \in Side, Start(s) PROVE PassageInv' /\ Quiet
  <2>1. WiresDrain /\ UNCHANGED <<queueVars, countVars>>
    BY <1>6, RestartFlows DEF Start
  <2> QED BY <2>1, PassageQuiet DEF countVars, Quiet
<1>7. ASSUME NEW s \in Side, Crash(s) \/ Sigpipe(s) PROVE PassageInv' /\ Quiet
  BY <1>7, EndPassage DEF Crash, Sigpipe, end_process, countVars, Quiet
<1>8. CASE Disturbance
  BY <1>5, <1>6, <1>7, <1>8 DEF Disturbance, Side
<1>9. ASSUME NEW s \in Side, broadcast(s) \/ send_to_pipeline(s)
      PROVE  PassageInv' /\ (Quiet \/ \E p \in Producer : enqueue_next(s, p))
  <2>1. PICK p \in Producer : enqueue(s, p)
    BY <1>9 DEF broadcast, send_to_pipeline, Producer
  <2>2. PassageInv'
    BY <2>1, EnqueuePassage
  <2>3. enqueue_overlong(s, p) => Quiet
    BY DEF enqueue_overlong, countVars, Quiet
  <2> QED BY <2>1, <2>2, <2>3 DEF enqueue
<1> QED BY <1>1, <1>2, <1>3, <1>4, <1>8, <1>9, ReceivePassage DEF Next

LEMMA PassageInvHolds == Spec => []PassageInv
<1>1. TypeInv /\ PassageInv /\ [Next]_vars => PassageInv'
  BY PassageStep
<1> QED BY <1>1, PassageInit, TypeInvHolds, PTL DEF Spec

\* The numbers of each thread, as LossyChannel sees them.
ChannelSent == [q \in Side \X Producer |-> sent[q[1]][q[2]]]

ChannelReceived == [q \in Side \X Producer |-> received[q[1]][q[2]]]

LEMMA ChannelInit == Init => Channel!Init
  BY DEF Init, Channel!Init

LEMMA ChannelSend ==
  ASSUME TypeInv, NEW s \in Side, NEW p \in Producer, enqueue_next(s, p)
  PROVE  Channel!Next
<1>1. /\ sent' = [sent EXCEPT ![s][p] = @ + 1] /\ received' = received
      /\ sent \in [Side -> [Producer -> Nat]]
  BY DEF enqueue_next, TypeInv, QueueTypes
<1>2. <<s, p>> \in Side \X Producer
  OBVIOUS
<1>3. ChannelSent' = [ChannelSent EXCEPT ![<<s, p>>] = @ + 1]
  <2>1. ASSUME NEW q \in Side \X Producer
        PROVE  sent'[q[1]][q[2]] = IF q = <<s, p>> THEN sent[q[1]][q[2]] + 1
                                                   ELSE sent[q[1]][q[2]]
    BY <1>1, <2>1
  <2> QED BY <1>2, <2>1 DEF ChannelSent
<1>4. Channel!Send(<<s, p>>)
  BY <1>1, <1>3 DEF Channel!Send, ChannelSent
<1> QED BY <1>2, <1>4 DEF Channel!Next

LEMMA ChannelReceive ==
  ASSUME TypeInv, NEW s \in Side, NEW p \in Producer, UNCHANGED sent,
         NEW n \in (1 .. sent[s][p]) \ ToSet(received[s][p]),
         received' = [received EXCEPT ![s][p] = Append(@, n)]
  PROVE  Channel!Next
<1>1. <<s, p>> \in Side \X Producer /\ received \in [Side -> [Producer -> Seq(Nat)]]
  BY DEF TypeInv, QueueTypes
<1>2. ChannelReceived' = [ChannelReceived EXCEPT ![<<s, p>>] = Append(@, n)]
  <2>1. ASSUME NEW q \in Side \X Producer
        PROVE  received'[q[1]][q[2]] = IF q = <<s, p>> THEN Append(received[q[1]][q[2]], n)
                                                       ELSE received[q[1]][q[2]]
    BY <1>1, <2>1
  <2> QED BY <1>1, <2>1 DEF ChannelReceived
<1>3. n \in (1 .. ChannelSent[<<s, p>>]) \ Channel!ToSet(ChannelReceived[<<s, p>>])
  BY <1>1, SMTT(20) DEF ChannelSent, ChannelReceived, ToSet, Channel!ToSet
<1>4. Channel!Receive(<<s, p>>)
  BY <1>2, <1>3 DEF Channel!Receive, ChannelSent, ChannelReceived
<1> QED BY <1>1, <1>4 DEF Channel!Next

LEMMA ChannelStep ==
  TypeInv /\ PassageInv /\ [Next]_vars => [Channel!Next]_<<ChannelSent, ChannelReceived>>
<1> SUFFICES ASSUME TypeInv, PassageInv, [Next]_vars
             PROVE  Channel!Next \/ UNCHANGED <<ChannelSent, ChannelReceived>>
  OBVIOUS
<1>1. CASE Quiet
  BY <1>1 DEF Quiet, ChannelSent, ChannelReceived
<1>2. ASSUME NEW s \in Side, handle_receive_timeout(s) PROVE Channel!Next
  <2>1. UNCHANGED sent
    BY <1>2 DEF handle_receive_timeout
  <2>2. PICK p \in Producer :
          \E n \in (1 .. sent[Other(s)][p]) \ ToSet(received[Other(s)][p]) :
             received' = [received EXCEPT ![Other(s)][p] = Append(@, n)]
    BY <1>2, ReceivePassage
  <2> QED BY <2>1, <2>2, Sides, ChannelReceive
<1> QED BY <1>1, <1>2, PassageStep, ChannelSend

\* The connection implements the lossy channel: across any number of connections,
\* refused handshakes, timeouts, torn writes and restarts, no message of a thread
\* reaches the other node twice, and none that was not sent.
THEOREM ChannelImplemented == Spec => ImplementsChannel
<1>1. Init => Channel!Init
  BY ChannelInit
<1>2. [](TypeInv /\ PassageInv) /\ [][Next]_vars
         => [][Channel!Next]_<<ChannelSent, ChannelReceived>>
  BY ChannelStep, PTL
<1>3. Spec => Channel!Init /\ [][Channel!Next]_<<ChannelSent, ChannelReceived>>
  BY <1>1, <1>2, TypeInvHolds, PassageInvHolds, PTL DEF Spec
<1> QED BY <1>3, PTL DEF ImplementsChannel, Channel!Spec, ChannelSent, ChannelReceived

=============================================================================
