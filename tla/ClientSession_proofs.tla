------------------------ MODULE ClientSession_proofs ------------------------
(***************************************************************************)
(* Proofs about ClientSession: its types, who owns the connections of a    *)
(* server, that requests implement LossyChannel, and that a reply answers  *)
(* a request that was handled.                                             *)
(***************************************************************************)
EXTENDS ClientSession, TLAPS, SequenceTheorems

-----------------------------------------------------------------------------
(* Sequences                                                               *)

LEMMA SequenceTail ==
  ASSUME NEW S, NEW q \in Seq(S), q # << >>
  PROVE  /\ Len(q) \in Nat \ {0} /\ q[1] = Head(q) /\ Head(q) \in S
         /\ Tail(q) \in Seq(S) /\ Len(Tail(q)) = Len(q) - 1
         /\ \A i \in 1 .. Len(q) - 1 : Tail(q)[i] = q[i + 1]
  BY EmptySeq, HeadTailProperties

LEMMA SequenceAppend ==
  ASSUME NEW S, NEW q \in Seq(S), NEW m \in S
  PROVE  /\ Append(q, m) \in Seq(S) /\ Len(q) \in Nat
         /\ Len(Append(q, m)) = Len(q) + 1 /\ Append(q, m)[Len(q) + 1] = m
         /\ \A i \in 1 .. Len(q) : Append(q, m)[i] = q[i]
  BY LenProperties, AppendProperties

\* A sequence with the elements of another set is one over that set.
LEMMA SequenceOver ==
  ASSUME NEW S, NEW T, NEW q \in Seq(S), \A i \in 1 .. Len(q) : q[i] \in T
  PROVE  q \in Seq(T)
<1>1. Len(q) \in Nat /\ DOMAIN q = 1 .. Len(q)
  BY LenProperties
<1>2. SubSeq(q, 1, Len(q)) \in Seq(T)
  BY <1>1, SubSeqProperties
<1> QED BY <1>2, SubSeqFull

-----------------------------------------------------------------------------
(* Connections                                                             *)

End == {"client", "server"}

Frame == Hello \cup Request

Wire == [open : SUBSET End, to_server : Seq(Frame), to_client : Seq(Reply)]

Net == [Conn -> Wire]

LEMMA FramesApart == Hello \cap Request = {}
  BY DEF Hello, Request

LEMMA UnusedWire == Unused \in Wire
<1>1. << >> \in Seq(Frame) /\ << >> \in Seq(Reply)
  BY EmptySeq
<1> QED BY <1>1 DEF Unused, Wire

\* What closing does to the connections.
ServersClosed(net, ks) == Closed(net, "server", ks)

ClientsClosed(net, k) == Closed(net, "client", {k})

LEMMA ServersClosedNet ==
  ASSUME NEW net \in Net, NEW ks
  PROVE  ServersClosed(net, ks) \in Net
<1> DEFINE w(k) == [open |-> net[k].open \ {"server"}, to_server |-> << >>,
                    to_client |-> net[k].to_client]
<1>1. << >> \in Seq(Frame)
  BY EmptySeq
<1>2. \A k \in Conn : net[k] \in Wire /\ w(k) \in Wire
  BY <1>1 DEF Wire, Net
<1>3. ServersClosed(net, ks) =
        [k \in Conn |-> IF k \notin ks THEN net[k]
                        ELSE IF net[k].open \subseteq {"server"} THEN Unused ELSE w(k)]
  BY DEF ServersClosed, Closed
<1> HIDE DEF w
<1> QED BY <1>2, <1>3, UnusedWire DEF Net

LEMMA ServersClosedAt ==
  ASSUME NEW net \in Net, NEW ks, NEW k \in Conn
  PROVE  /\ "server" \in ServersClosed(net, ks)[k].open <=> "server" \in net[k].open /\ k \notin ks
         /\ "client" \in ServersClosed(net, ks)[k].open <=> "client" \in net[k].open
         /\ k \notin ks => ServersClosed(net, ks)[k] = net[k]
         /\ k \in ks => ServersClosed(net, ks)[k].to_server = << >>
         /\ ServersClosed(net, ks)[k].to_client \in {net[k].to_client, << >>}
<1> DEFINE w == [open |-> net[k].open \ {"server"}, to_server |-> << >>,
                 to_client |-> net[k].to_client]
<1>1. ServersClosed(net, ks)[k] = IF k \notin ks THEN net[k]
                                  ELSE IF net[k].open \subseteq {"server"} THEN Unused ELSE w
  BY DEF ServersClosed, Closed
<1>2. /\ w.open = net[k].open \ {"server"} /\ w.to_server = << >>
      /\ w.to_client = net[k].to_client
      /\ Unused.open = {} /\ Unused.to_server = << >> /\ Unused.to_client = << >>
  BY DEF Unused
<1> HIDE DEF w
<1>3. CASE k \notin ks
  BY <1>1, <1>3
<1>4. CASE k \in ks /\ net[k].open \subseteq {"server"}
  <2>1. ServersClosed(net, ks)[k] = Unused /\ "client" \notin net[k].open
    BY <1>1, <1>4
  <2> QED BY <1>2, <1>4, <2>1
<1>5. CASE k \in ks /\ ~(net[k].open \subseteq {"server"})
  <2>1. ServersClosed(net, ks)[k] = w
    BY <1>1, <1>5
  <2> QED BY <1>2, <1>5, <2>1
<1> QED BY <1>3, <1>4, <1>5

LEMMA ClientsClosedNet ==
  ASSUME NEW net \in Net, NEW k
  PROVE  ClientsClosed(net, k) \in Net
<1> DEFINE w(l) == [open |-> net[l].open \ {"client"}, to_server |-> net[l].to_server,
                    to_client |-> << >>]
<1>1. << >> \in Seq(Reply)
  BY EmptySeq
<1>2. \A l \in Conn : net[l] \in Wire /\ w(l) \in Wire
  BY <1>1 DEF Wire, Net
<1>3. ClientsClosed(net, k) =
        [l \in Conn |-> IF l # k THEN net[l]
                        ELSE IF net[l].open \subseteq {"client"} THEN Unused ELSE w(l)]
  BY DEF ClientsClosed, Closed
<1> HIDE DEF w
<1> QED BY <1>2, <1>3, UnusedWire DEF Net

LEMMA ClientsClosedAt ==
  ASSUME NEW net \in Net, NEW k, NEW l \in Conn
  PROVE  /\ "server" \in ClientsClosed(net, k)[l].open <=> "server" \in net[l].open
         /\ "client" \in ClientsClosed(net, k)[l].open <=> "client" \in net[l].open /\ l # k
         /\ l # k => ClientsClosed(net, k)[l] = net[l]
         /\ ClientsClosed(net, k)[l].to_server \in {net[l].to_server, << >>}
         /\ "server" \in net[l].open => ClientsClosed(net, k)[l].to_server = net[l].to_server
         /\ ClientsClosed(net, k)[l].to_client \in {net[l].to_client, << >>}
         /\ l = k => ClientsClosed(net, k)[l].to_client = << >>
<1> DEFINE w == [open |-> net[l].open \ {"client"}, to_server |-> net[l].to_server,
                 to_client |-> << >>]
<1>1. ClientsClosed(net, k)[l] = IF l # k THEN net[l]
                                 ELSE IF net[l].open \subseteq {"client"} THEN Unused ELSE w
  BY DEF ClientsClosed, Closed
<1>2. /\ w.open = net[l].open \ {"client"} /\ w.to_server = net[l].to_server
      /\ w.to_client = << >>
      /\ Unused.open = {} /\ Unused.to_server = << >> /\ Unused.to_client = << >>
  BY DEF Unused
<1> HIDE DEF w
<1>3. CASE l # k
  BY <1>1, <1>3
<1>4. CASE l = k /\ net[l].open \subseteq {"client"}
  <2>1. ClientsClosed(net, k)[l] = Unused /\ "server" \notin net[l].open
    BY <1>1, <1>4
  <2> QED BY <1>2, <1>4, <2>1
<1>5. CASE l = k /\ ~(net[l].open \subseteq {"client"})
  <2>1. ClientsClosed(net, k)[l] = w
    BY <1>1, <1>5
  <2> QED BY <1>2, <1>5, <2>1
<1> QED BY <1>3, <1>4, <1>5

\* What writing and reading do to them.
SetToServer(net, k, q) == [net EXCEPT ![k].to_server = q]

SetToClient(net, k, q) == [net EXCEPT ![k].to_client = q]

LEMMA SetServerNet ==
  ASSUME NEW net \in Net, NEW k \in Conn, NEW q \in Seq(Frame),
         NEW net2, net2 = SetToServer(net, k, q)
  PROVE  /\ net2 \in Net
         /\ \A l \in Conn : /\ net2[l].open = net[l].open
                            /\ net2[l].to_client = net[l].to_client
                            /\ net2[l].to_server = IF l = k THEN q ELSE net[l].to_server
  BY DEF SetToServer, Wire, Net

LEMMA SetClientNet ==
  ASSUME NEW net \in Net, NEW k \in Conn, NEW q \in Seq(Reply),
         NEW net2, net2 = SetToClient(net, k, q)
  PROVE  /\ net2 \in Net
         /\ \A l \in Conn : /\ net2[l].open = net[l].open
                            /\ net2[l].to_server = net[l].to_server
                            /\ net2[l].to_client = IF l = k THEN q ELSE net[l].to_client
  BY DEF SetToClient, Wire, Net

-----------------------------------------------------------------------------
(* Owners                                                                  *)

NetTypes ==
    /\ stream      \in [Client -> Conn \cup {None}]
    /\ backlog     \in [Server -> SUBSET Conn]
    /\ handshaking \in [Server -> SUBSET Conn]
    /\ sessions    \in [Server -> [Server -> Conn \cup {None}]]
    /\ tcp         \in Net

\* k is not accepted or has not shaken hands.
Waits(k) == \E s \in Server : k \in backlog[s] \cup handshaking[s]

\* A connection is in one place.
OwnersApart ==
    \A k \in Conn, s \in Server, t \in Server :
        /\ k \in backlog[s] /\ k \in backlog[t] => s = t
        /\ k \in handshaking[s] /\ k \in handshaking[t] => s = t
        /\ ~(k \in backlog[s] /\ k \in handshaking[t])
        /\ \A i, j \in Server : sessions[s][i] = k /\ sessions[t][j] = k => s = t /\ i = j
        /\ \A i \in Server : sessions[s][i] = k => k \notin backlog[t] \cup handshaking[t]

\* The servers' descriptors.
Opened == \A k \in Conn : "server" \in tcp[k].open <=> Waits(k) \/ HasSession(k)

\* The clients' descriptors.
StreamsOpen ==
    \A c \in Client :
        stream[c] # None =>
            /\ "client" \in tcp[stream[c]].open
            /\ \A d \in Client : stream[d] = stream[c] => d = c

\* What is written to a connection begins with the handshake...
Greeted(q) == q # << >> => q[1] \in Hello /\ \A i \in 2 .. Len(q) : q[i] \in Request

\* ...which stays there until the server reads it.
Greetings ==
    \A k \in Conn :
        /\ Waits(k) => /\ Greeted(tcp[k].to_server)
                       /\ "client" \in tcp[k].open => tcp[k].to_server # << >>
        /\ ~Waits(k) => tcp[k].to_server \in Seq(Request)

\* Inductive, given the types of what is written.
OwnInv == NetTypes /\ OwnersApart /\ Opened /\ StreamsOpen /\ Greetings

netVars == <<stream, backlog, handshaking, sessions, tcp>>

LEMMA FrameSequences ==
  /\ Greeted(<< >>) /\ << >> \in Seq(Request) /\ << >> \in Seq(Frame)
  /\ \A h \in Hello : <<h>> \in Seq(Frame) /\ Greeted(<<h>>) /\ <<h>> # << >>
  /\ \A q \in Seq(Request) :
       /\ q \in Seq(Frame)
       /\ \A r \in Request : Append(q, r) \in Seq(Request)
       /\ q # << >> => Head(q) \in Request /\ Tail(q) \in Seq(Request)
  /\ \A q \in Seq(Frame) :
       /\ \A r \in Request : /\ Append(q, r) \in Seq(Frame) /\ Append(q, r) # << >>
                             /\ Greeted(q) /\ q # << >> => Greeted(Append(q, r))
       /\ Greeted(q) /\ q # << >> => Head(q) \in Hello /\ Tail(q) \in Seq(Request)
<1>1. Greeted(<< >>) /\ << >> \in Seq(Request) /\ << >> \in Seq(Frame)
  BY EmptySeq DEF Greeted
<1>2. ASSUME NEW h \in Hello
      PROVE  <<h>> \in Seq(Frame) /\ Greeted(<<h>>) /\ <<h>> # << >>
  BY DEF Frame, Greeted
<1>3. ASSUME NEW q \in Seq(Request)
      PROVE  /\ q \in Seq(Frame)
             /\ \A r \in Request : Append(q, r) \in Seq(Request)
             /\ q # << >> => Head(q) \in Request /\ Tail(q) \in Seq(Request)
  <2>1. q \in Seq(Frame)
    BY SeqMonotonic DEF Frame
  <2> QED BY <2>1, SequenceTail, SequenceAppend
<1>4. ASSUME NEW q \in Seq(Frame), NEW r \in Request
      PROVE  /\ Append(q, r) \in Seq(Frame) /\ Append(q, r) # << >>
             /\ Greeted(q) /\ q # << >> => Greeted(Append(q, r))
  <2>1. r \in Frame
    BY DEF Frame
  <2>2. /\ Append(q, r) \in Seq(Frame) /\ Len(q) \in Nat
        /\ Len(Append(q, r)) = Len(q) + 1 /\ Append(q, r)[Len(q) + 1] = r
        /\ \A i \in 1 .. Len(q) : Append(q, r)[i] = q[i]
    BY <2>1, SequenceAppend
  <2>3. q # << >> => Len(q) # 0
    BY EmptySeq
  <2>4. Append(q, r) # << >>
    BY <2>2, EmptySeq
  <2> QED BY <2>2, <2>3, <2>4 DEF Greeted
<1>5. ASSUME NEW q \in Seq(Frame), Greeted(q), q # << >>
      PROVE  Head(q) \in Hello /\ Tail(q) \in Seq(Request)
  <2>1. /\ Len(q) \in Nat \ {0} /\ q[1] = Head(q)
        /\ Tail(q) \in Seq(Frame) /\ Len(Tail(q)) = Len(q) - 1
        /\ \A i \in 1 .. Len(q) - 1 : Tail(q)[i] = q[i + 1]
    BY <1>5, SequenceTail
  <2>2. \A i \in 1 .. Len(Tail(q)) : Tail(q)[i] \in Request
    BY <1>5, <2>1 DEF Greeted
  <2>3. Tail(q) \in Seq(Request)
    BY <2>1, <2>2, SequenceOver
  <2> QED BY <1>5, <2>1, <2>3 DEF Greeted
<1> QED BY <1>1, <1>2, <1>3, <1>4, <1>5

LEMMA OwnInvInit == Init => OwnInv
<1> SUFFICES ASSUME Init PROVE OwnInv
  OBVIOUS
<1>1. \A k \in Conn : tcp[k] = Unused /\ tcp[k].open = {} /\ tcp[k].to_server = << >>
  BY DEF Init, Unused
<1>2. NetTypes /\ OwnersApart /\ StreamsOpen
  BY SessionAssumption, UnusedWire DEF Init, Net, NetTypes, OwnersApart, StreamsOpen
<1>3. Opened
  BY <1>1, SessionAssumption DEF Init, Opened, Waits, HasSession
<1>4. Greetings
  BY <1>1, FrameSequences DEF Init, Greetings, Waits
<1> QED BY <1>2, <1>3, <1>4 DEF OwnInv

LEMMA OwnInvSame == OwnInv /\ UNCHANGED netVars => OwnInv'
  BY DEF netVars, OwnInv, NetTypes, OwnersApart, Opened, StreamsOpen, Greetings, Waits,
     HasSession

\* Writing, reading and resets: the owners stay.
LEMMA OwnersStay ==
  ASSUME OwnInv, tcp' \in Net, UNCHANGED <<stream, backlog, handshaking, sessions>>,
         \A k \in Conn : tcp'[k].open = tcp[k].open,
         \A k \in Conn :
            \/ tcp'[k].to_server = tcp[k].to_server
            \/ "client" \notin tcp[k].open /\ tcp'[k].to_server = << >>
            \/ ~Waits(k) /\ tcp'[k].to_server \in Seq(Request)
            \/ /\ "client" \in tcp[k].open
               /\ \E r \in Request : tcp'[k].to_server = Append(tcp[k].to_server, r)
  PROVE  OwnInv'
<1>1. NetTypes' /\ OwnersApart'
  BY DEF OwnInv, NetTypes, OwnersApart
<1>2. \A k \in Conn : (Waits(k)' <=> Waits(k)) /\ (HasSession(k)' <=> HasSession(k))
  BY DEF Waits, HasSession
<1>3. Opened'
  BY <1>2 DEF OwnInv, Opened
<1>4. StreamsOpen'
  BY DEF OwnInv, NetTypes, StreamsOpen
<1>5. ASSUME NEW k \in Conn
      PROVE  /\ Waits(k) => /\ Greeted(tcp'[k].to_server)
                            /\ "client" \in tcp'[k].open => tcp'[k].to_server # << >>
             /\ ~Waits(k) => tcp'[k].to_server \in Seq(Request)
  <2>1. tcp[k].to_server \in Seq(Frame) /\ tcp'[k].open = tcp[k].open
    BY DEF OwnInv, NetTypes, Net, Wire
  <2>2. /\ Waits(k) => /\ Greeted(tcp[k].to_server)
                       /\ "client" \in tcp[k].open => tcp[k].to_server # << >>
        /\ ~Waits(k) => tcp[k].to_server \in Seq(Request)
    BY DEF OwnInv, Greetings
  <2>3. CASE tcp'[k].to_server = tcp[k].to_server
    BY <2>1, <2>2, <2>3
  <2>4. CASE "client" \notin tcp[k].open /\ tcp'[k].to_server = << >>
    BY <2>1, <2>4, FrameSequences
  <2>5. CASE ~Waits(k) /\ tcp'[k].to_server \in Seq(Request)
    BY <2>5
  <2>6. CASE /\ "client" \in tcp[k].open
             /\ \E r \in Request : tcp'[k].to_server = Append(tcp[k].to_server, r)
    BY <2>1, <2>2, <2>6, FrameSequences
  <2> QED BY <2>3, <2>4, <2>5, <2>6
<1>6. Greetings'
  BY <1>2, <1>5 DEF Greetings
<1> QED BY <1>1, <1>3, <1>4, <1>6 DEF OwnInv

\* A server closes the connections of ks, and whoever owned one gives it up.
LEMMA ServerCloses ==
  ASSUME OwnInv, NEW ks \in SUBSET Conn, tcp' = Closed(tcp, "server", ks), stream' = stream,
         backlog' \in [Server -> SUBSET Conn], handshaking' \in [Server -> SUBSET Conn],
         sessions' \in [Server -> [Server -> Conn \cup {None}]],
         \A s \in Server : /\ backlog'[s] = backlog[s] \ ks
                           /\ handshaking'[s] = handshaking[s] \ ks
                           /\ \A i \in Server : sessions'[s][i] =
                                 IF sessions[s][i] \in ks THEN None ELSE sessions[s][i]
  PROVE  OwnInv'
<1>1. /\ tcp' \in Net
      /\ \A k \in Conn :
           /\ "server" \in tcp'[k].open <=> "server" \in tcp[k].open /\ k \notin ks
           /\ "client" \in tcp'[k].open <=> "client" \in tcp[k].open
           /\ k \notin ks => tcp'[k] = tcp[k]
           /\ k \in ks => tcp'[k].to_server = << >>
  <2>1. tcp \in Net /\ tcp' = ServersClosed(tcp, ks)
    BY DEF OwnInv, NetTypes, ServersClosed
  <2> QED BY <2>1, ServersClosedNet, ServersClosedAt
<1>2. NetTypes'
  BY <1>1 DEF OwnInv, NetTypes
<1>3. \A k \in Conn : \A s \in Server :
         /\ k \in backlog'[s] <=> k \in backlog[s] /\ k \notin ks
         /\ k \in handshaking'[s] <=> k \in handshaking[s] /\ k \notin ks
         /\ \A i \in Server : sessions'[s][i] = k <=> sessions[s][i] = k /\ k \notin ks
  BY SessionAssumption DEF OwnInv, NetTypes
<1>4. OwnersApart'
  BY <1>3 DEF OwnInv, OwnersApart
<1>5. \A k \in Conn : /\ Waits(k)' <=> Waits(k) /\ k \notin ks
                      /\ HasSession(k)' <=> HasSession(k) /\ k \notin ks
  BY <1>3 DEF Waits, HasSession
<1>6. Opened'
  BY <1>1, <1>5 DEF OwnInv, Opened
<1>7. StreamsOpen'
  <2>1. \A k \in Conn : "client" \in tcp[k].open => "client" \in tcp'[k].open
    BY <1>1
  <2>2. \A c \in Client : stream[c] # None => stream[c] \in Conn
    BY DEF OwnInv, NetTypes
  <2> QED BY <2>1, <2>2 DEF OwnInv, StreamsOpen
<1>8. Greetings'
  BY <1>1, <1>5, FrameSequences DEF OwnInv, Greetings
<1> QED BY <1>2, <1>4, <1>6, <1>7, <1>8 DEF OwnInv

\* A client closes its connection.
LEMMA ClientLeaves ==
  ASSUME OwnInv, NEW c \in Client, stream' = [stream EXCEPT ![c] = None],
         tcp' = Closed(tcp, "client", {stream[c]}), UNCHANGED <<backlog, handshaking, sessions>>
  PROVE  OwnInv'
<1>1. /\ tcp' \in Net
      /\ \A k \in Conn :
           /\ "server" \in tcp'[k].open <=> "server" \in tcp[k].open
           /\ "client" \in tcp'[k].open <=> "client" \in tcp[k].open /\ k # stream[c]
           /\ tcp'[k].to_server \in {tcp[k].to_server, << >>}
           /\ k # stream[c] => tcp'[k] = tcp[k]
           /\ "server" \in tcp[k].open => tcp'[k].to_server = tcp[k].to_server
  <2>1. tcp \in Net /\ tcp' = ClientsClosed(tcp, stream[c])
    BY DEF OwnInv, NetTypes, ClientsClosed
  <2> DEFINE old == stream[c]
             net == ClientsClosed(tcp, old)
  <2> HIDE DEF old
  <2>2. net \in Net
    BY <2>1, ClientsClosedNet
  <2>3. \A k \in Conn :
           /\ "server" \in net[k].open <=> "server" \in tcp[k].open
           /\ "client" \in net[k].open <=> "client" \in tcp[k].open /\ k # old
           /\ net[k].to_server \in {tcp[k].to_server, << >>}
           /\ k # old => net[k] = tcp[k]
           /\ "server" \in tcp[k].open => net[k].to_server = tcp[k].to_server
    BY <2>1, ClientsClosedAt
  <2> QED BY <2>1, <2>2, <2>3 DEF old
<1>2. NetTypes' /\ OwnersApart'
  <2>1. NetTypes'
    BY <1>1 DEF OwnInv, NetTypes
  <2>2. OwnersApart'
    BY DEF OwnInv, OwnersApart
  <2> QED BY <2>1, <2>2
<1>3. \A k \in Conn : (Waits(k)' <=> Waits(k)) /\ (HasSession(k)' <=> HasSession(k))
  BY DEF Waits, HasSession
<1>4. Opened'
  BY <1>1, <1>3 DEF OwnInv, Opened
<1>5. StreamsOpen'
  <2>1. \A d \in Client : stream'[d] = IF d = c THEN None ELSE stream[d]
    BY DEF OwnInv, NetTypes
  <2>2. \A d \in Client : stream[d] # None => stream[d] \in Conn
    BY DEF OwnInv, NetTypes
  <2>3. ASSUME NEW d \in Client, stream'[d] # None
        PROVE  /\ "client" \in tcp'[stream'[d]].open
               /\ \A e \in Client : stream'[e] = stream'[d] => e = d
    <3>1. d # c /\ stream'[d] = stream[d] /\ stream[d] # None /\ stream[d] \in Conn
      BY <2>1, <2>2, <2>3
    <3>2. /\ "client" \in tcp[stream[d]].open
          /\ \A e \in Client : stream[e] = stream[d] => e = d
      BY <3>1 DEF OwnInv, StreamsOpen
    <3>3. stream[d] # stream[c]
      BY <3>1, <3>2
    <3>4. tcp'[stream[d]] = tcp[stream[d]]
      BY <1>1, <3>1, <3>3
    <3>5. \A e \in Client : stream'[e] = stream[d] => e = d
      BY <2>1, <3>1, <3>2
    <3> QED BY <3>1, <3>2, <3>4, <3>5
  <2> QED BY <2>3 DEF StreamsOpen
<1>6. Greetings'
  <2>1. Greeted(<< >>) /\ << >> \in Seq(Request)
    BY FrameSequences
  <2>2. ASSUME NEW k \in Conn
        PROVE  /\ Waits(k)' => /\ Greeted(tcp'[k].to_server)
                               /\ "client" \in tcp'[k].open => tcp'[k].to_server # << >>
               /\ ~Waits(k)' => tcp'[k].to_server \in Seq(Request)
    <3>1. CASE Waits(k)
      <4>1. "server" \in tcp[k].open
        BY <3>1 DEF OwnInv, Opened
      <4>2. /\ Greeted(tcp[k].to_server)
            /\ "client" \in tcp[k].open => tcp[k].to_server # << >>
        BY <3>1 DEF OwnInv, Greetings
      <4> QED BY <1>1, <1>3, <3>1, <4>1, <4>2
    <3>2. CASE ~Waits(k)
      <4>1. tcp[k].to_server \in Seq(Request)
        BY <3>2 DEF OwnInv, Greetings
      <4> QED BY <1>1, <1>3, <2>1, <3>2, <4>1, ZenonT(30)
    <3> QED BY <3>1, <3>2
  <2> QED BY <2>2 DEF Greetings
<1> QED BY <1>2, <1>4, <1>5, <1>6 DEF OwnInv

\* A client connects and leaves the connection it had.
LEMMA ClientConnects ==
  ASSUME OwnInv, NEW c \in Client, NEW s \in Server, connect_to_server(c, s),
         UNCHANGED <<handshaking, sessions>>
  PROVE  OwnInv'
<1> DEFINE net == Closed(tcp, "client", {stream[c]})
<1>1. CASE ~up[s] /\ stream' = [stream EXCEPT ![c] = None] /\ tcp' = net
           /\ UNCHANGED <<backlog, connects>>
  BY <1>1, ClientLeaves
<1>2. ASSUME NEW k \in Conn, tcp[k].open = {}, stream' = [stream EXCEPT ![c] = k],
             backlog' = [backlog EXCEPT ![s] = @ \cup {k}],
             tcp' = [net EXCEPT ![k] = [open |-> {"client", "server"},
                                        to_server |-> <<[hello |-> s]>>,
                                        to_client |-> << >>]]
      PROVE  OwnInv'
  <2>1. /\ net \in Net
        /\ \A l \in Conn :
             /\ "server" \in net[l].open <=> "server" \in tcp[l].open
             /\ "client" \in net[l].open <=> "client" \in tcp[l].open /\ l # stream[c]
             /\ net[l].to_server \in {tcp[l].to_server, << >>}
             /\ l # stream[c] => net[l] = tcp[l]
             /\ "server" \in tcp[l].open => net[l].to_server = tcp[l].to_server
    <3>1. tcp \in Net /\ net = ClientsClosed(tcp, stream[c])
      BY DEF OwnInv, NetTypes, ClientsClosed
    <3> HIDE DEF net
    <3> QED BY <3>1, ClientsClosedNet, ClientsClosedAt
  <2> DEFINE q == <<[hello |-> s]>>
             w == [open |-> {"client", "server"}, to_server |-> q, to_client |-> << >>]
  <2>2. q \in Seq(Frame) /\ Greeted(q) /\ q # << >>
    BY FrameSequences DEF Hello
  <2>3. w \in Wire /\ w.open = {"client", "server"} /\ w.to_server = q
    BY <2>2, EmptySeq DEF Wire, End
  <2> HIDE DEF net, q, w
  <2>4. tcp' \in Net /\ tcp'[k] = w /\ \A l \in Conn : l # k => tcp'[l] = net[l]
    BY <1>2, <2>1, <2>3 DEF w, q, Net
  <2>5. /\ k # stream[c] /\ ~Waits(k) /\ ~HasSession(k)
        /\ \A d \in Client : stream[d] # k
    BY <1>2, SessionAssumption DEF OwnInv, NetTypes, Opened, StreamsOpen
  <2>6. NetTypes'
    BY <1>2, <2>4 DEF OwnInv, NetTypes
  <2>7. \A t \in Server : backlog'[t] = IF t = s THEN backlog[t] \cup {k} ELSE backlog[t]
    BY <1>2 DEF OwnInv, NetTypes
  <2>8. \A l \in Conn : /\ Waits(l)' <=> Waits(l) \/ l = k
                        /\ HasSession(l)' <=> HasSession(l)
    BY <2>7 DEF Waits, HasSession
  <2>9. OwnersApart'
    <3>1. \A t, i \in Server : k \notin backlog[t] \cup handshaking[t] /\ sessions[t][i] # k
      BY <2>5 DEF Waits, HasSession
    <3>2. \A l \in Conn, t \in Server : l \in backlog'[t] => l \in backlog[t] \/ (l = k /\ t = s)
      BY <2>7
    <3> QED BY <3>1, <3>2 DEF OwnInv, OwnersApart
  <2>10. Opened'
    <3>1. \A l \in Conn : "server" \in tcp'[l].open <=> "server" \in tcp[l].open \/ l = k
      BY <2>1, <2>3, <2>4
    <3> QED BY <2>8, <3>1 DEF OwnInv, Opened
  <2>11. StreamsOpen'
    <3>1. \A d \in Client : stream'[d] = IF d = c THEN k ELSE stream[d]
      BY <1>2 DEF OwnInv, NetTypes
    <3>2. \A d \in Client : stream[d] # None => stream[d] \in Conn
      BY DEF OwnInv, NetTypes
    <3>3. \A d \in Client : d # c /\ stream[d] # None =>
             stream[d] # stream[c] /\ tcp'[stream[d]] = tcp[stream[d]]
      BY <2>1, <2>4, <2>5, <3>2 DEF OwnInv, StreamsOpen
    <3>4. "client" \in tcp'[k].open
      BY <2>3, <2>4
    <3> QED BY <2>5, <3>1, <3>3, <3>4 DEF OwnInv, StreamsOpen
  <2>12. Greetings'
    <3>1. ASSUME NEW l \in Conn, l # k
          PROVE  /\ Waits(l) => /\ Greeted(net[l].to_server)
                                /\ "client" \in net[l].open => net[l].to_server # << >>
                 /\ ~Waits(l) => net[l].to_server \in Seq(Request)
      <4>1. Waits(l) => "server" \in tcp[l].open
        BY DEF OwnInv, Opened
      <4> QED BY <2>1, <4>1, FrameSequences DEF OwnInv, Greetings
    <3> QED BY <2>2, <2>3, <2>4, <2>8, <3>1 DEF Greetings
  <2> QED BY <2>6, <2>9, <2>10, <2>11, <2>12 DEF OwnInv
<1> QED BY <1>1, <1>2 DEF connect_to_server

LEMMA AcceptOwners ==
  ASSUME OwnInv, NEW s \in Server, NEW k \in Conn, accept_cb(s, k)
  PROVE  OwnInv'
<1>1. /\ k \in backlog[s]
      /\ backlog' = [backlog EXCEPT ![s] = @ \ {k}]
      /\ handshaking' = [handshaking EXCEPT ![s] = @ \cup {k}]
      /\ UNCHANGED <<stream, sessions, tcp>>
  BY DEF accept_cb, clientVars
<1>2. \A t \in Server, l \in Conn :
         /\ l \in backlog'[t] <=> l \in backlog[t] /\ ~(t = s /\ l = k)
         /\ l \in handshaking'[t] <=> l \in handshaking[t] \/ (t = s /\ l = k)
  BY <1>1 DEF OwnInv, NetTypes
<1>3. NetTypes'
  BY <1>1 DEF OwnInv, NetTypes
<1>4. OwnersApart'
  BY <1>1, <1>2 DEF OwnInv, OwnersApart
<1>5. \A l \in Conn : (Waits(l)' <=> Waits(l)) /\ (HasSession(l)' <=> HasSession(l))
  BY <1>1, <1>2 DEF Waits, HasSession
<1> QED BY <1>1, <1>3, <1>4, <1>5 DEF OwnInv, Opened, StreamsOpen, Greetings

\* A handshake that failed, was refused or took too long.
LEMMA HandshakeCloses ==
  ASSUME OwnInv, NEW s \in Server, NEW k \in handshaking[s],
         handshaking' = [handshaking EXCEPT ![s] = @ \ {k}],
         tcp' = Closed(tcp, "server", {k}), UNCHANGED <<stream, backlog, sessions>>
  PROVE  OwnInv'
<1>1. /\ NetTypes /\ OwnersApart /\ k \in Conn
      /\ \A l : l \in {k} <=> l = k
  BY DEF OwnInv, NetTypes
<1>2. \A t \in Server : /\ k \notin backlog[t] /\ (t # s => k \notin handshaking[t])
                        /\ \A i \in Server : sessions[t][i] # k
  BY <1>1 DEF OwnersApart
<1> DEFINE ks == {k}
<1>3. ks \in SUBSET Conn /\ tcp' = Closed(tcp, "server", ks)
  BY <1>1
<1>4. /\ backlog' \in [Server -> SUBSET Conn] /\ handshaking' \in [Server -> SUBSET Conn]
      /\ sessions' \in [Server -> [Server -> Conn \cup {None}]]
  BY <1>1 DEF NetTypes
<1>5. \A t \in Server : /\ backlog'[t] = backlog[t] \ ks
                        /\ handshaking'[t] = handshaking[t] \ ks
                        /\ \A i \in Server : sessions'[t][i] =
                              IF sessions[t][i] \in ks THEN None ELSE sessions[t][i]
  BY <1>1, <1>2 DEF NetTypes
<1> HIDE DEF ks
<1> QED BY <1>3, <1>4, <1>5, ServerCloses

\* The first session with a key.
LEMMA HandshakeAdds ==
  ASSUME OwnInv, NEW s \in Server, NEW k \in handshaking[s], NEW id \in Server,
         handshaking' = [handshaking EXCEPT ![s] = @ \ {k}],
         sessions[s][id] = None, sessions' = [sessions EXCEPT ![s][id] = k],
         tcp[k].to_server # << >>, tcp' = SetToServer(tcp, k, Tail(tcp[k].to_server)),
         UNCHANGED <<stream, backlog>>
  PROVE  OwnInv'
<1>1. k \in Conn /\ NetTypes /\ tcp[k].to_server \in Seq(Frame)
  <2>1. NetTypes /\ handshaking \in [Server -> SUBSET Conn] /\ tcp \in Net
    BY DEF OwnInv, NetTypes
  <2>2. k \in Conn
    BY <2>1
  <2> QED BY <2>1, <2>2 DEF Net, Wire
<1>2. Waits(k) /\ Greeted(tcp[k].to_server)
  BY <1>1 DEF OwnInv, Greetings, Waits
<1> DEFINE q == Tail(tcp[k].to_server)
<1>3. q \in Seq(Request) /\ q \in Seq(Frame)
  BY <1>1, <1>2, FrameSequences
<1>4. tcp' = SetToServer(tcp, k, q) /\ tcp \in Net
  BY <1>1 DEF NetTypes
<1> HIDE DEF q
<1>5. /\ tcp' \in Net
      /\ \A l \in Conn :
           /\ tcp'[l].open = tcp[l].open
           /\ tcp'[l].to_server = IF l = k THEN q ELSE tcp[l].to_server
  BY <1>1, <1>3, <1>4, SetServerNet, SMTT(20)
<1>6. NetTypes'
  BY <1>1, <1>5 DEF NetTypes
<1>7. \A l \in Conn, t \in Server :
         /\ l \in handshaking'[t] <=> l \in handshaking[t] /\ ~(t = s /\ l = k)
         /\ \A i \in Server :
              sessions'[t][i] = l <=> sessions[t][i] = l \/ (t = s /\ i = id /\ l = k)
  BY <1>1, SessionAssumption DEF NetTypes
<1>8. OwnersApart'
  BY <1>1, <1>7 DEF OwnInv, OwnersApart
<1>9. \A t \in Server : k \notin backlog[t] /\ (k \in handshaking[t] => t = s)
  BY <1>1 DEF OwnInv, OwnersApart
<1>10. \A l \in Conn : /\ Waits(l)' <=> Waits(l) /\ l # k
                       /\ HasSession(l)' <=> HasSession(l) \/ l = k
  BY <1>7, <1>9 DEF Waits, HasSession
<1>11. Opened'
  BY <1>2, <1>5, <1>10 DEF OwnInv, Opened
<1>12. StreamsOpen'
  BY <1>5 DEF OwnInv, NetTypes, StreamsOpen
<1>13. Greetings'
  BY <1>3, <1>5, <1>10 DEF OwnInv, Greetings
<1> QED BY <1>6, <1>8, <1>11, <1>12, <1>13 DEF OwnInv

LEMMA HandshakeOwners ==
  ASSUME OwnInv, NEW s \in Server, NEW k \in Conn, handshake_cb(s, k)
  PROVE  OwnInv'
<1>1. /\ k \in handshaking[s]
      /\ handshaking' = [handshaking EXCEPT ![s] = @ \ {k}]
      /\ UNCHANGED <<stream, backlog>>
  BY DEF handshake_cb, clientVars
<1>2. CASE tcp[k].to_server = << >>
  BY <1>1, <1>2, HandshakeCloses DEF handshake_cb
<1>3. CASE tcp[k].to_server # << >>
  <2> DEFINE id == Head(tcp[k].to_server).hello
  <2>1. add_client(s, id, k)
    BY <1>3 DEF handshake_cb
  <2>2. tcp[k].to_server \in Seq(Frame) /\ Waits(k)
    BY <1>1 DEF OwnInv, NetTypes, Net, Wire, Waits
  <2>3. Head(tcp[k].to_server) \in Hello
    BY <1>3, <2>2, FrameSequences DEF OwnInv, Greetings
  <2>4. id \in Server
    BY <2>3 DEF Hello
  <2> HIDE DEF id
  <2> QED BY <1>1, <1>3, <2>1, <2>4, HandshakeCloses, HandshakeAdds
      DEF add_client, SetToServer
<1> QED BY <1>2, <1>3

LEMMA TimeoutOwners ==
  ASSUME OwnInv, NEW s \in Server, NEW k \in Conn, handle_handshake_timeout(s, k)
  PROVE  OwnInv'
  BY HandshakeCloses DEF handle_handshake_timeout, clientVars

\* The connection a server reads from in client_cb.
LEMMA SessionRequests ==
  ASSUME OwnInv, NEW s \in Server, NEW id \in Server, sessions[s][id] # None
  PROVE  /\ sessions[s][id] \in Conn /\ ~Waits(sessions[s][id])
         /\ tcp[sessions[s][id]].to_server \in Seq(Request)
<1>1. sessions[s][id] \in Conn
  BY DEF OwnInv, NetTypes
<1>2. ~Waits(sessions[s][id])
  BY <1>1 DEF OwnInv, OwnersApart, Waits
<1> QED BY <1>1, <1>2 DEF OwnInv, Greetings

LEMMA ServeOwners ==
  ASSUME OwnInv, NEW s \in Server, NEW w \in ClientData, serve(s, w),
         UNCHANGED <<stream, backlog, handshaking>>
  PROVE  OwnInv'
<1> DEFINE id == w.id
           k == sessions[s][id]
<1>1. id \in Server
  BY DEF ClientData
<1>2. CASE UNCHANGED <<sessions, tcp>>
  BY <1>2, OwnInvSame DEF netVars
<1>3. CASE k # None /\ tcp[k].to_server # << >> /\ read_request(s, w)
  <2>1. k \in Conn /\ ~Waits(k) /\ tcp[k].to_server \in Seq(Request)
    BY <1>1, <1>3, SessionRequests
  <2>2. /\ tcp' = [tcp EXCEPT ![k].to_server = Tail(@)]
        /\ UNCHANGED <<stream, backlog, handshaking, sessions>>
    BY <1>3 DEF read_request
  <2> DEFINE q == Tail(tcp[k].to_server)
  <2>3. q \in Seq(Request) /\ q \in Seq(Frame) /\ tcp' = SetToServer(tcp, k, q)
    BY <1>3, <2>1, <2>2, FrameSequences DEF SetToServer
  <2> HIDE DEF k, q
  <2>4. /\ tcp' \in Net
        /\ \A l \in Conn : /\ tcp'[l].open = tcp[l].open
                           /\ tcp'[l].to_server = IF l = k THEN q ELSE tcp[l].to_server
    BY <2>1, <2>3, SetServerNet DEF OwnInv, NetTypes
  <2> QED BY <2>1, <2>2, <2>3, <2>4, OwnersStay
<1>4. CASE k # None /\ remove_client(s, w)
  <2>1. k \in Conn
    BY <1>1, <1>4, SessionRequests
  <2> DEFINE ks == {k}
  <2>2. /\ sessions' = [sessions EXCEPT ![s][id] = None]
        /\ tcp' = Closed(tcp, "server", ks) /\ ks \in SUBSET Conn
    BY <1>4, <2>1 DEF remove_client
  <2>3. \A t, i \in Server : sessions[t][i] = k => t = s /\ i = id
    BY <1>1, <2>1 DEF OwnInv, OwnersApart
  <2>4. \A t \in Server : k \notin backlog[t] /\ k \notin handshaking[t]
    BY <1>1, <2>1 DEF OwnInv, OwnersApart
  <2>5. \A l : l \in ks <=> l = k
    OBVIOUS
  <2> HIDE DEF id, k, ks
  <2>6. /\ backlog' \in [Server -> SUBSET Conn] /\ handshaking' \in [Server -> SUBSET Conn]
        /\ sessions' \in [Server -> [Server -> Conn \cup {None}]]
    BY <1>1, <2>2 DEF OwnInv, NetTypes
  <2>7. \A t \in Server : backlog'[t] = backlog[t] \ ks /\ handshaking'[t] = handshaking[t] \ ks
    BY <2>4, <2>5 DEF OwnInv, NetTypes
  <2>8. \A t, i \in Server : sessions'[t][i] = IF t = s /\ i = id THEN None ELSE sessions[t][i]
    BY <1>1, <2>2 DEF OwnInv, NetTypes
  <2>9. sessions[s][id] = k
    BY DEF k
  <2>10. \A t, i \in Server :
            sessions'[t][i] = IF sessions[t][i] \in ks THEN None ELSE sessions[t][i]
    BY <2>3, <2>5, <2>8, <2>9
  <2> QED BY <2>2, <2>6, <2>7, <2>10, ServerCloses
<1> QED BY <1>2, <1>3, <1>4 DEF serve

LEMMA ClientOwners ==
  ASSUME OwnInv, NEW c \in Client, requested[c] \in Nat,
         ClientLoop(c) \/ ClientMain(c) \/ Command(c)
  PROVE  OwnInv'
<1>1. CASE UNCHANGED netVars
  BY <1>1, OwnInvSame
<1>2. ASSUME NEW s \in Server, connect_to_server(c, s), UNCHANGED <<handshaking, sessions>>
      PROVE  OwnInv'
  BY <1>2, ClientConnects
<1>3. CASE end_client(c)
  BY <1>3, ClientLeaves DEF end_client, sessionVars
<1>4. ASSUME stream[c] # None, "server" \in tcp[stream[c]].open, UNCHANGED netVars \/
             /\ tcp' = [tcp EXCEPT ![stream[c]].to_server =
                          Append(@, [client |-> c, no |-> requested[c] + 1])]
             /\ UNCHANGED <<stream, backlog, handshaking, sessions>>
      PROVE  OwnInv'
  <2> DEFINE k == stream[c]
             r == [client |-> c, no |-> requested[c] + 1]
             q == Append(tcp[k].to_server, r)
  <2>1. k \in Conn /\ "client" \in tcp[k].open
    BY <1>4 DEF OwnInv, NetTypes, StreamsOpen
  <2>2. r \in Request
    BY DEF Request
  <2>3. tcp[k].to_server \in Seq(Frame)
    BY <2>1 DEF OwnInv, NetTypes, Net, Wire
  <2>4. q \in Seq(Frame)
    BY <2>2, <2>3, FrameSequences
  <2>5. CASE tcp' = SetToServer(tcp, k, q) /\ UNCHANGED <<stream, backlog, handshaking, sessions>>
    <3> HIDE DEF k, r
    <3>1. q = Append(tcp[k].to_server, r)
      OBVIOUS
    <3> HIDE DEF q
    <3>2. /\ tcp' \in Net
          /\ \A l \in Conn : /\ tcp'[l].open = tcp[l].open
                             /\ tcp'[l].to_server = IF l = k THEN q ELSE tcp[l].to_server
      BY <2>1, <2>4, <2>5, SetServerNet DEF OwnInv, NetTypes
    <3> QED BY <2>1, <2>2, <2>5, <3>1, <3>2, OwnersStay
  <2> QED BY <1>1, <1>4, <2>5 DEF SetToServer
<1>5. ASSUME stream[c] # None, tcp[stream[c]].to_client # << >>,
             tcp' = [tcp EXCEPT ![stream[c]].to_client = Tail(@)],
             UNCHANGED <<stream, backlog, handshaking, sessions>>
      PROVE  OwnInv'
  <2> DEFINE k == stream[c]
             q == Tail(tcp[k].to_client)
  <2>1. k \in Conn
    BY <1>5 DEF OwnInv, NetTypes
  <2>2. tcp[k].to_client \in Seq(Reply)
    BY <2>1 DEF OwnInv, NetTypes, Net, Wire
  <2>3. q \in Seq(Reply) /\ tcp' = SetToClient(tcp, k, q)
    BY <1>5, <2>2, SequenceTail DEF SetToClient
  <2> HIDE DEF k, q
  <2>4. /\ tcp' \in Net
        /\ \A l \in Conn : /\ tcp'[l].open = tcp[l].open
                           /\ tcp'[l].to_server = tcp[l].to_server
    BY <2>1, <2>3, SetClientNet DEF OwnInv, NetTypes
  <2> QED BY <1>5, <2>4, OwnersStay
<1>6. CASE ClientMain(c) \/ event_loop(c) \/ read_cb_ended(c) \/ end_event_loop(c) \/ stop(c)
  BY <1>1, <1>6 DEF ClientMain, set_running, stop_returns, event_loop, read_cb_ended,
     end_event_loop, stop, sessionVars, netVars
<1>7. CASE run(c)
  BY <1>2, <1>7, SessionAssumption DEF run, sessionVars
<1>8. CASE quit(c)
  BY <1>3, <1>8 DEF quit
<1>9. CASE put(c)
  <2>1. CASE stream[c] # None /\ "server" \in tcp[stream[c]].open
    BY <1>4, <1>9, <2>1 DEF put, sessionVars
  <2>2. CASE ~(stream[c] # None /\ "server" \in tcp[stream[c]].open)
    BY <1>1, <1>3, <1>9, <2>2 DEF put, sessionVars, netVars
  <2> QED BY <2>1, <2>2
<1>10. CASE read_cb(c)
  <2> DEFINE reply == Head(tcp[stream[c]].to_client)
  <2>1. /\ stream[c] # None /\ tcp[stream[c]].to_client # << >>
        /\ UNCHANGED <<handshaking, sessions>>
    BY <1>10 DEF read_cb, Woken, sessionVars
  <2>2. CASE reply.success
    BY <1>5, <1>10, <2>1, <2>2 DEF read_cb
  <2>3. CASE ~reply.success
    <3>1. connect_to_server(c, reply.leader_hint)
      BY <1>10, <2>3 DEF read_cb
    <3>2. stream[c] \in Conn
      BY <2>1 DEF OwnInv, NetTypes
    <3>3. tcp[stream[c]].to_client \in Seq(Reply)
      BY <3>2 DEF OwnInv, NetTypes, Net, Wire
    <3>4. reply \in Reply
      BY <2>1, <3>3, SequenceTail
    <3>5. reply.leader_hint \in Server
      BY <3>4 DEF Reply
    <3> QED BY <1>2, <2>1, <3>1, <3>5
  <2> QED BY <2>2, <2>3
<1> QED BY <1>6, <1>7, <1>8, <1>9, <1>10 DEF ClientLoop, ClientMain, Command

LEMMA ResetOwners ==
  ASSUME OwnInv, NEW k \in Conn, Reset(k)
  PROVE  OwnInv'
<1> DEFINE q == IF "client" \in tcp[k].open THEN tcp[k].to_server ELSE << >>
           r == IF "server" \in tcp[k].open THEN tcp[k].to_client ELSE << >>
           net == SetToServer(tcp, k, q)
<1>1. tcp[k].to_server \in Seq(Frame) /\ tcp[k].to_client \in Seq(Reply) /\ tcp \in Net
  BY DEF OwnInv, NetTypes, Net, Wire
<1>2. q \in Seq(Frame) /\ r \in Seq(Reply)
  BY <1>1, EmptySeq
<1>3. tcp' = SetToClient(net, k, r)
  BY <1>1 DEF Reset, SetToServer, SetToClient, Net, Wire
<1>4. q = tcp[k].to_server \/ ("client" \notin tcp[k].open /\ q = << >>)
  OBVIOUS
<1> HIDE DEF q, r
<1>5. /\ net \in Net
      /\ \A l \in Conn : /\ net[l].open = tcp[l].open
                         /\ net[l].to_server = IF l = k THEN q ELSE tcp[l].to_server
  BY <1>1, <1>2, SetServerNet DEF net
<1> HIDE DEF net
<1>6. /\ tcp' \in Net
      /\ \A l \in Conn : /\ tcp'[l].open = net[l].open
                         /\ tcp'[l].to_server = net[l].to_server
  BY <1>2, <1>3, <1>5, SetClientNet
<1>7. UNCHANGED <<stream, backlog, handshaking, sessions>>
  BY DEF Reset, clientVars, sessionVars
<1> QED BY <1>4, <1>5, <1>6, <1>7, OwnersStay

LEMMA EndServerOwners ==
  ASSUME OwnInv, NEW s \in Server, end_server(s)
  PROVE  OwnInv'
<1> DEFINE ks == backlog[s] \cup {k \in Conn : Polled(s, k)}
<1>1. /\ backlog'     = [backlog EXCEPT ![s] = {}]
      /\ handshaking' = [handshaking EXCEPT ![s] = {}]
      /\ sessions'    = [sessions EXCEPT ![s] = [id \in Server |-> None]]
      /\ tcp' = Closed(tcp, "server", ks) /\ stream' = stream
  BY DEF end_server, clientVars
<1>2. \A k \in Conn : k \in ks <=> \/ k \in backlog[s] \/ k \in handshaking[s]
                                   \/ \E i \in Server : sessions[s][i] = k
  BY DEF Polled
<1>3. ks \in SUBSET Conn /\ None \notin ks
  BY SessionAssumption DEF OwnInv, NetTypes
<1> HIDE DEF ks
<1>4. /\ backlog' \in [Server -> SUBSET Conn] /\ handshaking' \in [Server -> SUBSET Conn]
      /\ sessions' \in [Server -> [Server -> Conn \cup {None}]]
  BY <1>1 DEF OwnInv, NetTypes
<1>5. ASSUME NEW t \in Server
      PROVE  backlog'[t] = backlog[t] \ ks /\ handshaking'[t] = handshaking[t] \ ks
  <2>1. backlog[t] \subseteq Conn /\ handshaking[t] \subseteq Conn
    BY DEF OwnInv, NetTypes
  <2>2. /\ backlog'[t] = IF t = s THEN {} ELSE backlog[t]
        /\ handshaking'[t] = IF t = s THEN {} ELSE handshaking[t]
    BY <1>1 DEF OwnInv, NetTypes
  <2>3. CASE t = s
    BY <1>2, <2>1, <2>2, <2>3
  <2>4. CASE t # s
    <3>1. \A k \in Conn : k \in ks => k \notin backlog[t] /\ k \notin handshaking[t]
      BY <1>2, <2>4 DEF OwnInv, OwnersApart
    <3> QED BY <2>1, <2>2, <2>4, <3>1
  <2> QED BY <2>3, <2>4
<1>6. ASSUME NEW t \in Server, NEW i \in Server
      PROVE  sessions'[t][i] = IF sessions[t][i] \in ks THEN None ELSE sessions[t][i]
  <2>1. /\ sessions[t][i] \in Conn \cup {None}
        /\ sessions'[t][i] = IF t = s THEN None ELSE sessions[t][i]
    BY <1>1 DEF OwnInv, NetTypes
  <2>2. CASE t = s
    BY <1>2, <2>1, <2>2
  <2>3. CASE t # s
    <3>1. sessions[t][i] \in Conn => sessions[t][i] \notin ks
      BY <1>2, <2>3, SMTT(20) DEF OwnInv, OwnersApart
    <3> QED BY <1>3, <2>1, <2>3, <3>1
  <2> QED BY <2>2, <2>3
<1> QED BY <1>1, <1>3, <1>4, <1>5, <1>6, ServerCloses

NodeTypes ==
    /\ leader      \in Server
    /\ to_raftnode \in [Server -> Seq(Request)]
    /\ accepted    \in [Server -> Seq(Request)]
    /\ sending     \in [Server -> [conn : Conn, reply : Reply] \cup {None}]
    /\ handled     \in [Client -> Seq([server : Server, no : Nat])]

\* What write_reply writes.
LEMMA WrittenNet ==
  ASSUME OwnInv, NodeTypes, NEW s \in Server, sending[s] # None,
         tcp' = Written(sending[s].conn, sending[s].reply)
  PROVE  /\ sending[s].conn \in Conn /\ sending[s].reply \in Reply /\ tcp' \in Net
         /\ \A l \in Conn :
              /\ tcp'[l].open = tcp[l].open
              /\ tcp'[l].to_server = tcp[l].to_server
              /\ tcp'[l].to_client = IF l = sending[s].conn
                                     THEN Append(tcp[l].to_client, sending[s].reply)
                                     ELSE tcp[l].to_client
<1> DEFINE k == sending[s].conn
           reply == sending[s].reply
           q == Append(tcp[k].to_client, reply)
<1>1. k \in Conn /\ reply \in Reply
  BY DEF NodeTypes
<1>2. tcp \in Net /\ tcp[k].to_client \in Seq(Reply)
  BY <1>1 DEF OwnInv, NetTypes, Net, Wire
<1>3. tcp' = SetToClient(tcp, k, q)
  BY DEF Written, SetToClient
<1> HIDE DEF k, reply
<1>4. q \in Seq(Reply)
  BY <1>1, <1>2, SequenceAppend
<1>5. q = Append(tcp[k].to_client, reply)
  OBVIOUS
<1> HIDE DEF q
<1>6. /\ tcp' \in Net
      /\ \A l \in Conn :
           /\ tcp'[l].open = tcp[l].open
           /\ tcp'[l].to_server = tcp[l].to_server
           /\ tcp'[l].to_client = IF l = k THEN q ELSE tcp[l].to_client
  BY <1>1, <1>2, <1>3, <1>4, SetClientNet, SMTT(20)
<1>7. k = sending[s].conn /\ reply = sending[s].reply
  BY DEF k, reply
<1> QED BY <1>1, <1>5, <1>6, <1>7, Zenon

LEMMA WriteOwners ==
  ASSUME OwnInv, NodeTypes, NEW s \in Server, write_reply(s)
  PROVE  OwnInv'
<1>1. CASE end_server(s)
  BY <1>1, EndServerOwners
<1>2. CASE UNCHANGED netVars
  BY <1>2, OwnInvSame
<1>3. ASSUME sending[s] # None, tcp' = Written(sending[s].conn, sending[s].reply),
             UNCHANGED <<stream, backlog, handshaking, sessions>>
      PROVE  OwnInv'
  <2>1. tcp' \in Net /\ \A l \in Conn : /\ tcp'[l].open = tcp[l].open
                                        /\ tcp'[l].to_server = tcp[l].to_server
    BY <1>3, WrittenNet
  <2> QED BY <1>3, <2>1, OwnersStay
<1> QED BY <1>1, <1>2, <1>3 DEF write_reply, clientVars, sessionVars, netVars

NodeOnly(s) == handle_client_request(s) \/ apply_to_state_machine(s)

WatchInv ==
    /\ unregistered \in [Server -> SUBSET Conn]
    /\ client_data  \in [Server -> SUBSET ClientData]
    /\ pending      \in [Server -> SUBSET ClientData]
    /\ reading      \in [Server -> ClientData \cup {None}]

LEMMA OwnInvStep ==
  ASSUME OwnInv, NodeTypes, WatchInv, requested \in [Client -> Nat], [Next]_vars
  PROVE  OwnInv'
<1>1. ASSUME NEW s \in Server, AcceptLoop(s) PROVE OwnInv'
  <2>1. ASSUME NEW w \in client_data[s] \cup pending[s], client_cb(s, w) PROVE OwnInv'
    <3>1. w \in ClientData /\ UNCHANGED <<stream, backlog, handshaking>>
      BY <2>1 DEF WatchInv, client_cb, clientVars
    <3>2. CASE serve(s, w)
      BY <3>1, <3>2, ServeOwners
    <3>3. CASE UNCHANGED <<sessions, tcp>>
      BY <3>1, <3>3, OwnInvSame DEF netVars
    <3> QED BY <2>1, <3>2, <3>3 DEF client_cb
  <2>2. CASE client_cb_resumes(s)
    <3>1. reading[s] \in ClientData /\ UNCHANGED <<stream, backlog, handshaking>>
      BY <2>2 DEF WatchInv, client_cb_resumes, clientVars
    <3> QED BY <2>2, <3>1, ServeOwners DEF client_cb_resumes
  <2>3. ASSUME NEW k \in Conn, fd_kill(s, k) PROVE OwnInv'
    BY <2>3, OwnInvSame DEF fd_kill, clientVars, netVars
  <2> QED BY <1>1, <2>1, <2>2, <2>3, AcceptOwners, HandshakeOwners, TimeoutOwners DEF AcceptLoop
<1>2. ASSUME NEW s \in Server, NodeLoop(s) PROVE OwnInv'
  <2>1. CASE NodeOnly(s)
    BY <2>1, OwnInvSame DEF NodeOnly, handle_client_request, apply_to_state_machine,
       clientVars, sessionVars, netVars
  <2> QED BY <1>2, <2>1, WriteOwners, SMTT(20) DEF NodeLoop, NodeOnly
<1>3. ASSUME NEW c \in Client, ClientLoop(c) \/ ClientMain(c) \/ Command(c) PROVE OwnInv'
  BY <1>3, ClientOwners
<1>4. CASE UNCHANGED vars
  BY <1>4, OwnInvSame DEF vars, clientVars, sessionVars, netVars
<1> QED BY <1>1, <1>2, <1>3, <1>4, ResetOwners DEF Next

-----------------------------------------------------------------------------
(* Types                                                                   *)

ClientTypes ==
    /\ is_running \in [Client -> BOOLEAN]
    /\ main       \in [Client -> {"prompt", "running", "stopping"}]
    /\ pool       \in [Client -> BOOLEAN]
    /\ loop       \in [Client -> {"none", "posted", "looping", "last_round", "breaking"}]
    /\ watched    \in [Client -> Conn \cup {None}]
    /\ requested  \in [Client -> Nat]
    /\ ended      \in [Client -> BOOLEAN]
    /\ up         \in [Server -> BOOLEAN]
    /\ connects   \in Nat
    /\ answers    \in Seq(Reply)

\* Inductive.
TypeInv == OwnInv /\ WatchInv /\ NodeTypes /\ ClientTypes

LEMMA TypeInvInit == Init => TypeInv
<1> SUFFICES ASSUME Init PROVE TypeInv
  OBVIOUS
<1>1. << >> \in Seq(Request) /\ << >> \in Seq([server : Server, no : Nat]) /\ << >> \in Seq(Reply)
  BY EmptySeq
<1>2. WatchInv /\ NodeTypes /\ ClientTypes
  BY <1>1 DEF Init, WatchInv, NodeTypes, ClientTypes
<1> QED BY <1>2, OwnInvInit DEF TypeInv

LEMMA ServeWatch ==
  ASSUME TypeInv, NEW s \in Server, NEW w, serve(s, w), UNCHANGED unregistered,
         pending' \in [Server -> SUBSET ClientData], reading' \in [Server -> ClientData \cup {None}]
  PROVE  WatchInv'
<1>1. \/ UNCHANGED client_data
      \/ client_data' = [client_data EXCEPT ![s] = @ \ {w}]
  BY DEF serve, delete_client_data, read_request
<1> QED BY <1>1 DEF TypeInv, WatchInv

LEMMA ClientCbWatch ==
  ASSUME TypeInv, NEW s \in Server, NEW w \in client_data[s] \cup pending[s], client_cb(s, w)
  PROVE  WatchInv'
<1>1. WatchInv /\ w \in ClientData /\ UNCHANGED unregistered
  BY DEF TypeInv, WatchInv, client_cb
<1>2. pending' \in [Server -> SUBSET ClientData]
  BY <1>1 DEF client_cb, WatchInv, Watchers
<1>3. CASE serve(s, w) /\ UNCHANGED reading
  BY <1>1, <1>2, <1>3, ServeWatch DEF WatchInv
<1>4. CASE reading' = [reading EXCEPT ![s] = w] /\ UNCHANGED client_data
  BY <1>1, <1>2, <1>4 DEF WatchInv
<1> QED BY <1>3, <1>4 DEF client_cb

LEMMA ResumesWatch ==
  ASSUME TypeInv, NEW s \in Server, client_cb_resumes(s)
  PROVE  WatchInv'
<1>1. WatchInv /\ UNCHANGED <<unregistered, pending>> /\ serve(s, reading[s])
  BY DEF TypeInv, client_cb_resumes
<1>2. reading' \in [Server -> ClientData \cup {None}]
  BY <1>1 DEF WatchInv, client_cb_resumes
<1> QED BY <1>1, <1>2, ServeWatch DEF WatchInv

LEMMA HandshakeWatch ==
  ASSUME TypeInv, NEW s \in Server, NEW k \in Conn, handshake_cb(s, k)
  PROVE  WatchInv'
<1>1. /\ WatchInv /\ k \in handshaking[s] /\ reading' = reading
      /\ pending' = [pending EXCEPT ![s] = Watchers(s, k)]
  BY DEF TypeInv, handshake_cb
<1>2. Watchers(s, k) \subseteq client_data[s]
  BY DEF Watchers
<1>3. \/ UNCHANGED unregistered
      \/ unregistered' = [unregistered EXCEPT ![s] = @ \cup {k}]
  BY DEF handshake_cb, add_client
<1>4. CASE client_data' = client_data
  BY <1>1, <1>2, <1>3, <1>4 DEF WatchInv
<1>5. CASE tcp[k].to_server # << >>
  <2> DEFINE w == [conn |-> k, id |-> Head(tcp[k].to_server).hello, age |-> connects]
  <2>1. client_data' = [client_data EXCEPT ![s] = @ \cup {w}]
    BY <1>5 DEF handshake_cb
  <2>2. tcp[k].to_server \in Seq(Frame) /\ Waits(k)
    BY <1>1 DEF TypeInv, OwnInv, NetTypes, Net, Wire, Waits
  <2>3. Head(tcp[k].to_server) \in Hello
    BY <1>5, <2>2, FrameSequences DEF TypeInv, OwnInv, Greetings
  <2>4. w \in ClientData
    BY <2>3 DEF TypeInv, ClientTypes, Hello, ClientData
  <2> HIDE DEF w
  <2> QED BY <1>1, <1>2, <1>3, <2>1, <2>4 DEF WatchInv
<1> QED BY <1>4, <1>5 DEF handshake_cb

LEMMA KillWatch ==
  ASSUME TypeInv, NEW s \in Server, NEW k \in Conn, fd_kill(s, k)
  PROVE  WatchInv'
  BY DEF TypeInv, WatchInv, fd_kill, Watchers

LEMMA EndServerWatch ==
  ASSUME TypeInv, NEW s \in Server, end_server(s)
  PROVE  WatchInv'
  BY DEF TypeInv, WatchInv, end_server

LEMMA WatchInvStep ==
  ASSUME TypeInv, [Next]_vars
  PROVE  WatchInv'
<1>1. CASE UNCHANGED sessionVars
  BY <1>1 DEF TypeInv, WatchInv, sessionVars
<1>2. ASSUME NEW s \in Server, AcceptLoop(s) PROVE WatchInv'
  <2>1. ASSUME NEW k \in Conn, accept_cb(s, k) \/ handle_handshake_timeout(s, k)
        PROVE  WatchInv'
    <3>1. /\ UNCHANGED <<client_data, pending, reading>>
          /\ \/ UNCHANGED unregistered
             \/ unregistered' = [unregistered EXCEPT ![s] = @ \ {k}]
      BY <2>1 DEF accept_cb, handle_handshake_timeout
    <3> QED BY <3>1 DEF TypeInv, WatchInv
  <2> QED BY <1>2, <2>1, HandshakeWatch, KillWatch, ClientCbWatch, ResumesWatch DEF AcceptLoop
<1>3. ASSUME NEW s \in Server, NodeLoop(s) PROVE WatchInv'
  BY <1>1, <1>3, EndServerWatch
     DEF NodeLoop, handle_client_request, apply_to_state_machine, write_reply
<1>4. ASSUME NEW c \in Client, ClientLoop(c) \/ ClientMain(c) \/ Command(c) PROVE WatchInv'
  BY <1>1, <1>4 DEF ClientLoop, ClientMain, Command, event_loop, read_cb, read_cb_ended,
     end_event_loop, set_running, stop_returns, run, stop, put, quit, end_client
<1>5. ASSUME NEW k \in Conn, Reset(k) PROVE WatchInv'
  BY <1>1, <1>5 DEF Reset
<1>6. CASE UNCHANGED vars
  BY <1>1, <1>6 DEF vars
<1> QED BY <1>2, <1>3, <1>4, <1>5, <1>6 DEF Next

LEMMA ServeNode ==
  ASSUME TypeInv, NEW s \in Server, NEW w \in ClientData, serve(s, w),
         UNCHANGED <<leader, accepted, sending, handled>>
  PROVE  NodeTypes'
<1> DEFINE k == sessions[s][w.id]
<1>1. NodeTypes /\ OwnInv /\ w.id \in Server
  BY DEF TypeInv, ClientData
<1>2. CASE UNCHANGED to_raftnode
  BY <1>1, <1>2 DEF NodeTypes
<1>3. CASE k # None /\ tcp[k].to_server # << >> /\ read_request(s, w)
  <2>1. tcp[k].to_server \in Seq(Request)
    BY <1>1, <1>3, SessionRequests
  <2> DEFINE r == Head(tcp[k].to_server)
  <2>2. r \in Request
    BY <1>3, <2>1, FrameSequences
  <2>3. to_raftnode' = [to_raftnode EXCEPT ![s] = Append(@, r)]
    BY <1>3 DEF read_request
  <2> HIDE DEF r
  <2>4. Append(to_raftnode[s], r) \in Seq(Request)
    BY <1>1, <2>2, FrameSequences DEF NodeTypes
  <2> QED BY <1>1, <2>3, <2>4 DEF NodeTypes
<1> QED BY <1>2, <1>3 DEF serve, delete_client_data

LEMMA SendsReply ==
  ASSUME TypeInv, NEW s \in Server, NEW reply \in Reply, send_to_client(s, reply)
  PROVE  sending' \in [Server -> [conn : Conn, reply : Reply] \cup {None}]
<1>1. Zero \in Server
  BY SessionAssumption
<1>2. sessions[s][Zero] \in Conn \cup {None}
  BY <1>1 DEF TypeInv, OwnInv, NetTypes
<1> QED BY <1>2 DEF TypeInv, NodeTypes, send_to_client

LEMMA HandleNode ==
  ASSUME TypeInv, NEW s \in Server, handle_client_request(s)
  PROVE  NodeTypes'
<1> DEFINE r == Head(to_raftnode[s])
<1>1. NodeTypes /\ to_raftnode[s] \in Seq(Request) /\ to_raftnode[s] # << >>
  BY DEF TypeInv, NodeTypes, handle_client_request
<1>2. r \in Request /\ Tail(to_raftnode[s]) \in Seq(Request)
  BY <1>1, FrameSequences
<1>3. /\ handled' = [handled EXCEPT ![r.client] = Append(@, [server |-> s, no |-> r.no])]
      /\ to_raftnode' = [to_raftnode EXCEPT ![s] = Tail(@)]
      /\ leader' = leader
  BY DEF handle_client_request
<1>4. /\ handled' \in [Client -> Seq([server : Server, no : Nat])]
      /\ to_raftnode' \in [Server -> Seq(Request)] /\ leader' \in Server
  BY <1>1, <1>2, <1>3, SMTT(20) DEF NodeTypes, Request
<1>5. CASE s = leader /\ accepted' = [accepted EXCEPT ![s] = Append(@, r)] /\ UNCHANGED sending
  <2>1. accepted' \in [Server -> Seq(Request)] /\ sending' = sending
    <3> HIDE DEF r
    <3>1. Append(accepted[s], r) \in Seq(Request)
      BY <1>1, <1>2, FrameSequences DEF NodeTypes
    <3> QED BY <1>1, <1>5, <3>1 DEF NodeTypes
  <2> QED BY <1>1, <1>4, <2>1 DEF NodeTypes
<1>6. ASSUME NEW hint \in {Zero, leader}, UNCHANGED accepted,
             send_to_client(s, [client |-> r.client, no |-> r.no, success |-> FALSE,
                                leader_hint |-> hint])
      PROVE  NodeTypes'
  <2> DEFINE reply == [client |-> r.client, no |-> r.no, success |-> FALSE, leader_hint |-> hint]
  <2>1. reply \in Reply
    BY <1>1, <1>2, SessionAssumption DEF NodeTypes, Request, Reply
  <2> HIDE DEF reply
  <2>2. sending' \in [Server -> [conn : Conn, reply : Reply] \cup {None}]
    BY <1>6, <2>1, SendsReply DEF reply
  <2> QED BY <1>1, <1>6, <1>4, <2>2 DEF NodeTypes
<1> QED BY <1>5, <1>6 DEF handle_client_request

LEMMA ApplyNode ==
  ASSUME TypeInv, NEW s \in Server, apply_to_state_machine(s)
  PROVE  NodeTypes'
<1>1. NodeTypes /\ accepted[s] \in Seq(Request) /\ accepted[s] # << >>
  BY DEF TypeInv, NodeTypes, apply_to_state_machine
<1>2. Head(accepted[s]) \in Request /\ Tail(accepted[s]) \in Seq(Request)
  BY <1>1, FrameSequences
<1>3. ReplyTo(s) \in Reply
  BY <1>2, SessionAssumption DEF ReplyTo, Reply, Request
<1>4. sending' \in [Server -> [conn : Conn, reply : Reply] \cup {None}]
  BY <1>3, SendsReply DEF apply_to_state_machine
<1>5. accepted' \in [Server -> Seq(Request)]
  <2> DEFINE r == Head(accepted[s])
  <2>1. \A t \in Server : Append(accepted[t], r) \in Seq(Request)
    BY <1>1, <1>2, FrameSequences DEF NodeTypes
  <2>2. accepted' = [t \in Server |->
                       CASE t = s -> Tail(accepted[s])
                         [] s = leader /\ t # s /\ up[t] -> Append(accepted[t], r)
                         [] OTHER -> accepted[t]]
    BY DEF apply_to_state_machine
  <2> HIDE DEF r
  <2> QED BY <1>1, <1>2, <2>1, <2>2 DEF NodeTypes
<1> QED BY <1>1, <1>4, <1>5 DEF NodeTypes, apply_to_state_machine

LEMMA WriteNode ==
  ASSUME TypeInv, NEW s \in Server, write_reply(s)
  PROVE  NodeTypes'
<1>1. NodeTypes /\ sending' = [sending EXCEPT ![s] = None] /\ << >> \in Seq(Request)
  BY FrameSequences DEF TypeInv, write_reply
<1>2. CASE UNCHANGED <<leader, to_raftnode, accepted, handled>>
  BY <1>1, <1>2 DEF NodeTypes
<1>3. CASE end_server(s)
  BY <1>1, <1>3 DEF NodeTypes, end_server
<1> QED BY <1>2, <1>3 DEF write_reply

LEMMA NodeTypesStep ==
  ASSUME TypeInv, [Next]_vars
  PROVE  NodeTypes'
<1>1. CASE UNCHANGED nodeVars
  BY <1>1 DEF TypeInv, NodeTypes, nodeVars
<1>2. ASSUME NEW s \in Server, AcceptLoop(s) PROVE NodeTypes'
  <2>1. ASSUME NEW w \in client_data[s] \cup pending[s], client_cb(s, w) PROVE NodeTypes'
    <3>1. w \in ClientData /\ UNCHANGED <<leader, accepted, sending, handled>>
      BY <2>1 DEF TypeInv, WatchInv, client_cb
    <3>2. CASE serve(s, w)
      BY <3>1, <3>2, ServeNode
    <3>3. CASE UNCHANGED to_raftnode
      BY <1>1, <3>1, <3>3 DEF nodeVars
    <3> QED BY <2>1, <3>2, <3>3 DEF client_cb
  <2>2. CASE client_cb_resumes(s)
    <3>1. reading[s] \in ClientData /\ UNCHANGED <<leader, accepted, sending, handled>>
      BY <2>2 DEF TypeInv, WatchInv, client_cb_resumes
    <3> QED BY <2>2, <3>1, ServeNode DEF client_cb_resumes
  <2>3. ASSUME NEW k \in Conn,
               \/ accept_cb(s, k) \/ handshake_cb(s, k)
               \/ handle_handshake_timeout(s, k) \/ fd_kill(s, k)
        PROVE  NodeTypes'
    BY <1>1, <2>3 DEF accept_cb, handshake_cb, handle_handshake_timeout, fd_kill
  <2> QED BY <1>2, <2>1, <2>2, <2>3 DEF AcceptLoop
<1>3. ASSUME NEW s \in Server, NodeLoop(s) PROVE NodeTypes'
  BY <1>3, HandleNode, ApplyNode, WriteNode DEF NodeLoop
<1>4. ASSUME NEW c \in Client, ClientLoop(c) \/ ClientMain(c) \/ Command(c) PROVE NodeTypes'
  BY <1>1, <1>4 DEF ClientLoop, ClientMain, Command, event_loop, read_cb, read_cb_ended,
     end_event_loop, set_running, stop_returns, run, stop, put, quit, end_client
<1>5. ASSUME NEW k \in Conn, Reset(k) PROVE NodeTypes'
  BY <1>1, <1>5 DEF Reset
<1>6. CASE UNCHANGED vars
  BY <1>1, <1>6 DEF vars
<1> QED BY <1>2, <1>3, <1>4, <1>5, <1>6 DEF Next

LEMMA ConnectCounts ==
  ASSUME connects \in Nat, NEW c \in Client, NEW s, connect_to_server(c, s)
  PROVE  connects' \in Nat
<1>1. connects' = connects + 1 \/ connects' = connects
  BY DEF connect_to_server
<1> QED BY <1>1

LEMMA ReadTypes ==
  ASSUME TypeInv, NEW c \in Client, read_cb(c)
  PROVE  ClientTypes'
<1> DEFINE reply == Head(tcp[stream[c]].to_client)
<1>1. ClientTypes /\ stream[c] # None /\ tcp[stream[c]].to_client # << >>
  BY DEF TypeInv, read_cb, Woken
<1>2. stream[c] \in Conn
  BY <1>1 DEF TypeInv, OwnInv, NetTypes
<1>3. tcp[stream[c]].to_client \in Seq(Reply)
  BY <1>2 DEF TypeInv, OwnInv, NetTypes, Net, Wire
<1>4. reply \in Reply
  BY <1>1, <1>3, SequenceTail
<1>5. answers' = Append(answers, reply)
  BY DEF read_cb
<1>6. answers' \in Seq(Reply)
  <2> HIDE DEF reply
  <2> QED BY <1>1, <1>4, <1>5, SequenceAppend DEF ClientTypes
<1>7. UNCHANGED <<is_running, main, pool, requested, ended, up>>
  BY DEF read_cb
<1>8. loop' \in [Client -> {"none", "posted", "looping", "last_round", "breaking"}]
  BY <1>1 DEF ClientTypes, read_cb
<1>9. CASE UNCHANGED <<watched, connects>>
  BY <1>1, <1>6, <1>7, <1>8, <1>9 DEF ClientTypes
<1>10. CASE connect_to_server(c, reply.leader_hint) /\ ~reply.success
  <2>1. watched' = [watched EXCEPT ![c] = None]
    BY <1>10 DEF read_cb
  <2>2. connects' \in Nat
    BY <1>1, <1>10, ConnectCounts DEF ClientTypes
  <2> QED BY <1>1, <1>6, <1>7, <1>8, <2>1, <2>2 DEF ClientTypes
<1> QED BY <1>9, <1>10 DEF read_cb

LEMMA ClientTypesStep ==
  ASSUME TypeInv, [Next]_vars
  PROVE  ClientTypes'
<1>1. ClientTypes
  BY DEF TypeInv
<1>2. CASE UNCHANGED <<clientVars, up, connects>>
  BY <1>1, <1>2 DEF ClientTypes, clientVars
<1>3. CASE UNCHANGED <<clientVars, connects>> /\ up' \in [Server -> BOOLEAN]
  BY <1>1, <1>3 DEF ClientTypes, clientVars
<1>4. ASSUME NEW s \in Server, AcceptLoop(s) PROVE ClientTypes'
  BY <1>2, <1>4 DEF AcceptLoop, accept_cb, handshake_cb, handle_handshake_timeout, fd_kill,
     client_cb, client_cb_resumes
<1>5. ASSUME NEW s \in Server, NodeLoop(s) PROVE ClientTypes'
  <2>1. CASE end_server(s)
    BY <1>1, <1>3, <2>1 DEF end_server, ClientTypes
  <2> QED BY <1>2, <1>5, <2>1 DEF NodeLoop, handle_client_request, apply_to_state_machine, write_reply
<1>6. ASSUME NEW c \in Client, ClientMain(c) PROVE ClientTypes'
  BY <1>1, <1>6 DEF ClientTypes, ClientMain, set_running, stop_returns
<1>7. ASSUME NEW c \in Client, end_client(c), requested' \in [Client -> Nat] PROVE ClientTypes'
  BY <1>1, <1>7 DEF ClientTypes, end_client
<1>8. ASSUME NEW c \in Client, Command(c) PROVE ClientTypes'
  <2>1. CASE run(c)
    <3>1. connects' \in Nat
      BY <1>1, <2>1, ConnectCounts DEF run, ClientTypes
    <3>2. /\ main' \in [Client -> {"prompt", "running", "stopping"}]
          /\ loop' \in [Client -> {"none", "posted", "looping", "last_round", "breaking"}]
      BY <1>1, <2>1 DEF run, ClientTypes
    <3> QED BY <1>1, <2>1, <3>1, <3>2 DEF run, ClientTypes
  <2>2. CASE stop(c)
    BY <1>1, <2>2 DEF ClientTypes, stop
  <2>3. CASE put(c)
    <3>1. requested' \in [Client -> Nat]
      BY <1>1, <2>3 DEF put, ClientTypes
    <3>2. CASE end_client(c)
      BY <1>7, <3>1, <3>2
    <3>3. CASE UNCHANGED <<is_running, main, pool, loop, stream, watched, ended, answers, up,
                           connects>>
      BY <1>1, <3>1, <3>3 DEF ClientTypes
    <3> QED BY <2>3, <3>2, <3>3 DEF put
  <2>4. CASE quit(c)
    BY <1>1, <1>7, <2>4 DEF quit, ClientTypes
  <2> QED BY <1>8, <2>1, <2>2, <2>3, <2>4 DEF Command
<1>9. ASSUME NEW c \in Client, ClientLoop(c) PROVE ClientTypes'
  <2>1. CASE event_loop(c)
    BY <1>1, <2>1 DEF event_loop, TypeInv, OwnInv, NetTypes, ClientTypes
  <2>2. CASE read_cb_ended(c) \/ end_event_loop(c)
    BY <1>1, <2>2, ZenonT(30) DEF read_cb_ended, end_event_loop, ClientTypes
  <2> QED BY <1>9, <2>1, <2>2, ReadTypes DEF ClientLoop
<1>10. ASSUME NEW k \in Conn, Reset(k) PROVE ClientTypes'
  BY <1>2, <1>10 DEF Reset
<1>11. CASE UNCHANGED vars
  BY <1>2, <1>11 DEF vars
<1> QED BY <1>4, <1>5, <1>6, <1>8, <1>9, <1>10, <1>11 DEF Next

LEMMA TypeInvStep == TypeInv /\ [Next]_vars => TypeInv'
<1> SUFFICES ASSUME TypeInv, [Next]_vars PROVE TypeInv'
  OBVIOUS
<1>1. OwnInv'
  BY OwnInvStep DEF TypeInv, ClientTypes
<1> QED BY <1>1, WatchInvStep, NodeTypesStep, ClientTypesStep DEF TypeInv

LEMMA TypeInvHolds == Spec => []TypeInv
<1> QED BY TypeInvInit, TypeInvStep, PTL DEF Spec

\* The types of all variables; in particular a server always takes the handshake for
\* one and a request for one, and sends no reply to a session that is not there
\* (handshake_cb, client_cb, send_to_client).
THEOREM TypeCorrect == Spec => []TypeOK
<1>1. TypeInv => TypeOK
  <2> SUFFICES ASSUME TypeInv PROVE TypeOK
    OBVIOUS
  <2>1. tcp \in [Conn -> [open : SUBSET {"client", "server"},
                          to_server : Seq(Hello \cup Request), to_client : Seq(Reply)]]
    BY DEF TypeInv, OwnInv, NetTypes, Net, Wire, End, Frame
  <2> QED BY <2>1 DEF TypeOK, TypeInv, OwnInv, WatchInv, NetTypes, NodeTypes, ClientTypes
<1> QED BY <1>1, TypeInvHolds, PTL

\* Every connection a server has a descriptor of waits to be accepted, shakes hands
\* or belongs to one session (accept_cb, handshake_cb, add_client, remove_client).
THEOREM SessionsOwned == Spec => []OneSession
<1>1. ASSUME TypeInv PROVE OneSession
  <2> SUFFICES ASSUME NEW k \in Conn
               PROVE  LET owners == {<<"backlog", s>> : s \in {t \in Server : k \in backlog[t]}}
                            \cup {<<"handshaking", s>> : s \in {t \in Server : k \in handshaking[t]}}
                            \cup {x \in Server \X Server : sessions[x[1]][x[2]] = k}
                      IN  "server" \in tcp[k].open <=> \E o \in owners : owners = {o}
    BY DEF OneSession
  <2> DEFINE waiting == {<<"backlog", s>> : s \in {t \in Server : k \in backlog[t]}}
             shaking == {<<"handshaking", s>> : s \in {t \in Server : k \in handshaking[t]}}
             serving == {x \in Server \X Server : sessions[x[1]][x[2]] = k}
             owners == waiting \cup shaking \cup serving
  <2>1. OwnersApart /\ ("server" \in tcp[k].open <=> Waits(k) \/ HasSession(k))
    BY <1>1 DEF TypeInv, OwnInv, Opened
  <2>2. ASSUME NEW s \in Server, k \in backlog[s]
        PROVE  owners = {<<"backlog", s>>} /\ Waits(k)
    <3>1. \A t \in Server : k \in backlog[t] <=> t = s
      BY <2>1, <2>2 DEF OwnersApart
    <3>2. waiting = {<<"backlog", s>>}
      BY <3>1
    <3>3. \A t \in Server : k \notin handshaking[t]
      BY <2>1, <2>2 DEF OwnersApart
    <3>4. shaking = {}
      BY <3>3
    <3>5. \A t, i \in Server : sessions[t][i] # k
      BY <2>1, <2>2 DEF OwnersApart
    <3>6. serving = {}
      BY <3>5
    <3> QED BY <2>2, <3>2, <3>4, <3>6 DEF Waits
  <2>3. ASSUME NEW s \in Server, k \in handshaking[s]
        PROVE  owners = {<<"handshaking", s>>} /\ Waits(k)
    <3>1. \A t \in Server : k \in handshaking[t] <=> t = s
      BY <2>1, <2>3 DEF OwnersApart
    <3>2. shaking = {<<"handshaking", s>>}
      BY <3>1
    <3>3. \A t \in Server : k \notin backlog[t]
      BY <2>1, <2>3 DEF OwnersApart
    <3>4. waiting = {}
      BY <3>3
    <3>5. \A t, i \in Server : sessions[t][i] # k
      BY <2>1, <2>3 DEF OwnersApart
    <3>6. serving = {}
      BY <3>5
    <3> QED BY <2>3, <3>2, <3>4, <3>6 DEF Waits
  <2>4. ASSUME NEW s \in Server, NEW id \in Server, sessions[s][id] = k
        PROVE  owners = {<<s, id>>} /\ HasSession(k)
    <3>1. \A t, i \in Server : sessions[t][i] = k <=> t = s /\ i = id
      BY <2>1, <2>4 DEF OwnersApart
    <3>2. serving = {<<s, id>>}
      BY <3>1
    <3>3. \A t \in Server : k \notin backlog[t] /\ k \notin handshaking[t]
      BY <2>1, <2>4 DEF OwnersApart
    <3>4. waiting = {} /\ shaking = {}
      BY <3>3
    <3> QED BY <2>4, <3>2, <3>4 DEF HasSession
  <2>5. ASSUME NEW o \in owners PROVE Waits(k) \/ HasSession(k)
    <3>1. o \in waiting => Waits(k)
      BY DEF Waits
    <3>2. o \in shaking => Waits(k)
      BY DEF Waits
    <3>3. o \in serving => HasSession(k)
      BY DEF HasSession
    <3> HIDE DEF waiting, shaking, serving
    <3> QED BY <3>1, <3>2, <3>3
  <2> HIDE DEF owners
  <2>6. Waits(k) \/ HasSession(k) => \E o \in owners : owners = {o}
    BY <2>2, <2>3, <2>4 DEF Waits, HasSession
  <2> QED BY <2>1, <2>5, <2>6 DEF owners
<1> QED BY <1>1, TypeInvHolds, PTL

-----------------------------------------------------------------------------
(* Requests on their way to a node                                         *)

Distinct(q) == \A i, j \in DOMAIN q : q[i] = q[j] => i = j

LEMMA EmptyDistinct == Distinct(<< >>) /\ ToSet(<< >>) = {}
  BY DEF Distinct, ToSet

LEMMA SingleDistinct ==
  ASSUME NEW h PROVE Distinct(<<h>>) /\ ToSet(<<h>>) = {h}
<1>1. DOMAIN <<h>> = {1} /\ <<h>>[1] = h
  OBVIOUS
<1> QED BY <1>1 DEF Distinct, ToSet

LEMMA TailDistinct ==
  ASSUME NEW S, NEW q \in Seq(S), q # << >>
  PROVE  /\ Head(q) \in ToSet(q) /\ ToSet(Tail(q)) \subseteq ToSet(q)
         /\ Distinct(q) => Distinct(Tail(q)) /\ Head(q) \notin ToSet(Tail(q))
<1>1. /\ Len(q) \in Nat \ {0} /\ q[1] = Head(q) /\ Tail(q) \in Seq(S)
      /\ Len(Tail(q)) = Len(q) - 1
      /\ \A i \in 1 .. Len(q) - 1 : Tail(q)[i] = q[i + 1]
  BY SequenceTail
<1>2. DOMAIN q = 1 .. Len(q) /\ DOMAIN Tail(q) = 1 .. Len(q) - 1
  BY <1>1, LenProperties
<1>3. 1 \in DOMAIN q /\ \A i \in DOMAIN Tail(q) : i + 1 \in DOMAIN q /\ i + 1 # 1
  BY <1>1, <1>2
<1>4. Head(q) \in ToSet(q) /\ ToSet(Tail(q)) \subseteq ToSet(q)
  BY <1>1, <1>2, <1>3 DEF ToSet
<1>5. ASSUME Distinct(q) PROVE Distinct(Tail(q))
  <2> SUFFICES ASSUME NEW i \in DOMAIN Tail(q), NEW j \in DOMAIN Tail(q),
                      Tail(q)[i] = Tail(q)[j]
               PROVE  i = j
    BY DEF Distinct
  <2>1. q[i + 1] = q[j + 1]
    BY <1>1, <1>2
  <2>2. i + 1 = j + 1
    BY <1>3, <1>5, <2>1 DEF Distinct
  <2> QED BY <1>2, <2>2
<1>6. ASSUME Distinct(q), Head(q) \in ToSet(Tail(q)) PROVE FALSE
  <2>1. PICK i \in DOMAIN Tail(q) : Tail(q)[i] = Head(q)
    BY <1>6 DEF ToSet
  <2>2. q[i + 1] = q[1]
    BY <1>1, <1>2, <2>1
  <2> QED BY <1>3, <1>6, <2>2 DEF Distinct
<1> QED BY <1>4, <1>5, <1>6

LEMMA AppendDistinct ==
  ASSUME NEW S, NEW q \in Seq(S), NEW m \in S
  PROVE  /\ ToSet(Append(q, m)) = ToSet(q) \cup {m}
         /\ Distinct(q) /\ m \notin ToSet(q) => Distinct(Append(q, m))
<1> DEFINE r == Append(q, m)
<1>1. /\ r \in Seq(S) /\ Len(q) \in Nat /\ Len(r) = Len(q) + 1 /\ r[Len(q) + 1] = m
      /\ \A i \in 1 .. Len(q) : r[i] = q[i]
  BY SequenceAppend
<1>2. DOMAIN q = 1 .. Len(q) /\ DOMAIN r = 1 .. Len(q) + 1
  BY <1>1, LenProperties
<1> HIDE DEF r
<1>3. \A i : i \in DOMAIN r <=> i \in DOMAIN q \/ i = Len(q) + 1
  BY <1>1, <1>2
<1>4. ToSet(r) = ToSet(q) \cup {m}
  BY <1>1, <1>2, <1>3 DEF ToSet
<1>5. Distinct(q) /\ m \notin ToSet(q) => Distinct(r)
  BY <1>1, <1>2, <1>3 DEF Distinct, ToSet
<1> QED BY <1>4, <1>5 DEF r

\* The parts of the state a request passes: ws the connections to the servers, ns the
\* queues of the nodes, rq what was sent, hd what was handled.
Carriers(ws, ns, rq, hd) ==
    /\ ws \in [Conn -> Seq(Frame)]
    /\ ns \in [Server -> Seq(Request)]
    /\ rq \in [Client -> Nat]
    /\ hd \in [Client -> Seq([server : Server, no : Nat])]

Nowhere(r, ws, ns) ==
    /\ \A k \in Conn : r \notin ToSet(ws[k])
    /\ \A s \in Server : r \notin ToSet(ns[s])

OnePlace(ws, ns) ==
    /\ \A k \in Conn : Distinct(ws[k])
    /\ \A s \in Server : Distinct(ns[s])
    /\ \A r \in Request :
         /\ \A k, l \in Conn : r \in ToSet(ws[k]) /\ r \in ToSet(ws[l]) => k = l
         /\ \A s, t \in Server : r \in ToSet(ns[s]) /\ r \in ToSet(ns[t]) => s = t
         /\ \A k \in Conn, s \in Server : ~(r \in ToSet(ws[k]) /\ r \in ToSet(ns[s]))

\* Request n of client c was handled.
Done(hd, c, n) == \E i \in DOMAIN hd[c] : hd[c][i].no = n

Pending(r, rq, hd) == r.no <= rq[r.client] /\ ~Done(hd, r.client, r.no)

AllPending(ws, ns, rq, hd) ==
    \A r \in Request : ~Nowhere(r, ws, ns) => Pending(r, rq, hd)

\* Inductive.
Passage(ws, ns, rq, hd) ==
    /\ OnePlace(ws, ns)
    /\ AllPending(ws, ns, rq, hd)
    /\ \A c \in Client : \A n : Done(hd, c, n) => n \in 1 .. rq[c]

\* Requests leave their places.
LEMMA PassageLeaves ==
  ASSUME NEW ws, NEW ns, NEW rq, NEW hd, NEW ws2, NEW ns2, Passage(ws, ns, rq, hd),
         \A k \in Conn : Distinct(ws2[k]) /\ \A r \in Request : r \in ToSet(ws2[k]) => r \in ToSet(ws[k]),
         \A s \in Server : Distinct(ns2[s]) /\ \A r \in Request : r \in ToSet(ns2[s]) => r \in ToSet(ns[s])
  PROVE  Passage(ws2, ns2, rq, hd)
<1>1. OnePlace(ws2, ns2)
  BY DEF Passage, OnePlace
<1>2. \A r \in Request : Nowhere(r, ws, ns) => Nowhere(r, ws2, ns2)
  BY DEF Nowhere
<1> QED BY <1>1, <1>2 DEF Passage, AllPending

\* The next number is given to a request of c.
LEMMA PassageNumbers ==
  ASSUME NEW ws, NEW ns, NEW rq, NEW hd, Carriers(ws, ns, rq, hd), Passage(ws, ns, rq, hd),
         NEW c \in Client, NEW r \in Request, r.client = c, r.no = rq[c] + 1
  PROVE  LET rq2 == [rq EXCEPT ![c] = @ + 1]
         IN  Passage(ws, ns, rq2, hd) /\ Nowhere(r, ws, ns) /\ Pending(r, rq2, hd)
<1> DEFINE rq2 == [rq EXCEPT ![c] = @ + 1]
<1>1. \A d \in Client : rq[d] \in Nat /\ rq2[d] = IF d = c THEN rq[c] + 1 ELSE rq[d]
  BY DEF Carriers
<1> HIDE DEF rq2
<1>2. Nowhere(r, ws, ns)
  <2>1. ~Pending(r, rq, hd)
    BY <1>1 DEF Pending
  <2> QED BY <2>1 DEF Passage, AllPending
<1>3. Pending(r, rq2, hd)
  <2>1. r.no \notin 1 .. rq[c] /\ r.no <= rq2[c]
    BY <1>1
  <2> QED BY <2>1 DEF Passage, Pending
<1>4. \A m \in Request : Pending(m, rq, hd) => Pending(m, rq2, hd)
  BY <1>1 DEF Pending, Request
<1>5. \A d \in Client : 1 .. rq[d] \subseteq 1 .. rq2[d]
  BY <1>1
<1>6. Passage(ws, ns, rq2, hd)
  BY <1>4, <1>5 DEF Passage, AllPending
<1> QED BY <1>2, <1>3, <1>6 DEF rq2

\* A request is written to the connection k.
LEMMA PassageWrites ==
  ASSUME NEW ws, NEW ns, NEW rq, NEW hd, Carriers(ws, ns, rq, hd), Passage(ws, ns, rq, hd),
         NEW r \in Request, Nowhere(r, ws, ns), Pending(r, rq, hd), NEW k \in Conn
  PROVE  Passage([ws EXCEPT ![k] = Append(@, r)], ns, rq, hd)
<1> DEFINE q == Append(ws[k], r)
           ws2 == [ws EXCEPT ![k] = Append(@, r)]
<1>1. ws[k] \in Seq(Frame) /\ r \in Frame
  BY DEF Carriers, Frame
<1>2. ToSet(q) = ToSet(ws[k]) \cup {r} /\ Distinct(q)
  BY <1>1, AppendDistinct DEF Passage, OnePlace, Nowhere
<1>3. \A l \in Conn : ws2[l] = IF l = k THEN q ELSE ws[l]
  BY DEF Carriers
<1> HIDE DEF q, ws2
<1>4. OnePlace(ws2, ns)
  BY <1>2, <1>3 DEF Passage, OnePlace, Nowhere
<1>5. \A m \in Request : Nowhere(m, ws, ns) /\ m # r => Nowhere(m, ws2, ns)
  BY <1>2, <1>3 DEF Nowhere
<1> QED BY <1>4, <1>5 DEF Passage, AllPending, ws2

\* A request is enqueued for the node of s.
LEMMA PassageEnqueues ==
  ASSUME NEW ws, NEW ns, NEW rq, NEW hd, Carriers(ws, ns, rq, hd), Passage(ws, ns, rq, hd),
         NEW r \in Request, Nowhere(r, ws, ns), Pending(r, rq, hd), NEW s \in Server
  PROVE  Passage(ws, [ns EXCEPT ![s] = Append(@, r)], rq, hd)
<1> DEFINE q == Append(ns[s], r)
           ns2 == [ns EXCEPT ![s] = Append(@, r)]
<1>1. ns[s] \in Seq(Request)
  BY DEF Carriers
<1>2. ToSet(q) = ToSet(ns[s]) \cup {r} /\ Distinct(q)
  BY <1>1, AppendDistinct DEF Passage, OnePlace, Nowhere
<1>3. \A t \in Server : ns2[t] = IF t = s THEN q ELSE ns[t]
  BY DEF Carriers
<1> HIDE DEF q, ns2
<1>4. OnePlace(ws, ns2)
  BY <1>2, <1>3 DEF Passage, OnePlace, Nowhere
<1>5. \A m \in Request : Nowhere(m, ws, ns) /\ m # r => Nowhere(m, ws, ns2)
  BY <1>2, <1>3 DEF Nowhere
<1> QED BY <1>4, <1>5 DEF Passage, AllPending, ns2

\* A request that has left the queues is handled.
LEMMA DoneAppend ==
  ASSUME NEW ws, NEW ns, NEW rq, NEW hd, Carriers(ws, ns, rq, hd), NEW r \in Request, NEW s \in Server
  PROVE  LET hd2 == [hd EXCEPT ![r.client] = Append(@, [server |-> s, no |-> r.no])]
         IN  \A c \in Client : \A n :
                Done(hd2, c, n) <=> Done(hd, c, n) \/ (c = r.client /\ n = r.no)
<1> DEFINE e == [server |-> s, no |-> r.no]
           c == r.client
           q == Append(hd[c], e)
           hd2 == [hd EXCEPT ![c] = Append(@, e)]
<1>1. c \in Client /\ e \in [server : Server, no : Nat] /\ e.no = r.no
  BY DEF Request
<1>2. hd[c] \in Seq([server : Server, no : Nat])
  BY <1>1 DEF Carriers
<1> HIDE DEF e, c
<1>3. /\ q \in Seq([server : Server, no : Nat])
      /\ Len(hd[c]) \in Nat /\ Len(q) = Len(hd[c]) + 1 /\ q[Len(hd[c]) + 1] = e
      /\ \A i \in 1 .. Len(hd[c]) : q[i] = hd[c][i]
  BY <1>1, <1>2, SequenceAppend
<1>4. DOMAIN hd[c] = 1 .. Len(hd[c]) /\ DOMAIN q = 1 .. Len(hd[c]) + 1
  BY <1>2, <1>3, LenProperties
<1>5. \A d \in Client : hd2[d] = IF d = c THEN q ELSE hd[d]
  BY <1>1 DEF Carriers
<1> HIDE DEF q, hd2
<1>6. \A i : i \in DOMAIN q <=> i \in DOMAIN hd[c] \/ i = Len(hd[c]) + 1
  BY <1>3, <1>4
<1>7. \A n : Done(hd2, c, n) <=> Done(hd, c, n) \/ n = r.no
  BY <1>1, <1>3, <1>4, <1>5, <1>6 DEF Done
<1>8. \A d \in Client : d # c => \A n : Done(hd2, d, n) <=> Done(hd, d, n)
  BY <1>5 DEF Done
<1> QED BY <1>7, <1>8 DEF c, e, hd2

LEMMA PassageHandles ==
  ASSUME NEW ws, NEW ns, NEW rq, NEW hd, Carriers(ws, ns, rq, hd), Passage(ws, ns, rq, hd),
         NEW r \in Request, Nowhere(r, ws, ns), Pending(r, rq, hd), NEW s \in Server
  PROVE  Passage(ws, ns, rq, [hd EXCEPT ![r.client] = Append(@, [server |-> s, no |-> r.no])])
<1> DEFINE hd2 == [hd EXCEPT ![r.client] = Append(@, [server |-> s, no |-> r.no])]
<1>1. \A c \in Client : \A n : Done(hd2, c, n) <=> Done(hd, c, n) \/ (c = r.client /\ n = r.no)
  BY DoneAppend
<1> HIDE DEF hd2
<1>2. \A m \in Request : m.client = r.client /\ m.no = r.no => m = r
  BY DEF Request
<1>3. AllPending(ws, ns, rq, hd2)
  BY <1>1, <1>2 DEF Passage, AllPending, Pending, Request
<1>4. r.no \in 1 .. rq[r.client]
  BY DEF Carriers, Pending, Request
<1>5. ASSUME NEW c \in Client, NEW n, Done(hd2, c, n) PROVE n \in 1 .. rq[c]
  BY <1>1, <1>4, <1>5 DEF Passage
<1> QED BY <1>3, <1>5 DEF Passage, hd2

-----------------------------------------------------------------------------
(* What most actions do to the connections                                 *)

\* Requests may be read or lost, and a handshake may be written...
StreamFades(q, q2) ==
    \/ q2 = q \/ q2 = << >>
    \/ \E h \in Hello : q2 = <<h>>
    \/ q # << >> /\ q2 = Tail(q)

StreamsFade(net, net2) == \A k \in Conn : StreamFades(net[k].to_server, net2[k].to_server)

\* ...and replies may be lost.
RepliesFade(net, net2) ==
    \A k \in Conn : net2[k].to_client \in {net[k].to_client, << >>}

WiresFade(net, net2) == StreamsFade(net, net2) /\ RepliesFade(net, net2)

LEMMA SameFades ==
  ASSUME NEW net PROVE WiresFade(net, net)
  BY DEF WiresFade, StreamsFade, RepliesFade, StreamFades

LEMMA ServerClosesFades ==
  ASSUME TypeInv, NEW ks, tcp' = Closed(tcp, "server", ks)
  PROVE  WiresFade(tcp, tcp')
<1>1. tcp \in Net /\ tcp' = ServersClosed(tcp, ks)
  BY DEF TypeInv, OwnInv, NetTypes, ServersClosed
<1>2. ASSUME NEW k \in Conn
      PROVE  /\ tcp'[k].to_server \in {tcp[k].to_server, << >>}
             /\ tcp'[k].to_client \in {tcp[k].to_client, << >>}
  BY <1>1, ServersClosedAt
<1> QED BY <1>2 DEF WiresFade, StreamsFade, RepliesFade, StreamFades

LEMMA ClientClosesFades ==
  ASSUME TypeInv, NEW k
  PROVE  /\ WiresFade(tcp, ClientsClosed(tcp, k))
         /\ k \in Conn => ClientsClosed(tcp, k)[k].to_client = << >>
<1>1. tcp \in Net
  BY DEF TypeInv, OwnInv, NetTypes
<1>2. ASSUME NEW l \in Conn
      PROVE  /\ ClientsClosed(tcp, k)[l].to_server \in {tcp[l].to_server, << >>}
             /\ ClientsClosed(tcp, k)[l].to_client \in {tcp[l].to_client, << >>}
  BY <1>1, ClientsClosedAt
<1>3. k \in Conn => ClientsClosed(tcp, k)[k].to_client = << >>
  BY <1>1, ClientsClosedAt
<1> QED BY <1>2, <1>3 DEF WiresFade, StreamsFade, RepliesFade, StreamFades

\* The connection that is left loses its replies.
LEMMA ConnectFades ==
  ASSUME TypeInv, NEW c \in Client, NEW s \in Server, connect_to_server(c, s)
  PROVE  /\ WiresFade(tcp, tcp')
         /\ stream[c] # None => tcp'[stream[c]].to_client = << >>
<1> DEFINE old == stream[c]
           net == ClientsClosed(tcp, old)
<1>1. tcp \in Net /\ old \in Conn \cup {None}
  BY DEF TypeInv, OwnInv, NetTypes
<1>2. \/ tcp' = net
      \/ \E k \in Conn : tcp' = [net EXCEPT ![k] = [open |-> {"client", "server"},
                                                  to_server |-> <<[hello |-> s]>>,
                                                  to_client |-> << >>]]
  BY DEF connect_to_server, ClientsClosed
<1> HIDE DEF old
<1>3. net \in Net /\ WiresFade(tcp, net) /\ (old \in Conn => net[old].to_client = << >>)
  BY <1>1, ClientsClosedNet, ClientClosesFades
<1> HIDE DEF net
<1>4. CASE tcp' = net
  BY <1>1, <1>3, <1>4 DEF old
<1>5. ASSUME NEW k \in Conn,
             tcp' = [net EXCEPT ![k] = [open |-> {"client", "server"},
                                        to_server |-> <<[hello |-> s]>>, to_client |-> << >>]]
      PROVE  /\ WiresFade(tcp, tcp')
             /\ old # None => tcp'[old].to_client = << >>
  <2>1. tcp'[k].to_server = <<[hello |-> s]>> /\ tcp'[k].to_client = << >>
    BY <1>3, <1>5 DEF Net
  <2>2. \A l \in Conn : l # k => tcp'[l] = net[l]
    BY <1>3, <1>5 DEF Net
  <2>3. [hello |-> s] \in Hello
    BY DEF Hello
  <2>4. WiresFade(tcp, tcp')
    BY <1>3, <2>1, <2>2, <2>3 DEF WiresFade, StreamsFade, RepliesFade, StreamFades
  <2> QED BY <1>1, <1>3, <2>1, <2>2, <2>4
<1> QED BY <1>2, <1>4, <1>5 DEF old

LEMMA HandshakeFades ==
  ASSUME TypeInv, NEW s \in Server, NEW k \in Conn, handshake_cb(s, k)
  PROVE  WiresFade(tcp, tcp')
<1>1. CASE tcp' = Closed(tcp, "server", {k})
  BY <1>1, ServerClosesFades
<1>2. CASE tcp[k].to_server # << >> /\ tcp' = [tcp EXCEPT ![k].to_server = Tail(@)]
  <2>1. tcp \in Net
    BY DEF TypeInv, OwnInv, NetTypes
  <2>2. \A l \in Conn : /\ tcp'[l].to_client = tcp[l].to_client
                        /\ tcp'[l].to_server = IF l = k THEN Tail(tcp[k].to_server)
                                                        ELSE tcp[l].to_server
    BY <1>2, <2>1 DEF Net, Wire
  <2> QED BY <1>2, <2>2 DEF WiresFade, StreamsFade, RepliesFade, StreamFades
<1> QED BY <1>1, <1>2 DEF handshake_cb, add_client

LEMMA ResetFades ==
  ASSUME TypeInv, NEW k \in Conn, Reset(k)
  PROVE  WiresFade(tcp, tcp')
<1>1. tcp \in Net
  BY DEF TypeInv, OwnInv, NetTypes
<1>2. tcp' = [tcp EXCEPT ![k].to_server = IF "client" \in tcp[k].open THEN @ ELSE << >>,
                         ![k].to_client = IF "server" \in tcp[k].open THEN @ ELSE << >>]
  BY DEF Reset
<1>3. ASSUME NEW l \in Conn
      PROVE  /\ tcp'[l].to_server = tcp[l].to_server \/ tcp'[l].to_server = << >>
             /\ tcp'[l].to_client = tcp[l].to_client \/ tcp'[l].to_client = << >>
  <2>1. CASE l # k
    BY <1>1, <1>2, <2>1 DEF Net
  <2>2. CASE l = k
    BY <1>1, <1>2, <2>2 DEF Net, Wire
  <2> QED BY <2>1, <2>2
<1> QED BY <1>3 DEF WiresFade, StreamsFade, RepliesFade, StreamFades

-----------------------------------------------------------------------------
(* Every request is in one place and is handled once                       *)

Streams == [k \in Conn |-> tcp[k].to_server]

PassageInv == Passage(Streams, to_raftnode, requested, handled)

LEMMA StreamsCarry == TypeInv => Carriers(Streams, to_raftnode, requested, handled)
  BY DEF TypeInv, OwnInv, NetTypes, NodeTypes, ClientTypes, Net, Wire, Carriers, Streams

LEMMA PassageInit == Init => PassageInv
<1> SUFFICES ASSUME Init PROVE PassageInv
  OBVIOUS
<1>1. \A k \in Conn : Streams[k] = << >>
  BY DEF Init, Unused, Streams
<1>2. \A s \in Server : to_raftnode[s] = << >>
  BY DEF Init
<1>3. \A k \in Conn : Distinct(Streams[k]) /\ ToSet(Streams[k]) = {}
  BY <1>1, EmptyDistinct
<1>4. \A s \in Server : Distinct(to_raftnode[s]) /\ ToSet(to_raftnode[s]) = {}
  BY <1>2, EmptyDistinct
<1>5. \A c \in Client : \A n : ~Done(handled, c, n)
  BY DEF Init, Done
<1>6. OnePlace(Streams, to_raftnode) /\ \A r \in Request : Nowhere(r, Streams, to_raftnode)
  BY <1>3, <1>4 DEF OnePlace, Nowhere
<1> HIDE DEF Streams
<1> QED BY <1>5, <1>6 DEF PassageInv, Passage, AllPending

LEMMA StreamFadesDistinct ==
  ASSUME NEW q \in Seq(Frame), NEW q2, StreamFades(q, q2), Distinct(q)
  PROVE  Distinct(q2) /\ \A r \in Request : r \in ToSet(q2) => r \in ToSet(q)
<1>1. CASE q2 = q
  BY <1>1
<1>2. CASE q2 = << >>
  BY <1>2, EmptyDistinct
<1>3. ASSUME NEW h \in Hello, q2 = <<h>>
      PROVE  Distinct(q2) /\ \A r \in Request : r \in ToSet(q2) => r \in ToSet(q)
  BY <1>3, SingleDistinct, FramesApart
<1>4. CASE q # << >> /\ q2 = Tail(q)
  BY <1>4, TailDistinct
<1> QED BY <1>1, <1>2, <1>3, <1>4 DEF StreamFades

QueuesFade == \A s \in Server : to_raftnode'[s] \in {to_raftnode[s], << >>}

LEMMA PassageFades ==
  ASSUME TypeInv, NEW rq, NEW hd, Passage(Streams, to_raftnode, rq, hd),
         StreamsFade(tcp, tcp'), QueuesFade
  PROVE  Passage(Streams', to_raftnode', rq, hd)
<1>1. ASSUME NEW k \in Conn
      PROVE  /\ Distinct(Streams'[k])
             /\ \A r \in Request : r \in ToSet(Streams'[k]) => r \in ToSet(Streams[k])
  <2>1. Streams[k] = tcp[k].to_server /\ Streams'[k] = tcp'[k].to_server
    BY DEF Streams
  <2>2. Streams[k] \in Seq(Frame)
    BY StreamsCarry DEF Carriers
  <2>3. Distinct(Streams[k])
    BY DEF Passage, OnePlace
  <2> QED BY <2>1, <2>2, <2>3, StreamFadesDistinct DEF StreamsFade
<1>2. ASSUME NEW s \in Server
      PROVE  /\ Distinct(to_raftnode'[s])
             /\ \A r \in Request : r \in ToSet(to_raftnode'[s]) => r \in ToSet(to_raftnode[s])
  <2>1. Distinct(to_raftnode[s])
    BY DEF Passage, OnePlace
  <2> QED BY <2>1, EmptyDistinct DEF QueuesFade
<1> DEFINE ws == Streams
           ws2 == Streams'
           ns2 == to_raftnode'
<1>3. Passage(ws, to_raftnode, rq, hd)
  OBVIOUS
<1>4. /\ \A k \in Conn : /\ Distinct(ws2[k])
                         /\ \A r \in Request : r \in ToSet(ws2[k]) => r \in ToSet(ws[k])
      /\ \A s \in Server : /\ Distinct(ns2[s])
                           /\ \A r \in Request : r \in ToSet(ns2[s]) => r \in ToSet(to_raftnode[s])
  BY <1>1, <1>2
<1> HIDE DEF ws, ws2, ns2
<1>5. Passage(ws2, ns2, rq, hd)
  BY <1>3, <1>4, PassageLeaves
<1> QED BY <1>5 DEF ws2, ns2

\* Nothing is sent and nothing handled.
Quiet == StreamsFade(tcp, tcp') /\ QueuesFade /\ UNCHANGED <<requested, handled>>

LEMMA PassageQuiet == TypeInv /\ PassageInv /\ Quiet => PassageInv'
  BY PassageFades DEF Quiet, PassageInv

LEMMA SameQuiet ==
  TypeInv /\ UNCHANGED <<tcp, to_raftnode, requested, handled>> => Quiet
  BY SameFades DEF Quiet, QueuesFade, WiresFade

\* The request c writes next.
NextRequest(c) == [client |-> c, no |-> requested[c] + 1]

\* It is given its number, and what was sent before may be lost.
LEMMA PutNumbers ==
  ASSUME TypeInv, PassageInv, NEW c \in Client, requested' = [requested EXCEPT ![c] = @ + 1]
  PROVE  /\ Passage(Streams, to_raftnode, requested', handled)
         /\ NextRequest(c) \in Request
         /\ Nowhere(NextRequest(c), Streams, to_raftnode)
         /\ Pending(NextRequest(c), requested', handled)
<1> DEFINE r == NextRequest(c)
           ws == Streams
           rq2 == [requested EXCEPT ![c] = @ + 1]
<1>1. r \in Request /\ r.client = c /\ r.no = requested[c] + 1
  BY DEF TypeInv, ClientTypes, Request, NextRequest
<1>2. /\ Carriers(ws, to_raftnode, requested, handled)
      /\ Passage(ws, to_raftnode, requested, handled)
  BY StreamsCarry DEF PassageInv
<1> HIDE DEF r, ws
<1>3. Passage(ws, to_raftnode, rq2, handled) /\ Nowhere(r, ws, to_raftnode)
      /\ Pending(r, rq2, handled)
  BY <1>1, <1>2, PassageNumbers
<1> HIDE DEF rq2
<1>4. requested' = rq2
  BY DEF rq2
<1> QED BY <1>1, <1>3, <1>4 DEF r, ws

LEMMA PutPassage ==
  ASSUME TypeInv, PassageInv, NEW c \in Client, put(c)
  PROVE  PassageInv'
<1>1. requested' = [requested EXCEPT ![c] = @ + 1]
  BY DEF put
<1>2. /\ Passage(Streams, to_raftnode, requested', handled)
      /\ NextRequest(c) \in Request
      /\ Nowhere(NextRequest(c), Streams, to_raftnode)
      /\ Pending(NextRequest(c), requested', handled)
  BY <1>1, PutNumbers
<1>3. UNCHANGED <<to_raftnode, handled>> /\ QueuesFade
  BY DEF put, end_client, nodeVars, QueuesFade
<1>4. CASE StreamsFade(tcp, tcp')
  BY <1>2, <1>3, <1>4, PassageFades DEF PassageInv
<1>5. ASSUME stream[c] # None,
             tcp' = [tcp EXCEPT ![stream[c]].to_server = Append(@, NextRequest(c))]
      PROVE  PassageInv'
  <2> DEFINE k == stream[c]
             r == NextRequest(c)
             ws == Streams
             rq2 == requested'
  <2>1. k \in Conn /\ tcp \in Net
    BY <1>5 DEF TypeInv, OwnInv, NetTypes
  <2>2. Streams' = [ws EXCEPT ![k] = Append(@, r)]
    <3>1. \A l \in Conn : tcp'[l].to_server = IF l = k THEN Append(tcp[k].to_server, r)
                                                      ELSE tcp[l].to_server
      BY <1>5, <2>1 DEF Net, Wire
    <3> HIDE DEF k, r
    <3> QED BY <2>1, <3>1 DEF Streams
  <2>3. Carriers(ws, to_raftnode, rq2, handled)
    <3>1. rq2 \in [Client -> Nat]
      BY <1>1 DEF TypeInv, ClientTypes
    <3>2. Carriers(ws, to_raftnode, requested, handled)
      BY StreamsCarry
    <3> HIDE DEF ws, rq2
    <3> QED BY <3>1, <3>2 DEF Carriers
  <2> HIDE DEF k, r, ws, rq2
  <2>4. Passage(ws, to_raftnode, rq2, handled) /\ r \in Request
        /\ Nowhere(r, ws, to_raftnode) /\ Pending(r, rq2, handled)
    BY <1>2 DEF ws, rq2, r
  <2>5. Passage([ws EXCEPT ![k] = Append(@, r)], to_raftnode, rq2, handled)
    BY <2>1, <2>3, <2>4, PassageWrites
  <2> QED BY <1>3, <2>2, <2>5 DEF PassageInv, rq2
<1>6. CASE end_client(c)
  BY <1>4, <1>6, ClientClosesFades DEF end_client, ClientsClosed, WiresFade
<1>7. CASE UNCHANGED tcp
  BY <1>4, <1>7, SameFades DEF WiresFade
<1> QED BY <1>5, <1>6, <1>7 DEF put, NextRequest

\* A request is read from a connection...
LEMMA PassageReads ==
  ASSUME NEW ws, NEW ns, NEW rq, NEW hd, Carriers(ws, ns, rq, hd), Passage(ws, ns, rq, hd),
         NEW k \in Conn, ws[k] # << >>, Head(ws[k]) \in Request
  PROVE  LET ws2 == [ws EXCEPT ![k] = Tail(@)]
         IN  /\ Carriers(ws2, ns, rq, hd) /\ Passage(ws2, ns, rq, hd)
             /\ Nowhere(Head(ws[k]), ws2, ns) /\ Pending(Head(ws[k]), rq, hd)
<1> DEFINE ws2 == [ws EXCEPT ![k] = Tail(@)]
           q == Tail(ws[k])
           r == Head(ws[k])
<1>1. ws[k] \in Seq(Frame) /\ q \in Seq(Frame)
  BY SequenceTail DEF Carriers
<1>2. r \in ToSet(ws[k]) /\ ToSet(q) \subseteq ToSet(ws[k]) /\ Distinct(q) /\ r \notin ToSet(q)
  BY <1>1, TailDistinct DEF Passage, OnePlace
<1>3. \A l \in Conn : ws2[l] = IF l = k THEN q ELSE ws[l]
  BY DEF Carriers
<1>4. ws2 \in [Conn -> Seq(Frame)]
  BY <1>1 DEF Carriers
<1>5. r \in Request
  OBVIOUS
<1> HIDE DEF ws2, q, r
<1>6. Carriers(ws2, ns, rq, hd)
  BY <1>4 DEF Carriers
<1>7. /\ \A l \in Conn : /\ Distinct(ws2[l])
                         /\ \A m \in Request : m \in ToSet(ws2[l]) => m \in ToSet(ws[l])
      /\ \A s \in Server : Distinct(ns[s])
  BY <1>2, <1>3 DEF Passage, OnePlace
<1>8. Passage(ws2, ns, rq, hd)
  BY <1>7, PassageLeaves
<1>9. Nowhere(r, ws2, ns)
  BY <1>2, <1>3, <1>5 DEF Nowhere, Passage, OnePlace
<1>10. Pending(r, rq, hd)
  BY <1>2, <1>5 DEF Nowhere, Passage, AllPending
<1> QED BY <1>6, <1>8, <1>9, <1>10 DEF ws2, r

\* ...or taken from a node's queue.
LEMMA PassageDequeues ==
  ASSUME NEW ws, NEW ns, NEW rq, NEW hd, Carriers(ws, ns, rq, hd), Passage(ws, ns, rq, hd),
         NEW s \in Server, ns[s] # << >>
  PROVE  LET ns2 == [ns EXCEPT ![s] = Tail(@)]
         IN  /\ Carriers(ws, ns2, rq, hd) /\ Passage(ws, ns2, rq, hd)
             /\ Head(ns[s]) \in Request
             /\ Nowhere(Head(ns[s]), ws, ns2) /\ Pending(Head(ns[s]), rq, hd)
<1> DEFINE ns2 == [ns EXCEPT ![s] = Tail(@)]
           q == Tail(ns[s])
           r == Head(ns[s])
<1>1. ns[s] \in Seq(Request) /\ q \in Seq(Request) /\ r \in Request
  BY SequenceTail DEF Carriers
<1>2. r \in ToSet(ns[s]) /\ ToSet(q) \subseteq ToSet(ns[s]) /\ Distinct(q) /\ r \notin ToSet(q)
  BY <1>1, TailDistinct DEF Passage, OnePlace
<1>3. \A t \in Server : ns2[t] = IF t = s THEN q ELSE ns[t]
  BY DEF Carriers
<1>4. ns2 \in [Server -> Seq(Request)]
  BY <1>1 DEF Carriers
<1> HIDE DEF ns2, q, r
<1>6. Carriers(ws, ns2, rq, hd)
  BY <1>4 DEF Carriers
<1>7. /\ \A t \in Server : /\ Distinct(ns2[t])
                           /\ \A m \in Request : m \in ToSet(ns2[t]) => m \in ToSet(ns[t])
      /\ \A k \in Conn : Distinct(ws[k])
  BY <1>2, <1>3 DEF Passage, OnePlace
<1>8. Passage(ws, ns2, rq, hd)
  BY <1>7, PassageLeaves
<1>9. Nowhere(r, ws, ns2)
  BY <1>1, <1>2, <1>3 DEF Nowhere, Passage, OnePlace
<1>10. Pending(r, rq, hd)
  BY <1>1, <1>2 DEF Nowhere, Passage, AllPending
<1> QED BY <1>1, <1>6, <1>8, <1>9, <1>10 DEF ns2, r

LEMMA ServePassage ==
  ASSUME TypeInv, PassageInv, NEW s \in Server, NEW w \in ClientData, serve(s, w),
         UNCHANGED <<requested, handled>>
  PROVE  PassageInv'
<1> DEFINE id == w.id
           k == sessions[s][id]
<1>1. id \in Server
  BY DEF ClientData
<1>2. CASE UNCHANGED <<tcp, to_raftnode>>
  BY <1>2, SameQuiet, PassageQuiet
<1>3. CASE k # None /\ tcp[k].to_server # << >> /\ read_request(s, w)
  <2>1. k \in Conn /\ tcp[k].to_server \in Seq(Request) /\ tcp \in Net
    BY <1>1, <1>3, SessionRequests DEF TypeInv, OwnInv, NetTypes
  <2> DEFINE ws == Streams
             ns == to_raftnode
             r == Head(ws[k])
             ws2 == [ws EXCEPT ![k] = Tail(@)]
  <2>2. ws[k] = tcp[k].to_server
    BY <2>1 DEF Streams
  <2>3. ws[k] # << >> /\ r \in Request
    BY <1>3, <2>1, <2>2, FrameSequences
  <2>4. Streams' = ws2
    <3> DEFINE q == Tail(tcp[k].to_server)
    <3>1. \A l \in Conn : tcp'[l].to_server = IF l = k THEN q ELSE tcp[l].to_server
      BY <1>3, <2>1 DEF read_request, Net, Wire
    <3> HIDE DEF k, q
    <3>2. Streams' = [Streams EXCEPT ![k] = q] /\ Streams[k] = tcp[k].to_server
      BY <2>1, <3>1 DEF Streams
    <3> QED BY <3>2 DEF q
  <2>5. to_raftnode' = [ns EXCEPT ![s] = Append(@, r)]
    BY <1>3, <2>2 DEF read_request
  <2>6. Carriers(ws, ns, requested, handled) /\ Passage(ws, ns, requested, handled)
    BY StreamsCarry DEF PassageInv
  <2> HIDE DEF k, ws, ns
  <2>7. /\ Carriers(ws2, ns, requested, handled) /\ Passage(ws2, ns, requested, handled)
        /\ Nowhere(r, ws2, ns) /\ Pending(r, requested, handled)
    BY <2>1, <2>3, <2>6, PassageReads
  <2> HIDE DEF r, ws2
  <2>8. Passage(ws2, [ns EXCEPT ![s] = Append(@, r)], requested, handled)
    BY <2>3, <2>7, PassageEnqueues
  <2> QED BY <2>4, <2>5, <2>8 DEF PassageInv
<1>4. CASE remove_client(s, w) /\ UNCHANGED to_raftnode
  <2>1. WiresFade(tcp, tcp')
    BY <1>4, ServerClosesFades, SMTT(20) DEF remove_client
  <2> QED BY <1>4, <2>1, PassageQuiet DEF Quiet, QueuesFade, WiresFade
<1> QED BY <1>2, <1>3, <1>4 DEF serve, delete_client_data

LEMMA HandlePassage ==
  ASSUME TypeInv, PassageInv, NEW s \in Server, handle_client_request(s)
  PROVE  /\ PassageInv' /\ Head(to_raftnode[s]) \in Request
         /\ Pending(Head(to_raftnode[s]), requested, handled)
<1> DEFINE ws == Streams
           ns == to_raftnode
           r == Head(ns[s])
           ns2 == [ns EXCEPT ![s] = Tail(@)]
<1>1. /\ handled' = [handled EXCEPT ![r.client] = Append(@, [server |-> s, no |-> r.no])]
      /\ to_raftnode' = ns2 /\ requested' = requested /\ ns[s] # << >>
  BY DEF handle_client_request, clientVars
<1>2. Streams' = ws
  BY DEF handle_client_request, Streams
<1>3. Carriers(ws, ns, requested, handled) /\ Passage(ws, ns, requested, handled)
  BY StreamsCarry DEF PassageInv
<1> HIDE DEF ws, ns
<1>4. /\ Carriers(ws, ns2, requested, handled) /\ Passage(ws, ns2, requested, handled)
      /\ r \in Request /\ Nowhere(r, ws, ns2) /\ Pending(r, requested, handled)
  BY <1>1, <1>3, PassageDequeues
<1> HIDE DEF r, ns2
<1>5. Passage(ws, ns2, requested,
              [handled EXCEPT ![r.client] = Append(@, [server |-> s, no |-> r.no])])
  BY <1>4, PassageHandles
<1> QED BY <1>1, <1>2, <1>4, <1>5 DEF PassageInv, r, ns

LEMMA ReadCbFades ==
  ASSUME TypeInv, NEW c \in Client, read_cb(c)
  PROVE  StreamsFade(tcp, tcp')
<1> DEFINE reply == Head(tcp[stream[c]].to_client)
<1>1. stream[c] \in Conn /\ tcp[stream[c]].to_client # << >> /\ tcp \in Net
  BY DEF TypeInv, OwnInv, NetTypes, read_cb, Woken
<1>2. CASE tcp' = [tcp EXCEPT ![stream[c]].to_client = Tail(@)]
  <2>1. \A k \in Conn : tcp'[k].to_server = tcp[k].to_server
    BY <1>1, <1>2 DEF Net, Wire
  <2> QED BY <2>1 DEF StreamsFade, StreamFades
<1>3. CASE connect_to_server(c, reply.leader_hint)
  <2>1. tcp[stream[c]].to_client \in Seq(Reply)
    BY <1>1 DEF Net, Wire
  <2>2. reply \in Reply
    BY <1>1, <2>1, SequenceTail
  <2>3. reply.leader_hint \in Server
    BY <2>2 DEF Reply
  <2> HIDE DEF reply
  <2> QED BY <1>3, <2>3, ConnectFades DEF WiresFade
<1> QED BY <1>2, <1>3 DEF read_cb

LEMMA WriteQuiet ==
  ASSUME TypeInv, NEW s \in Server, write_reply(s)
  PROVE  Quiet
<1>1. UNCHANGED <<requested, handled>>
  BY DEF write_reply, end_server, clientVars
<1>2. CASE end_server(s)
  <2>1. StreamsFade(tcp, tcp')
    BY <1>2, ServerClosesFades DEF end_server, WiresFade
  <2>2. QueuesFade
    BY <1>2 DEF end_server, QueuesFade, TypeInv, NodeTypes
  <2> QED BY <1>1, <2>1, <2>2 DEF Quiet
<1>3. CASE tcp' = Written(sending[s].conn, sending[s].reply) /\ UNCHANGED to_raftnode
  <2>1. \A k \in Conn : tcp'[k].to_server = tcp[k].to_server
    BY <1>3, WrittenNet DEF TypeInv, write_reply
  <2> QED BY <1>1, <1>3, <2>1 DEF Quiet, QueuesFade, StreamsFade, StreamFades
<1>4. CASE UNCHANGED <<tcp, to_raftnode>>
  BY <1>1, <1>4, SameQuiet
<1> QED BY <1>2, <1>3, <1>4 DEF write_reply

LEMMA ClientQuiet ==
  ASSUME TypeInv, NEW c \in Client, ClientLoop(c) \/ ClientMain(c) \/ run(c) \/ stop(c) \/ quit(c)
  PROVE  Quiet
<1>1. UNCHANGED <<to_raftnode, requested, handled>>
  BY DEF ClientLoop, ClientMain, event_loop, read_cb, read_cb_ended, end_event_loop,
     set_running, stop_returns, run, stop, quit, end_client, nodeVars
<1>2. CASE StreamsFade(tcp, tcp')
  BY <1>1, <1>2 DEF Quiet, QueuesFade
<1>3. CASE read_cb(c)
  BY <1>2, <1>3, ReadCbFades
<1>4. CASE run(c)
  BY <1>2, <1>4, ConnectFades, SessionAssumption DEF run, WiresFade
<1>5. CASE quit(c)
  BY <1>2, <1>5, ClientClosesFades DEF quit, end_client, ClientsClosed, WiresFade
<1>6. CASE UNCHANGED tcp
  BY <1>2, <1>6, SameFades DEF WiresFade
<1> QED BY <1>3, <1>4, <1>5, <1>6 DEF ClientLoop, ClientMain, event_loop, read_cb_ended,
        end_event_loop, set_running, stop_returns, stop

LEMMA AcceptLoopPassage ==
  ASSUME TypeInv, PassageInv, NEW s \in Server, AcceptLoop(s)
  PROVE  PassageInv' /\ UNCHANGED <<requested, handled>>
<1>1. UNCHANGED <<requested, handled>>
  BY DEF AcceptLoop, accept_cb, handshake_cb, handle_handshake_timeout, fd_kill, client_cb,
     client_cb_resumes, clientVars, nodeVars
<1>2. ASSUME WiresFade(tcp, tcp'), UNCHANGED to_raftnode PROVE PassageInv'
  BY <1>1, <1>2, PassageQuiet DEF Quiet, QueuesFade, WiresFade
<1>3. ASSUME NEW w \in client_data[s] \cup pending[s], client_cb(s, w) PROVE PassageInv'
  <2>1. w \in ClientData
    BY DEF TypeInv, WatchInv
  <2>2. CASE serve(s, w)
    BY <1>1, <2>1, <2>2, ServePassage
  <2>3. CASE UNCHANGED <<to_raftnode, tcp>>
    BY <1>2, <2>3, SameFades
  <2> QED BY <1>3, <2>2, <2>3 DEF client_cb
<1>4. CASE client_cb_resumes(s)
  <2>1. reading[s] \in ClientData /\ serve(s, reading[s])
    BY <1>4 DEF TypeInv, WatchInv, client_cb_resumes
  <2> QED BY <1>1, <2>1, ServePassage
<1>5. ASSUME NEW k \in Conn,
             \/ accept_cb(s, k) \/ handshake_cb(s, k)
             \/ handle_handshake_timeout(s, k) \/ fd_kill(s, k)
      PROVE  PassageInv'
  <2>1. UNCHANGED to_raftnode
    BY <1>5 DEF accept_cb, handshake_cb, handle_handshake_timeout, fd_kill, nodeVars
  <2>2. WiresFade(tcp, tcp')
    <3>1. CASE accept_cb(s, k) \/ fd_kill(s, k)
      BY <3>1, SameFades DEF accept_cb, fd_kill
    <3>2. CASE handle_handshake_timeout(s, k)
      BY <3>2, ServerClosesFades DEF handle_handshake_timeout
    <3> QED BY <1>5, <3>1, <3>2, HandshakeFades
  <2> QED BY <1>2, <2>1, <2>2
<1> QED BY <1>1, <1>3, <1>4, <1>5 DEF AcceptLoop

LEMMA PassageStep ==
  ASSUME TypeInv, PassageInv, [Next]_vars
  PROVE  /\ PassageInv'
         /\ \/ UNCHANGED <<requested, handled>>
            \/ \E c \in Client : put(c)
            \/ \E s \in Server : handle_client_request(s)
<1>1. ASSUME Quiet PROVE PassageInv' /\ UNCHANGED <<requested, handled>>
  BY <1>1, PassageQuiet DEF Quiet
<1>2. CASE UNCHANGED vars
  BY <1>1, <1>2, SameQuiet DEF vars, clientVars, nodeVars
<1>3. ASSUME NEW k \in Conn, Reset(k) PROVE Quiet
  BY <1>3, ResetFades DEF Reset, Quiet, QueuesFade, WiresFade, clientVars, nodeVars
<1>4. ASSUME NEW s \in Server, apply_to_state_machine(s) PROVE Quiet
  BY <1>4, SameQuiet DEF apply_to_state_machine, clientVars
<1> QED BY <1>1, <1>2, <1>3, <1>4, AcceptLoopPassage, HandlePassage, WriteQuiet, ClientQuiet,
           PutPassage DEF Next, NodeLoop, Command

LEMMA PassageInvHolds == Spec => []PassageInv
<1>1. TypeInv /\ PassageInv /\ [Next]_vars => PassageInv'
  BY PassageStep
<1> QED BY <1>1, PassageInit, TypeInvHolds, PTL DEF Spec

\* The numbers of the requests that were handled, as LossyChannel sees them.
Numbers(h) == [i \in DOMAIN h |-> h[i].no]

HandledNumbers == [c \in Client |-> Numbers(handled[c])]

LEMMA NumbersAppend ==
  ASSUME NEW h \in Seq([server : Server, no : Nat]), NEW e \in [server : Server, no : Nat]
  PROVE  Numbers(Append(h, e)) = Append(Numbers(h), e.no)
<1> DEFINE q == Append(h, e)
<1>1. /\ q \in Seq([server : Server, no : Nat])
      /\ Len(h) \in Nat /\ Len(q) = Len(h) + 1 /\ q[Len(h) + 1] = e
      /\ \A i \in 1 .. Len(h) : q[i] = h[i]
  BY SequenceAppend
<1>2. DOMAIN h = 1 .. Len(h) /\ DOMAIN q = 1 .. Len(h) + 1
  BY <1>1, LenProperties
<1>3. ASSUME NEW i \in 1 .. Len(h) PROVE h[i].no \in Nat
  <2>1. h[i] \in [server : Server, no : Nat]
    BY ElementOfSeq
  <2> QED BY <2>1
<1> HIDE DEF q
<1>4. Numbers(h) \in Seq(Nat) /\ Len(Numbers(h)) = Len(h)
  BY <1>1, <1>2, <1>3 DEF Numbers
<1>5. Numbers(q) = Append(Numbers(h), e.no)
  BY <1>1, <1>2, <1>4 DEF Numbers
<1> QED BY <1>5 DEF q

LEMMA RequestsInit == Init => Requests!Init
<1> SUFFICES ASSUME Init PROVE Requests!Init
  OBVIOUS
<1>1. \A c \in Client : [i \in DOMAIN handled[c] |-> handled[c][i].no] = << >>
  BY DEF Init
<1> QED BY <1>1 DEF Init, Requests!Init

LEMMA RequestsSend ==
  ASSUME NEW c \in Client, put(c)
  PROVE  Requests!Next
<1>1. requested' = [requested EXCEPT ![c] = @ + 1] /\ HandledNumbers' = HandledNumbers
  BY DEF put, end_client, nodeVars, HandledNumbers
<1>2. Requests!Send(c)
  BY <1>1 DEF Requests!Send, HandledNumbers, Numbers
<1> QED BY <1>2 DEF Requests!Next

LEMMA RequestsReceive ==
  ASSUME NEW c \in Client, NEW n \in 1 .. requested[c], ~Done(handled, c, n), UNCHANGED requested,
         HandledNumbers' = [HandledNumbers EXCEPT ![c] = Append(@, n)]
  PROVE  Requests!Next
<1>1. n \in (1 .. requested[c]) \ Requests!ToSet(HandledNumbers[c])
  BY DEF Done, HandledNumbers, Numbers, Requests!ToSet
<1>2. Requests!Receive(c)
  BY <1>1 DEF Requests!Receive, HandledNumbers, Numbers
<1> QED BY <1>2 DEF Requests!Next

LEMMA RequestsHandle ==
  ASSUME TypeInv, PassageInv, NEW s \in Server, handle_client_request(s)
  PROVE  Requests!Next
<1> DEFINE r == Head(to_raftnode[s])
           c == r.client
           e == [server |-> s, no |-> r.no]
<1>1. r \in Request /\ Pending(r, requested, handled)
  BY HandlePassage
<1>2. c \in Client /\ r.no \in Nat \ {0} /\ e \in [server : Server, no : Nat] /\ e.no = r.no
  BY <1>1 DEF Request
<1>3. handled' = [handled EXCEPT ![c] = Append(@, e)] /\ requested' = requested
  BY DEF handle_client_request, clientVars
<1>4. handled \in [Client -> Seq([server : Server, no : Nat])]
  BY DEF TypeInv, NodeTypes
<1>5. r.no \in 1 .. requested[c] /\ ~Done(handled, c, r.no)
  BY <1>1, <1>2 DEF TypeInv, ClientTypes, Pending
<1> HIDE DEF r, c, e
<1>6. Numbers(Append(handled[c], e)) = Append(Numbers(handled[c]), r.no)
  BY <1>2, <1>4, NumbersAppend
<1>7. HandledNumbers' = [HandledNumbers EXCEPT ![c] = Append(@, r.no)]
  BY <1>2, <1>3, <1>4, <1>6 DEF HandledNumbers
<1> QED BY <1>2, <1>3, <1>5, <1>7, RequestsReceive

LEMMA RequestsStep ==
  TypeInv /\ PassageInv /\ [Next]_vars => [Requests!Next]_<<requested, HandledNumbers>>
<1> SUFFICES ASSUME TypeInv, PassageInv, [Next]_vars
             PROVE  Requests!Next \/ UNCHANGED <<requested, HandledNumbers>>
  OBVIOUS
<1>1. CASE UNCHANGED <<requested, handled>>
  BY <1>1 DEF HandledNumbers
<1> QED BY <1>1, PassageStep, RequestsSend, RequestsHandle

\* The requests implement the lossy channel: across sessions, refusals, left-over
\* watchers, redirections and servers that end, no request of a client is handled
\* twice, and none that it did not send (put, client_cb, handle_client_request).
THEOREM RequestsImplemented == Spec => ImplementsRequests
<1>1. [](TypeInv /\ PassageInv) /\ [][Next]_vars
         => [][Requests!Next]_<<requested, HandledNumbers>>
  BY RequestsStep, PTL
<1>2. Spec => Requests!Init /\ [][Requests!Next]_<<requested, HandledNumbers>>
  BY <1>1, RequestsInit, TypeInvHolds, PassageInvHolds, PTL DEF Spec
<1> QED BY <1>2, PTL DEF ImplementsRequests, Requests!Spec, HandledNumbers, Numbers

-----------------------------------------------------------------------------
(* Replies on their way to a client                                        *)

\* q has the reply to request n of client c, or the request that is to be replied to.
Holds(q, c, n) == \E i \in DOMAIN q : q[i].client = c /\ q[i].no = n

\* It has no two for the same request.
Once(q) ==
    \A i, j \in DOMAIN q :
        q[i].client # None /\ q[i].client = q[j].client /\ q[i].no = q[j].no => i = j

LEMMA EmptyHolds == Once(<< >>) /\ \A c, n : ~Holds(<< >>, c, n)
  BY DEF Once, Holds

LEMMA SingleHolds ==
  ASSUME NEW m
  PROVE  Once(<<m>>) /\ \A c, n : Holds(<<m>>, c, n) <=> m.client = c /\ m.no = n
<1>1. DOMAIN <<m>> = {1} /\ <<m>>[1] = m
  OBVIOUS
<1> QED BY <1>1 DEF Once, Holds

LEMMA TailHolds ==
  ASSUME NEW S, NEW q \in Seq(S), q # << >>, Once(q)
  PROVE  /\ Once(Tail(q)) /\ Holds(q, Head(q).client, Head(q).no)
         /\ \A c, n : Holds(Tail(q), c, n) => Holds(q, c, n)
         /\ Head(q).client # None => ~Holds(Tail(q), Head(q).client, Head(q).no)
<1>1. /\ Len(q) \in Nat \ {0} /\ q[1] = Head(q) /\ Tail(q) \in Seq(S)
      /\ Len(Tail(q)) = Len(q) - 1
      /\ \A i \in 1 .. Len(q) - 1 : Tail(q)[i] = q[i + 1]
  BY SequenceTail
<1> DEFINE r == Tail(q)
           h == Head(q)
<1>2. DOMAIN q = 1 .. Len(q) /\ DOMAIN r = 1 .. Len(q) - 1
  BY <1>1, LenProperties
<1>3. \A i \in DOMAIN r : i + 1 \in DOMAIN q /\ i + 1 # 1 /\ r[i] = q[i + 1]
  BY <1>1, <1>2
<1>4. 1 \in DOMAIN q /\ q[1] = h /\ \A i, j \in DOMAIN r : i + 1 = j + 1 => i = j
  BY <1>1, <1>2
<1> HIDE DEF r, h
<1>5. Holds(q, h.client, h.no) /\ \A c, n : Holds(r, c, n) => Holds(q, c, n)
  BY <1>3, <1>4 DEF Holds
<1>6. Once(r)
  BY <1>3, <1>4 DEF Once
<1>7. h.client # None => ~Holds(r, h.client, h.no)
  BY <1>3, <1>4 DEF Once, Holds
<1> QED BY <1>5, <1>6, <1>7 DEF r, h

LEMMA AppendHolds ==
  ASSUME NEW S, NEW q \in Seq(S), NEW m \in S, Once(q),
         m.client # None => ~Holds(q, m.client, m.no)
  PROVE  /\ Once(Append(q, m))
         /\ \A c, n : Holds(Append(q, m), c, n) <=> Holds(q, c, n) \/ (m.client = c /\ m.no = n)
<1> DEFINE r == Append(q, m)
           l == Len(q) + 1
<1>1. /\ r \in Seq(S) /\ Len(q) \in Nat /\ Len(r) = l /\ r[l] = m
      /\ \A i \in 1 .. Len(q) : r[i] = q[i]
  BY SequenceAppend
<1>2. DOMAIN q = 1 .. Len(q) /\ DOMAIN r = 1 .. l
  BY <1>1, LenProperties
<1>3. /\ \A i : i \in DOMAIN r <=> i \in DOMAIN q \/ i = l
      /\ \A i \in DOMAIN q : r[i] = q[i]
  BY <1>1, <1>2
<1> HIDE DEF r, l
<1>4. \A c, n : Holds(r, c, n) <=> Holds(q, c, n) \/ (m.client = c /\ m.no = n)
  BY <1>1, <1>3 DEF Holds
<1>5. Once(r)
  BY <1>1, <1>3 DEF Once, Holds
<1> QED BY <1>4, <1>5 DEF r

\* h is what the places of P hold, hd what was handled.
Apart(P, h, hd) ==
    /\ \A p \in P : Once(h[p])
    /\ \A p, q \in P, c \in Client : \A n : Holds(h[p], c, n) /\ Holds(h[q], c, n) => p = q
    /\ \A p \in P, c \in Client : \A n : Holds(h[p], c, n) => Done(hd, c, n)

\* Replies leave their places.
LEMMA ApartLeaves ==
  ASSUME NEW P, NEW h, NEW h2, NEW hd, Apart(P, h, hd), \A p \in P : Once(h2[p]),
         \A p \in P, c \in Client : \A n : Holds(h2[p], c, n) => Holds(h[p], c, n)
  PROVE  Apart(P, h2, hd)
  BY DEF Apart

\* Where a reply, or what will be replied to, is: in the log of the leader, in
\* send_to_client, on a connection, or with its client.
Place == ({"log", "answers"} \X {None}) \cup ({"sending"} \X Server) \cup ({"wire"} \X Conn)

Log == <<"log", None>>

Read == <<"answers", None>>

Sending(s) == <<"sending", s>>

OnWire(k) == <<"wire", k>>

Sends(s) == IF sending[s] = None THEN << >> ELSE <<sending[s].reply>>

Held ==
    [p \in Place |-> CASE p[1] = "log"     -> accepted[leader]
                       [] p[1] = "answers" -> answers
                       [] p[1] = "sending" -> Sends(p[2])
                       [] p[1] = "wire"    -> tcp[p[2]].to_client]

\* Inductive, given the types and PassageInv.
ReplyInv == Apart(Place, Held, handled)

LEMMA Places ==
  /\ Log \in Place /\ Read \in Place /\ Log # Read
  /\ \A s \in Server : Sending(s) \in Place /\ Sending(s) # Log /\ Sending(s) # Read
  /\ \A k \in Conn : OnWire(k) \in Place /\ OnWire(k) # Log /\ OnWire(k) # Read
  /\ \A s \in Server, k \in Conn : Sending(s) # OnWire(k)
  /\ \A s, t \in Server : Sending(s) = Sending(t) => s = t
  /\ \A k, l \in Conn : OnWire(k) = OnWire(l) => k = l
  /\ \A p \in Place : \/ p = Log \/ p = Read
                      \/ \E s \in Server : p = Sending(s)
                      \/ \E k \in Conn : p = OnWire(k)
  BY DEF Place, Log, Read, Sending, OnWire

LEMMA HeldAt ==
  /\ Held[Log] = accepted[leader] /\ Held[Read] = answers
  /\ \A s \in Server : Held[Sending(s)] = Sends(s)
  /\ \A k \in Conn : Held[OnWire(k)] = tcp[k].to_client
  BY DEF Held, Place, Log, Read, Sending, OnWire

LEMMA HeldNext ==
  /\ Held'[Log] = accepted'[leader'] /\ Held'[Read] = answers'
  /\ \A s \in Server : Held'[Sending(s)] = Sends(s)'
  /\ \A k \in Conn : Held'[OnWire(k)] = tcp'[k].to_client
  BY DEF Held, Place, Log, Read, Sending, OnWire

LEMMA ReplyInit == Init => ReplyInv
<1> SUFFICES ASSUME Init PROVE ReplyInv
  OBVIOUS
<1>1. \A p \in Place : Held[p] = << >>
  <2>1. accepted[leader] = << >> /\ answers = << >>
    BY DEF Init
  <2>2. \A s \in Server : Sends(s) = << >>
    BY DEF Init, Sends
  <2>3. \A k \in Conn : tcp[k].to_client = << >>
    BY DEF Init, Unused
  <2> QED BY <2>1, <2>2, <2>3, Places, HeldAt
<1>2. \A p \in Place : Once(Held[p]) /\ \A c, n : ~Holds(Held[p], c, n)
  BY <1>1, EmptyHolds
<1> QED BY <1>2 DEF ReplyInv, Apart

\* Everywhere but in the places of ps replies stay or are lost.
OthersFade(ps) == \A p \in Place \ ps : Held'[p] \in {Held[p], << >>}

LEMMA FadesHold ==
  ASSUME ReplyInv, NEW p \in Place, Held'[p] \in {Held[p], << >>}
  PROVE  Once(Held'[p]) /\ \A c, n : Holds(Held'[p], c, n) => Holds(Held[p], c, n)
<1>1. Once(Held[p])
  BY DEF ReplyInv, Apart
<1> QED BY <1>1, EmptyHolds

LEMMA OthersFadeHold ==
  ASSUME ReplyInv, NEW ps, OthersFade(ps), NEW p \in Place, p \notin ps
  PROVE  Once(Held'[p]) /\ \A c, n : Holds(Held'[p], c, n) => Holds(Held[p], c, n)
  BY FadesHold DEF OthersFade

\* Nothing is accepted, written or read.
RepliesQuiet == OthersFade({}) /\ UNCHANGED handled

LEMMA ReplyQuiet == ReplyInv /\ RepliesQuiet => ReplyInv'
<1> SUFFICES ASSUME ReplyInv, RepliesQuiet PROVE ReplyInv'
  OBVIOUS
<1> DEFINE h == Held
           h2 == Held'
<1>1. \A p \in Place : Once(h2[p])
  BY OthersFadeHold DEF RepliesQuiet
<1>2. \A p \in Place, c \in Client : \A n : Holds(h2[p], c, n) => Holds(h[p], c, n)
  BY OthersFadeHold DEF RepliesQuiet
<1>3. Apart(Place, h, handled)
  BY DEF ReplyInv
<1> HIDE DEF h, h2
<1>4. Apart(Place, h2, handled)
  BY <1>1, <1>2, <1>3, ApartLeaves
<1> QED BY <1>4 DEF h2, ReplyInv, RepliesQuiet

\* The reply to request no of client is put into the place o, and leaves the
\* place q it was in.
LEMMA ReplyMoves ==
  ASSUME ReplyInv, NEW o \in Place, NEW q \in Place, NEW client, NEW no, OthersFade({o, q}),
         Once(Held'[o]) /\ Once(Held'[q]),
         \A c, n : Holds(Held'[o], c, n) => Holds(Held[o], c, n) \/ (c = client /\ n = no),
         q # o => \A c \in Client : \A n :
                     Holds(Held'[q], c, n) => Holds(Held[q], c, n) /\ ~(c = client /\ n = no),
         client \in Client => \A p \in Place : Holds(Held[p], client, no) => p = q,
         client \in Client => Done(handled', client, no),
         \A c \in Client : \A n : Done(handled, c, n) => Done(handled', c, n)
  PROVE  ReplyInv'
<1> DEFINE h == Held
           h2 == Held'
           hd2 == handled'
<1>1. ASSUME NEW p \in Place
      PROVE  /\ Once(h2[p])
             /\ \A c \in Client : \A n :
                   Holds(h2[p], c, n) => \/ Holds(h[p], c, n) /\ ~(c = client /\ n = no)
                                         \/ p = o /\ c = client /\ n = no
  <2>1. CASE p = o
    BY <2>1
  <2>2. CASE p = q /\ q # o
    BY <2>2
  <2>3. CASE p # o /\ p # q
    <3>1. Once(h2[p]) /\ \A c, n : Holds(h2[p], c, n) => Holds(h[p], c, n)
      BY <2>3, OthersFadeHold
    <3> QED BY <2>3, <3>1
  <2> QED BY <2>1, <2>2, <2>3
<1>2. Apart(Place, h, handled)
  BY DEF ReplyInv
<1>3. /\ client \in Client => Done(hd2, client, no)
      /\ \A c \in Client : \A n : Done(handled, c, n) => Done(hd2, c, n)
  OBVIOUS
<1>4. /\ \A p \in Place : Once(h2[p])
      /\ \A p \in Place, c \in Client : \A n :
            Holds(h2[p], c, n) => \/ Holds(h[p], c, n) /\ ~(c = client /\ n = no)
                                  \/ p = o /\ c = client /\ n = no
  BY <1>1
<1> HIDE DEF h, h2, hd2
<1>5. \A p \in Place, c \in Client : \A n : Holds(h2[p], c, n) => Done(hd2, c, n)
  BY <1>2, <1>3, <1>4 DEF Apart
<1>6. \A p1, p2 \in Place, c \in Client : \A n :
         Holds(h2[p1], c, n) /\ Holds(h2[p2], c, n) => p1 = p2
  BY <1>2, <1>4, ZenonT(30) DEF Apart
<1>7. Apart(Place, h2, hd2)
  BY <1>4, <1>5, <1>6 DEF Apart
<1> QED BY <1>7 DEF h2, hd2, ReplyInv

LEMMA OthersFadeAt ==
  ASSUME NEW ps,
         Log \notin ps => accepted'[leader'] \in {accepted[leader], << >>},
         Read \notin ps => answers' \in {answers, << >>},
         \A s \in Server : Sending(s) \notin ps => Sends(s)' \in {Sends(s), << >>},
         \A k \in Conn : OnWire(k) \notin ps => tcp'[k].to_client \in {tcp[k].to_client, << >>}
  PROVE  OthersFade(ps)
<1>1. ASSUME NEW p \in Place, p \notin ps PROVE Held'[p] \in {Held[p], << >>}
  BY <1>1, Places, HeldAt, HeldNext
<1> QED BY <1>1 DEF OthersFade

\* What send_to_client is about to write.
LEMMA SendingNext ==
  ASSUME TypeInv, NEW s \in Server, NEW reply \in Reply, send_to_client(s, reply)
  PROVE  /\ Sends(s)' = << >> \/ Sends(s)' = <<reply>>
         /\ \A t \in Server : t # s => Sends(t)' = Sends(t)
<1>1. sending \in [Server -> [conn : Conn, reply : Reply] \cup {None}]
  BY DEF TypeInv, NodeTypes
<1>2. \/ sending' = [sending EXCEPT ![s] = None]
      \/ sending' = [sending EXCEPT ![s] = [conn |-> sessions[s][Zero], reply |-> reply]]
  BY DEF send_to_client
<1>3. CASE sending' = [sending EXCEPT ![s] = None]
  <2>1. sending'[s] = None /\ \A t \in Server : t # s => sending'[t] = sending[t]
    BY <1>1, <1>3
  <2> QED BY <2>1 DEF Sends
<1>4. CASE sending' = [sending EXCEPT ![s] = [conn |-> sessions[s][Zero], reply |-> reply]]
  <2>1. /\ sending'[s] = [conn |-> sessions[s][Zero], reply |-> reply]
        /\ \A t \in Server : t # s => sending'[t] = sending[t]
    BY <1>1, <1>4
  <2>2. sending'[s].reply = reply
    BY <2>1
  <2>3. Sends(s)' = << >> \/ Sends(s)' = <<reply>>
    BY <2>2 DEF Sends
  <2> QED BY <2>1, <2>3 DEF Sends
<1> QED BY <1>2, <1>3, <1>4

\* A leader keeps the request, another node is about to refuse it.
LEMMA HandleReplies ==
  ASSUME TypeInv, PassageInv, ReplyInv, NEW s \in Server, handle_client_request(s)
  PROVE  ReplyInv'
<1> DEFINE r == Head(to_raftnode[s])
           c == r.client
           n == r.no
<1>1. r \in Request /\ Pending(r, requested, handled)
  BY HandlePassage
<1>2. c \in Client /\ n \in Nat \ {0} /\ ~Done(handled, c, n)
  BY <1>1 DEF Request, Pending
<1>3. \A p \in Place : ~Holds(Held[p], c, n)
  BY <1>2 DEF ReplyInv, Apart
<1>4. \A d \in Client : \A m : Done(handled', d, m) <=> Done(handled, d, m) \/ (d = c /\ m = n)
  <2>1. Carriers(Streams, to_raftnode, requested, handled)
    BY StreamsCarry
  <2>2. handled' = [handled EXCEPT ![r.client] = Append(@, [server |-> s, no |-> r.no])]
    BY DEF handle_client_request
  <2> DEFINE ws == Streams
  <2> HIDE DEF r, c, n, ws
  <2>3. LET hd2 == [handled EXCEPT ![r.client] = Append(@, [server |-> s, no |-> r.no])]
        IN  \A d \in Client : \A m :
              Done(hd2, d, m) <=> Done(handled, d, m) \/ (d = r.client /\ m = r.no)
    BY <1>1, <2>1, DoneAppend DEF ws
  <2> QED BY <2>2, <2>3 DEF c, n
<1>5. UNCHANGED <<leader, answers, tcp>>
  BY DEF handle_client_request, clientVars
<1>6. CASE s = leader /\ accepted' = [accepted EXCEPT ![s] = Append(@, r)] /\ UNCHANGED sending
  <2>1. accepted \in [Server -> Seq(Request)] /\ leader \in Server
    BY DEF TypeInv, NodeTypes
  <2>2. \A t \in Server : Sends(t)' = Sends(t)
    BY <1>6 DEF Sends
  <2>3. OthersFade({Log, Log})
    BY <1>5, <2>2, OthersFadeAt
  <2>4. Held[Log] = accepted[leader] /\ Held'[Log] = Append(accepted[leader], r)
    BY <1>5, <1>6, <2>1, HeldAt, HeldNext
  <2>5. Once(Held[Log]) /\ ~Holds(Held[Log], c, n) /\ Log \in Place
    BY <1>3, Places DEF ReplyInv, Apart
  <2> HIDE DEF r
  <2>6. /\ Once(Held'[Log])
        /\ \A d, m : Holds(Held'[Log], d, m) <=> Holds(Held[Log], d, m) \/ (c = d /\ n = m)
    BY <1>1, <2>1, <2>4, <2>5, AppendHolds
  <2> HIDE DEF c, n
  <2> QED BY <1>3, <1>4, <2>3, <2>5, <2>6, ReplyMoves
<1>7. ASSUME NEW hint \in {Zero, leader}, UNCHANGED accepted,
             send_to_client(s, [client |-> r.client, no |-> r.no, success |-> FALSE,
                                leader_hint |-> hint])
      PROVE  ReplyInv'
  <2> DEFINE reply == [client |-> r.client, no |-> r.no, success |-> FALSE, leader_hint |-> hint]
             o == Sending(s)
  <2>1. reply \in Reply
    BY <1>1, SessionAssumption DEF TypeInv, NodeTypes, Request, Reply
  <2>2. reply.client = c /\ reply.no = n
    OBVIOUS
  <2> HIDE DEF reply
  <2>3. /\ Sends(s)' = << >> \/ Sends(s)' = <<reply>>
        /\ \A t \in Server : t # s => Sends(t)' = Sends(t)
    BY <1>7, <2>1, SendingNext DEF reply
  <2>4. OthersFade({o, o})
    BY <1>5, <1>7, <2>3, OthersFadeAt
  <2>5. Held'[o] = Sends(s)' /\ o \in Place
    BY Places, HeldNext
  <2>6. Once(Held'[o]) /\ \A d, m : Holds(Held'[o], d, m) => d = c /\ m = n
    BY <2>2, <2>3, <2>5, EmptyHolds, SingleHolds
  <2> HIDE DEF c, n, o
  <2> QED BY <1>3, <1>4, <2>4, <2>5, <2>6, ReplyMoves
<1> QED BY <1>6, <1>7 DEF handle_client_request

\* The leader replies to the request it takes from its log; the reply another node
\* sends answers nobody's.
LEMMA ApplyReplies ==
  ASSUME TypeInv, ReplyInv, NEW s \in Server, apply_to_state_machine(s)
  PROVE  ReplyInv'
<1> DEFINE reply == ReplyTo(s)
           o == Sending(s)
           r == Head(accepted[s])
<1>1. /\ accepted \in [Server -> Seq(Request)] /\ leader \in Server
      /\ accepted[s] \in Seq(Request) /\ accepted[s] # << >> /\ None \notin Client
  BY SessionAssumption DEF TypeInv, NodeTypes, apply_to_state_machine
<1>2. r \in Request
  BY <1>1, FrameSequences
<1>3. reply \in Reply
  BY <1>2, SessionAssumption DEF ReplyTo, Reply, Request
<1>4. /\ Sends(s)' = << >> \/ Sends(s)' = <<reply>>
      /\ \A t \in Server : t # s => Sends(t)' = Sends(t)
  <2>1. send_to_client(s, reply)
    BY DEF apply_to_state_machine
  <2> HIDE DEF reply
  <2> QED BY <1>3, <2>1, SendingNext
<1>5. UNCHANGED <<leader, answers, tcp, handled>>
  BY DEF apply_to_state_machine, clientVars
<1>6. accepted'[leader] = IF s = leader THEN Tail(accepted[leader]) ELSE accepted[leader]
  BY <1>1 DEF apply_to_state_machine
<1>7. o \in Place /\ Log \in Place /\ o # Log /\ Held'[o] = Sends(s)'
  BY Places, HeldNext
<1>8. /\ Once(Held'[o])
      /\ \A d, m : Holds(Held'[o], d, m) => d = reply.client /\ m = reply.no
  <2> HIDE DEF reply
  <2> QED BY <1>4, <1>7, EmptyHolds, SingleHolds
<1>9. CASE s = leader
  <2> DEFINE c == r.client
             n == r.no
  <2>1. reply.client = c /\ reply.no = n /\ c # None
    BY <1>1, <1>2, <1>9 DEF ReplyTo, Request
  <2>2. Held[Log] = accepted[s] /\ Held'[Log] = Tail(accepted[s])
    BY <1>5, <1>6, <1>9, HeldAt, HeldNext
  <2>3. Once(Held[Log])
    BY <1>7 DEF ReplyInv, Apart
  <2>4. /\ Once(Held'[Log]) /\ Holds(Held[Log], c, n) /\ ~Holds(Held'[Log], c, n)
        /\ \A d, m : Holds(Held'[Log], d, m) => Holds(Held[Log], d, m)
    BY <1>1, <2>1, <2>2, <2>3, TailHolds
  <2>5. OthersFade({o, Log})
    BY <1>4, <1>5, OthersFadeAt
  <2> HIDE DEF reply, o, c, n
  <2>6. c \in Client => \A p \in Place : Holds(Held[p], c, n) => p = Log
    BY <1>7, <2>4 DEF ReplyInv, Apart
  <2>7. c \in Client => Done(handled', c, n)
    BY <1>5, <1>7, <2>4 DEF ReplyInv, Apart
  <2>8. \A d, m : Holds(Held'[o], d, m) => Holds(Held[o], d, m) \/ (d = c /\ m = n)
    BY <1>8, <2>1
  <2>9. \A d, m : Holds(Held'[Log], d, m) => Holds(Held[Log], d, m) /\ ~(d = c /\ m = n)
    BY <2>4
  <2> QED BY <1>5, <1>7, <1>8, <2>4, <2>5, <2>6, <2>7, <2>8, <2>9, ReplyMoves
<1>10. CASE s # leader
  <2> DEFINE c == reply.client
             n == reply.no
  <2>1. c \notin Client
    BY <1>1, <1>10 DEF ReplyTo
  <2>2. OthersFade({o, o})
    BY <1>4, <1>5, <1>6, <1>10, OthersFadeAt
  <2> HIDE DEF reply, o, c, n
  <2>3. \A d, m : Holds(Held'[o], d, m) => Holds(Held[o], d, m) \/ (d = c /\ m = n)
    BY <1>8 DEF c, n
  <2> QED BY <1>5, <1>7, <1>8, <2>1, <2>2, <2>3, ReplyMoves
<1> QED BY <1>9, <1>10

\* The reply that was looked up is written, or lost.
LEMMA WriteReplies ==
  ASSUME TypeInv, ReplyInv, NEW s \in Server, write_reply(s)
  PROVE  ReplyInv'
<1> DEFINE reply == sending[s].reply
           k == sending[s].conn
           c == reply.client
           n == reply.no
           q == Sending(s)
           o == OnWire(k)
<1>1. /\ sending \in [Server -> [conn : Conn, reply : Reply] \cup {None}]
      /\ accepted \in [Server -> Seq(Request)] /\ leader \in Server
      /\ sending[s] # None /\ sending' = [sending EXCEPT ![s] = None]
  BY DEF TypeInv, NodeTypes, write_reply
<1>2. UNCHANGED <<leader, answers, handled>>
  BY DEF write_reply, end_server, clientVars
<1>3. Sends(s) = <<reply>> /\ Sends(s)' = << >> /\ \A t \in Server : t # s => Sends(t)' = Sends(t)
  BY <1>1 DEF Sends
<1>4. CASE end_server(s)
  <2>1. accepted'[leader'] \in {accepted[leader], << >>}
    BY <1>1, <1>4 DEF end_server
  <2>2. RepliesFade(tcp, tcp')
    BY <1>4, ServerClosesFades DEF end_server, WiresFade
  <2>3. OthersFade({})
    BY <1>2, <1>3, <2>1, <2>2, OthersFadeAt DEF RepliesFade
  <2> QED BY <1>2, <2>3, ReplyQuiet DEF RepliesQuiet
<1>5. CASE UNCHANGED <<accepted, tcp>>
  <2>1. OthersFade({})
    BY <1>2, <1>3, <1>5, OthersFadeAt
  <2> QED BY <1>2, <2>1, ReplyQuiet DEF RepliesQuiet
<1>6. CASE tcp' = Written(k, reply) /\ UNCHANGED accepted
  <2>1. /\ k \in Conn /\ reply \in Reply
        /\ \A l \in Conn : tcp'[l].to_client = IF l = k THEN Append(tcp[k].to_client, reply)
                                                        ELSE tcp[l].to_client
    BY <1>1, <1>6, WrittenNet DEF TypeInv
  <2>2. tcp[k].to_client \in Seq(Reply)
    BY <2>1 DEF TypeInv, OwnInv, NetTypes, Net, Wire
  <2>3. o \in Place /\ q \in Place /\ o # q
    BY <2>1, Places
  <2>4. /\ Held[q] = <<reply>> /\ Held'[q] = << >>
        /\ Held[o] = tcp[k].to_client /\ Held'[o] = Append(tcp[k].to_client, reply)
    BY <1>3, <2>1, HeldAt, HeldNext
  <2>5. OthersFade({o, q})
    BY <1>2, <1>3, <1>6, <2>1, OthersFadeAt
  <2> HIDE DEF reply, o, q
  <2>6. Holds(Held[q], c, n) /\ Once(Held'[q]) /\ \A d, m : ~Holds(Held'[q], d, m)
    BY <2>4, SingleHolds, EmptyHolds
  <2>7. c \in Client => \A p \in Place : Holds(Held[p], c, n) => p = q
    BY <2>3, <2>6 DEF ReplyInv, Apart
  <2>8. c \in Client => Done(handled', c, n)
    BY <1>2, <2>3, <2>6 DEF ReplyInv, Apart
  <2>9. c # None => ~Holds(tcp[k].to_client, c, n)
    <3>1. c \in Client \cup {None}
      BY <2>1 DEF Reply
    <3> QED BY <2>3, <2>4, <2>7, <3>1
  <2>10. Once(tcp[k].to_client)
    BY <2>3, <2>4 DEF ReplyInv, Apart
  <2>11. /\ Once(Held'[o])
         /\ \A d, m : Holds(Held'[o], d, m) => Holds(Held[o], d, m) \/ (d = c /\ m = n)
    BY <2>1, <2>2, <2>4, <2>9, <2>10, AppendHolds
  <2> HIDE DEF c, n
  <2> QED BY <1>2, <2>3, <2>5, <2>6, <2>7, <2>8, <2>11, ReplyMoves
<1> QED BY <1>4, <1>5, <1>6 DEF write_reply

\* A client reads a reply; what follows it is lost if the client leaves.
LEMMA ReadReplies ==
  ASSUME TypeInv, ReplyInv, NEW c \in Client, read_cb(c)
  PROVE  ReplyInv'
<1> DEFINE k == stream[c]
           reply == Head(tcp[k].to_client)
           client == reply.client
           n == reply.no
           q == OnWire(k)
<1>1. k \in Conn /\ k # None /\ tcp[k].to_client # << >> /\ tcp \in Net
  BY DEF TypeInv, OwnInv, NetTypes, read_cb, Woken
<1>2. tcp[k].to_client \in Seq(Reply) /\ answers \in Seq(Reply)
  BY <1>1 DEF TypeInv, ClientTypes, Net, Wire
<1>3. reply \in Reply
  BY <1>1, <1>2, SequenceTail
<1>4. UNCHANGED <<leader, accepted, sending, handled>> /\ answers' = Append(answers, reply)
  BY DEF read_cb, nodeVars
<1>5. /\ tcp'[k].to_client = Tail(tcp[k].to_client) \/ tcp'[k].to_client = << >>
      /\ \A l \in Conn : l # k => tcp'[l].to_client \in {tcp[l].to_client, << >>}
  <2>1. CASE tcp' = [tcp EXCEPT ![k].to_client = Tail(@)]
    BY <1>1, <2>1 DEF Net, Wire
  <2>2. CASE connect_to_server(c, reply.leader_hint)
    <3>1. reply.leader_hint \in Server
      BY <1>3 DEF Reply
    <3> HIDE DEF reply
    <3> QED BY <1>1, <2>2, <3>1, ConnectFades DEF WiresFade, RepliesFade
  <2> QED BY <2>1, <2>2 DEF read_cb
<1>6. q \in Place /\ Read \in Place /\ q # Read
  BY <1>1, Places
<1>7. /\ Held[q] = tcp[k].to_client /\ Held'[q] = tcp'[k].to_client
      /\ Held[Read] = answers /\ Held'[Read] = Append(answers, reply)
  BY <1>1, <1>4, HeldAt, HeldNext
<1>8. OthersFade({Read, q})
  <2>1. \A s \in Server : Sends(s)' = Sends(s)
    BY <1>4 DEF Sends
  <2> HIDE DEF k
  <2> QED BY <1>4, <1>5, <2>1, OthersFadeAt
<1>9. Once(Held[q]) /\ Once(Held[Read])
  BY <1>6 DEF ReplyInv, Apart
<1> HIDE DEF k, q
<1>10. /\ Holds(Held[q], client, n) /\ Once(Held'[q])
       /\ client # None => ~Holds(Held'[q], client, n)
       /\ \A d, m : Holds(Held'[q], d, m) => Holds(Held[q], d, m)
  BY <1>1, <1>2, <1>5, <1>7, <1>9, TailHolds, EmptyHolds
<1>11. client \in Client \cup {None} /\ None \notin Client
  BY <1>3, SessionAssumption DEF Reply
<1>12. client \in Client => \A p \in Place : Holds(Held[p], client, n) => p = q
  BY <1>6, <1>10 DEF ReplyInv, Apart
<1>13. client \in Client => Done(handled', client, n)
  BY <1>4, <1>6, <1>10 DEF ReplyInv, Apart
<1>14. client # None => ~Holds(answers, client, n)
  BY <1>6, <1>7, <1>11, <1>12
<1>15. /\ Once(Held'[Read])
       /\ \A d, m : Holds(Held'[Read], d, m) => Holds(Held[Read], d, m) \/ (d = client /\ m = n)
  <2> HIDE DEF reply
  <2> QED BY <1>2, <1>3, <1>7, <1>9, <1>14, AppendHolds
<1>16. \A d \in Client : \A m :
          Holds(Held'[q], d, m) => Holds(Held[q], d, m) /\ ~(d = client /\ m = n)
  BY <1>10, <1>11, SMTT(20)
<1> HIDE DEF client, n
<1> QED BY <1>4, <1>6, <1>8, <1>10, <1>12, <1>13, <1>15, <1>16, ReplyMoves

LEMMA ServeReplies ==
  ASSUME TypeInv, NEW s \in Server, NEW w \in ClientData, serve(s, w)
  PROVE  RepliesFade(tcp, tcp')
<1> DEFINE k == sessions[s][w.id]
<1>1. CASE k # None /\ tcp' = [tcp EXCEPT ![k].to_server = Tail(@)]
  <2>1. w.id \in Server
    BY DEF ClientData
  <2>2. k \in Conn /\ tcp \in Net
    BY <1>1, <2>1 DEF TypeInv, OwnInv, NetTypes
  <2>3. \A l \in Conn : tcp'[l].to_client = tcp[l].to_client
    BY <1>1, <2>2 DEF Net, Wire
  <2> QED BY <2>3 DEF RepliesFade
<1>2. CASE remove_client(s, w)
  BY <1>2, ServerClosesFades DEF remove_client, WiresFade
<1>3. CASE UNCHANGED tcp
  BY <1>3, SameFades DEF WiresFade
<1> QED BY <1>1, <1>2, <1>3 DEF serve, read_request

LEMMA PutReplies ==
  ASSUME TypeInv, NEW c \in Client, put(c), ~end_client(c)
  PROVE  RepliesFade(tcp, tcp') /\ UNCHANGED <<nodeVars, answers>>
<1>1. CASE /\ stream[c] # None
           /\ tcp' = [tcp EXCEPT ![stream[c]].to_server =
                         Append(@, [client |-> c, no |-> requested[c] + 1])]
  <2>1. stream[c] \in Conn /\ tcp \in Net
    BY <1>1 DEF TypeInv, OwnInv, NetTypes
  <2>2. \A l \in Conn : tcp'[l].to_client = tcp[l].to_client
    BY <1>1, <2>1 DEF Net, Wire
  <2> QED BY <2>2 DEF put, RepliesFade
<1>2. CASE UNCHANGED tcp
  BY <1>2, SameFades DEF put, WiresFade
<1> QED BY <1>1, <1>2 DEF put

LEMMA ReplyStep == TypeInv /\ PassageInv /\ ReplyInv /\ [Next]_vars => ReplyInv'
<1> SUFFICES ASSUME TypeInv, PassageInv, ReplyInv, [Next]_vars PROVE ReplyInv'
  OBVIOUS
<1>1. ASSUME RepliesFade(tcp, tcp'), UNCHANGED <<leader, accepted, sending, answers, handled>>
      PROVE  ReplyInv'
  <2>1. \A s \in Server : Sends(s)' = Sends(s)
    BY <1>1 DEF Sends
  <2>2. OthersFade({})
    BY <1>1, <2>1, OthersFadeAt DEF RepliesFade
  <2> QED BY <1>1, <2>2, ReplyQuiet DEF RepliesQuiet
<1>2. ASSUME UNCHANGED <<tcp, leader, accepted, sending, answers, handled>> PROVE ReplyInv'
  BY <1>1, <1>2, SameFades DEF WiresFade
<1>3. ASSUME NEW s \in Server, AcceptLoop(s) PROVE ReplyInv'
  <2>1. UNCHANGED <<leader, accepted, sending, answers, handled>>
    BY <1>3 DEF AcceptLoop, accept_cb, handshake_cb, handle_handshake_timeout, fd_kill,
       client_cb, client_cb_resumes, clientVars, nodeVars
  <2>2. ASSUME NEW w \in ClientData, serve(s, w) PROVE RepliesFade(tcp, tcp')
    BY <2>2, ServeReplies
  <2>3. CASE UNCHANGED tcp
    BY <1>2, <2>1, <2>3
  <2>4. CASE client_cb_resumes(s)
    BY <1>1, <2>1, <2>2, <2>4 DEF client_cb_resumes, TypeInv, WatchInv
  <2>5. ASSUME NEW w \in client_data[s] \cup pending[s], client_cb(s, w) PROVE ReplyInv'
    BY <1>1, <2>1, <2>2, <2>3, <2>5 DEF client_cb, TypeInv, WatchInv
  <2>6. ASSUME NEW k \in Conn, handshake_cb(s, k) PROVE ReplyInv'
    BY <1>1, <2>1, <2>6, HandshakeFades DEF WiresFade
  <2>7. ASSUME NEW k \in Conn, handle_handshake_timeout(s, k) PROVE ReplyInv'
    BY <1>1, <2>1, <2>7, ServerClosesFades DEF handle_handshake_timeout, WiresFade
  <2>8. ASSUME NEW k \in Conn, accept_cb(s, k) \/ fd_kill(s, k) PROVE ReplyInv'
    BY <2>3, <2>8 DEF accept_cb, fd_kill
  <2> QED BY <1>3, <2>4, <2>5, <2>6, <2>7, <2>8 DEF AcceptLoop
<1>4. ASSUME NEW c \in Client, ClientLoop(c) \/ ClientMain(c) \/ Command(c) PROVE ReplyInv'
  <2>1. CASE read_cb(c)
    BY <2>1, ReadReplies
  <2>2. CASE run(c)
    BY <1>1, <2>2, ConnectFades, SessionAssumption DEF run, nodeVars, WiresFade
  <2>3. CASE end_client(c)
    BY <1>1, <2>3, ClientClosesFades DEF end_client, ClientsClosed, nodeVars, WiresFade
  <2>4. CASE put(c) /\ ~end_client(c)
    BY <1>1, <2>4, PutReplies DEF put, nodeVars
  <2>5. CASE UNCHANGED <<tcp, leader, accepted, sending, answers, handled>>
    BY <1>2, <2>5
  <2> QED BY <1>4, <2>1, <2>2, <2>3, <2>4, <2>5 DEF ClientLoop, ClientMain, Command,
          event_loop, read_cb_ended, end_event_loop, set_running, stop_returns, stop, quit,
          nodeVars
<1>5. ASSUME NEW k \in Conn, Reset(k) PROVE ReplyInv'
  BY <1>1, <1>5, ResetFades DEF Reset, clientVars, nodeVars, WiresFade
<1>6. CASE UNCHANGED vars
  BY <1>2, <1>6 DEF vars, clientVars, nodeVars
<1>7. ASSUME NEW s \in Server, NodeLoop(s) PROVE ReplyInv'
  BY <1>7, HandleReplies, ApplyReplies, WriteReplies DEF NodeLoop
<1> QED BY <1>3, <1>4, <1>5, <1>6, <1>7 DEF Next

\* A client is answered once at most, and about a request that a node has handled
\* (send_to_client, write_reply, read_cb).
THEOREM AnswersOnlyHandled == Spec => []AnswersHandled
<1>1. ASSUME TypeInv, ReplyInv PROVE AnswersHandled
  <2> SUFFICES ASSUME NEW i \in DOMAIN answers, answers[i].client # None
               PROVE  /\ \E h \in ToSet(handled[answers[i].client]) : h.no = answers[i].no
                      /\ \A j \in DOMAIN answers :
                            answers[j].client = answers[i].client /\ answers[j].no = answers[i].no
                              => i = j
    BY DEF AnswersHandled
  <2>1. answers \in Seq(Reply) /\ Held[Read] = answers /\ Read \in Place
    BY <1>1, HeldAt, Places DEF TypeInv, ClientTypes
  <2>2. answers[i].client \in Client
    <3>1. answers[i] \in Reply
      BY <2>1, LenProperties, ElementOfSeq
    <3> QED BY <3>1 DEF Reply
  <2>3. Holds(answers, answers[i].client, answers[i].no)
    BY DEF Holds
  <2>4. Done(handled, answers[i].client, answers[i].no)
    BY <1>1, <2>1, <2>2, <2>3 DEF ReplyInv, Apart
  <2>5. Once(answers)
    BY <1>1, <2>1 DEF ReplyInv, Apart
  <2>6. \A j \in DOMAIN answers :
           answers[j].client = answers[i].client /\ answers[j].no = answers[i].no => i = j
    BY <2>5 DEF Once
  <2> QED BY <2>4, <2>6 DEF Done, ToSet
<1> QED BY <1>1, ReplyInit, ReplyStep, TypeInvHolds, PassageInvHolds, PTL DEF Spec

=============================================================================
