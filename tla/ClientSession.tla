--------------------------- MODULE ClientSession ---------------------------
(***************************************************************************)
(* Clients and the sessions servers keep of them: class Client, the part   *)
(* of Transport that accepts clients, reads their requests and sends the   *)
(* replies, and the client map of SessionManager.                          *)
(*                                                                         *)
(* Every client process has the id 0 (main.cpp).  What it announces when   *)
(* it connects is not its own id, though, but that of the server, and so   *)
(* that is the key of its session.                                         *)
(*                                                                         *)
(* Threads: of a client the main thread and its event loop; of a server    *)
(* the accept loop of the transport and the node's event loop.  A frame is *)
(* written or read in one action; a thread that reads where nothing is to  *)
(* be read blocks.  What the node does is abstracted: a leader accepts a   *)
(* request and applies it later, another node refuses it and applies later *)
(* what the leader has applied.                                            *)
(***************************************************************************)
EXTENDS Naturals, Sequences, SequencesExt

CONSTANTS Client,     \* client processes
          Server,     \* ids of the nodes: the endpoints of a client
          Zero,       \* the id 0: of a server, and of every client
          Conn,       \* TCP connections; a closed one is used again, and so are
                      \* the numbers of its descriptors
          None,       \* no connection, no client
          MaxRequest, \* bound: requests of a client
          MaxConnect  \* bound: connections made

ASSUME SessionAssumption == Zero \in Server /\ None \notin Conn \cup Client

Request == [client : Client, no : Nat \ {0}]

Hello == [hello : Server]

\* client is not a field of the message: it tells whose request is answered.
Reply == [client : Client \cup {None}, no : Nat \ {0}, success : BOOLEAN,
          leader_hint : Server]

\* ClientData: the descriptor of conn is watched for the session with key id.
\* age tells two of them apart that watch the same descriptor.
ClientData == [conn : Conn, id : Server, age : Nat]

VARIABLES
    \* of a client
    is_running,   \* is_running_
    main,         \* what its main thread does
    pool,         \* the thread of its pool exists
    loop,         \* how far event_loop has got
    stream,       \* stream_
    watched,      \* the connection whose descriptor read_watcher_ watches
    requested,    \* request_id_: the number of requests sent
    ended,        \* the process has ended
    \* of a server
    up,           \* the process runs
    backlog,      \* connections not accepted
    handshaking,  \* connections with HandshakeData
    unregistered, \* refused ones: their number is still to be given to the poll
    sessions,     \* clients_: the connection of the session with a key
    client_data,  \* ClientData of client watchers that were started
    pending,      \* those whose turn it is in the same round of events
    reading,      \* the one that waits in read_exact
    leader,       \* the server that leads, the same throughout
    to_raftnode,  \* requests on their way to the node
    accepted,     \* requests in the log of a node, not yet applied: the leader's
                  \* own, and what the others know to be committed
    sending,      \* what send_to_client has looked up and not yet written
    \* the connections
    tcp,          \* the sides that have a descriptor, and what is written and
                  \* not yet read in either direction
    connects,     \* for the bound
    \* history
    handled,      \* the requests of each client that nodes have handled, in that order
    answers       \* the replies clients have read, in that order

clientVars  == <<is_running, main, pool, loop, stream, watched, requested, ended, answers>>
sessionVars == <<handshaking, unregistered, sessions, client_data, pending, reading>>
nodeVars    == <<leader, to_raftnode, accepted, sending, handled>>

vars == <<clientVars, up, backlog, sessionVars, nodeVars, tcp, connects>>

TypeOK ==
    /\ is_running  \in [Client -> BOOLEAN]
    /\ main        \in [Client -> {"prompt", "running", "stopping"}]
    /\ pool        \in [Client -> BOOLEAN]
    /\ loop        \in [Client -> {"none", "posted", "looping", "last_round", "breaking"}]
    /\ stream      \in [Client -> Conn \cup {None}]
    /\ watched     \in [Client -> Conn \cup {None}]
    /\ requested   \in [Client -> Nat]
    /\ ended       \in [Client -> BOOLEAN]
    /\ up          \in [Server -> BOOLEAN]
    /\ backlog     \in [Server -> SUBSET Conn]
    /\ handshaking \in [Server -> SUBSET Conn]
    /\ unregistered \in [Server -> SUBSET Conn]
    /\ sessions    \in [Server -> [Server -> Conn \cup {None}]]
    /\ client_data \in [Server -> SUBSET ClientData]
    /\ pending     \in [Server -> SUBSET ClientData]
    /\ reading     \in [Server -> ClientData \cup {None}]
    /\ leader      \in Server
    /\ to_raftnode \in [Server -> Seq(Request)]
    /\ accepted    \in [Server -> Seq(Request)]
    /\ sending     \in [Server -> [conn : Conn, reply : Reply] \cup {None}]
    /\ tcp         \in [Conn -> [open : SUBSET {"client", "server"},
                               to_server : Seq(Hello \cup Request),
                               to_client : Seq(Reply)]]
    /\ connects    \in Nat
    /\ handled     \in [Client -> Seq([server : Server, no : Nat])]
    /\ answers     \in Seq(Reply)

Unused == [open |-> {}, to_server |-> << >>, to_client |-> << >>]

Init ==
    /\ is_running  = [c \in Client |-> FALSE]
    /\ main        = [c \in Client |-> "prompt"]
    /\ pool        = [c \in Client |-> TRUE]
    /\ loop        = [c \in Client |-> "none"]
    /\ stream      = [c \in Client |-> None]
    /\ watched     = [c \in Client |-> None]
    /\ requested   = [c \in Client |-> 0]
    /\ ended       = [c \in Client |-> FALSE]
    /\ up          = [s \in Server |-> TRUE]
    /\ backlog     = [s \in Server |-> {}]
    /\ handshaking = [s \in Server |-> {}]
    /\ unregistered = [s \in Server |-> {}]
    /\ sessions    = [s \in Server |-> [id \in Server |-> None]]
    /\ client_data = [s \in Server |-> {}]
    /\ pending     = [s \in Server |-> {}]
    /\ reading     = [s \in Server |-> None]
    /\ leader      \in Server
    /\ to_raftnode = [s \in Server |-> << >>]
    /\ accepted    = [s \in Server |-> << >>]
    /\ sending     = [s \in Server |-> None]
    /\ tcp         = [k \in Conn |-> Unused]
    /\ connects    = 0
    /\ handled     = [c \in Client |-> << >>]
    /\ answers     = << >>

-----------------------------------------------------------------------------
(* TCP, as far as the code relies on it                                    *)

\* The connections once one side has closed those of ks: what it has not read
\* is gone; what it wrote may still be read.
Closed(net, side, ks) ==
    [k \in Conn |->
       IF k \notin ks THEN net[k]
       ELSE IF net[k].open \subseteq {side} THEN Unused
       ELSE [open      |-> net[k].open \ {side},
             to_server |-> IF side = "server" THEN << >> ELSE net[k].to_server,
             to_client |-> IF side = "client" THEN << >> ELSE net[k].to_client]]

\* A connection closed with something unread is reset, and what its closing
\* side wrote may be lost.
Reset(k) ==
    /\ tcp[k].open # {}
    /\ tcp' = [tcp EXCEPT ![k].to_server = IF "client" \in tcp[k].open THEN @ ELSE << >>,
                          ![k].to_client = IF "server" \in tcp[k].open THEN @ ELSE << >>]
    /\ tcp' # tcp
    /\ UNCHANGED <<clientVars, up, backlog, sessionVars, nodeVars, connects>>

\* The server has something to read from k: a frame, or the end.
Readable(k) == tcp[k].to_server # << >> \/ "client" \notin tcp[k].open

-----------------------------------------------------------------------------
(* Client                                                                  *)

\* stream_ = connect_to_server(s): the new connection is made and announces the
\* id of the server; then the assignment closes the old one.
connect_to_server(c, s) ==
    LET net == Closed(tcp, "client", {stream[c]})
    IN  \/ /\ up[s] /\ connects < MaxConnect
           /\ \E k \in Conn :
                /\ tcp[k].open = {}
                /\ stream'  = [stream EXCEPT ![c] = k]
                /\ backlog' = [backlog EXCEPT ![s] = @ \cup {k}]
                /\ tcp' = [net EXCEPT ![k] = [open |-> {"client", "server"},
                                             to_server |-> <<[hello |-> s]>>,
                                             to_client |-> << >>]]
           /\ connects' = connects + 1
        \/ /\ ~up[s]
           /\ stream' = [stream EXCEPT ![c] = None]
           /\ tcp' = net
           /\ UNCHANGED <<backlog, connects>>

AtPrompt(c) == ~ended[c] /\ main[c] = "prompt"

\* run() as far as posting the event loop, which never begins if stop() has
\* ended the pool's thread.
run(c) ==
    /\ AtPrompt(c) /\ ~is_running[c]
    /\ connect_to_server(c, Zero)
    /\ IF stream'[c] = None
       THEN UNCHANGED <<main, loop>>
       ELSE /\ main' = [main EXCEPT ![c] = "running"]
            /\ loop' = [loop EXCEPT ![c] = IF pool[c] THEN "posted" ELSE @]
    /\ UNCHANGED <<is_running, pool, watched, requested, ended, answers, up, sessionVars,
                   nodeVars>>

\* Its last statement: the event loop may have ended already.
set_running(c) ==
    /\ main[c] = "running"
    /\ main' = [main EXCEPT ![c] = "prompt"]
    /\ is_running' = [is_running EXCEPT ![c] = TRUE]
    /\ UNCHANGED <<pool, loop, stream, watched, requested, ended, answers, up, backlog,
                   sessionVars, nodeVars, tcp, connects>>

\* stop() breaks the loop and waits for it.  The loop may be on its way to call
\* read_cb once more; if ev_run has not begun it is broken in vain.
stop(c) ==
    /\ AtPrompt(c) /\ is_running[c]
    /\ main' = [main EXCEPT ![c] = "stopping"]
    /\ is_running' = [is_running EXCEPT ![c] = FALSE]
    /\ loop' = [loop EXCEPT ![c] = IF @ = "looping" THEN "last_round" ELSE @]
    /\ UNCHANGED <<pool, stream, watched, requested, ended, answers, up, backlog,
                   sessionVars, nodeVars, tcp, connects>>

stop_returns(c) ==
    /\ main[c] = "stopping"
    /\ pool[c] => loop[c] = "none"
    /\ main' = [main EXCEPT ![c] = "prompt"]
    /\ pool' = [pool EXCEPT ![c] = FALSE]
    /\ UNCHANGED <<is_running, loop, stream, watched, requested, ended, answers, up,
                   backlog, sessionVars, nodeVars, tcp, connects>>

\* The process ends: on the command to quit, or anywhere.
end_client(c) ==
    /\ ended' = [ended EXCEPT ![c] = TRUE]
    /\ is_running' = [is_running EXCEPT ![c] = FALSE]
    /\ main'    = [main EXCEPT ![c] = "prompt"]
    /\ loop'    = [loop EXCEPT ![c] = "none"]
    /\ stream'  = [stream EXCEPT ![c] = None]
    /\ watched' = [watched EXCEPT ![c] = None]
    /\ tcp' = Closed(tcp, "client", {stream[c]})
    /\ UNCHANGED <<pool, answers, up, backlog, sessionVars, nodeVars, connects>>

quit(c) == ~ended[c] /\ end_client(c) /\ UNCHANGED requested

\* put, get and del: the request is written to whatever stream_ is.  A
\* connection the server has closed takes it in vain or raises SIGPIPE.
put(c) ==
    /\ AtPrompt(c) /\ is_running[c]
    /\ requested[c] < MaxRequest
    /\ requested' = [requested EXCEPT ![c] = @ + 1]
    /\ IF stream[c] # None /\ "server" \in tcp[stream[c]].open
       THEN /\ tcp' = [tcp EXCEPT ![stream[c]].to_server =
                         Append(@, [client |-> c, no |-> requested[c] + 1])]
            /\ UNCHANGED <<is_running, main, pool, loop, stream, watched, ended, answers,
                           up, backlog, sessionVars, nodeVars, connects>>
       ELSE \/ stream[c] # None /\ end_client(c)
            \/ UNCHANGED <<is_running, main, pool, loop, stream, watched, ended, answers,
                           tcp, up, backlog, sessionVars, nodeVars, connects>>

\* Mutant of event_loop: the watcher is not started.
EventLoopDeaf(c) ==
    /\ loop[c] = "posted"
    /\ loop' = [loop EXCEPT ![c] = "looping"]
    /\ UNCHANGED <<is_running, main, pool, stream, watched, requested, ended, answers, up,
                   backlog, sessionVars, nodeVars, tcp, connects>>

\* The watcher is started on the descriptor stream_ has now.
event_loop(c) ==
    /\ loop[c] = "posted"
    /\ loop'    = [loop EXCEPT ![c] = "looping"]
    /\ watched' = [watched EXCEPT ![c] = stream[c]]
    /\ UNCHANGED <<is_running, main, pool, stream, requested, ended, answers, up, backlog,
                   sessionVars, nodeVars, tcp, connects>>

\* read_cb is called: the descriptor the watcher was started on is still open.
Woken(c) ==
    loop[c] \in {"looping", "last_round"} /\ stream[c] # None /\ watched[c] = stream[c]

\* A success is reported; a failure sends the client to the server the reply
\* names.  The watcher stays with the descriptor that is closed thereby.
read_cb(c) ==
    /\ Woken(c)
    /\ tcp[stream[c]].to_client # << >>
    /\ LET reply == Head(tcp[stream[c]].to_client) IN
         /\ answers' = Append(answers, reply)
         /\ IF reply.success
            THEN /\ tcp' = [tcp EXCEPT ![stream[c]].to_client = Tail(@)]
                 /\ UNCHANGED <<stream, watched, backlog, connects>>
            ELSE /\ connect_to_server(c, reply.leader_hint)
                 /\ watched' = [watched EXCEPT ![c] = None]
    /\ loop' = [loop EXCEPT ![c] = IF @ = "last_round" \/ stream'[c] = None
                                   THEN "breaking" ELSE @]
    /\ UNCHANGED <<is_running, main, pool, requested, ended, up, sessionVars, nodeVars>>

\* The server has closed the connection.
read_cb_ended(c) ==
    /\ Woken(c)
    /\ tcp[stream[c]].to_client = << >> /\ "server" \notin tcp[stream[c]].open
    /\ loop' = [loop EXCEPT ![c] = "breaking"]
    /\ UNCHANGED <<is_running, main, pool, stream, watched, requested, ended, answers, up,
                   backlog, sessionVars, nodeVars, tcp, connects>>

end_event_loop(c) ==
    /\ loop[c] \in {"last_round", "breaking"}
    /\ loop'       = [loop EXCEPT ![c] = "none"]
    /\ watched'    = [watched EXCEPT ![c] = None]
    /\ is_running' = [is_running EXCEPT ![c] = FALSE]
    /\ UNCHANGED <<main, pool, stream, requested, ended, answers, up, backlog, sessionVars,
                   nodeVars, tcp, connects>>

-----------------------------------------------------------------------------
(* Server: the accept loop                                                 *)

\* The accept loop is between two rounds of events.
Idle(s) == up[s] /\ pending[s] = {} /\ reading[s] = None

\* The descriptor of k is one that the server polls.
Polled(s, k) == k \in handshaking[s] \/ \E id \in Server : sessions[s][id] = k

Watchers(s, k) == {w \in client_data[s] : w.conn = k}

accept_cb(s, k) ==
    /\ Idle(s)
    /\ k \in backlog[s]
    /\ backlog'     = [backlog EXCEPT ![s] = @ \ {k}]
    /\ handshaking' = [handshaking EXCEPT ![s] = @ \cup {k}]
    /\ unregistered' = [unregistered EXCEPT ![s] = @ \ {k}]
    /\ UNCHANGED <<clientVars, up, sessions, client_data, pending, reading, nodeVars, tcp,
                   connects>>

\* Mutant of add_client: the stream is closed with the HandshakeData.
AddAndClose(s, id, k) ==
    /\ sessions' = [sessions EXCEPT ![s][id] = IF @ = None THEN k ELSE @]
    /\ tcp' = Closed(tcp, "server", {k})
    /\ UNCHANGED unregistered

\* clients_.emplace(id, k): a session that is there stays, and the connection k
\* is closed with the new one, before the loop has passed its descriptor to the poll.
add_client(s, id, k) ==
    IF sessions[s][id] = None
    THEN /\ sessions' = [sessions EXCEPT ![s][id] = k]
         /\ tcp' = [tcp EXCEPT ![k].to_server = Tail(@)]
         /\ UNCHANGED unregistered
    ELSE /\ tcp' = Closed(tcp, "server", {k})
         /\ unregistered' = [unregistered EXCEPT ![s] = @ \cup {k}]
         /\ UNCHANGED sessions

\* The watcher of the session is started first.  One that was left behind by a
\* connection whose descriptor had the same number has its turn too.
handshake_cb(s, k) ==
    /\ Idle(s)
    /\ k \in handshaking[s]
    /\ Readable(k)
    /\ handshaking' = [handshaking EXCEPT ![s] = @ \ {k}]
    /\ pending' = [pending EXCEPT ![s] = Watchers(s, k)]
    /\ IF tcp[k].to_server = << >>
       THEN /\ tcp' = Closed(tcp, "server", {k})
            /\ UNCHANGED <<unregistered, sessions, client_data>>
       ELSE LET id == Head(tcp[k].to_server).hello IN
            /\ client_data' = [client_data EXCEPT ![s] =
                                 @ \cup {[conn |-> k, id |-> id, age |-> connects]}]
            /\ add_client(s, id, k)
    /\ UNCHANGED <<clientVars, up, backlog, reading, nodeVars, connects>>

handle_handshake_timeout(s, k) ==
    /\ Idle(s)
    /\ k \in handshaking[s]
    /\ handshaking' = [handshaking EXCEPT ![s] = @ \ {k}]
    /\ tcp' = Closed(tcp, "server", {k})
    /\ UNCHANGED <<clientVars, up, backlog, unregistered, sessions, client_data, pending,
                   reading, nodeVars, connects>>

\* The loop passes the number of a refused connection to the poll, unless it has
\* been used again: it is closed, so the loop stops its watchers and calls each
\* once with an error.
fd_kill(s, k) ==
    /\ Idle(s)
    /\ k \in unregistered[s]
    /\ unregistered' = [unregistered EXCEPT ![s] = @ \ {k}]
    /\ client_data' = [client_data EXCEPT ![s] = @ \ Watchers(s, k)]
    /\ pending' = [pending EXCEPT ![s] = Watchers(s, k)]
    /\ UNCHANGED <<clientVars, up, backlog, handshaking, sessions, reading, nodeVars, tcp,
                   connects>>

\* Mutant of remove_client: the session stays in the map.
SessionKept(s, w) == UNCHANGED <<sessions, tcp>>

\* The session goes, and its connection with it.
remove_client(s, w) ==
    /\ sessions' = [sessions EXCEPT ![s][w.id] = None]
    /\ tcp' = Closed(tcp, "server", {sessions[s][w.id]})

delete_client_data(s, w) ==
    /\ client_data' = [client_data EXCEPT ![s] = @ \ {w}]
    /\ UNCHANGED to_raftnode

\* Mutant of read_request: the request stays in the stream.
RequestNotRead(s, w) ==
    LET k == sessions[s][w.id]
    IN  /\ to_raftnode' = [to_raftnode EXCEPT ![s] =
                             IF Len(@) < MaxRequest THEN Append(@, Head(tcp[k].to_server)) ELSE @]
        /\ UNCHANGED <<sessions, client_data, tcp>>

read_request(s, w) ==
    LET k == sessions[s][w.id]
    IN  /\ to_raftnode' = [to_raftnode EXCEPT ![s] = Append(@, Head(tcp[k].to_server))]
        /\ tcp' = [tcp EXCEPT ![k].to_server = Tail(@)]
        /\ UNCHANGED <<sessions, client_data>>

\* The body of client_cb once it does not wait: it reads from the session it
\* finds under its key, whichever connection its watcher watches.
serve(s, w) ==
    LET k == sessions[s][w.id]
    IN  \/ k = None /\ delete_client_data(s, w) /\ UNCHANGED <<sessions, tcp>>
        \/ k # None /\ tcp[k].to_server # << >> /\ read_request(s, w)
        \/ /\ k # None /\ tcp[k].to_server = << >> /\ Readable(k)
           /\ delete_client_data(s, w) /\ remove_client(s, w)

client_cb(s, w) ==
    /\ up[s] /\ reading[s] = None
    /\ \/ w \in pending[s] /\ pending' = [pending EXCEPT ![s] = @ \ {w}]
       \/ /\ pending[s] = {} /\ w \in client_data[s]
          /\ Polled(s, w.conn) /\ Readable(w.conn)
          /\ pending' = [pending EXCEPT ![s] = Watchers(s, w.conn) \ {w}]
    /\ \/ serve(s, w) /\ UNCHANGED reading
       \/ /\ sessions[s][w.id] # None /\ ~Readable(sessions[s][w.id])
          /\ reading' = [reading EXCEPT ![s] = w]
          /\ UNCHANGED <<sessions, client_data, to_raftnode, tcp>>
    /\ UNCHANGED <<clientVars, up, backlog, handshaking, unregistered, leader, accepted,
                   sending, handled, connects>>

\* read_exact returns.
client_cb_resumes(s) ==
    /\ up[s] /\ reading[s] # None
    /\ serve(s, reading[s])
    /\ reading' = [reading EXCEPT ![s] = None]
    /\ UNCHANGED <<clientVars, up, backlog, handshaking, unregistered, pending, leader,
                   accepted, sending, handled, connects>>

-----------------------------------------------------------------------------
(* Server: the node                                                        *)

\* Mutant of send_to_client: what client_at returns is not checked.
SendUnchecked(s, reply) ==
    sending' = [sending EXCEPT ![s] = [conn |-> sessions[s][Zero], reply |-> reply]]

\* send_to_client as far as client_at: the id asked for is the client's, 0.
send_to_client(s, reply) ==
    sending' = [sending EXCEPT ![s] =
                  IF sessions[s][Zero] = None THEN None
                  ELSE [conn |-> sessions[s][Zero], reply |-> reply]]

\* The leader keeps the request until it is committed; another node refuses it,
\* with the hint 0 when it knows no leader.
handle_client_request(s) ==
    /\ up[s] /\ sending[s] = None
    /\ to_raftnode[s] # << >>
    /\ LET r == Head(to_raftnode[s]) IN
         /\ handled' = [handled EXCEPT ![r.client] = Append(@, [server |-> s, no |-> r.no])]
         /\ IF s = leader
            THEN /\ accepted' = [accepted EXCEPT ![s] = Append(@, r)]
                 /\ UNCHANGED sending
            ELSE /\ \E hint \in {Zero, leader} :
                      send_to_client(s, [client |-> r.client, no |-> r.no,
                                         success |-> FALSE, leader_hint |-> hint])
                 /\ UNCHANGED accepted
    /\ to_raftnode' = [to_raftnode EXCEPT ![s] = Tail(@)]
    /\ UNCHANGED <<clientVars, up, backlog, sessionVars, leader, tcp, connects>>

\* What a node replies when it applies a request: to requests_[index], which
\* only the leader has filled.  Another node takes the default there, Request{0, 0},
\* and so answers client 0 that its first request has succeeded.
ReplyTo(s) ==
    [client |-> IF s = leader THEN Head(accepted[s]).client ELSE None,
     no     |-> IF s = leader THEN Head(accepted[s]).no ELSE 1,
     success |-> TRUE, leader_hint |-> Zero]

\* The other nodes commit, and apply, what the leader has applied.
apply_to_state_machine(s) ==
    /\ up[s] /\ sending[s] = None
    /\ accepted[s] # << >>
    /\ accepted' = [t \in Server |->
                      CASE t = s -> Tail(accepted[s])
                        [] s = leader /\ t # s /\ up[t] -> Append(accepted[t], Head(accepted[s]))
                        [] OTHER -> accepted[t]]
    /\ send_to_client(s, ReplyTo(s))
    /\ UNCHANGED <<clientVars, up, backlog, sessionVars, leader, to_raftnode, handled, tcp,
                   connects>>

end_server(s) ==
    /\ up'          = [up EXCEPT ![s] = FALSE]
    /\ backlog'     = [backlog EXCEPT ![s] = {}]
    /\ handshaking' = [handshaking EXCEPT ![s] = {}]
    /\ unregistered' = [unregistered EXCEPT ![s] = {}]
    /\ sessions'    = [sessions EXCEPT ![s] = [id \in Server |-> None]]
    /\ client_data' = [client_data EXCEPT ![s] = {}]
    /\ pending'     = [pending EXCEPT ![s] = {}]
    /\ reading'     = [reading EXCEPT ![s] = None]
    /\ to_raftnode' = [to_raftnode EXCEPT ![s] = << >>]
    /\ accepted'    = [accepted EXCEPT ![s] = << >>]
    /\ tcp' = Closed(tcp, "server", backlog[s] \cup {k \in Conn : Polled(s, k)})
    /\ UNCHANGED <<clientVars, leader, handled, connects>>

\* Mutant of Written: the reply is written twice.
WrittenTwice(k, reply) == [tcp EXCEPT ![k].to_client = @ \o <<reply, reply>>]

Written(k, reply) == [tcp EXCEPT ![k].to_client = Append(@, reply)]

\* The rest of send_to_client.  A connection the client has closed takes the
\* reply in vain or raises SIGPIPE; a session that was removed meanwhile is used
\* all the same: nothing is written, its descriptor being -1, or the process ends.
write_reply(s) ==
    LET k == sending[s].conn
    IN  /\ up[s] /\ sending[s] # None
        /\ sending' = [sending EXCEPT ![s] = None]
        /\ IF sessions[s][Zero] = k /\ "client" \in tcp[k].open
           THEN /\ tcp' = Written(k, sending[s].reply)
                /\ UNCHANGED <<clientVars, up, backlog, sessionVars, leader, to_raftnode,
                               accepted, handled, connects>>
           ELSE \/ UNCHANGED <<clientVars, up, backlog, sessionVars, leader, to_raftnode,
                               accepted, handled, tcp, connects>>
                \/ end_server(s)

-----------------------------------------------------------------------------

AcceptLoop(s) ==
    \/ \E k \in Conn : \/ accept_cb(s, k) \/ handshake_cb(s, k)
                       \/ handle_handshake_timeout(s, k) \/ fd_kill(s, k)
    \/ \E w \in client_data[s] \cup pending[s] : client_cb(s, w)
    \/ client_cb_resumes(s)

NodeLoop(s) == handle_client_request(s) \/ apply_to_state_machine(s) \/ write_reply(s)

ClientLoop(c) == event_loop(c) \/ read_cb(c) \/ read_cb_ended(c) \/ end_event_loop(c)

ClientMain(c) == set_running(c) \/ stop_returns(c)

Command(c) == run(c) \/ stop(c) \/ put(c) \/ quit(c)

Next ==
    \/ \E s \in Server : AcceptLoop(s) \/ NodeLoop(s)
    \/ \E c \in Client : ClientLoop(c) \/ ClientMain(c) \/ Command(c)
    \/ \E k \in Conn : Reset(k)

Spec == Init /\ [][Next]_vars

\* Threads run, and the leader applies what it has accepted; nothing is assumed
\* of the users.
Fairness ==
    /\ \A s \in Server : WF_vars(AcceptLoop(s)) /\ WF_vars(NodeLoop(s))
    /\ \A c \in Client : WF_vars(ClientLoop(c)) /\ WF_vars(ClientMain(c))

FairSpec == Spec /\ Fairness

-----------------------------------------------------------------------------
(* Properties                                                              *)

\* Every connection a server has a descriptor of waits to be accepted, shakes
\* hands or belongs to one session: none is leaked when a session is refused,
\* and no session is left with a closed one.
OneSession ==
    \A k \in Conn :
        LET owners == {<<"backlog", s>> : s \in {t \in Server : k \in backlog[t]}}
                        \cup {<<"handshaking", s>> : s \in {t \in Server : k \in handshaking[t]}}
                        \cup {x \in Server \X Server : sessions[x[1]][x[2]] = k}
        IN  "server" \in tcp[k].open <=> \E o \in owners : owners = {o}

\* A client's requests are handled at most once and none is invented, across
\* sessions, refusals, left-over watchers and redirections (client_cb reads
\* from whatever session has the key).
Requests == INSTANCE LossyChannel WITH
    Sender   <- Client,
    sent     <- requested,
    received <- [c \in Client |-> [i \in DOMAIN handled[c] |-> handled[c][i].no]]

ImplementsRequests == Requests!Spec

\* The answers to a request are one reply at most, and only after a node has
\* handled it.  (What nodes that do not lead send to client 0 when they apply is an
\* answer to nobody's.)
AnswersHandled ==
    \A i \in DOMAIN answers : LET a == answers[i] IN
        a.client # None =>
            /\ \E h \in ToSet(handled[a.client]) : h.no = a.no
            /\ \A j \in DOMAIN answers :
                  answers[j].client = a.client /\ answers[j].no = a.no => i = j

\* The session of a client that has gone comes to its end, so that another
\* client can have one.
HasSession(k) == \E s, id \in Server : sessions[s][id] = k

SessionEnds ==
    \A k \in Conn : HasSession(k) /\ "client" \notin tcp[k].open ~> ~HasSession(k)

\* The client's event loop serves a connection that is open at both ends.
Listening(c) ==
    loop[c] = "looping" /\ stream[c] # None /\ tcp[stream[c]].open = {"client", "server"}

Answered(c, n) == \E i \in DOMAIN answers : answers[i].client = c /\ answers[i].no = n
                                            /\ answers[i].success

\* A request that server s handles as the leader is answered, as long as its
\* client listens.
AnswersOf(s) ==
    \A c \in Client : \A n \in 1 .. MaxRequest :
        leader = s /\ [server |-> s, no |-> n] \in ToSet(handled[c]) /\ Listening(c)
            ~> Answered(c, n) \/ ~Listening(c)

\* Where server 0 leads, what it handles is answered (apply_to_state_machine,
\* send_to_client): the client's id is also the key of its session there.
ServerZeroAnswers == AnswersOf(Zero)

\* Wherever the leader is (read_cb, "redirect to the leader").
LeaderAnswers == \A s \in Server : AnswersOf(s)

=============================================================================
