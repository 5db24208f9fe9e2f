--------------------------- MODULE NodeLifecycle ---------------------------
(***************************************************************************)
(* The process of a node from run_raft_node to its end: RaftNode::run and  *)
(* stop, the commands of the operator, and the destructors of the node and *)
(* of the transport it uses.                                               *)
(*                                                                         *)
(* Threads: main, the one thread of the node's pool, and the three loops   *)
(* of the transport.  Transport::stop and Pipeline::stop are left out: no  *)
(* code calls the first, and the second is called by a destructor that     *)
(* main does not reach.  Since main alone calls run and stop, run_mutex_   *)
(* is left out too.                                                        *)
(***************************************************************************)
EXTENDS Naturals

Loop == {"accept", "serialize", "receive"}

VARIABLES
    main,        \* what main does
    leaving,     \* the loop for commands is over, run_raft_node is returning
    is_running,  \* RaftNode::is_running_
    tasks,       \* event_loop tasks that wait in the node's pool
    event_loop,  \* how far the one that runs has got
    loop_done,   \* what ev_break sets and the start of ev_run resets
    pool,        \* the thread of the node's pool exists
    loop,        \* RaftNode::loop_ exists
    transport_loop,  \* how far the three loops have got
    queues       \* the queues of the transport exist

nodeVars == <<is_running, tasks, event_loop, loop_done, pool, loop>>
transportVars == <<transport_loop, queues>>
vars == <<main, leaving, nodeVars, transportVars>>

TypeOK ==
    /\ main \in {"transport_run", "node_run", "prompt", "waiting", "stopped",
                 "node_gone", "joining", "exited"}
    /\ leaving    \in BOOLEAN
    /\ is_running \in BOOLEAN
    /\ tasks      \in {0, 1}
    /\ event_loop \in {"none", "starting", "running", "ending"}
    /\ loop_done  \in BOOLEAN
    /\ pool       \in BOOLEAN
    /\ loop       \in BOOLEAN
    /\ transport_loop \in [Loop -> {"none", "posted", "starting", "running", "ended"}]
    /\ queues     \in BOOLEAN

Init ==
    /\ main       = "transport_run"
    /\ leaving    = FALSE
    /\ is_running = FALSE
    /\ tasks      = 0
    /\ event_loop = "none"
    /\ loop_done  = FALSE
    /\ pool       = TRUE
    /\ loop       = TRUE
    /\ transport_loop = [l \in Loop |-> "none"]
    /\ queues     = TRUE

-----------------------------------------------------------------------------
(* RaftNode::run and stop                                                  *)

\* Mutant of run: the test of is_running_ is missing.
RunAgain ==
    /\ tasks < 2
    /\ is_running' = TRUE
    /\ tasks' = IF pool THEN tasks + 1 ELSE tasks
    /\ UNCHANGED <<event_loop, loop_done, pool, loop>>

\* What is posted to a pool whose thread has ended is never begun.
run ==
    IF is_running
    THEN UNCHANGED nodeVars
    ELSE /\ is_running' = TRUE
         /\ tasks' = IF pool THEN tasks + 1 ELSE tasks
         /\ UNCHANGED <<event_loop, loop_done, pool, loop>>

\* Mutant of stop: it does not wait for the pool.
StopWithoutWait ==
    /\ main' = "stopped"
    /\ is_running' = FALSE
    /\ loop_done'  = TRUE
    /\ UNCHANGED <<tasks, event_loop, pool, loop>>

\* stop() as far as pool_.wait().
stop ==
    IF ~is_running
    THEN main' = "stopped" /\ UNCHANGED nodeVars
    ELSE /\ main' = "waiting"
         /\ is_running' = FALSE
         /\ loop_done'  = TRUE
         /\ UNCHANGED <<tasks, event_loop, pool, loop>>

\* pool_.wait() returns when the pool's thread has done all its tasks and has
\* ended, and at once when it has ended before.
wait ==
    /\ main = "waiting"
    /\ pool => tasks = 0 /\ event_loop = "none"
    /\ pool' = FALSE
    /\ main' = "stopped"
    /\ UNCHANGED <<leaving, is_running, tasks, event_loop, loop_done, loop, transportVars>>

-----------------------------------------------------------------------------
(* main                                                                    *)

\* transport->run() posts its three loops.
transport_run ==
    /\ main = "transport_run"
    /\ main' = "node_run"
    /\ transport_loop' = [l \in Loop |-> "posted"]
    /\ UNCHANGED <<leaving, nodeVars, queues>>

node_run ==
    /\ main = "node_run"
    /\ main' = "prompt"
    /\ run
    /\ UNCHANGED <<leaving, transportVars>>

\* "r": the node's run() again.
command_run ==
    /\ main = "prompt"
    /\ run
    /\ UNCHANGED <<main, leaving, transportVars>>

\* Anything but "r" and "q" stops the node.
command_stop ==
    /\ main = "prompt"
    /\ stop
    /\ UNCHANGED <<leaving, transportVars>>

\* "q": run_raft_node returns, and ~RaftNode starts with stop().
command_quit ==
    /\ main = "prompt"
    /\ leaving' = TRUE
    /\ stop
    /\ UNCHANGED transportVars

\* stop() has returned, to the loop for commands or to ~RaftNode, which
\* destroys the event loop and the members of the node.
stop_returned ==
    /\ main = "stopped"
    /\ IF leaving THEN main' = "node_gone" /\ loop' = FALSE
                  ELSE main' = "prompt" /\ UNCHANGED loop
    /\ UNCHANGED <<leaving, is_running, tasks, event_loop, loop_done, pool, transportVars>>

\* ~Transport destroys the members from the last to the first: the queues, the
\* set of loops, and then the pool, which begins no more tasks and waits for
\* those begun.
destroy_transport ==
    /\ main = "node_gone"
    /\ queues' = FALSE
    /\ main' = "joining"
    /\ UNCHANGED <<leaving, nodeVars, transport_loop>>

join_transport ==
    /\ main = "joining"
    /\ \A l \in Loop : transport_loop[l] \notin {"starting", "running"}
    /\ main' = "exited"
    /\ UNCHANGED <<leaving, nodeVars, transportVars>>

-----------------------------------------------------------------------------
(* The node's thread                                                       *)

\* event_loop starts its timers.
event_loop_begins ==
    /\ pool
    /\ tasks > 0 /\ event_loop = "none"
    /\ tasks' = tasks - 1
    /\ event_loop' = "starting"
    /\ UNCHANGED <<main, leaving, is_running, loop_done, pool, loop, transportVars>>

\* ev_run begins with forgetting an ev_break that came too early.
ev_run ==
    /\ event_loop = "starting"
    /\ event_loop' = "running"
    /\ loop_done'  = FALSE
    /\ UNCHANGED <<main, leaving, is_running, tasks, pool, loop, transportVars>>

\* It returns at the next timer after ev_break.
ev_run_returns ==
    /\ event_loop = "running"
    /\ loop_done
    /\ event_loop' = "ending"
    /\ UNCHANGED <<main, leaving, is_running, tasks, loop_done, pool, loop, transportVars>>

\* The timers are stopped.
event_loop_ends ==
    /\ event_loop = "ending"
    /\ event_loop' = "none"
    /\ UNCHANGED <<main, leaving, is_running, tasks, loop_done, pool, loop, transportVars>>

-----------------------------------------------------------------------------
(* The transport's threads                                                 *)

transport_loop_begins(l) ==
    /\ transport_loop[l] = "posted"
    /\ main # "joining" /\ main # "exited"
    /\ transport_loop' = [transport_loop EXCEPT ![l] = "starting"]
    /\ UNCHANGED <<main, leaving, nodeVars, queues>>

\* ev_run, or, for the accept loop, the address cannot be used.  Nothing breaks
\* these loops.
transport_loop_runs(l) ==
    /\ transport_loop[l] = "starting"
    /\ \E next \in {"running"} \cup {e \in {"ended"} : l = "accept"} :
          transport_loop' = [transport_loop EXCEPT ![l] = next]
    /\ UNCHANGED <<main, leaving, nodeVars, queues>>

-----------------------------------------------------------------------------

Command == command_run \/ command_stop \/ command_quit

MainStep ==
    \/ transport_run \/ node_run \/ wait \/ stop_returned
    \/ destroy_transport \/ join_transport

NodeStep == event_loop_begins \/ ev_run \/ ev_run_returns \/ event_loop_ends

TransportStep(l) == transport_loop_begins(l) \/ transport_loop_runs(l)

Next == Command \/ MainStep \/ NodeStep \/ \E l \in Loop : TransportStep(l)

Spec == Init /\ [][Next]_vars

\* Threads run; the operator types what he likes, if anything.
Fairness ==
    /\ WF_vars(MainStep)
    /\ WF_vars(NodeStep)
    /\ \A l \in Loop : WF_vars(TransportStep(l))

FairSpec == Spec /\ Fairness

-----------------------------------------------------------------------------
(* Properties                                                              *)

\* The node's thread does not work on its event loop, and never will.
Quiet == event_loop = "none" /\ (pool => tasks = 0)

\* Once stop() has returned no timer of the node fires and no message is
\* handled until run() is called again; and ~RaftNode gets to ev_loop_destroy
\* only when no thread works on the loop.
QuietWhenStopped ==
    (main \in {"prompt", "stopped"} /\ ~is_running) \/ ~loop => Quiet

\* A stop() that came while ev_run was at work returns.
StopReturns == main = "waiting" /\ event_loop = "running" /\ loop_done ~> main = "stopped"

\* "s to stop" (the prompt of run_raft_node): stop() returns to the prompt, also
\* if it comes before event_loop has got to ev_run.
StopEnds == main = "waiting" /\ ~leaving ~> main = "stopped"

\* "q to quit": once the node is stopped and gone, the process ends with the
\* destructor of the transport.
QuitEnds == main = "node_gone" ~> main = "exited"

=============================================================================
