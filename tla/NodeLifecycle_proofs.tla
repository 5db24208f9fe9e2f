------------------------ MODULE NodeLifecycle_proofs ------------------------
(***************************************************************************)
(* Proofs about NodeLifecycle: its types, and that no thread works on the  *)
(* event loop of a node that was stopped.                                  *)
(***************************************************************************)
EXTENDS NodeLifecycle, TLAPS

\* The node object is being destroyed or gone.
Gone == main \in {"node_gone", "joining", "exited"}

\* What main has not yet told to run is not running, and what it is stopping,
\* has stopped or destroyed was told to stop.
MainInv ==
    /\ main \in {"transport_run", "node_run"} => ~is_running /\ Quiet
    /\ main \in {"waiting", "stopped"} => ~is_running
    /\ main = "stopped" => Quiet
    /\ Gone => Quiet
    /\ ~loop => Gone

\* A node that was not told to run has nothing to do, unless stop() waits for
\* it to finish; and a thread that has ended does nothing.
QuietInv ==
    /\ ~is_running /\ main # "waiting" => Quiet
    /\ ~pool => event_loop = "none"

LifecycleInv == TypeOK /\ MainInv /\ QuietInv

-----------------------------------------------------------------------------

LEMMA InitLifecycle == Init => LifecycleInv
  BY DEF Init, LifecycleInv, TypeOK, MainInv, QuietInv, Gone, Quiet, Loop

\* run() is called when its caller is main, in the loop for commands or before.
LEMMA RunStep ==
  ASSUME LifecycleInv, run, main \in {"node_run", "prompt"},
         main' = "prompt", UNCHANGED <<leaving, transportVars>>
  PROVE  LifecycleInv'
<1> USE DEF LifecycleInv, transportVars, nodeVars
<1>1. TypeOK'
  <2>1. CASE is_running
    BY <2>1 DEF TypeOK, run
  <2>2. CASE ~is_running
    <3>1. pool => tasks = 0
      BY <2>2 DEF QuietInv, Quiet
    <3>2. tasks' \in {0, 1}
      BY <2>2, <3>1 DEF TypeOK, run
    <3> QED BY <2>2, <3>2 DEF TypeOK, run
  <2> QED BY <2>1, <2>2
<1>2. MainInv'
  BY DEF TypeOK, MainInv, QuietInv, Quiet, Gone, run
<1>3. QuietInv'
  BY DEF TypeOK, MainInv, QuietInv, Quiet, Gone, run
<1> QED BY <1>1, <1>2, <1>3

\* stop(), by the command or by the destructor.
LEMMA StopStep ==
  ASSUME LifecycleInv, stop, main = "prompt", leaving' \in BOOLEAN,
         UNCHANGED transportVars
  PROVE  LifecycleInv'
<1> USE DEF LifecycleInv, transportVars, nodeVars
<1>1. TypeOK'
  BY DEF TypeOK, stop
<1>2. MainInv'
  BY DEF TypeOK, MainInv, QuietInv, Quiet, Gone, stop
<1>3. QuietInv'
  BY DEF TypeOK, MainInv, QuietInv, Quiet, Gone, stop
<1> QED BY <1>1, <1>2, <1>3

LEMMA CommandStep == LifecycleInv /\ Command => LifecycleInv'
<1> SUFFICES ASSUME LifecycleInv, Command PROVE LifecycleInv'
  OBVIOUS
<1>1. CASE command_run
  BY <1>1, RunStep DEF command_run
<1>2. CASE command_stop
  BY <1>2, StopStep DEF command_stop, LifecycleInv, TypeOK
<1>3. CASE command_quit
  BY <1>3, StopStep DEF command_quit
<1> QED BY <1>1, <1>2, <1>3 DEF Command

LEMMA MainStepInv == LifecycleInv /\ MainStep => LifecycleInv'
<1> SUFFICES ASSUME LifecycleInv, MainStep PROVE LifecycleInv'
  OBVIOUS
<1> USE DEF LifecycleInv, TypeOK, MainInv, QuietInv, Gone, Quiet, transportVars, nodeVars
<1>1. CASE transport_run
  BY <1>1 DEF transport_run
<1>2. CASE node_run
  BY <1>2, RunStep DEF node_run
<1>3. CASE wait
  BY <1>3 DEF wait
<1>4. CASE stop_returned
  BY <1>4 DEF stop_returned
<1>5. CASE destroy_transport
  BY <1>5 DEF destroy_transport
<1>6. CASE join_transport
  BY <1>6 DEF join_transport
<1> QED BY <1>1, <1>2, <1>3, <1>4, <1>5, <1>6 DEF MainStep

LEMMA NodeStepInv == LifecycleInv /\ NodeStep => LifecycleInv'
<1> SUFFICES ASSUME LifecycleInv, NodeStep PROVE LifecycleInv'
  OBVIOUS
<1> USE DEF LifecycleInv, TypeOK, MainInv, QuietInv, Gone, Quiet, transportVars
<1>1. CASE event_loop_begins
  BY <1>1 DEF event_loop_begins
<1>2. CASE ev_run
  BY <1>2 DEF ev_run
<1>3. CASE ev_run_returns
  BY <1>3 DEF ev_run_returns
<1>4. CASE event_loop_ends
  BY <1>4 DEF event_loop_ends
<1> QED BY <1>1, <1>2, <1>3, <1>4 DEF NodeStep

LEMMA TransportStepInv ==
  ASSUME LifecycleInv, NEW l \in Loop, TransportStep(l)
  PROVE  LifecycleInv'
<1> USE DEF LifecycleInv, TypeOK, MainInv, QuietInv, Gone, Quiet, nodeVars
<1>1. CASE transport_loop_begins(l)
  BY <1>1 DEF transport_loop_begins
<1>2. CASE transport_loop_runs(l)
  BY <1>2 DEF transport_loop_runs
<1> QED BY <1>1, <1>2 DEF TransportStep

LEMMA LifecycleInvHolds == Spec => []LifecycleInv
<1>1. LifecycleInv /\ [Next]_vars => LifecycleInv'
  <2> SUFFICES ASSUME LifecycleInv, [Next]_vars PROVE LifecycleInv'
    OBVIOUS
  <2>1. CASE UNCHANGED vars
    BY <2>1 DEF LifecycleInv, TypeOK, MainInv, QuietInv, Gone, Quiet, vars, nodeVars,
                transportVars
  <2>2. CASE Next
    BY <2>2, CommandStep, MainStepInv, NodeStepInv, TransportStepInv DEF Next
  <2> QED BY <2>1, <2>2
<1> QED BY <1>1, InitLifecycle, PTL DEF Spec

\* Every variable keeps its type; in particular no second event_loop task ever
\* waits in the pool (is_running_ in RaftNode::run).
THEOREM TypeCorrect == Spec => []TypeOK
<1>1. LifecycleInv => TypeOK
  BY DEF LifecycleInv
<1> QED BY <1>1, LifecycleInvHolds, PTL

\* Once stop() has returned, and before ~RaftNode destroys the loop, no thread
\* works on it (RaftNode::stop, ~RaftNode).
THEOREM QuietAfterStop == Spec => []QuietWhenStopped
<1>1. LifecycleInv => QuietWhenStopped
  BY DEF LifecycleInv, MainInv, QuietInv, QuietWhenStopped
<1> QED BY <1>1, LifecycleInvHolds, PTL

=============================================================================
