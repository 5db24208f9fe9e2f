---------------------------- MODULE LossyChannel ----------------------------
(***************************************************************************)
(* What the connection between two nodes promises each thread that sends   *)
(* on it: its messages may be lost or overtake each other, but none is     *)
(* invented and none arrives twice.  A thread's messages are numbered.     *)
(***************************************************************************)
EXTENDS Naturals, Sequences, SequencesExt

CONSTANT Sender    \* the threads that send, each with its own numbering

VARIABLES
    sent,      \* the number of the last message sent
    received   \* the numbers of the messages received, in order of arrival

Init ==
    /\ sent     = [p \in Sender |-> 0]
    /\ received = [p \in Sender |-> << >>]

Send(p) ==
    /\ sent' = [sent EXCEPT ![p] = @ + 1]
    /\ UNCHANGED received

\* A message that never comes is lost.
Receive(p) ==
    /\ \E n \in (1 .. sent[p]) \ ToSet(received[p]) :
          received' = [received EXCEPT ![p] = Append(@, n)]
    /\ UNCHANGED sent

Next == \E p \in Sender : Send(p) \/ Receive(p)

Spec == Init /\ [][Next]_<<sent, received>>

=============================================================================
