---------------------------- MODULE MessageLink ----------------------------
(***************************************************************************)
(* What the way from one node to another promises, and RaftNode assumes of *)
(* each of its links: messages may be lost, and overtake each other where  *)
(* MessageOrder lets them, but none is repeated or invented.  The messages *)
(* carry numbers, in the order of sending: a link of RaftNode is the       *)
(* sequence of these messages in the order of their numbers.               *)
(***************************************************************************)
EXTENDS MessageOrder

CONSTANT Kind     \* kinds of messages: records of a type and a path

VARIABLES
    sent,         \* the number of the last message sent
    link,         \* the messages on the way
    handled       \* the numbers of the messages handled, in that order

Init == sent = 0 /\ link = {} /\ handled = << >>

Numbered(kind, no) == [type |-> kind.type, path |-> kind.path, no |-> no]

Send ==
    /\ \E kind \in Kind : link' = link \cup {Numbered(kind, sent + 1)}
    /\ sent' = sent + 1
    /\ UNCHANGED handled

Deliver(m) ==
    /\ \A n \in link : n.no < m.no => MayOvertake(m, n)
    /\ link'    = link \ {m}
    /\ handled' = Append(handled, m.no)
    /\ UNCHANGED sent

Lose == link' \in SUBSET link /\ UNCHANGED <<sent, handled>>

Next == Send \/ Lose \/ \E m \in link : Deliver(m)

Spec == Init /\ [][Next]_<<sent, link, handled>>

=============================================================================
