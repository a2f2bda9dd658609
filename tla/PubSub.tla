-------------------------------- MODULE PubSub --------------------------------
(***************************************************************************)
(* What a broadcaster with slow subscribers promises, of which the manager  *)
(* in pkg/websocket is one: messages are numbered as they are published,    *)
(* and a member is given some of them, in that order, while it is a member. *)
(* Who has left does not come back and is given nothing more.               *)
(***************************************************************************)
EXTENDS Naturals

CONSTANT Subscribers

VARIABLES
    published,  \* number of the last message published
    members,
    left,       \* those that were members and are no longer
    latest      \* the last message each subscriber was given

vars == <<published, members, left, latest>>

Init == /\ published = 0
        /\ members = {} /\ left = {}
        /\ latest = [c \in Subscribers |-> 0]

Publish == /\ published' = published + 1
           /\ UNCHANGED <<members, left, latest>>

Join(c) == /\ c \notin members \cup left
           /\ members' = members \cup {c}
           /\ UNCHANGED <<published, left, latest>>

Leave(c) == /\ c \in members
            /\ members' = members \ {c}
            /\ left' = left \cup {c}
            /\ UNCHANGED <<published, latest>>

Deliver(c, m) == /\ c \in members
                 /\ latest[c] < m
                 /\ latest' = [latest EXCEPT ![c] = m]
                 /\ UNCHANGED <<published, members, left>>

Next == \/ Publish
        \/ \E c \in Subscribers :
              Join(c) \/ Leave(c) \/ \E m \in 1..published : Deliver(c, m)

Spec == Init /\ [][Next]_vars
==============================================================================
