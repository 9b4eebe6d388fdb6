------------------------------- MODULE Pairing -------------------------------
(***************************************************************************)
(* What the matchmaking of the call server promises, whatever its tasks do *)
(* between their awaits: a connection is unplaced, queued, or in one pair, *)
(* a pair joins connections of two users, at most one connection of a user *)
(* is queued, and each change below happens at once.                       *)
(***************************************************************************)
EXTENDS FiniteSets

CONSTANTS Conns, Owner

VARIABLES
    queued,      \* connections waiting for a match
    pairs        \* sets of two connections a room was proposed to

Placed == queued \cup UNION pairs

(* The queue after c joins it: c takes the entry of its user.              *)
Joined(q, c) == {d \in q : Owner[d] # Owner[c]} \cup {c}

Init == queued = {} /\ pairs = {}

(* A connection that ends withdraws the entry of its user, possibly in the *)
(* step that changed the queue to q.                                       *)
Withdrawn(q) == {q} \cup {q \ {c} : c \in q}

(* A connection that is nowhere joins the queue.                           *)
Join(c) ==
    /\ c \notin Placed
    /\ queued' \in Withdrawn(Joined(queued, c))
    /\ UNCHANGED pairs

Leave(c) ==
    /\ c \in queued
    /\ queued' = queued \ {c}
    /\ UNCHANGED pairs

(* A newcomer c is paired with a connection that waits.                    *)
Pair(c, d) ==
    /\ c \notin Placed
    /\ d \in queued
    /\ Owner[c] # Owner[d]
    /\ pairs' = pairs \cup {{c, d}}
    /\ queued' \in Withdrawn(queued \ {d})

(* Pairs are dissolved, for good or because a call begins.                 *)
Dissolve ==
    /\ \E gone \in SUBSET pairs : gone # {} /\ pairs' = pairs \ gone
    /\ queued' \in Withdrawn(queued)

(* One side of a pair turns the other down, who waits again.               *)
TurnDown(p, c) ==
    /\ p \in pairs
    /\ c \in p
    /\ pairs' = pairs \ {p}
    /\ queued' = Joined(queued, c)

(* The server process starts anew.                                         *)
Restart ==
    /\ queued' = {}
    /\ pairs' = {}

Next ==
    \/ \E c \in Conns : Join(c) \/ Leave(c)
    \/ \E c, d \in Conns : Pair(c, d)
    \/ Dissolve
    \/ \E p \in pairs : \E c \in p : TurnDown(p, c)
    \/ Restart

Spec == Init /\ [][Next]_<<queued, pairs>>
=============================================================================
