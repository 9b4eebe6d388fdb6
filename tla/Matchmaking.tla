----------------------------- MODULE Matchmaking -----------------------------
(***************************************************************************)
(* The waiting queue and the match proposals of the call server            *)
(* (server/app/domains/call/services/ws_service.py and routes_ws.py).      *)
(*                                                                         *)
(* One asyncio task serves each websocket: it runs handle_connect, then    *)
(* handle_receive_event for every message, and handle_disconnect when it   *)
(* ends.  All tasks share the module's dictionaries and Redis, and may be  *)
(* interleaved only at an await; pc[c] names the await at which the task   *)
(* of connection c is suspended, and an action is the code from one await  *)
(* to the next, the effect of the call that is awaited included.           *)
(*                                                                         *)
(* A websocket's handle_connect proposes at most one room, so a room is    *)
(* named by the connection whose task created it.                          *)
(***************************************************************************)
EXTENDS Naturals, Sequences, FiniteSets, SequencesExt, MatchFilter

CONSTANTS
    Users,       \* user ids
    Conns,       \* websocket connections, over the whole life of the system
    NoConn,      \* not a connection
    Owner,       \* the user each connection is authenticated as
    Data,        \* user_data of each connection's user when it connects
    Filters,     \* the filters each connection asks with
    Events,      \* the events clients send: "entered", "accept", "rejected"
    Expirable,   \* users whose Redis key may reach its 600 s expiry
    MayRestart   \* whether the server process may be restarted

ASSUME NoConnAssumption == NoConn \notin Conns
ASSUME OwnerAssumption  == Owner \in [Conns -> Users]
ASSUME ConnsAssumption  == IsFiniteSet(Conns)

VARIABLES
    queue,       \* waiting_users: dict by user, in insertion order
    live,        \* the rooms in matching_candidates
    partner,     \* sockets[1] of the room a connection proposed
    accepted,    \* users who accepted a room
    entered,     \* entered_users
    keys,        \* call:user:{id} in Redis: the connection whose data it holds
    link,        \* the client's end of each connection
    seen,        \* rooms proposed to the client of a connection
    pc,          \* where the task of a connection is suspended
    todo,        \* handle_connect: waiting connections not examined yet
    room,        \* the room the task is working on
    size,        \* handle_disconnect: size of the dict when the walk began
    gone,        \* handle_disconnect: to_remove
    passes       \* runs of handle_disconnect still to start or finish

shared == <<queue, live, partner, accepted, entered, keys>>
client == <<link, seen>>
task   == <<pc, todo, room, size, gone, passes>>
vars   == <<queue, live, partner, accepted, entered, keys,
            link, seen, pc, todo, room, size, gone, passes>>

Connecting == {"set", "snapshot", "scan", "claim", "enqueue"}
Sweeping   == {"unkey", "walk", "notice", "unkeyRoom", "walkOn"}
Handling   == {"propose", "forget1", "forget2", "recv",
               "matched", "settle", "requeue"}
PC         == Connecting \cup Sweeping \cup Handling \cup {"new", "done"}

TypeOK ==
    /\ queue \in Seq(Conns)
    /\ live \subseteq Conns
    /\ partner \in [Conns -> Conns \cup {NoConn}]
    /\ accepted \in [Conns -> SUBSET Users]
    /\ entered \subseteq Users
    /\ keys \in [Users -> Conns \cup {NoConn}]
    /\ link \in [Conns -> {"new", "open", "closed"}]
    /\ seen \in [Conns -> SUBSET Conns]
    /\ pc \in [Conns -> PC]
    /\ todo \in [Conns -> Seq(Conns)]
    /\ room \in [Conns -> Conns]
    /\ size \in [Conns -> Nat]
    /\ gone \in [Conns -> SUBSET Conns]
    /\ passes \in [Conns -> 0..2]

-----------------------------------------------------------------------------
(* The dictionary waiting_users, keyed by user.                            *)

Pos(q, u)     == CHOOSE i \in DOMAIN q : Owner[q[i]] = u
Waits(q, u)   == \E i \in DOMAIN q : Owner[q[i]] = u
Drop(q, u)    == IF Waits(q, u) THEN RemoveAt(q, Pos(q, u)) ELSE q
PutAppend(q, c) == Append(q, c)      \* mutant: a list, not a dictionary
Put(q, c)     == IF Waits(q, Owner[c])
                 THEN [q EXCEPT ![Pos(q, Owner[c])] = c]
                 ELSE Append(q, c)
Queued        == {queue[i] : i \in DOMAIN queue}

(* A room is the pair of sockets it was proposed to.                       *)
Sockets(r)    == {r, partner[r]}
UserIds(r)    == {Owner[r], Owner[partner[r]]}

(***************************************************************************)
(* A send to d succeeds unless the connection is known to be gone.  When   *)
(* the client closed it and the server has not noticed, the message may    *)
(* still be accepted and is lost.                                          *)
(***************************************************************************)
Sends(d)   == pc[d] # "done"
Raises(d)  == pc[d] = "done" \/ link[d] = "closed"
Shown(d, r) == IF link[d] = "open"
               THEN [seen EXCEPT ![d] = @ \cup {r}]
               ELSE seen

(* del matching_candidates[r], for every r in rooms.                       *)
Delete(rooms) ==
    /\ live' = live \ rooms
    /\ accepted' = [r \in Conns |-> IF r \in rooms THEN {} ELSE accepted[r]]

GoTo(c, label) == pc' = [pc EXCEPT ![c] = label]

(* The start of handle_disconnect, up to its first await, when q is the    *)
(* queue it finds: a waiting user is dropped.  The walk of a user who does *)
(* not wait starts in a step of its own, one interleaving point more than  *)
(* the code has.                                                           *)
Sweep(c, q) ==
    /\ queue' = Drop(q, Owner[c])
    /\ GoTo(c, IF Waits(q, Owner[c]) THEN "unkey" ELSE "walk")

(* An exception ends the task with one run of handle_disconnect (finally)  *)
(* or, for a WebSocketDisconnect, with two (except, then finally).         *)
Fail(c, q, runs) ==
    /\ Sweep(c, q)
    /\ \E n \in runs : passes' = [passes EXCEPT ![c] = n]

Init ==
    /\ queue = <<>>
    /\ live = {}
    /\ partner = [c \in Conns |-> NoConn]
    /\ accepted = [c \in Conns |-> {}]
    /\ entered = {}
    /\ keys = [u \in Users |-> NoConn]
    /\ link = [c \in Conns |-> "new"]
    /\ seen = [c \in Conns |-> {}]
    /\ pc = [c \in Conns |-> "new"]
    /\ todo = [c \in Conns |-> <<>>]
    /\ room = [c \in Conns |-> c]
    /\ size = [c \in Conns |-> 0]
    /\ gone = [c \in Conns |-> {}]
    /\ passes = [c \in Conns |-> 0]

-----------------------------------------------------------------------------
(* The client's end: it connects, and closes or loses the connection.      *)

Open(c) ==
    /\ link[c] = "new"
    /\ link' = [link EXCEPT ![c] = "open"]
    /\ GoTo(c, "set")
    /\ UNCHANGED <<shared, seen, todo, room, size, gone, passes>>

Close(c) ==
    /\ link[c] = "open"
    /\ link' = [link EXCEPT ![c] = "closed"]
    /\ UNCHANGED <<shared, seen, task>>

-----------------------------------------------------------------------------
(* handle_connect                                                          *)

SetKey(c) ==
    /\ pc[c] = "set"
    /\ keys' = [keys EXCEPT ![Owner[c]] = c]
    /\ GoTo(c, "snapshot")
    /\ UNCHANGED <<queue, live, partner, accepted, entered, client,
                   todo, room, size, gone, passes>>

(* Mutant: the connecting user's own entry is not skipped.                 *)
SnapshotAll(c) ==
    /\ pc[c] = "snapshot"
    /\ todo' = [todo EXCEPT ![c] = queue]
    /\ \/ queue = <<>> /\ queue' = Put(queue, c) /\ GoTo(c, "recv")
       \/ queue # <<>> /\ queue' = queue /\ GoTo(c, "scan")
    /\ UNCHANGED <<live, partner, accepted, entered, keys, client,
                   room, size, gone, passes>>

(* With nobody to examine there is no await before the registration.       *)
Snapshot(c) ==
    /\ pc[c] = "snapshot"
    /\ LET others == Drop(queue, Owner[c]) IN
         /\ todo' = [todo EXCEPT ![c] = others]
         /\ \/ /\ others = <<>>
               /\ queue' = Put(queue, c)
               /\ GoTo(c, "recv")
            \/ /\ others # <<>>
               /\ queue' = queue
               /\ GoTo(c, "scan")
    /\ UNCHANGED <<live, partner, accepted, entered, keys, client,
                   room, size, gone, passes>>

(* Mutant: only what the connecting user asks for counts.                  *)
MatchesOneWay(c, d) == IsMatch(Data[d], Filters[c])

(* is_match both ways, with the data of the connection that wrote the key. *)
Matches(c, d) == IsMatch(Data[d], Filters[c]) /\ IsMatch(Data[c], Filters[d])

(* The head of todo is read from Redis: no key, or no match, and the loop  *)
(* goes on to the next.                                                    *)
Scan(c) ==
    /\ pc[c] = "scan"
    /\ LET found == keys[Owner[Head(todo[c])]] IN
         \/ /\ found # NoConn
            /\ Matches(c, found)
            /\ GoTo(c, "claim")
            /\ todo' = todo
         \/ /\ ~(found # NoConn /\ Matches(c, found))
            /\ todo' = [todo EXCEPT ![c] = Tail(@)]
            /\ GoTo(c, IF Tail(todo[c]) = <<>> THEN "enqueue" ELSE "scan")
    /\ UNCHANGED <<shared, client, room, size, gone, passes>>

(* waiting_users.pop raises KeyError when the match has left meanwhile.    *)
ClaimGone(c) ==
    /\ pc[c] = "claim"
    /\ ~Waits(queue, Owner[Head(todo[c])])
    /\ todo' = [todo EXCEPT ![c] = <<>>]
    /\ Fail(c, queue, {1})
    /\ UNCHANGED <<live, partner, accepted, entered, keys, client,
                   room, size, gone>>

(* Mutant: the proposal goes out and the room is not registered.           *)
ClaimUnregistered(c) ==
    /\ pc[c] = "claim"
    /\ LET other == Owner[Head(todo[c])] IN
         /\ Waits(queue, other)
         /\ partner' = [partner EXCEPT ![c] = queue[Pos(queue, other)]]
         /\ queue' = Drop(queue, other)
    /\ seen' = Shown(c, c)
    /\ GoTo(c, "propose")
    /\ todo' = [todo EXCEPT ![c] = <<>>]
    /\ UNCHANGED <<live, accepted, entered, keys, link, room, size, gone, passes>>

(* The room is made and the first proposal sent, to the connecting user.   *)
Claim(c) ==
    /\ pc[c] = "claim"
    /\ LET other == Owner[Head(todo[c])]
           rest  == Drop(queue, other) IN
         /\ Waits(queue, other)
         /\ partner' = [partner EXCEPT ![c] = queue[Pos(queue, other)]]
         /\ \/ /\ Sends(c)
               /\ queue' = rest
               /\ seen' = Shown(c, c)
               /\ GoTo(c, "propose")
               /\ passes' = passes
            \/ /\ Raises(c)
               /\ seen' = seen
               /\ Fail(c, rest, {1, 2})
    /\ live' = live \cup {c}
    /\ todo' = [todo EXCEPT ![c] = <<>>]
    /\ UNCHANGED <<accepted, entered, keys, link, room, size, gone>>

Enqueue(c) ==
    /\ pc[c] = "enqueue"
    /\ queue' = Put(queue, c)
    /\ GoTo(c, "recv")
    /\ UNCHANGED <<live, partner, accepted, entered, keys, client,
                   todo, room, size, gone, passes>>

(* The proposal to the user who was waiting; a dead socket makes the task  *)
(* of the connecting user fail.                                            *)
Propose(c) ==
    /\ pc[c] = "propose"
    /\ \/ /\ Sends(partner[c])
          /\ seen' = Shown(partner[c], c)
          /\ GoTo(c, "forget1")
          /\ UNCHANGED <<queue, passes>>
       \/ /\ Raises(partner[c])
          /\ seen' = seen
          /\ Fail(c, queue, {1, 2})
    /\ UNCHANGED <<live, partner, accepted, entered, keys, link,
                   todo, room, size, gone>>

Forget(c) ==
    /\ \/ /\ pc[c] = "forget1"
          /\ keys' = [keys EXCEPT ![Owner[c]] = NoConn]
          /\ GoTo(c, "forget2")
       \/ /\ pc[c] = "forget2"
          /\ keys' = [keys EXCEPT ![Owner[partner[c]]] = NoConn]
          /\ GoTo(c, "recv")
    /\ UNCHANGED <<queue, live, partner, accepted, entered, client,
                   todo, room, size, gone, passes>>

-----------------------------------------------------------------------------
(* handle_receive_event: a message about a room that is not a candidate    *)
(* any more is ignored.                                                    *)

Receives(c, event, r) ==
    /\ pc[c] = "recv"
    /\ event \in Events
    /\ r \in seen[c] \cap live

ReceiveEntered(c) ==
    /\ \E r \in Conns : Receives(c, "entered", r)
    /\ entered' = entered \cup {Owner[c]}
    /\ UNCHANGED <<queue, live, partner, accepted, keys, client, task>>

(* The second accept tells both sockets; the first send is in this step.   *)
ReceiveAccept(c) ==
    /\ \E r \in Conns :
         /\ Receives(c, "accept", r)
         /\ accepted' = [accepted EXCEPT ![r] = @ \cup {Owner[c]}]
         /\ \/ /\ Cardinality(accepted[r] \cup {Owner[c]}) # 2
               /\ UNCHANGED <<queue, pc, passes, room>>
            \/ /\ Cardinality(accepted[r] \cup {Owner[c]}) = 2
               /\ Sends(r)
               /\ room' = [room EXCEPT ![c] = r]
               /\ GoTo(c, "matched")
               /\ UNCHANGED <<queue, passes>>
            \/ /\ Cardinality(accepted[r] \cup {Owner[c]}) = 2
               /\ Raises(r)
               /\ room' = room
               /\ Fail(c, queue, {1, 2})
    /\ UNCHANGED <<live, partner, entered, keys, client, todo, size, gone>>

TellMatched(c) ==
    /\ pc[c] = "matched"
    /\ \/ /\ Sends(partner[room[c]])
          /\ GoTo(c, "settle")
          /\ UNCHANGED <<queue, passes, room>>
       \/ /\ Raises(partner[room[c]])
          /\ room' = [room EXCEPT ![c] = c]
          /\ Fail(c, queue, {1, 2})
    /\ UNCHANGED <<live, partner, accepted, entered, keys, client,
                   todo, size, gone>>

(* del matching_candidates[room], a KeyError when it went meanwhile; q is  *)
(* the queue at that point.                                                *)
DeleteOwn(c, q) ==
    /\ \/ /\ room[c] \in live
          /\ Delete({room[c]})
          /\ queue' = q
          /\ GoTo(c, "recv")
          /\ passes' = passes
       \/ /\ room[c] \notin live
          /\ UNCHANGED <<live, accepted>>
          /\ Fail(c, q, {1})
    /\ room' = [room EXCEPT ![c] = c]

Settle(c) ==
    /\ pc[c] = "settle"
    /\ DeleteOwn(c, queue)
    /\ UNCHANGED <<partner, entered, keys, client, todo, size, gone>>

(* The socket that is not the rejecting user's.                            *)
Other(r, u) == IF Owner[r] = u THEN partner[r] ELSE r

(* A failed send to the partner is caught; the room is then dropped at     *)
(* once and the partner not queued.                                        *)
ReceiveReject(c) ==
    /\ \E r \in Conns :
         /\ Receives(c, "rejected", r)
         /\ \/ /\ Sends(Other(r, Owner[c]))
               /\ room' = [room EXCEPT ![c] = r]
               /\ GoTo(c, "requeue")
               /\ UNCHANGED <<live, accepted>>
            \/ /\ Raises(Other(r, Owner[c]))
               /\ Delete({r})
               /\ UNCHANGED <<pc, room>>
    /\ UNCHANGED <<queue, partner, entered, keys, client,
                   todo, size, gone, passes>>

(* Mutant: the room of the rejected proposal stays.                        *)
RequeueKept(c) ==
    /\ pc[c] = "requeue"
    /\ queue' = Put(queue, Other(room[c], Owner[c]))
    /\ room' = [room EXCEPT ![c] = c]
    /\ GoTo(c, "recv")
    /\ UNCHANGED <<live, partner, accepted, entered, keys, client,
                   todo, size, gone, passes>>

(* After the send the partner's socket goes back into the queue, whatever  *)
(* became of it meanwhile, and the room is deleted.                        *)
Requeue(c) ==
    /\ pc[c] = "requeue"
    /\ DeleteOwn(c, Put(queue, Other(room[c], Owner[c])))
    /\ UNCHANGED <<partner, entered, keys, client, todo, size, gone>>

-----------------------------------------------------------------------------
(* handle_disconnect, run for the connection's user, not its socket.       *)

(* The client's close ends the message loop of the task.                   *)
Disconnect(c) ==
    /\ pc[c] = "recv"
    /\ link[c] = "closed"
    /\ Fail(c, queue, {1})
    /\ UNCHANGED <<live, partner, accepted, entered, keys, client,
                   todo, room, size, gone>>

Unkey(c) ==
    /\ pc[c] \in {"unkey", "unkeyRoom"}
    /\ keys' = [keys EXCEPT ![Owner[c]] = NoConn]
    /\ GoTo(c, IF pc[c] = "unkey" THEN "walk" ELSE "walkOn")
    /\ UNCHANGED <<queue, live, partner, accepted, entered, client,
                   todo, room, size, gone, passes>>

(* Mutant: one run of handle_disconnect too many.                          *)
EndedLate(c) ==
    /\ passes' = [passes EXCEPT ![c] = @ - 1]
    /\ \/ passes[c] = 0 /\ GoTo(c, "done") /\ queue' = queue
       \/ passes[c] # 0 /\ Sweep(c, queue)
    /\ room' = [room EXCEPT ![c] = c]
    /\ size' = [size EXCEPT ![c] = 0]
    /\ gone' = [gone EXCEPT ![c] = {}]

(* A run of handle_disconnect returns or raises.                           *)
Ended(c) ==
    /\ passes' = [passes EXCEPT ![c] = @ - 1]
    /\ \/ /\ passes[c] = 1
          /\ GoTo(c, "done")
          /\ queue' = queue
       \/ /\ passes[c] # 1
          /\ Sweep(c, queue)
    /\ room' = [room EXCEPT ![c] = c]
    /\ size' = [size EXCEPT ![c] = 0]
    /\ gone' = [gone EXCEPT ![c] = {}]

(* Mutant: the mark is discarded only with a room.                         *)
DeleteRoomsOnly(c, rooms) ==
    /\ \/ rooms \subseteq live /\ Delete(rooms)
       \/ ~(rooms \subseteq live) /\ \E some \in SUBSET (rooms \cap live) : Delete(some)
    /\ entered' = IF rooms = {} THEN entered ELSE entered \ {Owner[c]}
    /\ Ended(c)

(* The deletions after the walk; a room deleted meanwhile is a KeyError    *)
(* that skips the rest of the function.                                    *)
DeleteRooms(c, rooms) ==
    /\ \/ /\ rooms \subseteq live
          /\ Delete(rooms)
          /\ entered' = entered \ {Owner[c]}
       \/ /\ ~(rooms \subseteq live)
          /\ \E some \in SUBSET (rooms \cap live) : Delete(some)
          /\ entered' = entered
    /\ Ended(c)

(* The walk over matching_candidates from its current position to the next *)
(* await: rooms of an entered user are removed silently, the two sockets   *)
(* of any other room are told.  The first send is in this step.            *)
Walk(c, removed, started) ==
    LET mine == {r \in live : Owner[c] \in UserIds(r)} \ removed IN
    \/ /\ Owner[c] \in entered
       /\ DeleteRooms(c, removed \cup mine)
    \/ /\ Owner[c] \notin entered
       /\ mine = {}
       /\ DeleteRooms(c, removed)
    \/ /\ Owner[c] \notin entered
       /\ \E r \in mine : room' = [room EXCEPT ![c] = r]
       /\ GoTo(c, "notice")
       /\ gone' = [gone EXCEPT ![c] = removed]
       /\ size' = [size EXCEPT ![c] = started]
       /\ UNCHANGED <<queue, live, accepted, entered, passes>>

BeginWalk(c) ==
    /\ pc[c] = "walk"
    /\ Walk(c, {}, Cardinality(live))
    /\ UNCHANGED <<partner, keys, client, todo>>

(* The send to the second socket; exceptions are swallowed.                *)
Notice(c) ==
    /\ pc[c] = "notice"
    /\ GoTo(c, "unkeyRoom")
    /\ UNCHANGED <<shared, client, todo, room, size, gone, passes>>

(* Mutant: the walk starts again after each room, none deleted yet.        *)
WalkAgain(c) ==
    /\ pc[c] = "walkOn"
    /\ Cardinality(live) = size[c]
    /\ Walk(c, {}, size[c])
    /\ UNCHANGED <<partner, keys, client, todo>>

WalkOn(c) ==
    /\ pc[c] = "walkOn"
    /\ Cardinality(live) = size[c]
    /\ Walk(c, gone[c] \cup {room[c]}, size[c])
    /\ UNCHANGED <<partner, keys, client, todo>>

(* "dictionary changed size during iteration"                              *)
WalkChanged(c) ==
    /\ pc[c] = "walkOn"
    /\ Cardinality(live) # size[c]
    /\ Ended(c)
    /\ UNCHANGED <<live, partner, accepted, entered, keys, client, todo>>

-----------------------------------------------------------------------------
(* The environment: Redis expiry, and a restart of the server process,     *)
(* which loses the dictionaries and the connections but not Redis.         *)

Expire(u) ==
    /\ u \in Expirable
    /\ keys[u] # NoConn
    /\ keys' = [keys EXCEPT ![u] = NoConn]
    /\ UNCHANGED <<queue, live, partner, accepted, entered, client, task>>

Restart ==
    /\ MayRestart
    /\ \E c \in Conns : pc[c] \notin {"new", "done"}
    /\ queue' = <<>>
    /\ live' = {}
    /\ entered' = {}
    /\ pc' = [c \in Conns |-> IF pc[c] = "new" THEN "new" ELSE "done"]
    /\ accepted' = [r \in Conns |-> {}]
    /\ todo' = [c \in Conns |-> <<>>]
    /\ room' = [c \in Conns |-> c]
    /\ size' = [c \in Conns |-> 0]
    /\ gone' = [c \in Conns |-> {}]
    /\ passes' = [c \in Conns |-> 0]
    /\ UNCHANGED <<partner, keys, client>>

(* Every connection there will be has ended.                               *)
Over ==
    /\ \A c \in Conns : pc[c] = "done" /\ link[c] = "closed"
    /\ UNCHANGED vars

-----------------------------------------------------------------------------
Handle(c) ==
    \/ SetKey(c)     \/ Snapshot(c)  \/ Scan(c)     \/ ClaimGone(c)
    \/ Claim(c)      \/ Enqueue(c)   \/ Propose(c)  \/ Forget(c)
    \/ TellMatched(c) \/ Settle(c)   \/ Requeue(c)  \/ Disconnect(c)
    \/ Unkey(c)      \/ BeginWalk(c) \/ Notice(c)    \/ WalkOn(c)
    \/ WalkChanged(c)

Receive(c) == ReceiveEntered(c) \/ ReceiveAccept(c) \/ ReceiveReject(c)

Next ==
    \/ \E c \in Conns : Open(c) \/ Close(c) \/ Receive(c) \/ Handle(c)
    \/ \E u \in Users : Expire(u)
    \/ Restart
    \/ Over

Spec == Init /\ [][Next]_vars

(* The event loop runs every task that can go on, and Redis answers.       *)
FairSpec == Spec /\ \A c \in Conns : WF_vars(Handle(c))
-----------------------------------------------------------------------------
(***************************************************************************)
(* A socket is in one place: the tasks of handle_connect, of a reject and  *)
(* of a disconnect move sockets between waiting_users and                  *)
(* matching_candidates with awaits in between, and yet no socket is at     *)
(* once queued and party to a candidate room, or party to two rooms.       *)
(***************************************************************************)
OnePlace ==
    /\ \A r \in live : Sockets(r) \cap Queued = {}
    /\ \A r, s \in live : r # s => Sockets(r) \cap Sockets(s) = {}

(* A room pairs the sockets of two different users: handle_connect skips   *)
(* the connecting user's own entry, and no await in between lets the       *)
(* popped entry become his own.                                            *)
PairsTwoUsers == \A r \in live : Owner[r] # Owner[partner[r]]

(* Two users who are proposed to each other asked for each other: the      *)
(* filters are those of connections both have made, although a user's key  *)
(* may hold what another tab asked for, and the entry that is popped after *)
(* the await may be that of another tab again.                             *)
MatchesSuit ==
    \A r \in live : \E c, d \in Conns :
        /\ Owner[c] = Owner[r] /\ Owner[d] = Owner[partner[r]]
        /\ pc[c] # "new" /\ pc[d] # "new"
        /\ Wants(Filters[c], Data[d]) /\ Wants(Filters[d], Data[c])

(* A mark in entered_users does not outlive the connections of its user    *)
(* ("always cleaned up at the end", ws_service.py:194), although           *)
(* handle_disconnect may stop with an exception before it discards it.     *)
EnteredSwept ==
    \A u \in entered :
        \E c \in Conns : Owner[c] = u /\ pc[c] \notin {"new", "done"}

(* A client is shown a proposal while the room can still be accepted,      *)
(* rejected or entered, or after a disconnect of one of its two users: the *)
(* proposal to the second socket is sent after an await, and no answer to  *)
(* it or to any other room deletes the room meanwhile.  (A task may be in  *)
(* handle_disconnect and its client still be told: an exception in a send  *)
(* to a third user ends the task, the reject of that user queues it.)      *)
ProposalIsLive ==
    [][\A c \in Conns : \A r \in seen'[c] \ seen[c] :
          r \in live' \/ \E e \in Conns : /\ Owner[e] \in {Owner[r], Owner[partner'[r]]}
                                          /\ pc[e] \in Sweeping \cup {"done"}]_vars

(* When a connection is closed its task comes to an end: no send, no       *)
(* exception and no walk over the candidates holds it up for ever.         *)
ClosedEnds ==
    \A c \in Conns : link[c] = "closed" ~> pc[c] = "done"

(* "Back into the queue" (ws_service.py:160) is meant to make the rejected *)
(* partner a candidate again; a candidate needs his Redis key (line 88).   *)
QueuedIsMatchable == \A i \in DOMAIN queue : keys[Owner[queue[i]]] # NoConn

-----------------------------------------------------------------------------
(* The server's dictionaries implement the pairing of connections.         *)
P == INSTANCE Pairing WITH
        queued <- Queued,
        pairs  <- {Sockets(r) : r \in live}

(* Every step of every task, seen on the queue and on the candidate rooms, *)
(* is one atomic step of Pairing, whichever awaits it lies between.        *)
PairingSpec == P!Spec
=============================================================================
