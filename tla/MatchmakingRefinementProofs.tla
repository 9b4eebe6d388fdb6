-------------------- MODULE MatchmakingRefinementProofs --------------------
(* Proofs that a socket is in one place and that the call server's         *)
(* matchmaking implements Pairing, for any users, connections and filters. *)
EXTENDS MatchmakingProofs

(***************************************************************************)
(* Who may still place a socket: its own handle_connect, while it is       *)
(* fresh, or a task that has told it of a reject and will queue it again.  *)
(* The room of the latter is still a candidate, or the socket is owed its  *)
(* queue entry.                                                            *)
(***************************************************************************)
Fresh(d)  == pc[d] \in Connecting \cup {"new"}
Paired(d) == \E r \in live : d \in Sockets(r)
Peer(c)   == Other(room[c], Owner[c])
Owes(c)   == pc[c] = "requeue" /\ room[c] \notin live

(* A room was made of two sockets that had passed handle_connect, and only *)
(* they know of it.                                                        *)
RoomsMade ==
    /\ \A r \in Conns : partner[r] # NoConn =>
         ~Fresh(r) /\ ~Fresh(partner[r]) /\ Owner[r] # Owner[partner[r]]
    /\ \A c \in Conns : \A r \in seen[c] : partner[r] # NoConn /\ c \in Sockets(r)
    /\ \A c \in Conns : pc[c] = "requeue" =>
         partner[room[c]] # NoConn /\ c \in Sockets(room[c])
    /\ \A c \in Conns : pc[c] = "propose" => partner[c] # NoConn

FreshUnqueued == \A c \in Conns : Fresh(c) => c \notin Queued

(* The task of a connection begins when the client opens it.               *)
Unopened == \A c \in Conns : link[c] = "new" => pc[c] = "new"

(* A socket that is owed its queue entry is nowhere, and owed one only.    *)
OwedNowhere ==
    \A c \in Conns : Owes(c) =>
        /\ Peer(c) \notin Queued
        /\ ~Paired(Peer(c))
        /\ \A d \in Conns : Owes(d) /\ Peer(d) = Peer(c) => d = c

PInv == Unopened /\ RoomsMade /\ FreshUnqueued /\ OwedNowhere /\ OnePlace

LEMMA InitPInv == Init => PInv
  BY DEF Init, PInv, Unopened, RoomsMade, FreshUnqueued, OwedNowhere, OnePlace, Owes,
         Queued, Fresh, Connecting

-----------------------------------------------------------------------------
(* A room's sockets are the task that handles the reject, and its peer.    *)
LEMMA PeerFacts ==
    ASSUME TInv, RoomsMade, NEW c \in Conns, pc[c] = "requeue"
    PROVE  /\ room[c] \in Conns /\ Peer(c) \in Conns /\ Peer(c) # c
           /\ Sockets(room[c]) = {c, Peer(c)}
           /\ ~Fresh(Peer(c))
<1>1. /\ room[c] \in Conns
      /\ partner[room[c]] \in Conns /\ partner[room[c]] # NoConn
      /\ c \in {room[c], partner[room[c]]}
  BY NoConnAssumption DEF TInv, TypeOK, TaskOK, RoomsMade, Sockets
<1>2. Owner[room[c]] # Owner[partner[room[c]]] /\ ~Fresh(room[c]) /\ ~Fresh(partner[room[c]])
  BY <1>1 DEF RoomsMade
<1> QED
  BY <1>1, <1>2 DEF Peer, Other, Sockets

(* A fresh socket is in no room.                                           *)
LEMMA FreshUnpaired ==
    ASSUME TInv, RoomsMade, NEW c \in Conns, Fresh(c)
    PROVE  ~Paired(c) /\ partner[c] = NoConn
<1>1. \A r \in live : r \in Conns /\ partner[r] # NoConn
  BY NoConnAssumption DEF TInv, TypeOK, PartnersKnown
<1> QED
  BY <1>1 DEF RoomsMade, Paired, Sockets

(***************************************************************************)
(* The steps that make no room: they may delete rooms, take sockets from   *)
(* the queue, and put those of X into it.                                  *)
(***************************************************************************)
Quiet(X) ==
    /\ partner' = partner
    /\ live' \subseteq live
    /\ Queued' \subseteq Queued \cup X
    /\ \A d \in Conns : Fresh(d)' => Fresh(d)
    /\ \A d \in Conns : link'[d] = "new" => link[d] = "new" /\ pc'[d] = pc[d]
    /\ \A d \in Conns : pc'[d] = "propose" => pc[d] = "propose"
    /\ \A c \in Conns : \A r \in seen'[c] :
         r \in seen[c] \/ (partner[r] # NoConn /\ c \in Sockets(r))
    /\ \A c \in Conns : pc'[c] = "requeue" =>
         \/ pc[c] = "requeue" /\ room'[c] = room[c]
         \/ /\ room'[c] \in live'
            /\ partner[room'[c]] # NoConn
            /\ c \in Sockets(room'[c])

(* What a socket that joins the queue must not be.                         *)
Homeless(d) ==
    /\ ~Fresh(d)
    /\ ~Paired(d)
    /\ \A c \in Conns : Owes(c) => Peer(c) # d

LEMMA QuietKeeps ==
    ASSUME TInv, PInv, NEW X \in SUBSET Conns, Quiet(X),
           \A d \in X : Homeless(d)'
    PROVE  PInv'
<1> Unopened /\ RoomsMade /\ FreshUnqueued /\ OwedNowhere /\ OnePlace
  BY DEF PInv
<1>1. \A r : Sockets(r)' = Sockets(r)
  BY DEF Quiet, Sockets
<1>2. RoomsMade'
  <2>1. ASSUME NEW r \in Conns, partner'[r] # NoConn
        PROVE  ~Fresh(r)' /\ ~Fresh(partner[r])' /\ Owner[r] # Owner[partner[r]]
    BY <2>1 DEF Quiet, RoomsMade, TInv, TypeOK
  <2>2. ASSUME NEW c \in Conns, NEW r \in seen'[c]
        PROVE  partner'[r] # NoConn /\ c \in {r, partner'[r]}
    BY DEF Quiet, RoomsMade, Sockets
  <2>3. ASSUME NEW c \in Conns, pc'[c] = "requeue"
        PROVE  partner'[room'[c]] # NoConn /\ c \in {room'[c], partner'[room'[c]]}
    BY <2>3 DEF Quiet, RoomsMade, Sockets
  <2>4. \A c \in Conns : pc'[c] = "propose" => partner'[c] # NoConn
    BY DEF Quiet, RoomsMade
  <2> QED
    BY <2>1, <2>2, <2>3, <2>4 DEF Quiet, RoomsMade, Sockets
<1>3. FreshUnqueued'
  BY DEF FreshUnqueued, Quiet, Homeless
<1>4. OnePlace'
  <2>1. ASSUME NEW r \in live' PROVE Sockets(r)' \cap Queued' = {}
    <3>1. r \in live /\ Sockets(r) \cap Queued = {}
      BY DEF Quiet, OnePlace
    <3>2. \A d \in X : d \notin Sockets(r)'
      BY DEF Homeless, Paired
    <3> QED
      BY <1>1, <3>1, <3>2 DEF Quiet
  <2> QED
    BY <1>1, <2>1 DEF Quiet, OnePlace
<1>5. ASSUME NEW c \in Conns, Owes(c)'
      PROVE  /\ pc[c] = "requeue" /\ Peer(c)' = Peer(c)
             /\ room'[c] = room[c] /\ room[c] \notin live'
  BY <1>5 DEF Owes, Quiet, Peer, Other
<1>6. ASSUME NEW c \in Conns, Owes(c)'
      PROVE  /\ Peer(c) \notin Queued
             /\ \A r \in live' : Peer(c) \notin Sockets(r)
             /\ \A d \in Conns : Owes(d)' /\ Peer(d) = Peer(c) => d = c
  <2>1. pc[c] = "requeue" /\ room[c] \notin live'
    BY <1>5, <1>6
  <2>2. Sockets(room[c]) = {c, Peer(c)}
    BY <2>1, PeerFacts
  <2>3. ASSUME NEW d \in Conns, Owes(d)'
        PROVE  /\ pc[d] = "requeue" /\ Sockets(room[d]) = {d, Peer(d)}
               /\ Peer(d) # d
    BY <1>5, <2>3, PeerFacts
  <2>4. CASE room[c] \notin live
    <3>1. Owes(c)
      BY <2>1, <2>4 DEF Owes
    <3>2. Peer(c) \notin Queued /\ ~Paired(Peer(c))
      BY <3>1 DEF OwedNowhere
    <3>3. ASSUME NEW d \in Conns, Owes(d)', Peer(d) = Peer(c)
          PROVE  d = c
      <4>1. room[d] \notin live
        BY <2>3, <3>2, <3>3 DEF Paired
      <4> QED
        BY <2>3, <3>1, <3>3, <4>1 DEF Owes, OwedNowhere
    <3> QED
      BY <1>1, <3>2, <3>3 DEF Quiet, Paired
  <2>5. CASE room[c] \in live
    <3>1. Peer(c) \notin Queued /\ Paired(Peer(c))
      BY <2>2, <2>5 DEF OnePlace, Paired
    <3>2. \A r \in live : Peer(c) \in Sockets(r) => r = room[c]
      BY <2>2, <2>5 DEF OnePlace
    <3>3. ASSUME NEW d \in Conns, Owes(d)', Peer(d) = Peer(c)
          PROVE  d = c
      <4>1. room[d] \in live
        BY <2>3, <3>1, <3>3 DEF Owes, OwedNowhere
      <4>2. room[d] = room[c]
        BY <2>3, <3>2, <3>3, <4>1
      <4> QED
        BY <2>2, <2>3, <3>3, <4>2
    <3> QED
      BY <1>1, <2>1, <3>1, <3>2, <3>3 DEF Quiet, Paired
  <2> QED
    BY <2>4, <2>5
<1>7. OwedNowhere'
  <2>1. ASSUME NEW c \in Conns, Owes(c)'
        PROVE  /\ Peer(c)' \notin Queued'
               /\ \A r \in live' : Peer(c)' \notin Sockets(r)'
               /\ \A d \in Conns : Owes(d)' /\ Peer(d)' = Peer(c)' => d = c
    <3>1. Peer(c)' = Peer(c) /\ \A d \in Conns : Owes(d)' => Peer(d)' = Peer(d)
      BY <1>5, <2>1
    <3>2. Peer(c) \notin X
      BY <2>1, <3>1 DEF Homeless
    <3>3. \A r \in live' : Sockets(r)' = Sockets(r)
      BY <1>1
    <3>4. \A r \in live' : Peer(c)' \notin Sockets(r)'
      BY <1>6, <2>1, <3>1, <3>3
    <3> QED
      BY <1>6, <2>1, <3>1, <3>2, <3>4 DEF Quiet
  <2> QED
    BY <2>1 DEF OwedNowhere, Paired
<1>8. Unopened'
  BY DEF Unopened, Quiet
<1> QED
  BY <1>2, <1>3, <1>4, <1>7, <1>8 DEF PInv

-----------------------------------------------------------------------------
(* Which sockets the pieces of the tasks' steps leave in the queue.        *)
Among(q, S) == \A i \in DOMAIN q : q[i] \in S

LEMMA QueueAmong == Among(queue, Queued) /\ (\A S : Among(queue', S) => Queued' \subseteq S)
  BY DEF Among, Queued

LEMMA DropAmong ==
    ASSUME NEW q \in Seq(Conns), NEW u, NEW S, Among(q, S)
    PROVE  Among(Drop(q, u), S)
  BY DropKeeps DEF Among

LEMMA PutAmong ==
    ASSUME NEW q \in Seq(Conns), NEW c \in Conns, NEW S, Among(q, S), c \in S
    PROVE  Among(Put(q, c), S)
<1>1. CASE ~Waits(q, Owner[c])
  BY <1>1 DEF Put, Among
<1>2. CASE Waits(q, Owner[c])
  BY <1>2, PosFinds DEF Put, Among
<1> QED
  BY <1>1, <1>2

LEMMA FailAmong ==
    ASSUME NEW c, NEW q \in Seq(Conns), NEW S, Among(q, S), NEW runs,
           Fail(c, q, runs)
    PROVE  Among(queue', S)
  BY DropAmong DEF Fail, Sweep

LEMMA EndedAmong ==
    ASSUME NEW c, queue \in Seq(Conns), NEW S, Among(queue, S), Ended(c)
    PROVE  Among(queue', S)
  BY DropAmong DEF Ended, Sweep

LEMMA WalkAmong ==
    ASSUME NEW c, queue \in Seq(Conns), NEW S, Among(queue, S),
           NEW removed, NEW started, Walk(c, removed, started)
    PROVE  Among(queue', S)
  BY EndedAmong DEF Walk, DeleteRooms

-----------------------------------------------------------------------------
(* A step of one task that begins no handling of a reject is quiet.        *)
LEMMA TaskQuiet ==
    ASSUME TInv, PInv, NEW c \in Conns, pc[c] # "new",
           NEW labels, Moves(c, labels), labels \cap {"propose", "requeue"} = {},
           Fresh(c) \/ labels \cap (Connecting \cup {"new"}) = {},
           NEW X, Among(queue', Queued \cup X),
           partner' = partner, live' \subseteq live, link' = link,
           \A d \in Conns : \A r \in seen'[d] :
             r \in seen[d] \/ (partner[r] # NoConn /\ d \in Sockets(r)),
           \A d \in Conns \ {c} : room'[d] = room[d]
    PROVE  Quiet(X)
<1>1. Queued' \subseteq Queued \cup X
  BY QueueAmong
<1>2. ASSUME NEW d \in Conns, Fresh(d)' PROVE Fresh(d)
  BY <1>2 DEF Fresh, Moves
<1>3. ASSUME NEW d \in Conns, link'[d] = "new" PROVE link[d] = "new" /\ pc'[d] = pc[d]
  BY <1>3 DEF PInv, Unopened, Moves
<1>4. ASSUME NEW d \in Conns, pc'[d] = "requeue"
      PROVE  pc[d] = "requeue" /\ room'[d] = room[d]
  BY <1>4 DEF Moves
<1>5. ASSUME NEW d \in Conns, pc'[d] = "propose" PROVE pc[d] = "propose"
  BY <1>5 DEF Moves
<1> QED
  BY <1>1, <1>2, <1>3, <1>4, <1>5 DEF Quiet

LEMMA TaskKeeps ==
    ASSUME TInv, PInv, NEW c \in Conns, pc[c] # "new",
           NEW labels, Moves(c, labels), labels \cap {"propose", "requeue"} = {},
           Fresh(c) \/ labels \cap (Connecting \cup {"new"}) = {},
           Among(queue', Queued),
           partner' = partner, live' \subseteq live, link' = link,
           \A d \in Conns : \A r \in seen'[d] :
             r \in seen[d] \/ (partner[r] # NoConn /\ d \in Sockets(r)),
           \A d \in Conns \ {c} : room'[d] = room[d]
    PROVE  PInv'
<1>1. Quiet({})
  <2>1. Among(queue', Queued \cup {})
    OBVIOUS
  <2> QED
    BY <2>1, TaskQuiet
<1> QED
  BY <1>1, QuietKeeps

LEMMA ClientKeeps ==
    ASSUME TInv, PInv, NEW c \in Conns, Open(c) \/ Close(c)
    PROVE  PInv'
<1>1. link \in [Conns -> {"new", "open", "closed"}] /\ pc \in [Conns -> PC]
  BY DEF TInv, TypeOK
<1>2. UNCHANGED <<queue, live, partner, seen, room>>
  BY DEF Open, Close, shared, task
<1>3. /\ \A d \in Conns : Fresh(d)' => Fresh(d)
      /\ \A d \in Conns : link'[d] = "new" => link[d] = "new" /\ pc'[d] = pc[d]
      /\ \A d \in Conns : pc'[d] = "requeue" => pc[d] = "requeue"
      /\ \A d \in Conns : pc'[d] = "propose" => pc[d] = "propose"
  <2>1. CASE Open(c)
    <3>1. pc[c] = "new" /\ link[c] = "new"
      BY <2>1 DEF Open, PInv, Unopened
    <3> QED
      BY <1>1, <2>1, <3>1 DEF Open, GoTo, Fresh
  <2>2. CASE Close(c)
    BY <1>1, <2>2 DEF Close, task, Fresh
  <2> QED
    BY <2>1, <2>2
<1>4. Queued' = Queued
  BY <1>2 DEF Queued
<1>5. Quiet({})
  BY <1>2, <1>3, <1>4 DEF Quiet
<1> QED
  BY <1>5, QuietKeeps

LEMMA ConnectKeeps ==
    ASSUME TInv, PInv, NEW c \in Conns,
           SetKey(c) \/ Scan(c) \/ ClaimGone(c) \/ Propose(c) \/ Forget(c)
    PROVE  PInv'
<1>1. queue \in Seq(Conns) /\ OnePerUser(queue) /\ Among(queue, Queued)
  BY QueueAmong DEF TInv, TypeOK
<1>2. CASE SetKey(c)
  <2>1. Moves(c, {"snapshot"})
    BY <1>2, GoToFacts DEF SetKey, PC, Connecting
  <2>2. /\ pc[c] = "set"
        /\ UNCHANGED <<queue, live, partner, link, seen, room>>
    BY <1>2 DEF SetKey, client
  <2> QED
    BY <1>1, <2>1, <2>2, TaskKeeps DEF Fresh, Connecting
<1>3. CASE Scan(c)
  <2>1. Moves(c, {"claim", "scan", "enqueue"})
    BY <1>3, GoToFacts DEF Scan, PC, Connecting, Moves
  <2>2. /\ pc[c] = "scan"
        /\ UNCHANGED <<queue, live, partner, link, seen, room>>
    BY <1>3 DEF Scan, shared, client
  <2> QED
    BY <1>1, <2>1, <2>2, TaskKeeps DEF Fresh, Connecting
<1>4. CASE ClaimGone(c)
  <2>1. Moves(c, {"unkey", "walk"}) /\ Among(queue', Queued)
    BY <1>1, <1>4, FailFacts, FailAmong DEF ClaimGone
  <2>2. /\ pc[c] = "claim"
        /\ UNCHANGED <<live, partner, link, seen, room>>
    BY <1>4 DEF ClaimGone, client
  <2> QED
    BY <2>1, <2>2, TaskKeeps DEF Connecting
<1>5. CASE Propose(c)
  <2>1. /\ pc[c] = "propose"
        /\ UNCHANGED <<live, partner, link, room>>
    BY <1>5 DEF Propose
  <2>2. Moves(c, {"forget1", "unkey", "walk"}) /\ Among(queue', Queued)
    <3>1. CASE GoTo(c, "forget1") /\ queue' = queue
      <4>1. Moves(c, {"forget1"})
        BY <3>1, GoToFacts DEF PC, Handling
      <4> QED
        BY <1>1, <3>1, <4>1 DEF Moves
    <3>2. CASE Fail(c, queue, {1, 2})
      <4>1. Moves(c, {"unkey", "walk"}) /\ Among(queue', Queued)
        BY <1>1, <3>2, FailFacts, FailAmong
      <4> QED
        BY <4>1 DEF Moves
    <3> QED
      BY <1>5, <3>1, <3>2 DEF Propose
  <2>3. partner[c] \in Conns /\ partner[c] # NoConn
    BY <2>1, NoConnAssumption DEF PInv, RoomsMade, TInv, TypeOK
  <2>4. \A d \in Conns : \A r \in seen'[d] :
          r \in seen[d] \/ (partner[r] # NoConn /\ d \in Sockets(r))
    <3>1. seen' = seen \/ seen' = [seen EXCEPT ![partner[c]] = @ \cup {c}]
      BY <1>5 DEF Propose, Shown
    <3>2. seen \in [Conns -> SUBSET Conns]
      BY DEF TInv, TypeOK
    <3> QED
      BY <2>3, <3>1, <3>2 DEF Sockets
  <2> QED
    BY <2>1, <2>2, <2>4, TaskKeeps DEF Connecting
<1>6. CASE Forget(c)
  <2>1. Moves(c, {"forget2", "recv"})
    BY <1>6, GoToFacts DEF Forget, PC, Handling, Moves
  <2>2. /\ pc[c] \in {"forget1", "forget2"}
        /\ UNCHANGED <<queue, live, partner, link, seen, room>>
    BY <1>6 DEF Forget, client
  <2> QED
    BY <1>1, <2>1, <2>2, TaskKeeps DEF Connecting
<1> QED
  BY <1>2, <1>3, <1>4, <1>5, <1>6

LEMMA ReceiveKeeps ==
    ASSUME TInv, PInv, NEW c \in Conns,
           ReceiveEntered(c) \/ ReceiveAccept(c) \/ TellMatched(c) \/ Settle(c)
    PROVE  PInv'
<1>1. queue \in Seq(Conns) /\ OnePerUser(queue) /\ Among(queue, Queued)
  BY QueueAmong DEF TInv, TypeOK
<1> DEFINE labels == {"recv", "matched", "settle", "unkey", "walk"}
<1>2. ASSUME NEW runs \in SUBSET {1, 2}, Fail(c, queue, runs)
      PROVE  Moves(c, labels) /\ Among(queue', Queued)
  BY <1>1, <1>2, FailFacts, FailAmong DEF Moves
<1>3. ASSUME NEW label \in labels, GoTo(c, label) PROVE Moves(c, labels)
  <2>1. label \in PC
    BY DEF PC, Handling, Sweeping
  <2> QED
    BY <1>3, <2>1, GoToFacts DEF Moves
<1>4. ASSUME pc' = pc, pc[c] = "recv" PROVE Moves(c, labels)
  BY <1>4 DEF Moves, TInv, TypeOK
<1>5. room \in [Conns -> Conns]
  BY DEF TInv, TypeOK
<1>6. /\ pc[c] \in {"recv", "matched", "settle"}
      /\ UNCHANGED <<partner, link, seen>>
  BY DEF ReceiveEntered, ReceiveAccept, TellMatched, Settle, Receives, client
<1>7. /\ Moves(c, labels) /\ Among(queue', Queued) /\ live' \subseteq live
      /\ \A d \in Conns \ {c} : room'[d] = room[d]
  <2>1. CASE ReceiveEntered(c)
    BY <1>1, <1>4, <2>1 DEF ReceiveEntered, Receives, task
  <2>2. CASE ReceiveAccept(c)
    <3>1. pc[c] = "recv" /\ live' = live
      BY <2>2 DEF ReceiveAccept, Receives
    <3>2. PICK r \in Conns :
            \/ UNCHANGED <<queue, pc, passes, room>>
            \/ /\ room' = [room EXCEPT ![c] = r]
               /\ GoTo(c, "matched")
               /\ queue' = queue
            \/ room' = room /\ Fail(c, queue, {1, 2})
      BY <2>2 DEF ReceiveAccept
    <3> QED
      BY <1>1, <1>2, <1>3, <1>4, <1>5, <3>1, <3>2
  <2>3. CASE TellMatched(c)
    <3>1. /\ live' = live
          /\ \/ GoTo(c, "settle") /\ UNCHANGED <<queue, room>>
             \/ room' = [room EXCEPT ![c] = c] /\ Fail(c, queue, {1, 2})
      BY <2>3 DEF TellMatched
    <3> QED
      BY <1>1, <1>2, <1>3, <1>5, <3>1
  <2>4. CASE Settle(c)
    <3>1. /\ room' = [room EXCEPT ![c] = c]
          /\ live' \subseteq live
          /\ \/ GoTo(c, "recv") /\ queue' = queue
             \/ Fail(c, queue, {1})
      BY <2>4, DeleteFacts DEF Settle, DeleteOwn
    <3> QED
      BY <1>1, <1>2, <1>3, <1>5, <3>1
  <2> QED
    BY <2>1, <2>2, <2>3, <2>4
<1> QED
  BY <1>6, <1>7, TaskKeeps DEF Connecting

LEMMA DisconnectKeeps ==
    ASSUME TInv, PInv, NEW c \in Conns,
           Disconnect(c) \/ Unkey(c) \/ BeginWalk(c) \/ Notice(c) \/ WalkOn(c)
             \/ WalkChanged(c)
    PROVE  PInv'
<1>1. /\ queue \in Seq(Conns) /\ OnePerUser(queue) /\ Among(queue, Queued)
      /\ room \in [Conns -> Conns] /\ size \in [Conns -> Nat]
      /\ gone \in [Conns -> SUBSET Conns] /\ Cardinality(live) \in Nat
  BY QueueAmong, ConnsAssumption, FS_Subset, FS_CardinalityType DEF TInv, TypeOK
<1> DEFINE labels == Sweeping \cup {"done"}
<1>2. /\ pc[c] \in Sweeping \cup {"recv"}
      /\ UNCHANGED <<partner, link, seen>>
  BY DEF Disconnect, Unkey, BeginWalk, Notice, WalkOn, WalkChanged, client, shared, Sweeping
<1>3. /\ Moves(c, labels) /\ Among(queue', Queued) /\ live' \subseteq live
      /\ \A d \in Conns \ {c} : room'[d] = room[d]
  <2>1. CASE Disconnect(c)
    BY <1>1, <2>1, FailFacts, FailAmong DEF Disconnect, Moves, Sweeping
  <2>2. CASE Unkey(c)
    BY <1>1, <2>2, GoToFacts DEF Unkey, Moves, Sweeping, PC
  <2>3. CASE Notice(c)
    BY <1>1, <2>3, GoToFacts DEF Notice, shared, Moves, Sweeping, PC
  <2>4. ASSUME NEW removed \in SUBSET Conns, NEW started \in Nat,
               Walk(c, removed, started), pc[c] \in Sweeping
        PROVE  /\ Moves(c, labels) /\ Among(queue', Queued) /\ live' \subseteq live
               /\ \A d \in Conns \ {c} : room'[d] = room[d]
    BY <1>1, <2>4, WalkFacts, WalkAmong DEF Moves, Sweeping
  <2>5. CASE BeginWalk(c)
    BY <1>1, <2>4, <2>5 DEF BeginWalk, Sweeping
  <2>6. CASE WalkOn(c)
    BY <1>1, <2>4, <2>6 DEF WalkOn, Sweeping
  <2>7. CASE WalkChanged(c)
    <3>1. pc[c] \in Sweeping /\ Ended(c) /\ live' = live
      BY <2>7 DEF WalkChanged, Sweeping
    <3> QED
      BY <1>1, <3>1, EndedFacts, EndedAmong DEF Moves, Sweeping
  <2> QED
    BY <2>1, <2>2, <2>3, <2>5, <2>6, <2>7
<1> QED
  BY <1>2, <1>3, TaskKeeps DEF Connecting, Sweeping

LEMMA RejectKeeps ==
    ASSUME TInv, PInv, NEW c \in Conns, ReceiveReject(c)
    PROVE  PInv'
<1>1. PICK r \in seen[c] \cap live :
        \/ /\ room' = [room EXCEPT ![c] = r]
           /\ GoTo(c, "requeue")
           /\ live' = live
        \/ Delete({r}) /\ UNCHANGED <<pc, room>>
  BY DEF ReceiveReject, Receives
<1>2. /\ pc[c] = "recv"
      /\ UNCHANGED <<queue, partner, link, seen>>
  BY DEF ReceiveReject, Receives, client
<1>3. /\ pc \in [Conns -> PC] /\ room \in [Conns -> Conns]
      /\ r \in live /\ partner[r] # NoConn /\ c \in Sockets(r)
  BY <1>1 DEF TInv, TypeOK, PInv, RoomsMade
<1>4. Queued' = Queued /\ live' \subseteq live
  BY <1>1, <1>2 DEF Queued, Delete
<1>5. /\ \A d \in Conns : Fresh(d)' => Fresh(d)
      /\ \A d \in Conns : link'[d] = "new" => link[d] = "new" /\ pc'[d] = pc[d]
      /\ \A d \in Conns : pc'[d] = "propose" => pc[d] = "propose"
  BY <1>1, <1>2, <1>3 DEF GoTo, Fresh, Connecting, PInv, Unopened
<1>6. ASSUME NEW d \in Conns, pc'[d] = "requeue"
      PROVE  \/ pc[d] = "requeue" /\ room'[d] = room[d]
             \/ room'[d] = r /\ d = c /\ r \in live'
  BY <1>1, <1>2, <1>3, <1>6 DEF GoTo
<1>7. Quiet({})
  BY <1>2, <1>3, <1>4, <1>5, <1>6 DEF Quiet
<1> QED
  BY <1>7, QuietKeeps

LEMMA EnvironmentKeeps ==
    ASSUME TInv, PInv, (\E u \in Users : Expire(u)) \/ Restart \/ UNCHANGED vars
    PROVE  PInv'
<1>1. /\ partner' = partner /\ live' \subseteq live /\ link' = link /\ seen' = seen
      /\ Queued' \subseteq Queued
  BY DEF Expire, Restart, vars, client, Queued
<1>2. /\ \A d \in Conns : Fresh(d)' => Fresh(d)
      /\ \A d \in Conns : pc[d] = "new" => pc'[d] = "new"
      /\ \A d \in Conns : pc'[d] = "propose" => pc[d] = "propose"
      /\ \A d \in Conns : pc'[d] = "requeue" => pc[d] = "requeue" /\ room'[d] = room[d]
  BY DEF Expire, Restart, vars, task, Fresh, Connecting
<1>3. Quiet({})
  BY <1>1, <1>2 DEF Quiet, PInv, Unopened
<1> QED
  BY <1>3, QuietKeeps

-----------------------------------------------------------------------------
(* A connection that registers in the queue was fresh, so in no room.      *)
LEMMA JoinKeeps ==
    ASSUME TInv, PInv, NEW c \in Conns, Fresh(c), pc[c] # "new",
           queue' = Put(queue, c), GoTo(c, "recv"),
           UNCHANGED <<live, partner, link, seen, room>>
    PROVE  PInv'
<1>1. queue \in Seq(Conns) /\ Moves(c, {"recv"})
  BY GoToFacts DEF TInv, TypeOK, PC, Handling
<1>2. Among(queue', Queued \cup {c})
  <2>1. Among(queue, Queued \cup {c})
    BY DEF Among, Queued
  <2> QED
    BY <1>1, <2>1, PutAmong
<1>3. Quiet({c})
  BY <1>1, <1>2, TaskQuiet DEF Connecting
<1>4. Homeless(c)'
  <2>1. ~Fresh(c)'
    BY <1>1 DEF Moves, Fresh, Connecting
  <2>2. ~Paired(c)'
    BY FreshUnpaired DEF PInv, Paired, Sockets
  <2>3. ASSUME NEW d \in Conns, Owes(d)' PROVE Peer(d)' # c
    <3>1. pc[d] = "requeue" /\ Peer(d)' = Peer(d)
      BY <1>1, <2>3 DEF Owes, Moves, Peer, Other
    <3> QED
      BY <3>1, PeerFacts DEF PInv
  <2> QED
    BY <2>1, <2>2, <2>3 DEF Homeless
<1> QED
  BY <1>3, <1>4, QuietKeeps

LEMMA RegisterKeeps ==
    ASSUME TInv, PInv, NEW c \in Conns, Snapshot(c) \/ Enqueue(c)
    PROVE  PInv'
<1>1. /\ pc[c] \in {"snapshot", "enqueue"}
      /\ UNCHANGED <<live, partner, link, seen, room>>
  BY DEF Snapshot, Enqueue, client
<1>2. CASE queue' = Put(queue, c) /\ GoTo(c, "recv")
  BY <1>1, <1>2, JoinKeeps DEF Fresh, Connecting
<1>3. CASE queue' = queue /\ GoTo(c, "scan")
  <2>1. Moves(c, {"scan"}) /\ Among(queue', Queued)
    BY <1>3, GoToFacts, QueueAmong DEF PC, Connecting
  <2> QED
    BY <1>1, <2>1, TaskKeeps DEF Fresh, Connecting
<1> QED
  BY <1>2, <1>3 DEF Snapshot, Enqueue

(* A reject's peer leaves its only room, or was owed its queue entry.      *)
LEMMA RequeueKeeps ==
    ASSUME TInv, PInv, NEW c \in Conns, Requeue(c)
    PROVE  PInv'
<1>0. PICK p \in Conns : p = Peer(c)
  BY PeerFacts DEF PInv, Requeue
<1>1. /\ pc[c] = "requeue"
      /\ UNCHANGED <<partner, link, seen>>
      /\ room' = [room EXCEPT ![c] = c]
      /\ DeleteOwn(c, Put(queue, p))
  BY <1>0 DEF Requeue, DeleteOwn, Peer, client
<1>2. /\ room[c] \in Conns /\ p \in Conns /\ p # c
      /\ Sockets(room[c]) = {c, p} /\ ~Fresh(p)
  BY <1>0, <1>1, PeerFacts DEF PInv
<1>3. /\ Put(queue, p) \in Seq(Conns) /\ OnePerUser(Put(queue, p))
      /\ Among(Put(queue, p), Queued \cup {p})
  <2>1. Among(queue, Queued \cup {p}) /\ queue \in Seq(Conns) /\ OnePerUser(queue)
    BY DEF Among, Queued, TInv, TypeOK
  <2> QED
    BY <1>2, <2>1, PutKeeps, PutAmong
<1>4. /\ Moves(c, {"recv", "unkey", "walk"}) /\ Among(queue', Queued \cup {p})
      /\ live' = live \ {room[c]}
  <2>1. CASE room[c] \in live /\ Delete({room[c]}) /\ queue' = Put(queue, p) /\ GoTo(c, "recv")
    <3>1. Moves(c, {"recv"})
      BY <2>1, GoToFacts DEF PC, Handling
    <3> QED
      BY <1>3, <2>1, <3>1 DEF Moves, Delete
  <2>2. CASE room[c] \notin live /\ live' = live /\ Fail(c, Put(queue, p), {1})
    <3>1. Moves(c, {"unkey", "walk"}) /\ Among(queue', Queued \cup {p})
      BY <1>3, <2>2, FailFacts, FailAmong
    <3> QED
      BY <2>2, <3>1 DEF Moves
  <2> QED
    BY <1>1, <2>1, <2>2 DEF DeleteOwn
<1>5. \A d \in Conns \ {c} : room'[d] = room[d]
  BY <1>1 DEF TInv, TypeOK
<1>6. Quiet({p})
  BY <1>1, <1>4, <1>5, TaskQuiet DEF Connecting
<1>7. Homeless(p)'
  <2>1. ~Fresh(p)'
    BY <1>2, <1>6 DEF Quiet
  <2>2. ASSUME NEW r \in live' PROVE p \notin Sockets(r)'
    <3>1. Sockets(r)' = Sockets(r) /\ r \in live /\ r # room[c]
      BY <1>1, <1>4 DEF Sockets
    <3>2. CASE room[c] \in live
      BY <1>2, <3>1, <3>2 DEF PInv, OnePlace
    <3>3. CASE room[c] \notin live
      BY <1>0, <1>1, <3>1, <3>3 DEF PInv, OwedNowhere, Owes, Paired
    <3> QED
      BY <3>2, <3>3
  <2>3. ASSUME NEW d \in Conns, Owes(d)' PROVE Peer(d)' # p
    <3>1. /\ d # c /\ pc[d] = "requeue" /\ Peer(d)' = Peer(d)
          /\ room[d] \notin live \/ room[d] = room[c]
      BY <1>1, <1>4, <1>5, <2>3 DEF Owes, Moves, Peer, Other
    <3>2. Sockets(room[d]) = {d, Peer(d)}
      BY <3>1, PeerFacts DEF PInv
    <3>3. CASE room[d] = room[c]
      BY <1>2, <3>1, <3>2, <3>3
    <3>4. CASE room[d] \notin live
      <4>1. CASE room[c] \in live
        BY <1>2, <3>1, <3>4, <4>1 DEF PInv, OwedNowhere, Owes, Paired
      <4>2. CASE room[c] \notin live
        BY <1>0, <1>1, <3>1, <3>4, <4>2 DEF PInv, OwedNowhere, Owes
      <4> QED
        BY <4>1, <4>2
    <3> QED
      BY <3>1, <3>3, <3>4
  <2> QED
    BY <2>1, <2>2, <2>3 DEF Homeless, Paired
<1> QED
  BY <1>2, <1>6, <1>7, QuietKeeps

(***************************************************************************)
(* The step that makes a room takes its second socket out of the queue,    *)
(* where no other room and no owed entry can be; its first is fresh.       *)
(***************************************************************************)
LEMMA ClaimKeeps ==
    ASSUME TInv, PInv, NEW c \in Conns, Claim(c)
    PROVE  PInv'
<1> DEFINE other == Owner[Head(todo[c])]
           rest  == Drop(queue, other)
<1>1. PICK p : p = queue[Pos(queue, other)]
  OBVIOUS
<1>2. /\ pc[c] = "claim" /\ Waits(queue, other)
      /\ partner' = [partner EXCEPT ![c] = p]
      /\ live' = live \cup {c}
      /\ link' = link /\ room' = room
      /\ seen' = seen \/ seen' = [seen EXCEPT ![c] = @ \cup {c}]
      /\ \/ queue' = rest /\ GoTo(c, "propose")
         \/ Fail(c, rest, {1, 2})
  BY <1>1 DEF Claim, Shown
<1>3. queue \in Seq(Conns) /\ OnePerUser(queue) /\ Owner[c] # other
  BY <1>2 DEF TInv, TypeOK, TaskOK
<1> HIDE DEF other
<1>4. p \in Conns /\ p \in Queued /\ Owner[p] = other
  BY <1>1, <1>2, <1>3, PosFinds DEF Queued
<1>5. /\ rest \in Seq(Conns) /\ OnePerUser(rest) /\ Among(rest, Queued \ {p})
  <2>1. /\ rest \in Seq(Conns) /\ OnePerUser(rest) /\ ~Waits(rest, other)
        /\ Among(rest, Queued)
    BY <1>3, DropKeeps, DropAmong, QueueAmong
  <2> HIDE DEF rest
  <2> QED
    BY <1>4, <2>1 DEF Among, Waits
<1> HIDE DEF rest
<1>6. Moves(c, {"propose", "unkey", "walk"}) /\ Among(queue', Queued \ {p})
  <2>1. CASE queue' = rest /\ GoTo(c, "propose")
    BY <1>5, <2>1, GoToFacts DEF Moves, PC, Handling
  <2>2. CASE Fail(c, rest, {1, 2})
    BY <1>5, <2>2, FailFacts, FailAmong DEF Moves
  <2> QED
    BY <1>2, <2>1, <2>2
<1>7. Queued' \subseteq Queued \ {p}
  BY <1>6, QueueAmong
<1>8. /\ Fresh(c) /\ ~Paired(c) /\ partner[c] = NoConn /\ c \notin Queued
      /\ p # c /\ ~Fresh(p) /\ ~Paired(p)
  <2>1. Fresh(c)
    BY <1>2 DEF Fresh, Connecting
  <2>2. ~Paired(p)
    BY <1>4 DEF PInv, OnePlace, Paired
  <2> QED
    BY <1>4, <2>1, <2>2, FreshUnpaired DEF PInv, FreshUnqueued
<1>9. \A d \in Conns : (Fresh(d)' => Fresh(d) /\ d # c) /\ (pc'[d] = "requeue" => pc[d] = "requeue" /\ d # c)
  BY <1>6 DEF Moves, Fresh, Connecting
<1>10. /\ partner'[c] = p
       /\ \A r \in Conns \ {c} : partner'[r] = partner[r]
       /\ p # NoConn
  BY <1>2, <1>4, NoConnAssumption DEF TInv, TypeOK
<1>11. /\ Sockets(c)' = {c, p}
       /\ \A r \in Conns \ {c} : {r, partner'[r]} = Sockets(r)
  BY <1>10 DEF Sockets
<1>12. Unopened'
  BY <1>2, <1>6 DEF PInv, Unopened, Moves
<1>13. RoomsMade'
  <2>1. ASSUME NEW r \in Conns, NEW s \in Conns, partner'[r] = s
        PROVE  ~Fresh(r)' /\ ~Fresh(s)' /\ Owner[r] # Owner[s]
    <3>1. CASE r = c
      BY <1>3, <1>4, <1>8, <1>9, <1>10, <2>1, <3>1
    <3>2. CASE r # c
      BY <1>9, <1>10, <2>1, <3>2, NoConnAssumption DEF PInv, RoomsMade
    <3> QED
      BY <3>1, <3>2
  <2>2. ASSUME NEW r \in Conns, partner'[r] # NoConn
        PROVE  ~Fresh(r)' /\ ~Fresh(partner[r])' /\ Owner[r] # Owner[partner[r]]'
    <3>1. PICK s \in Conns : partner'[r] = s
      BY <1>4, <1>10, <2>2 DEF TInv, TypeOK
    <3> QED
      BY <2>1, <3>1 DEF Fresh
  <2>3. ASSUME NEW d \in Conns, NEW r \in seen'[d]
        PROVE  partner'[r] # NoConn /\ d \in {r, partner'[r]}
    <3>1. (r = c /\ d = c) \/ r \in seen[d]
      BY <1>2 DEF TInv, TypeOK
    <3>2. CASE r \in seen[d]
      BY <1>8, <1>10, <3>2 DEF PInv, RoomsMade, Sockets, TInv, TypeOK
    <3> QED
      BY <1>10, <3>1, <3>2
  <2>4. ASSUME NEW d \in Conns, pc'[d] = "requeue"
        PROVE  partner'[room'[d]] # NoConn /\ d \in {room'[d], partner'[room'[d]]}
    BY <1>2, <1>8, <1>9, <1>10, <2>4 DEF PInv, RoomsMade, Sockets, TInv, TypeOK
  <2>5. ASSUME NEW d \in Conns, pc'[d] = "propose" PROVE partner'[d] # NoConn
    BY <1>6, <1>10, <2>5 DEF Moves, PInv, RoomsMade
  <2> QED
    BY <2>2, <2>3, <2>4, <2>5 DEF RoomsMade, Sockets
<1>14. FreshUnqueued'
  BY <1>7, <1>9 DEF PInv, FreshUnqueued
<1>15. OnePlace'
  <2>1. \A r \in live' : r \in Conns
    BY <1>2 DEF TInv, TypeOK
  <2>2. \A r \in live' \ {c} : r \in live /\ c \notin Sockets(r) /\ p \notin Sockets(r)
    BY <1>2, <1>8 DEF Paired
  <2>3. ASSUME NEW r \in live'
        PROVE  {r, partner'[r]} \cap Queued' = {}
    <3>1. CASE r = c
      BY <1>7, <1>8, <1>10, <3>1
    <3>2. CASE r # c
      BY <1>7, <1>11, <2>1, <2>2, <3>2 DEF PInv, OnePlace
    <3> QED
      BY <3>1, <3>2
  <2>4. ASSUME NEW r \in live', NEW s \in live', r # s
        PROVE  {r, partner'[r]} \cap {s, partner'[s]} = {}
    <3>1. CASE r = c \/ s = c
      BY <1>10, <1>11, <2>1, <2>2, <2>4, <3>1
    <3>2. CASE r # c /\ s # c
      BY <1>11, <2>1, <2>2, <2>4, <3>2 DEF PInv, OnePlace
    <3> QED
      BY <3>1, <3>2
  <2> QED
    BY <2>3, <2>4 DEF OnePlace, Sockets
<1>16. OwedNowhere'
  <2>1. ASSUME NEW d \in Conns, Owes(d)'
        PROVE  /\ pc[d] = "requeue" /\ Owes(d) /\ Peer(d)' = Peer(d)
               /\ Peer(d) # c /\ Peer(d) # p
    <3>1. pc[d] = "requeue" /\ room'[d] = room[d] /\ Owes(d)
      BY <1>2, <1>9, <2>1 DEF Owes
    <3>2. room[d] \in Conns \ {c}
      BY <1>8, <3>1 DEF PInv, RoomsMade, TInv, TypeOK
    <3>3. Peer(d)' = Peer(d)
      BY <1>10, <3>1, <3>2 DEF Peer, Other
    <3>4. Peer(d) # c
      BY <1>8, <3>1, PeerFacts DEF PInv
    <3>5. Peer(d) # p
      BY <1>4, <3>1 DEF PInv, OwedNowhere
    <3> QED
      BY <3>1, <3>3, <3>4, <3>5
  <2>2. ASSUME NEW d \in Conns, Owes(d)', NEW r \in live'
        PROVE  Peer(d) \notin {r, partner'[r]}
    <3>1. CASE r = c
      BY <1>10, <2>1, <2>2, <3>1
    <3>2. CASE r # c
      <4>1. r \in live /\ r \in Conns
        BY <1>2, <3>2 DEF TInv, TypeOK
      <4> QED
        BY <1>11, <2>1, <2>2, <3>2, <4>1 DEF PInv, OwedNowhere, Paired
    <3> QED
      BY <3>1, <3>2
  <2>3. ASSUME NEW d \in Conns, Owes(d)'
        PROVE  /\ Peer(d)' \notin Queued'
               /\ \A r \in live' : Peer(d)' \notin {r, partner'[r]}
               /\ \A e \in Conns : Owes(e)' /\ Peer(e)' = Peer(d)' => e = d
    BY <1>7, <2>1, <2>2, <2>3 DEF PInv, OwedNowhere
  <2> QED
    BY <2>3 DEF OwedNowhere, Paired, Sockets
<1> QED
  BY <1>12, <1>13, <1>14, <1>15, <1>16 DEF PInv

-----------------------------------------------------------------------------
LEMMA NextPInv == ASSUME IInv, PInv, [Next]_vars PROVE PInv'
<1>1. TInv
  BY DEF IInv
<1>2. ASSUME NEW c \in Conns, Open(c) \/ Close(c) \/ Receive(c) \/ Handle(c)
      PROVE  PInv'
  BY <1>1, <1>2, ClientKeeps, ConnectKeeps, ReceiveKeeps, DisconnectKeeps, RejectKeeps,
     RegisterKeeps, RequeueKeeps, ClaimKeeps DEF Receive, Handle
<1>3. CASE (\E u \in Users : Expire(u)) \/ Restart \/ Over \/ UNCHANGED vars
  BY <1>1, <1>3, EnvironmentKeeps DEF Over
<1> QED
  BY <1>2, <1>3 DEF Next

LEMMA PlaceInvariant == Spec => [](IInv /\ PInv)
  BY InitIInv, NextIInv, InitPInv, NextPInv, PTL DEF Spec

(* No socket is ever queued and party to a candidate room, or party to two *)
(* rooms, for any number of users, tabs and reconnects, although connect,  *)
(* reject and disconnect move sockets between the two dictionaries with    *)
(* awaits in between.                                                      *)
THEOREM SocketsInOnePlace == Spec => []OnePlace
<1>1. PInv => OnePlace
  BY DEF PInv
<1> QED
  BY <1>1, PlaceInvariant, PTL

-----------------------------------------------------------------------------
(***************************************************************************)
(* What is shown to whom: a room whose second proposal is still to be sent *)
(* has been shown to nobody else, so no answer can delete it; a walk over  *)
(* the candidates deletes only rooms of its own user.                      *)
(***************************************************************************)
Leaving == Sweeping \cup {"done"}

(* A user of the room has disconnected.                                    *)
Left(r) == \E e \in Conns : Owner[e] \in UserIds(r) /\ pc[e] \in Leaving

Mine(c, r) == partner[r] # NoConn /\ Owner[c] \in UserIds(r)

HandledSeen ==
    \A c \in Conns : pc[c] \in {"matched", "settle", "requeue"} => room[c] \in seen[c]

ProposedUnseen ==
    \A c \in Conns : pc[c] = "propose" => \A d \in Conns \ {c} : c \notin seen[d]

ProposedStands ==
    \A c \in Conns : pc[c] = "propose" => c \in live \/ Left(c)

OwnWalk ==
    \A c \in Conns : pc[c] \in {"notice", "unkeyRoom", "walkOn"} =>
        \A r \in gone[c] \cup {room[c]} : Mine(c, r)

LInv == HandledSeen /\ ProposedUnseen /\ ProposedStands /\ OwnWalk

LEMMA InitLInv == Init => LInv
  BY DEF Init, LInv, HandledSeen, ProposedUnseen, ProposedStands, OwnWalk

(***************************************************************************)
(* A step of the task or the client of c that makes no room: the rooms it  *)
(* deletes are ones it was shown, or its user's when it disconnects.       *)
(***************************************************************************)
Answers(c) ==
    /\ partner' = partner
    /\ \A d \in Conns \ {c} : pc'[d] = pc[d] /\ room'[d] = room[d] /\ gone'[d] = gone[d]
    /\ pc[c] \in Leaving => pc'[c] \in Leaving
    /\ pc'[c] = "propose" => pc[c] = "propose" /\ live' = live /\ seen' = seen
    /\ \A r \in live \ live' : \/ r \in seen[c]
                               \/ Owner[c] \in UserIds(r) /\ pc'[c] \in Leaving
    /\ \A d \in Conns : seen[d] \subseteq seen'[d] /\ seen'[d] \subseteq seen[d] \cup {c}
    /\ pc'[c] \in {"matched", "settle", "requeue"} => room'[c] \in seen[c]
    /\ pc'[c] \in {"notice", "unkeyRoom", "walkOn"} =>
          \A r \in gone'[c] \cup {room'[c]} : Mine(c, r)

LEMMA AnswersKeeps ==
    ASSUME TInv, LInv, NEW c \in Conns, Answers(c)
    PROVE  LInv'
<1> HandledSeen /\ ProposedUnseen /\ ProposedStands /\ OwnWalk
  BY DEF LInv
<1>1. HandledSeen'
  BY DEF HandledSeen, Answers
<1>2. ProposedUnseen'
  <2> SUFFICES ASSUME NEW r \in Conns, pc'[r] = "propose", NEW d \in Conns \ {r}
               PROVE  r \notin seen'[d]
    BY DEF ProposedUnseen
  <2>1. pc[r] = "propose" /\ (r = c => seen' = seen)
    BY DEF Answers
  <2>2. r \notin seen[d]
    BY <2>1 DEF ProposedUnseen
  <2> QED
    BY <2>1, <2>2 DEF Answers
<1>3. ASSUME NEW r, Left(r) PROVE Left(r)'
  <2>1. PICK e \in Conns : Owner[e] \in UserIds(r) /\ pc[e] \in Leaving
    BY <1>3 DEF Left
  <2>2. pc'[e] \in Leaving /\ UserIds(r)' = UserIds(r)
    BY <2>1 DEF Answers, UserIds
  <2> QED
    BY <2>1, <2>2 DEF Left
<1>4. ProposedStands'
  <2> SUFFICES ASSUME NEW r \in Conns, pc'[r] = "propose", r \notin live'
               PROVE  Left(r)'
    BY DEF ProposedStands
  <2>1. pc[r] = "propose" /\ (r = c => live' = live)
    BY DEF Answers
  <2>2. CASE Left(r)
    BY <1>3, <2>2
  <2>3. CASE r \in live
    <3>1. r # c
      BY <2>1, <2>3
    <3>2. r \notin seen[c]
      BY <2>1, <3>1 DEF ProposedUnseen
    <3>3. Owner[c] \in UserIds(r) /\ pc'[c] \in Leaving
      BY <2>3, <3>2 DEF Answers
    <3>4. UserIds(r)' = UserIds(r)
      BY DEF Answers, UserIds
    <3> QED
      BY <3>3, <3>4 DEF Left
  <2> QED
    BY <2>1, <2>2, <2>3 DEF ProposedStands
<1>5. OwnWalk'
  <2>1. \A d, r : Mine(d, r)' = Mine(d, r)
    BY DEF Mine, UserIds, Answers
  <2> QED
    BY <2>1 DEF OwnWalk, Answers
<1> QED
  BY <1>1, <1>2, <1>4, <1>5 DEF LInv

(* A step to labels that say nothing of rooms.                             *)
LEMMA MovesAnswers ==
    ASSUME NEW c \in Conns, NEW labels, Moves(c, labels),
           labels \cap {"propose", "matched", "settle", "requeue",
                        "notice", "unkeyRoom", "walkOn"} = {},
           pc[c] \in Leaving => labels \subseteq Leaving,
           partner' = partner,
           \A d \in Conns \ {c} : room'[d] = room[d] /\ gone'[d] = gone[d],
           \A r \in live \ live' : \/ r \in seen[c]
                                   \/ Owner[c] \in UserIds(r) /\ labels \subseteq Leaving,
           \A d \in Conns : seen[d] \subseteq seen'[d] /\ seen'[d] \subseteq seen[d] \cup {c}
    PROVE  Answers(c)
  BY DEF Answers, Moves

LEMMA FailMoves ==
    ASSUME TInv, NEW c \in Conns, NEW q, NEW runs, Fail(c, q, runs)
    PROVE  Moves(c, {"unkey", "walk"})
<1>1. GoTo(c, "unkey") \/ GoTo(c, "walk")
  BY DEF Fail, Sweep
<1>2. Moves(c, {"unkey"}) \/ Moves(c, {"walk"})
  BY <1>1, GoToFacts DEF PC, Sweeping
<1> QED
  BY <1>2 DEF Moves

LEMMA ClientAnswers ==
    ASSUME TInv, PInv, NEW c \in Conns, Open(c) \/ Close(c)
    PROVE  Answers(c) \/ UNCHANGED <<partner, live, pc, room, gone, seen>>
<1>1. CASE Open(c)
  <2>1. Moves(c, {"set"}) /\ pc[c] = "new"
    BY <1>1, GoToFacts DEF Open, PC, Connecting, PInv, Unopened
  <2> QED
    BY <1>1, <2>1, MovesAnswers DEF Open, shared, Leaving, Sweeping
<1>2. CASE Close(c)
  BY <1>2 DEF Close, shared, task
<1> QED
  BY <1>1, <1>2

LEMMA ConnectAnswers ==
    ASSUME TInv, NEW c \in Conns,
           \/ SetKey(c) \/ Snapshot(c) \/ Scan(c) \/ ClaimGone(c) \/ Enqueue(c)
           \/ Propose(c) \/ Forget(c) \/ Disconnect(c)
    PROVE  Answers(c)
<1> DEFINE labels == Connecting \cup {"forget1", "forget2", "recv", "unkey", "walk"}
<1>1. pc[c] \notin Leaving
  BY DEF SetKey, Snapshot, Scan, ClaimGone, Enqueue, Propose, Forget, Disconnect,
         Leaving, Sweeping
<1>2. /\ partner' = partner /\ live' = live /\ room' = room /\ gone' = gone
      /\ seen' = seen \/ seen' = Shown(partner[c], c)
  BY DEF SetKey, Snapshot, Scan, ClaimGone, Enqueue, Propose, Forget, Disconnect,
         shared, client
<1>3. \A d \in Conns : seen[d] \subseteq seen'[d] /\ seen'[d] \subseteq seen[d] \cup {c}
  <2>1. seen' = seen \/ seen' = [seen EXCEPT ![partner[c]] = @ \cup {c}]
    BY <1>2 DEF Shown
  <2>2. seen \in [Conns -> SUBSET Conns]
    BY DEF TInv, TypeOK
  <2>3. ASSUME NEW d \in Conns PROVE seen'[d] = seen[d] \/ seen'[d] = seen[d] \cup {c}
    BY <2>1, <2>2
  <2> QED
    BY <2>3
<1>4. \/ \E label \in Connecting \cup {"forget1", "forget2", "recv"} : GoTo(c, label)
      \/ \E q, runs : Fail(c, q, runs)
  BY DEF SetKey, Snapshot, Scan, ClaimGone, Enqueue, Propose, Forget, Disconnect, Connecting
<1>5. Moves(c, labels)
  <2>1. CASE \E label \in Connecting \cup {"forget1", "forget2", "recv"} : GoTo(c, label)
    <3>1. PICK label \in Connecting \cup {"forget1", "forget2", "recv"} : GoTo(c, label)
      BY <2>1
    <3>2. label \in PC
      BY DEF PC, Handling
    <3> QED
      BY <3>1, <3>2, GoToFacts DEF Moves
  <2>2. CASE \E q, runs : Fail(c, q, runs)
    BY <2>2, FailMoves DEF Moves
  <2> QED
    BY <1>4, <2>1, <2>2
<1>6. labels \cap {"propose", "matched", "settle", "requeue", "notice", "unkeyRoom", "walkOn"} = {}
  BY DEF Connecting
<1> HIDE DEF labels
<1> QED
  BY <1>1, <1>2, <1>3, <1>5, <1>6, MovesAnswers

(* The messages of a client: a reject deletes a room it was shown.         *)
LEMMA ReceiveAnswers ==
    ASSUME TInv, LInv, NEW c \in Conns, Receive(c) \/ TellMatched(c) \/ Settle(c) \/ Requeue(c)
    PROVE  Answers(c) \/ UNCHANGED <<partner, live, pc, room, gone, seen>>
<1>1. /\ pc[c] \notin Leaving /\ pc[c] \in {"recv", "matched", "settle", "requeue"}
      /\ partner' = partner /\ gone' = gone /\ seen' = seen
  BY DEF Receive, ReceiveEntered, ReceiveAccept, ReceiveReject, Receives, TellMatched, Settle,
         Requeue, Leaving, Sweeping, client, task
<1>2. pc[c] \in {"matched", "settle", "requeue"} => room[c] \in seen[c]
  BY DEF LInv, HandledSeen
<1>3. \A d \in Conns \ {c} : room'[d] = room[d]
  BY DEF Receive, ReceiveEntered, ReceiveAccept, ReceiveReject, TellMatched, Settle,
         Requeue, DeleteOwn, task, TInv, TypeOK
<1>4. ASSUME NEW labels \in SUBSET {"recv", "unkey", "walk"}, Moves(c, labels),
             \A r \in live \ live' : r \in seen[c]
      PROVE  Answers(c)
  <2>1. labels \cap {"propose", "matched", "settle", "requeue",
                    "notice", "unkeyRoom", "walkOn"} = {}
    BY <1>4
  <2>2. \A d \in Conns \ {c} : room'[d] = room[d] /\ gone'[d] = gone[d]
    BY <1>1, <1>3
  <2>3. \A d \in Conns : seen[d] \subseteq seen'[d] /\ seen'[d] \subseteq seen[d] \cup {c}
    BY <1>1
  <2>4. \A r \in live \ live' : \/ r \in seen[c]
                                \/ Owner[c] \in UserIds(r) /\ labels \subseteq Leaving
    BY <1>4
  <2> QED
    BY <1>1, <1>4, <2>1, <2>2, <2>3, <2>4, MovesAnswers
<1>5. ASSUME NEW label \in {"matched", "settle", "requeue"}, GoTo(c, label),
             room'[c] \in seen[c], live' = live
      PROVE  Answers(c)
  <2>1. Moves(c, {label})
    BY <1>5, GoToFacts DEF PC, Handling
  <2> QED
    BY <1>1, <1>3, <1>5, <2>1 DEF Answers, Moves
<1>6. ASSUME NEW q, NEW runs, Fail(c, q, runs), live' = live
      PROVE  Answers(c)
  BY <1>4, <1>6, FailMoves
<1>7. CASE ReceiveEntered(c)
  BY <1>7 DEF ReceiveEntered, client, task
<1>8. CASE ReceiveAccept(c)
  <2>1. live' = live
    BY <1>8 DEF ReceiveAccept
  <2>2. \/ pc' = pc /\ room' = room
        \/ GoTo(c, "matched") /\ room'[c] \in seen[c]
        \/ Fail(c, queue, {1, 2})
    BY <1>8 DEF ReceiveAccept, Receives, TInv, TypeOK
  <2> QED
    BY <1>1, <1>5, <1>6, <2>1, <2>2
<1>9. CASE TellMatched(c)
  <2>1. live' = live /\ room[c] \in seen[c]
    BY <1>2, <1>9 DEF TellMatched
  <2>2. \/ GoTo(c, "settle") /\ room' = room
        \/ Fail(c, queue, {1, 2})
    BY <1>9 DEF TellMatched
  <2> QED
    BY <1>5, <1>6, <2>1, <2>2
<1>10. CASE ReceiveReject(c)
  <2>1. PICK r \in Conns :
            /\ Receives(c, "rejected", r)
            /\ \/ GoTo(c, "requeue") /\ room' = [room EXCEPT ![c] = r] /\ live' = live
               \/ Delete({r}) /\ pc' = pc /\ room' = room
    BY <1>10 DEF ReceiveReject
  <2>2. CASE GoTo(c, "requeue") /\ room' = [room EXCEPT ![c] = r] /\ live' = live
    BY <1>5, <2>1, <2>2 DEF Receives, TInv, TypeOK
  <2>3. CASE Delete({r}) /\ pc' = pc /\ room' = room
    <3>1. Moves(c, {"recv"})
      BY <2>1, <2>3 DEF Receives, Moves, TInv, TypeOK
    <3> QED
      BY <1>4, <2>1, <2>3, <3>1 DEF Delete, Receives
  <2> QED
    BY <2>1, <2>2, <2>3
<1>11. CASE Settle(c) \/ Requeue(c)
  <2>1. room[c] \in seen[c]
    BY <1>2, <1>11 DEF Settle, Requeue
  <2>2. \/ GoTo(c, "recv") /\ live' = live \ {room[c]}
        \/ live' = live /\ \E q : Fail(c, q, {1})
    BY <1>11 DEF Settle, Requeue, DeleteOwn, Delete
  <2>3. CASE GoTo(c, "recv") /\ live' = live \ {room[c]}
    <3>1. Moves(c, {"recv"})
      BY <2>3, GoToFacts DEF PC, Handling
    <3> QED
      BY <1>4, <2>1, <2>3, <3>1
  <2> QED
    BY <1>6, <2>2, <2>3
<1> QED
  BY <1>7, <1>8, <1>9, <1>10, <1>11 DEF Receive

(***************************************************************************)
(* handle_disconnect.                                                      *)
(***************************************************************************)

(* The end of a run; whatever it deleted was its user's.                   *)
LEMMA EndedAnswers ==
    ASSUME TInv, NEW c \in Conns, pc[c] \in Sweeping, Ended(c),
           partner' = partner, seen' = seen,
           \A r \in live \ live' : Owner[c] \in UserIds(r)
    PROVE  Answers(c)
<1> DEFINE labels == {"done", "unkey", "walk"}
<1>1. Moves(c, labels) /\ \A d \in Conns \ {c} : room'[d] = room[d]
  BY EndedFacts
<1>2. \A d \in Conns \ {c} : gone'[d] = gone[d]
  BY DEF Ended, TInv, TypeOK
<1>3. /\ labels \subseteq Leaving
      /\ labels \cap {"propose", "matched", "settle", "requeue", "notice", "unkeyRoom", "walkOn"} = {}
  BY DEF Leaving, Sweeping
<1> HIDE DEF labels
<1> QED
  BY <1>1, <1>2, <1>3, MovesAnswers

LEMMA DeletedRooms ==
    ASSUME NEW c, NEW rooms, DeleteRooms(c, rooms)
    PROVE  live \ live' \subseteq rooms /\ Ended(c)
  BY DEF DeleteRooms, Delete

LEMMA WalkAnswers ==
    ASSUME TInv, NEW c \in Conns, pc[c] \in Sweeping, NEW removed \in SUBSET Conns, NEW started,
           Walk(c, removed, started), partner' = partner, seen' = seen,
           \A r \in removed : Mine(c, r)
    PROVE  Answers(c)
<1> DEFINE mine == {r \in live : Owner[c] \in UserIds(r)} \ removed
<1>1. ASSUME NEW rooms \in SUBSET (removed \cup mine), DeleteRooms(c, rooms) PROVE Answers(c)
  <2>1. live \ live' \subseteq rooms /\ Ended(c)
    BY <1>1, DeletedRooms
  <2>2. \A r \in rooms : Owner[c] \in UserIds(r)
    BY <1>1 DEF Mine
  <2> QED
    BY <2>1, <2>2, EndedAnswers
<1>2. \A r \in mine : r \in Conns /\ Mine(c, r)
  BY NoConnAssumption DEF Mine, TInv, TypeOK, PartnersKnown
<1>3. ASSUME NEW r \in mine, room' = [room EXCEPT ![c] = r], GoTo(c, "notice"),
             gone' = [gone EXCEPT ![c] = removed], live' = live
      PROVE  Answers(c)
  <2>1. Moves(c, {"notice"})
    BY <1>3, GoToFacts DEF PC, Sweeping
  <2>2. /\ room'[c] = r /\ gone'[c] = removed
        /\ \A d \in Conns \ {c} : room'[d] = room[d] /\ gone'[d] = gone[d]
    BY <1>3 DEF TInv, TypeOK
  <2>3. \A s \in gone'[c] \cup {room'[c]} : Mine(c, s)
    BY <1>2, <2>2
  <2>4. "notice" \in Leaving
    BY DEF Leaving, Sweeping
  <2> QED
    BY <1>3, <2>1, <2>2, <2>3, <2>4 DEF Answers, Moves
<1>4. removed \in SUBSET (removed \cup mine) /\ removed \cup mine \in SUBSET (removed \cup mine)
  OBVIOUS
<1>5. \/ DeleteRooms(c, removed \cup mine) \/ DeleteRooms(c, removed)
      \/ /\ \E r \in mine : room' = [room EXCEPT ![c] = r]
         /\ GoTo(c, "notice") /\ gone' = [gone EXCEPT ![c] = removed] /\ live' = live
  BY DEF Walk
<1> HIDE DEF mine
<1> QED
  BY <1>1, <1>3, <1>4, <1>5

LEMMA DisconnectAnswers ==
    ASSUME TInv, LInv, NEW c \in Conns,
           Unkey(c) \/ BeginWalk(c) \/ Notice(c) \/ WalkOn(c) \/ WalkChanged(c)
    PROVE  Answers(c)
<1>1. partner' = partner /\ seen' = seen /\ pc[c] \in Sweeping
  BY DEF Unkey, BeginWalk, Notice, WalkOn, WalkChanged, shared, client, Sweeping
<1>2. pc[c] \in {"notice", "unkeyRoom", "walkOn"} => \A r \in gone[c] \cup {room[c]} : Mine(c, r)
  BY DEF LInv, OwnWalk
<1>3. ASSUME NEW label \in {"walk", "unkeyRoom", "walkOn"}, GoTo(c, label),
             label # "walk" => pc[c] \in {"notice", "unkeyRoom", "walkOn"},
             UNCHANGED <<live, room, gone>>
      PROVE  Answers(c)
  <2>1. Moves(c, {label}) /\ label \in Leaving
    BY <1>3, GoToFacts DEF PC, Sweeping, Leaving
  <2> QED
    BY <1>1, <1>2, <1>3, <2>1 DEF Answers, Moves
<1>4. CASE Unkey(c)
  <2>1. GoTo(c, "walk") \/ (GoTo(c, "walkOn") /\ pc[c] = "unkeyRoom")
    BY <1>4 DEF Unkey
  <2>2. UNCHANGED <<live, room, gone>>
    BY <1>4 DEF Unkey
  <2> QED
    BY <1>3, <2>1, <2>2
<1>5. CASE Notice(c)
  BY <1>3, <1>5 DEF Notice, shared
<1>6. CASE BeginWalk(c)
  BY <1>1, <1>6, WalkAnswers DEF BeginWalk
<1>7. CASE WalkOn(c)
  <2>1. gone[c] \cup {room[c]} \in SUBSET Conns /\ \A r \in gone[c] \cup {room[c]} : Mine(c, r)
    BY <1>2, <1>7 DEF WalkOn, TInv, TypeOK
  <2> QED
    BY <1>1, <1>7, <2>1, WalkAnswers DEF WalkOn
<1>8. CASE WalkChanged(c)
  <2>1. Ended(c) /\ live' = live
    BY <1>8 DEF WalkChanged
  <2> QED
    BY <1>1, <2>1, EndedAnswers
<1> QED
  BY <1>4, <1>5, <1>6, <1>7, <1>8

(***************************************************************************)
(* A proposal: the room is new, nobody has seen it.                        *)
(***************************************************************************)
LEMMA ClaimProposes ==
    ASSUME TInv, PInv, LInv, NEW c \in Conns, Claim(c)
    PROVE  /\ LInv'
           /\ \A d \in Conns : seen'[d] \subseteq seen[d] \cup {c}
           /\ live' = live \cup {c}
<1> HandledSeen /\ ProposedUnseen /\ ProposedStands /\ OwnWalk
  BY DEF LInv
<1>1. /\ pc[c] = "claim" /\ live' = live \cup {c}
      /\ \E p : partner' = [partner EXCEPT ![c] = p]
      /\ room' = room /\ gone' = gone
      /\ seen' = Shown(c, c) \/ seen' = seen
      /\ GoTo(c, "propose") \/ \E q, runs : Fail(c, q, runs)
  BY DEF Claim
<1>2. partner[c] = NoConn
  BY <1>1, FreshUnpaired DEF PInv, Fresh, Connecting
<1>3. \A d \in Conns : c \notin seen[d]
  BY <1>2 DEF PInv, RoomsMade
<1>4. /\ \A d \in Conns \ {c} : seen'[d] = seen[d]
      /\ seen[c] \subseteq seen'[c] /\ seen'[c] \subseteq seen[c] \cup {c}
  BY <1>1 DEF Shown, TInv, TypeOK
<1>5. Moves(c, {"propose", "unkey", "walk"})
  BY <1>1, GoToFacts, FailMoves DEF Moves, PC, Handling
<1>6. \A r \in Conns \ {c} : partner'[r] = partner[r]
  BY <1>1 DEF TInv, TypeOK
<1>7. HandledSeen'
  BY <1>1, <1>4, <1>5 DEF HandledSeen, Moves
<1>8. ProposedUnseen'
  BY <1>3, <1>4, <1>5 DEF ProposedUnseen, Moves
<1>9. ProposedStands'
  <2> SUFFICES ASSUME NEW r \in Conns, pc'[r] = "propose", r \notin live' PROVE Left(r)'
    BY DEF ProposedStands
  <2>1. r # c /\ pc[r] = "propose" /\ Left(r)
    BY <1>1, <1>5 DEF ProposedStands, Moves
  <2>2. PICK e \in Conns : Owner[e] \in UserIds(r) /\ pc[e] \in Leaving
    BY <2>1 DEF Left
  <2>3. e # c
    BY <1>1, <2>2 DEF Leaving, Sweeping
  <2> QED
    BY <1>5, <1>6, <2>1, <2>2, <2>3 DEF Left, Moves, UserIds
<1>10. OwnWalk'
  <2> SUFFICES ASSUME NEW d \in Conns, pc'[d] \in {"notice", "unkeyRoom", "walkOn"},
                      NEW r \in gone'[d] \cup {room'[d]}
               PROVE  Mine(d, r)'
    BY DEF OwnWalk
  <2>1. pc[d] = pc'[d] /\ r \in gone[d] \cup {room[d]}
    BY <1>1, <1>5 DEF Moves
  <2>2. Mine(d, r) /\ r \in Conns
    BY <2>1 DEF OwnWalk, TInv, TypeOK
  <2> QED
    BY <1>2, <1>6, <2>2 DEF Mine, UserIds
<1> QED
  BY <1>1, <1>4, <1>7, <1>8, <1>9, <1>10 DEF LInv

LEMMA QuietLInv ==
    ASSUME LInv, UNCHANGED <<partner, live, pc, room, gone, seen>>
    PROVE  LInv'
  BY DEF LInv, HandledSeen, ProposedUnseen, ProposedStands, OwnWalk, Left, Mine, UserIds

LEMMA RestartLInv ==
    ASSUME TInv, Restart
    PROVE  LInv' /\ seen' = seen
<1>1. seen' = seen /\ \A c \in Conns : pc'[c] \in {"new", "done"}
  BY DEF Restart, client
<1> QED
  BY <1>1 DEF LInv, HandledSeen, ProposedUnseen, ProposedStands, OwnWalk

LEMMA NextLInv == ASSUME IInv, PInv, LInv, [Next]_vars PROVE LInv'
<1>1. TInv
  BY DEF IInv
<1>2. ASSUME NEW c \in Conns, Open(c) \/ Close(c) \/ Receive(c) \/ Handle(c)
      PROVE  LInv'
  BY <1>1, <1>2, ClientAnswers, ConnectAnswers, ReceiveAnswers, DisconnectAnswers,
     ClaimProposes, AnswersKeeps, QuietLInv DEF Handle
<1>3. CASE (\E u \in Users : Expire(u)) \/ Over \/ UNCHANGED vars
  <2>1. UNCHANGED <<partner, live, pc, room, gone, seen>>
    BY <1>3 DEF Expire, Over, vars, client, task
  <2> QED
    BY <2>1, QuietLInv
<1>4. CASE Restart
  BY <1>1, <1>4, RestartLInv
<1> QED
  BY <1>2, <1>3, <1>4 DEF Next

(* What a step shows: the room of a claim, which it registers, or that of  *)
(* a second proposal, which stands unless one of its users has left.       *)
LEMMA ShownStands ==
    ASSUME IInv, PInv, LInv, [Next]_vars, NEW c \in Conns, NEW r \in seen'[c] \ seen[c]
    PROVE  r \in live' \/ \E e \in Conns : /\ Owner[e] \in {Owner[r], Owner[partner'[r]]}
                                           /\ pc[e] \in Sweeping \cup {"done"}
<1>1. TInv
  BY DEF IInv
<1>2. seen' # seen
  OBVIOUS
<1>3. \E d \in Conns : Claim(d) \/ Propose(d)
  <2>1. ASSUME NEW d \in Conns, Open(d) \/ Close(d) \/ Receive(d) \/ Handle(d),
               ~Claim(d), ~Propose(d)
        PROVE  FALSE
    BY <1>2, <2>1 DEF Handle, Receive, Open, Close, SetKey, Snapshot, Scan, ClaimGone, Enqueue,
       Forget, ReceiveEntered, ReceiveAccept, ReceiveReject, TellMatched, Settle, Requeue,
       Disconnect, Unkey, BeginWalk, Notice, WalkOn, WalkChanged, client
  <2>2. ~((\E u \in Users : Expire(u)) \/ Restart \/ Over \/ UNCHANGED vars)
    BY <1>2 DEF Expire, Restart, Over, vars, client
  <2> QED
    BY <2>1, <2>2 DEF Next
<1>4. PICK d \in Conns : Claim(d) \/ Propose(d)
  BY <1>3
<1>5. CASE Claim(d)
  BY <1>1, <1>5, ClaimProposes
<1>6. CASE Propose(d)
  <2>1. /\ pc[d] = "propose" /\ live' = live /\ partner' = partner
        /\ seen' = Shown(partner[d], d) \/ seen' = seen
    BY <1>6 DEF Propose
  <2>2. r = d
    <3>1. seen' = [seen EXCEPT ![partner[d]] = @ \cup {d}]
      BY <1>2, <2>1 DEF Shown
    <3>2. seen \in [Conns -> SUBSET Conns]
      BY <1>1 DEF TInv, TypeOK
    <3>3. seen'[c] = seen[c] \/ seen'[c] = seen[c] \cup {d}
      BY <3>1, <3>2
    <3> QED
      BY <3>3
  <2>3. d \in live \/ Left(d)
    BY <2>1 DEF LInv, ProposedStands
  <2> QED
    BY <2>1, <2>2, <2>3 DEF Left, Leaving, UserIds
<1> QED
  BY <1>4, <1>5, <1>6

(* No answer of anybody ever deletes a room between its two proposals: the *)
(* second user is shown a room that still stands unless one of the two     *)
(* users has disconnected, for any number of users, tabs and reconnects.   *)
THEOREM ProposalsStand == Spec => ProposalIsLive
<1>1. IInv /\ PInv /\ LInv /\ [Next]_vars => LInv'
  BY NextLInv
<1>2. IInv /\ PInv /\ LInv /\ [Next]_vars
        => [\A c \in Conns : \A r \in seen'[c] \ seen[c] :
              r \in live' \/ \E e \in Conns : /\ Owner[e] \in {Owner[r], Owner[partner'[r]]}
                                              /\ pc[e] \in Sweeping \cup {"done"}]_vars
  BY ShownStands
<1> QED
  BY <1>1, <1>2, InitLInv, PlaceInvariant, PTL DEF Spec, ProposalIsLive

-----------------------------------------------------------------------------
Members(q) == {q[i] : i \in DOMAIN q}
Pairs      == {Sockets(r) : r \in live}

(***************************************************************************)
(* The dictionary waiting_users as the set of its sockets.                 *)
(***************************************************************************)

(* Deleting the entry of a user takes out his socket, if there is one.     *)
LEMMA DropMembers ==
    ASSUME NEW q \in Seq(Conns), OnePerUser(q), NEW u
    PROVE  /\ Members(Drop(q, u)) = {d \in Members(q) : Owner[d] # u}
           /\ Waits(q, u) => Members(Drop(q, u)) = Members(q) \ {q[Pos(q, u)]}
           /\ ~Waits(q, u) => Members(Drop(q, u)) = Members(q)
<1>1. CASE ~Waits(q, u)
  BY <1>1 DEF Drop, Members, Waits
<1>2. CASE Waits(q, u)
  <2> DEFINE p == Pos(q, u)
             d == RemoveAt(q, p)
  <2>1. p \in 1..Len(q) /\ Owner[q[p]] = u /\ DOMAIN q = 1..Len(q)
    BY <1>2, PosFinds
  <2>2. Drop(q, u) = d
    BY <1>2 DEF Drop
  <2> HIDE DEF p
  <2>a. /\ d \in Seq(Conns)
        /\ Len(d) = Len(q) - 1
        /\ \A i \in 1..(Len(q) - 1) : d[i] = IF i < p THEN q[i] ELSE q[i+1]
    BY <2>1, RemoveAtShifts
  <2> HIDE DEF d
  <2>3. /\ DOMAIN d = 1..(Len(q) - 1)
        /\ \A i \in 1..(Len(q) - 1) : d[i] = IF i < p THEN q[i] ELSE q[i+1]
    BY <2>a
  <2>4. \A j \in DOMAIN q : j # p => Owner[q[j]] # u
    BY <2>1 DEF OnePerUser
  <2>5. ASSUME NEW j \in DOMAIN q, j # p PROVE q[j] \in Members(d)
    <3>1. CASE j < p
      BY <2>1, <2>3, <3>1 DEF Members
    <3>2. CASE j > p
      <4>1. j - 1 \in DOMAIN d /\ ~(j - 1 < p) /\ (j - 1) + 1 = j
        BY <2>1, <2>3, <3>2
      <4> QED
        BY <2>3, <4>1 DEF Members
    <3> QED
      BY <2>1, <2>5, <3>1, <3>2
  <2>6. ASSUME NEW i \in DOMAIN d PROVE \E j \in DOMAIN q : j # p /\ d[i] = q[j]
    <3>1. CASE i < p
      BY <2>1, <2>3, <3>1
    <3>2. CASE ~(i < p)
      <4>1. i + 1 \in DOMAIN q /\ i + 1 # p /\ d[i] = q[i+1]
        BY <2>1, <2>3, <3>2
      <4> QED
        BY <4>1
    <3> QED
      BY <3>1, <3>2
  <2>7. Members(d) = {q[j] : j \in (DOMAIN q) \ {p}}
    BY <2>5, <2>6 DEF Members
  <2>8. /\ {q[j] : j \in (DOMAIN q) \ {p}} = {e \in Members(q) : Owner[e] # u}
        /\ {q[j] : j \in (DOMAIN q) \ {p}} = Members(q) \ {q[p]}
    BY <2>1, <2>4 DEF Members
  <2> QED
    BY <1>2, <2>2, <2>7, <2>8 DEF p
<1> QED
  BY <1>1, <1>2

(* A socket that is put takes the place of its user's, or is one more.     *)
LEMMA PutMembers ==
    ASSUME NEW q \in Seq(Conns), OnePerUser(q), NEW c \in Conns
    PROVE  Members(Put(q, c)) = P!Joined(Members(q), c)
<1>1. CASE ~Waits(q, Owner[c])
  <2>1. Put(q, c) = Append(q, c)
    BY <1>1 DEF Put
  <2>2. Members(Append(q, c)) = Members(q) \cup {c}
    <3>1. /\ DOMAIN Append(q, c) = DOMAIN q \cup {Len(q) + 1}
          /\ \A i \in DOMAIN q : Append(q, c)[i] = q[i]
          /\ Append(q, c)[Len(q) + 1] = c
      BY AppendProperties
    <3> QED
      BY <3>1 DEF Members
  <2>3. \A d \in Members(q) : Owner[d] # Owner[c]
    BY <1>1 DEF Waits, Members
  <2> QED
    BY <2>1, <2>2, <2>3 DEF P!Joined
<1>2. CASE Waits(q, Owner[c])
  <2> DEFINE p == Pos(q, Owner[c])
  <2>1. p \in DOMAIN q /\ Owner[q[p]] = Owner[c]
    BY <1>2, PosFinds
  <2>2. Put(q, c) = [q EXCEPT ![p] = c]
    BY <1>2 DEF Put
  <2> HIDE DEF p
  <2>3. \A j \in DOMAIN q : j # p => Owner[q[j]] # Owner[c]
    BY <2>1 DEF OnePerUser
  <2>4. /\ DOMAIN Put(q, c) = DOMAIN q
        /\ \A j \in DOMAIN q : Put(q, c)[j] = IF j = p THEN c ELSE q[j]
    BY <2>2
  <2> QED
    BY <2>1, <2>3, <2>4 DEF P!Joined, Members
<1> QED
  BY <1>1, <1>2

(* A run of handle_disconnect that begins withdraws one entry at most.     *)
LEMMA SweepWithdraws ==
    ASSUME NEW c, NEW q \in Seq(Conns), OnePerUser(q), Sweep(c, q)
    PROVE  Queued' \in P!Withdrawn(Members(q))
<1>1. Queued' = Members(Drop(q, Owner[c]))
  BY DEF Sweep, Queued, Members
<1>2. CASE Waits(q, Owner[c])
  <2>1. q[Pos(q, Owner[c])] \in Members(q)
    BY <1>2, PosFinds DEF Members
  <2> QED
    BY <1>1, <1>2, <2>1, DropMembers DEF P!Withdrawn
<1>3. CASE ~Waits(q, Owner[c])
  BY <1>1, <1>3, DropMembers DEF P!Withdrawn
<1> QED
  BY <1>2, <1>3

LEMMA EndedWithdraws ==
    ASSUME NEW c, queue \in Seq(Conns), OnePerUser(queue), Ended(c)
    PROVE  Queued' \in P!Withdrawn(Queued)
<1>1. CASE queue' = queue
  BY <1>1 DEF Queued, P!Withdrawn
<1>2. CASE Sweep(c, queue)
  BY <1>2, SweepWithdraws DEF Queued, Members
<1> QED
  BY <1>1, <1>2 DEF Ended

-----------------------------------------------------------------------------
(***************************************************************************)
(* The kinds of step.                                                      *)
(***************************************************************************)
Implements == P!Next \/ (Queued' = Queued /\ Pairs' = Pairs)

(* A step that makes no room, and withdraws one entry at most.             *)
Recedes ==
    /\ partner' = partner
    /\ live' \subseteq live
    /\ Queued' \in P!Withdrawn(Queued)

LEMMA RecedesImplements == ASSUME TypeOK, Recedes PROVE Implements
<1>1. Pairs' \subseteq Pairs
  BY DEF Recedes, Pairs, Sockets
<1>2. CASE Pairs' # Pairs
  <2>1. /\ Pairs \ Pairs' \in SUBSET Pairs
        /\ Pairs \ Pairs' # {}
        /\ Pairs' = Pairs \ (Pairs \ Pairs')
    BY <1>1, <1>2
  <2>2. P!Dissolve
    BY <2>1 DEF Recedes, Pairs, P!Dissolve
  <2> QED
    BY <2>2 DEF Implements, P!Next
<1>3. CASE Pairs' = Pairs /\ Queued' # Queued
  <2>1. PICK c \in Queued : Queued' = Queued \ {c}
    BY <1>3 DEF Recedes, P!Withdrawn
  <2>2. c \in Conns
    BY DEF TypeOK, Queued
  <2>3. P!Leave(c)
    BY <1>3, <2>1 DEF P!Leave, Pairs
  <2> QED
    BY <2>2, <2>3 DEF Implements, P!Next
<1> QED
  BY <1>2, <1>3 DEF Implements

(* A socket that is nowhere is queued.                                     *)
LEMMA JoinImplements ==
    ASSUME TypeOK, NEW c \in Conns, c \notin Queued, ~Paired(c), live' = live, partner' = partner,
           Queued' \in P!Withdrawn(P!Joined(Queued, c))
    PROVE  Implements
<1>1. Pairs' = Pairs
  BY DEF Pairs, Sockets
<1>2. c \notin P!Placed
  BY DEF P!Placed, Paired
<1>3. P!Join(c)
  BY <1>1, <1>2 DEF P!Join, Pairs
<1> QED
  BY <1>3 DEF Implements, P!Next

LEMMA RegisterImplements ==
    ASSUME TInv, PInv, NEW c \in Conns, Snapshot(c) \/ Enqueue(c)
    PROVE  Implements
<1>1. /\ pc[c] \in {"snapshot", "enqueue"}
      /\ UNCHANGED <<live, partner>>
      /\ queue' = queue \/ queue' = Put(queue, c)
  BY DEF Snapshot, Enqueue
<1>2. TypeOK /\ queue \in Seq(Conns) /\ OnePerUser(queue) /\ Queued = Members(queue)
  BY DEF TInv, TypeOK, Queued, Members
<1>3. CASE queue' = queue
  BY <1>1, <1>3 DEF Implements, Queued, Pairs, Sockets
<1>4. CASE queue' = Put(queue, c)
  <2>1. Fresh(c)
    BY <1>1 DEF Fresh, Connecting
  <2>2. c \notin Queued /\ ~Paired(c)
    BY <2>1, FreshUnpaired DEF PInv, FreshUnqueued
  <2>3. Queued' = P!Joined(Queued, c)
    BY <1>2, <1>4, PutMembers DEF Queued, Members
  <2> QED
    BY <1>1, <1>2, <2>2, <2>3, JoinImplements DEF P!Withdrawn
<1> QED
  BY <1>1, <1>3, <1>4

(* A proposal pairs the newcomer with the socket it takes from the queue.  *)
LEMMA ClaimImplements ==
    ASSUME TInv, PInv, NEW c \in Conns, Claim(c)
    PROVE  Implements
<1> DEFINE other == Owner[Head(todo[c])]
           rest  == Drop(queue, other)
           p     == queue[Pos(queue, other)]
<1>1. /\ pc[c] = "claim" /\ Waits(queue, other)
      /\ partner' = [partner EXCEPT ![c] = p]
      /\ live' = live \cup {c}
      /\ queue' = rest \/ Fail(c, rest, {1, 2})
  BY DEF Claim
<1>2. queue \in Seq(Conns) /\ OnePerUser(queue) /\ Owner[c] # other
  BY SMTT(60), <1>1 DEF TInv, TypeOK, TaskOK
<1> HIDE DEF other
<1>3. p \in Conns /\ p \in Queued /\ Owner[p] = other
  BY <1>1, <1>2, PosFinds DEF Queued
<1>4. /\ rest \in Seq(Conns) /\ OnePerUser(rest)
      /\ Members(rest) = Queued \ {p}
  BY <1>1, <1>2, DropKeeps, DropMembers DEF Queued, Members
<1> HIDE DEF rest, p
<1>5. Queued' \in P!Withdrawn(Queued \ {p})
  <2>1. CASE queue' = rest
    BY <1>4, <2>1 DEF Queued, Members, P!Withdrawn
  <2>2. CASE Fail(c, rest, {1, 2})
    BY <1>4, <2>2, SweepWithdraws DEF Fail
  <2> QED
    BY <1>1, <2>1, <2>2
<1>6. c \notin Queued /\ ~Paired(c)
  BY <1>1, FreshUnpaired DEF PInv, FreshUnqueued, Fresh, Connecting
<1>7. c \notin live /\ live \subseteq Conns /\ partner \in [Conns -> Conns \cup {NoConn}]
  BY <1>6 DEF Paired, Sockets, TInv, TypeOK
<1>8. /\ \A r \in live : Sockets(r)' = Sockets(r)
      /\ Sockets(c)' = {c, p}
  BY <1>1, <1>7 DEF Sockets
<1>9. Pairs' = Pairs \cup {{c, p}}
  BY <1>1, <1>8 DEF Pairs
<1>10. c \notin P!Placed
  BY <1>6 DEF P!Placed, Paired
<1>11. P!Pair(c, p)
  BY <1>2, <1>3, <1>5, <1>9, <1>10 DEF P!Pair, Pairs
<1> QED
  BY <1>3, <1>11 DEF Implements, P!Next

(* A reject turns its peer down, or queues the peer whose room has gone.   *)
LEMMA RequeueImplements ==
    ASSUME TInv, PInv, NEW c \in Conns, Requeue(c)
    PROVE  Implements
<1>1. PICK p \in Conns : p = Peer(c)
  BY PeerFacts DEF PInv, Requeue
<1>2. /\ pc[c] = "requeue"
      /\ partner' = partner
      /\ DeleteOwn(c, Put(queue, p))
  BY <1>1 DEF Requeue, Peer
<1>3. room[c] \in Conns /\ Sockets(room[c]) = {c, p}
  BY <1>1, <1>2, PeerFacts DEF PInv
<1>4. /\ TypeOK /\ queue \in Seq(Conns) /\ OnePerUser(queue) /\ Queued = Members(queue)
      /\ Put(queue, p) \in Seq(Conns) /\ OnePerUser(Put(queue, p))
      /\ Members(Put(queue, p)) = P!Joined(Queued, p)
  BY PutKeeps, PutMembers DEF TInv, TypeOK, Queued, Members
<1>5. CASE room[c] \in live
  <2>1. live' = live \ {room[c]} /\ queue' = Put(queue, p)
    BY <1>2, <1>5 DEF DeleteOwn, Delete
  <2>2. \A r \in live : r # room[c] => Sockets(r) # Sockets(room[c])
    BY <1>3, <1>5 DEF PInv, OnePlace
  <2>3. Pairs' = Pairs \ {{c, p}} /\ {c, p} \in Pairs
    BY <1>2, <1>3, <1>5, <2>1, <2>2 DEF Pairs, Sockets
  <2>4. Queued' = P!Joined(Queued, p)
    BY <1>4, <2>1 DEF Queued, Members
  <2>5. P!TurnDown({c, p}, p)
    BY <2>3, <2>4 DEF P!TurnDown, Pairs
  <2> QED
    BY <2>3, <2>5 DEF Implements, P!Next, Pairs
<1>6. CASE room[c] \notin live
  <2>1. live' = live /\ Fail(c, Put(queue, p), {1})
    BY <1>2, <1>6 DEF DeleteOwn
  <2>2. Queued' \in P!Withdrawn(P!Joined(Queued, p))
    BY <1>4, <2>1, SweepWithdraws DEF Fail
  <2>3. p \notin Queued /\ ~Paired(p)
    BY <1>1, <1>2, <1>6 DEF PInv, OwedNowhere, Owes
  <2> QED
    BY <1>2, <1>4, <2>1, <2>2, <2>3, JoinImplements
<1> QED
  BY <1>5, <1>6

-----------------------------------------------------------------------------
(* Every other step of a task recedes.                                     *)
LEMMA TaskRecedes ==
    ASSUME TInv, NEW c \in Conns,
           \/ Open(c) \/ Close(c) \/ SetKey(c) \/ Scan(c) \/ ClaimGone(c) \/ Propose(c)
           \/ Forget(c) \/ Receive(c) \/ TellMatched(c) \/ Settle(c) \/ Disconnect(c)
           \/ Unkey(c) \/ BeginWalk(c) \/ Notice(c) \/ WalkOn(c) \/ WalkChanged(c)
    PROVE  Recedes
<1>1. queue \in Seq(Conns) /\ OnePerUser(queue) /\ Queued = Members(queue)
  BY DEF TInv, TypeOK, Queued, Members
<1>2. (queue' = queue) => Queued' \in P!Withdrawn(Queued)
  BY DEF Queued, P!Withdrawn
<1>3. ASSUME NEW runs, Fail(c, queue, runs) PROVE Queued' \in P!Withdrawn(Queued)
  BY <1>1, <1>3, SweepWithdraws DEF Fail
<1>4. CASE Open(c) \/ Close(c) \/ SetKey(c) \/ Scan(c) \/ Forget(c) \/ ReceiveEntered(c)
             \/ Unkey(c) \/ Notice(c)
  BY <1>2, <1>4 DEF Recedes, Open, Close, SetKey, Scan, Forget, ReceiveEntered, Unkey, Notice, shared
<1>5. CASE ClaimGone(c) \/ Propose(c) \/ ReceiveAccept(c) \/ TellMatched(c) \/ Disconnect(c)
  <2>1. UNCHANGED <<live, partner>> /\ (queue' = queue \/ \E runs : Fail(c, queue, runs))
    BY <1>5 DEF ClaimGone, Propose, ReceiveAccept, TellMatched, Disconnect
  <2> QED
    BY <1>2, <1>3, <2>1 DEF Recedes
<1>6. CASE Settle(c)
  <2>1. /\ partner' = partner /\ live' \subseteq live
        /\ queue' = queue \/ \E runs : Fail(c, queue, runs)
    BY <1>6 DEF Settle, DeleteOwn, Delete
  <2> QED
    BY <1>2, <1>3, <2>1 DEF Recedes
<1>7. CASE ReceiveReject(c)
  <2>1. partner' = partner /\ live' \subseteq live /\ queue' = queue
    BY <1>7 DEF ReceiveReject, Delete
  <2> QED
    BY <1>2, <2>1 DEF Recedes
<1>8. ASSUME NEW removed, NEW started, Walk(c, removed, started), partner' = partner
      PROVE  Recedes
  <2>1. ASSUME NEW rooms, DeleteRooms(c, rooms) PROVE live' \subseteq live /\ Ended(c)
    BY <2>1 DEF DeleteRooms, Delete
  <2>2. live' \subseteq live /\ (Ended(c) \/ queue' = queue)
    BY <1>8, <2>1 DEF Walk
  <2> QED
    BY <1>1, <1>2, <1>8, <2>2, EndedWithdraws DEF Recedes
<1>9. CASE BeginWalk(c) \/ WalkOn(c)
  BY <1>8, <1>9 DEF BeginWalk, WalkOn
<1>10. CASE WalkChanged(c)
  BY <1>1, <1>10, EndedWithdraws DEF WalkChanged, Recedes
<1> QED
  BY <1>4, <1>5, <1>6, <1>7, <1>9, <1>10 DEF Receive

LEMMA NextImplements == ASSUME IInv, PInv, [Next]_vars PROVE Implements
<1>1. TInv /\ TypeOK
  BY DEF IInv, TInv
<1>2. ASSUME NEW c \in Conns, Open(c) \/ Close(c) \/ Receive(c) \/ Handle(c)
      PROVE  Implements
  BY <1>1, <1>2, TaskRecedes, RecedesImplements, RegisterImplements, ClaimImplements,
     RequeueImplements DEF Handle
<1>3. CASE (\E u \in Users : Expire(u)) \/ Over \/ UNCHANGED vars
  <2>1. UNCHANGED <<queue, live, partner>>
    BY <1>3 DEF Expire, Over, vars
  <2> QED
    BY <2>1 DEF Implements, Queued, Pairs, Sockets
<1>4. CASE Restart
  <2>1. queue' = <<>> /\ live' = {}
    BY <1>4 DEF Restart
  <2>2. Queued' = {} /\ Pairs' = {}
    BY <2>1 DEF Queued, Pairs
  <2> QED
    BY <2>2 DEF Implements, P!Next, P!Restart, Pairs
<1> QED
  BY <1>2, <1>3, <1>4 DEF Next

LEMMA InitImplements == Init => P!Init
  BY DEF Init, P!Init, Queued

(* The server's dictionaries, changed by tasks that stop at every await    *)
(* and may fail there, behave as the queue and the pairs of Pairing, whose *)
(* steps are atomic, for any number of users, tabs and reconnects.         *)
THEOREM ImplementsPairing == Spec => PairingSpec
<1>1. IInv /\ PInv /\ [Next]_vars => [P!Next]_<<Queued, Pairs>>
  BY NextImplements DEF Implements
<1>2. Pairs = {Sockets(r) : r \in live}
  BY DEF Pairs
<1> QED
  BY <1>1, InitImplements, PlaceInvariant, PTL DEF Spec, PairingSpec, P!Spec, Pairs
=============================================================================
