-------------------------- MODULE MatchmakingProofs --------------------------
(* Proofs about Matchmaking, for any users, connections and filters.       *)
EXTENDS Matchmaking, FiniteSetTheorems, SequenceTheorems, TLAPS

(***************************************************************************)
(* The dictionary waiting_users: what Drop and Put return.                 *)
(***************************************************************************)
OnePerUser(q) == \A i, j \in DOMAIN q : Owner[q[i]] = Owner[q[j]] => i = j

(* Pos finds the entry of a waiting user.                                  *)
LEMMA PosFinds ==
    ASSUME NEW q \in Seq(Conns), NEW u, Waits(q, u)
    PROVE  Pos(q, u) \in 1..Len(q) /\ q[Pos(q, u)] \in Conns /\ Owner[q[Pos(q, u)]] = u
  BY DEF Waits, Pos

(* RemoveAt closes the gap it leaves.                                      *)
LEMMA RemoveAtShifts ==
    ASSUME NEW S, NEW q \in Seq(S), NEW p \in 1..Len(q)
    PROVE  /\ RemoveAt(q, p) \in Seq(S)
           /\ Len(RemoveAt(q, p)) = Len(q) - 1
           /\ \A i \in 1..(Len(q) - 1) :
                 RemoveAt(q, p)[i] = IF i < p THEN q[i] ELSE q[i+1]
<1> DEFINE before == SubSeq(q, 1, p-1)
           after  == SubSeq(q, p+1, Len(q))
<1>1. /\ before \in Seq(S)
      /\ Len(before) = p - 1
      /\ \A i \in 1..(p-1) : before[i] = q[i]
  BY SubSeqProperties
<1>2. /\ after \in Seq(S)
      /\ Len(after) = Len(q) - p
      /\ \A i \in 1..(Len(q) - p) : after[i] = q[p+i]
  BY SubSeqProperties
<1>3. RemoveAt(q, p) = before \o after
  BY DEF RemoveAt
<1> HIDE DEF before, after
<1>4. /\ before \o after \in Seq(S)
      /\ Len(before \o after) = Len(before) + Len(after)
      /\ \A i \in 1..(Len(before) + Len(after)) :
            (before \o after)[i] = IF i <= Len(before) THEN before[i] ELSE after[i-Len(before)]
  BY <1>1, <1>2, ConcatProperties, Zenon
<1>6. Len(before) + Len(after) = Len(q) - 1
  BY <1>1, <1>2
<1>5. ASSUME NEW i \in 1..(Len(q) - 1)
      PROVE  (before \o after)[i] = IF i < p THEN q[i] ELSE q[i+1]
  <2>1. CASE i < p
    BY <1>1, <1>4, <1>6, <2>1
  <2>2. CASE ~(i < p)
    <3>1. i - (p-1) \in 1..(Len(q) - p) /\ ~(i <= p-1) /\ p + (i - (p-1)) = i + 1
      BY <2>2
    <3>2. i \in 1..(Len(before) + Len(after)) /\ ~(i <= Len(before))
      BY <1>1, <1>6, <3>1
    <3>3. (before \o after)[i] = after[i - Len(before)]
      BY <1>4, <3>2, Zenon
    <3>4. after[i - (p-1)] = q[p + (i - (p-1))]
      BY <1>2, <3>1, Zenon
    <3> QED
      BY <1>1, <2>2, <3>1, <3>3, <3>4
  <2> QED
    BY <2>1, <2>2
<1> QED
  BY <1>3, <1>4, <1>5, <1>6

(* Removing an entry keeps the others, in order.                           *)
LEMMA DropKeeps ==
    ASSUME NEW q \in Seq(Conns), NEW u
    PROVE  /\ Drop(q, u) \in Seq(Conns)
           /\ \A i \in DOMAIN Drop(q, u) : \E j \in DOMAIN q : Drop(q, u)[i] = q[j]
           /\ OnePerUser(q) => OnePerUser(Drop(q, u)) /\ ~Waits(Drop(q, u), u)
<1>1. CASE ~Waits(q, u)
  BY <1>1 DEF Drop
<1>2. CASE Waits(q, u)
  <2> DEFINE p == Pos(q, u)
             d == RemoveAt(q, p)
  <2>1. p \in 1..Len(q) /\ Owner[q[p]] = u
    BY <1>2, PosFinds
  <2>2. Drop(q, u) = d
    BY <1>2 DEF Drop
  <2> HIDE DEF p
  <2>3. /\ d \in Seq(Conns)
        /\ Len(d) = Len(q) - 1
        /\ \A i \in 1..(Len(q) - 1) : d[i] = IF i < p THEN q[i] ELSE q[i+1]
    BY <2>1, RemoveAtShifts
  <2> HIDE DEF d
  <2>4. DOMAIN q = 1..Len(q) /\ DOMAIN d = 1..(Len(q) - 1)
    BY <2>3
  <2>5. ASSUME NEW i \in DOMAIN d
        PROVE  \E j \in DOMAIN q : d[i] = q[j] /\ j # p /\ (i < p => j = i) /\ (i >= p => j = i + 1)
    <3>1. CASE i < p
      BY <2>1, <2>3, <2>4, <3>1
    <3>2. CASE ~(i < p)
      <4>1. i + 1 \in DOMAIN q /\ i + 1 # p /\ d[i] = q[i+1]
        BY <2>1, <2>3, <2>4, <3>2
      <4> QED
        BY <2>1, <2>4, <3>2, <4>1
    <3> QED
      BY <3>1, <3>2
  <2>6. ASSUME OnePerUser(q) PROVE OnePerUser(d) /\ ~Waits(d, u)
    <3>1. ~Waits(d, u)
      BY <2>1, <2>4, <2>5, <2>6 DEF OnePerUser, Waits
    <3>2. ASSUME NEW i \in DOMAIN d, NEW j \in DOMAIN d, Owner[d[i]] = Owner[d[j]]
          PROVE  i = j
      <4>1. PICK k \in DOMAIN q : d[i] = q[k] /\ (i < p => k = i) /\ (i >= p => k = i + 1)
        BY <2>5
      <4>2. PICK l \in DOMAIN q : d[j] = q[l] /\ (j < p => l = j) /\ (j >= p => l = j + 1)
        BY <2>5
      <4>3. k = l
        BY <2>6, <3>2, <4>1, <4>2 DEF OnePerUser
      <4> QED
        BY <2>1, <2>4, <4>1, <4>2, <4>3
    <3> QED
      BY <3>1, <3>2 DEF OnePerUser
  <2> QED
    BY <2>2, <2>3, <2>5, <2>6
<1> QED
  BY <1>1, <1>2

(* A connection joins at the end, or takes its user's entry.               *)
LEMMA PutKeeps ==
    ASSUME NEW q \in Seq(Conns), NEW c \in Conns
    PROVE  /\ Put(q, c) \in Seq(Conns)
           /\ OnePerUser(q) => OnePerUser(Put(q, c))
<1>1. CASE ~Waits(q, Owner[c])
  BY <1>1 DEF Put, OnePerUser, Waits
<1>2. CASE Waits(q, Owner[c])
  <2> DEFINE p == Pos(q, Owner[c])
  <2>1. p \in 1..Len(q) /\ Owner[q[p]] = Owner[c]
    BY <1>2, PosFinds
  <2>2. Put(q, c) = [q EXCEPT ![p] = c]
    BY <1>2 DEF Put
  <2> HIDE DEF p
  <2> QED
    BY <2>1, <2>2 DEF OnePerUser
<1> QED
  BY <1>1, <1>2

-----------------------------------------------------------------------------
(***************************************************************************)
(* The inductive invariant.  Beyond the types: a queue entry is the only   *)
(* one of its user, a candidate room has its second socket, and the local  *)
(* variables of a task are what its position needs.                        *)
(***************************************************************************)
PartnersKnown == \A r \in live : partner[r] \in Conns

TaskOK(c) ==
    /\ pc[c] \in {"scan", "claim"} => todo[c] # <<>>
    /\ \A i \in DOMAIN todo[c] : Owner[todo[c][i]] # Owner[c]
    /\ pc[c] = "requeue" => partner[room[c]] \in Conns
    /\ pc[c] \in Sweeping => passes[c] \in 1..2

TInv ==
    /\ TypeOK
    /\ OnePerUser(queue)
    /\ PartnersKnown
    /\ \A c \in Conns : TaskOK(c)

(* A task that will yet begin a walk over the candidates: one that finds   *)
(* its user in entered_users completes it without an await, and discards   *)
(* the mark.                                                               *)
Holding == Connecting \cup Handling \cup {"unkey", "walk"}

EnteredHeld ==
    \A u \in entered : \E c \in Conns : Owner[c] = u /\ pc[c] \in Holding

IInv == TInv /\ EnteredHeld /\ PairsTwoUsers

LEMMA InitIInv == Init => IInv
  BY OwnerAssumption
  DEF Init, IInv, TInv, TypeOK, OnePerUser, PartnersKnown, TaskOK, PC,
      Connecting, Sweeping, Handling, EnteredHeld, PairsTwoUsers

-----------------------------------------------------------------------------
(* What the shared pieces of the tasks' steps do.                          *)

(* The task of c, and no other, goes to one of the labels.                 *)
Moves(c, labels) ==
    /\ pc' \in [Conns -> PC]
    /\ pc'[c] \in labels
    /\ \A d \in Conns \ {c} : pc'[d] = pc[d]

(* The queue stays one.                                                    *)
QueueOK == queue' \in Seq(Conns) /\ OnePerUser(queue')

(* A task in handle_disconnect has runs of it to finish.                   *)
PassesOK(c) ==
    /\ passes' \in [Conns -> 0..2]
    /\ pc'[c] \in Sweeping => passes'[c] \in 1..2
    /\ \A d \in Conns \ {c} : passes'[d] = passes[d]

LEMMA GoToFacts ==
    ASSUME TInv, NEW c \in Conns, NEW label \in PC, GoTo(c, label)
    PROVE  Moves(c, {label})
  BY DEF GoTo, TInv, TypeOK, Moves

LEMMA SweepFacts ==
    ASSUME TInv, NEW c \in Conns, NEW q \in Seq(Conns), OnePerUser(q), Sweep(c, q)
    PROVE  QueueOK /\ Moves(c, {"unkey", "walk"})
  BY DropKeeps DEF QueueOK, Moves, Sweep, GoTo, TInv, TypeOK, PC, Sweeping

LEMMA FailFacts ==
    ASSUME TInv, NEW c \in Conns, NEW q \in Seq(Conns), OnePerUser(q),
           NEW runs \in SUBSET {1, 2}, Fail(c, q, runs)
    PROVE  QueueOK /\ Moves(c, {"unkey", "walk"}) /\ PassesOK(c)
<1>1. Sweep(c, q)
  BY DEF Fail
<1>2. PICK n \in runs : passes' = [passes EXCEPT ![c] = n]
  BY DEF Fail
<1>3. n \in 1..2
  BY <1>2
<1> QED
  BY <1>1, <1>2, <1>3, SweepFacts DEF PassesOK, TInv, TypeOK

LEMMA DeleteFacts ==
    ASSUME TInv, NEW rooms, Delete(rooms)
    PROVE  /\ live' \subseteq live /\ live' \subseteq Conns
           /\ accepted' \in [Conns -> SUBSET Users]
  BY DEF Delete, TInv, TypeOK

LEMMA EndedFacts ==
    ASSUME TInv, NEW c \in Conns, pc[c] \in Sweeping, Ended(c)
    PROVE  /\ QueueOK /\ Moves(c, {"done", "unkey", "walk"}) /\ PassesOK(c)
           /\ room' \in [Conns -> Conns]
           /\ \A d \in Conns \ {c} : room'[d] = room[d]
           /\ size' \in [Conns -> Nat]
           /\ gone' \in [Conns -> SUBSET Conns]
<1>1. passes[c] \in 1..2
  BY DEF TInv, TaskOK
<1>2. CASE passes[c] = 1 /\ GoTo(c, "done") /\ queue' = queue
  BY <1>2 DEF Ended, GoTo, TInv, TypeOK, PC, Sweeping, QueueOK, Moves, PassesOK
<1>3. CASE passes[c] # 1 /\ Sweep(c, queue)
  <2>1. queue \in Seq(Conns) /\ OnePerUser(queue)
    BY DEF TInv, TypeOK
  <2>2. passes[c] = 2
    BY <1>1, <1>3
  <2> QED
    BY <1>3, <2>1, <2>2, SweepFacts DEF Ended, TInv, TypeOK, QueueOK, Moves, PassesOK
<1> QED
  BY <1>2, <1>3 DEF Ended

(* A step of a walk: it goes on to a notice, or the run ends; it discards  *)
(* the user's mark when it found it.                                       *)
LEMMA WalkFacts ==
    ASSUME TInv, NEW c \in Conns, pc[c] \in Sweeping,
           NEW removed \in SUBSET Conns, NEW started \in Nat, Walk(c, removed, started)
    PROVE  /\ QueueOK
           /\ live' \subseteq live /\ live' \subseteq Conns
           /\ accepted' \in [Conns -> SUBSET Users]
           /\ entered' \subseteq entered
           /\ Moves(c, {"done", "unkey", "walk", "notice"}) /\ PassesOK(c)
           /\ room' \in [Conns -> Conns]
           /\ \A d \in Conns \ {c} : room'[d] = room[d]
           /\ size' \in [Conns -> Nat]
           /\ gone' \in [Conns -> SUBSET Conns]
           /\ removed = {} => Owner[c] \notin entered'
<1> DEFINE mine == {r \in live : Owner[c] \in UserIds(r)} \ removed
<1>1. ASSUME NEW rooms, DeleteRooms(c, rooms)
      PROVE  /\ live' \subseteq live /\ live' \subseteq Conns
             /\ accepted' \in [Conns -> SUBSET Users]
             /\ entered' \subseteq entered
             /\ Ended(c)
             /\ rooms \subseteq live => Owner[c] \notin entered'
  <2>1. CASE rooms \subseteq live /\ Delete(rooms) /\ entered' = entered \ {Owner[c]}
    BY <1>1, <2>1, DeleteFacts DEF DeleteRooms
  <2>2. CASE /\ ~(rooms \subseteq live)
             /\ \E some \in SUBSET (rooms \cap live) : Delete(some)
             /\ entered' = entered
    BY <1>1, <2>2, DeleteFacts DEF DeleteRooms
  <2> QED
    BY <1>1, <2>1, <2>2 DEF DeleteRooms
<1>2. CASE Owner[c] \in entered /\ DeleteRooms(c, removed \cup mine)
  <2>1. removed = {} => removed \cup mine \subseteq live
    OBVIOUS
  <2> HIDE DEF mine
  <2> QED
    BY <1>1, <1>2, <2>1, EndedFacts DEF Moves
<1>3. CASE Owner[c] \notin entered /\ mine = {} /\ DeleteRooms(c, removed)
  BY <1>1, <1>3, EndedFacts DEF Moves
<1>4. CASE /\ Owner[c] \notin entered
           /\ \E r \in mine : room' = [room EXCEPT ![c] = r]
           /\ GoTo(c, "notice")
           /\ gone' = [gone EXCEPT ![c] = removed]
           /\ size' = [size EXCEPT ![c] = started]
           /\ UNCHANGED <<queue, live, accepted, entered, passes>>
  BY <1>4 DEF GoTo, TInv, TypeOK, TaskOK, PC, Sweeping, QueueOK, Moves, PassesOK
<1> QED
  BY <1>2, <1>3, <1>4 DEF Walk

-----------------------------------------------------------------------------
(* The typing part of the invariant is preserved by every step.            *)

(* A step of the task of c changes the local variables of no other task.   *)
LEMMA OneTask ==
    ASSUME TInv, NEW c \in Conns, TypeOK', QueueOK, PartnersKnown', TaskOK(c)',
           \A r \in Conns : partner[r] \in Conns => partner'[r] \in Conns,
           \A d \in Conns \ {c} : /\ pc'[d] = pc[d] /\ todo'[d] = todo[d]
                                 /\ room'[d] = room[d] /\ passes'[d] = passes[d]
    PROVE  TInv'
<1>1. ASSUME NEW d \in Conns \ {c} PROVE TaskOK(d)'
  <2>1. TaskOK(d) /\ room[d] \in Conns
    BY DEF TInv, TypeOK
  <2>2. /\ pc'[d] = pc[d] /\ todo'[d] = todo[d]
        /\ room'[d] = room[d] /\ passes'[d] = passes[d]
    OBVIOUS
  <2> QED
    BY <2>1, <2>2 DEF TaskOK
<1>2. OnePerUser(queue)'
  BY DEF OnePerUser, QueueOK
<1> QED
  BY <1>1, <1>2 DEF TInv

LEMMA ConnectStep ==
    ASSUME TInv, NEW c \in Conns,
           Open(c) \/ Close(c) \/ SetKey(c) \/ Snapshot(c) \/ Scan(c) \/ ClaimGone(c)
             \/ Claim(c) \/ Enqueue(c) \/ Propose(c) \/ Forget(c)
    PROVE  TInv'
<1> queue \in Seq(Conns) /\ OnePerUser(queue)
  BY DEF TInv, TypeOK
<1> USE DEF QueueOK, Moves, PassesOK
<1>1. CASE Open(c)
  <2>1. Moves(c, {"set"})
    BY <1>1, GoToFacts DEF Open, PC, Connecting
  <2>2. link' \in [Conns -> {"new", "open", "closed"}]
    BY <1>1 DEF Open, TInv, TypeOK
  <2>3. UNCHANGED <<queue, live, partner, accepted, entered, keys, seen,
                    todo, room, size, gone, passes>>
    BY <1>1 DEF Open, shared
  <2>4. TypeOK' /\ PartnersKnown'
    BY <2>1, <2>2, <2>3 DEF TInv, TypeOK, PartnersKnown
  <2>5. TaskOK(c)'
    BY <2>1, <2>3 DEF TInv, TaskOK, Sweeping
  <2> QED
    BY <2>1, <2>3, <2>4, <2>5, OneTask
<1>2. CASE Close(c)
  BY <1>2 DEF Close, shared, task, OnePerUser, TInv, TypeOK, PartnersKnown, TaskOK,
             PC, Connecting, Sweeping, Handling
<1>3. CASE SetKey(c)
  <2>1. Moves(c, {"snapshot"})
    BY <1>3, GoToFacts DEF SetKey, PC, Connecting
  <2>2. keys' \in [Users -> Conns \cup {NoConn}]
    BY <1>3, OwnerAssumption DEF SetKey, TInv, TypeOK
  <2>3. UNCHANGED <<queue, live, partner, accepted, entered, link, seen,
                    todo, room, size, gone, passes>>
    BY <1>3 DEF SetKey, client
  <2>4. TypeOK' /\ PartnersKnown'
    BY <2>1, <2>2, <2>3 DEF TInv, TypeOK, PartnersKnown
  <2>5. TaskOK(c)'
    BY <2>1, <2>3 DEF TInv, TaskOK, Sweeping
  <2> QED
    BY <2>1, <2>3, <2>4, <2>5, OneTask
<1>4. CASE Snapshot(c)
  <2> DEFINE others == Drop(queue, Owner[c])
  <2>1. others \in Seq(Conns) /\ \A i \in DOMAIN others : Owner[others[i]] # Owner[c]
    BY DropKeeps DEF Waits
  <2>2. todo' = [todo EXCEPT ![c] = others]
    BY <1>4 DEF Snapshot
  <2>3. queue' \in Seq(Conns) /\ OnePerUser(queue')
    BY <1>4, PutKeeps DEF Snapshot
  <2>4. \/ others = <<>> /\ GoTo(c, "recv")
        \/ others # <<>> /\ GoTo(c, "scan")
    BY <1>4 DEF Snapshot
  <2>5. UNCHANGED <<live, partner, accepted, entered, keys, link, seen,
                    room, size, gone, passes>>
    BY <1>4 DEF Snapshot, client
  <2> HIDE DEF others
  <2>6. Moves(c, {"recv", "scan"}) /\ (pc'[c] = "scan" => others # <<>>)
    BY <2>4, GoToFacts DEF PC, Connecting, Handling
  <2>7. /\ todo' \in [Conns -> Seq(Conns)] /\ todo'[c] = others
        /\ \A d \in Conns \ {c} : todo'[d] = todo[d]
    BY <2>1, <2>2 DEF TInv, TypeOK
  <2>8. TypeOK'
    BY <2>3, <2>5, <2>6, <2>7 DEF TInv, TypeOK
  <2>9. TaskOK(c)'
    BY <2>1, <2>5, <2>6, <2>7 DEF TaskOK, Sweeping
  <2>10. PartnersKnown'
    BY <2>5 DEF TInv, PartnersKnown
  <2> QED
    BY <2>3, <2>5, <2>6, <2>7, <2>8, <2>9, <2>10, OneTask
<1>5. CASE Scan(c)
  <2>1. todo[c] \in Seq(Conns) /\ todo[c] # <<>>
    BY <1>5 DEF Scan, TInv, TaskOK, TypeOK
  <2>2. /\ Tail(todo[c]) \in Seq(Conns)
        /\ \A i \in DOMAIN Tail(todo[c]) :
              i + 1 \in DOMAIN todo[c] /\ Tail(todo[c])[i] = todo[c][i+1]
    BY <2>1
  <2>3. \A i \in DOMAIN Tail(todo[c]) : Owner[Tail(todo[c])[i]] # Owner[c]
    BY <2>2 DEF TInv, TaskOK
  <2>4. \/ todo' = todo /\ GoTo(c, "claim")
        \/ /\ todo' = [todo EXCEPT ![c] = Tail(todo[c])]
           /\ \/ Tail(todo[c]) = <<>> /\ GoTo(c, "enqueue")
              \/ Tail(todo[c]) # <<>> /\ GoTo(c, "scan")
    BY <1>5 DEF Scan
  <2>5. UNCHANGED <<queue, live, partner, accepted, entered, keys, link, seen,
                    room, size, gone, passes>>
    BY <1>5 DEF Scan, shared, client
  <2>6. /\ Moves(c, {"claim", "enqueue", "scan"})
        /\ pc'[c] = "claim" => todo' = todo
        /\ pc'[c] = "scan" => todo' = [todo EXCEPT ![c] = Tail(todo[c])] /\ Tail(todo[c]) # <<>>
    BY <2>4, GoToFacts DEF PC, Connecting
  <2>7. /\ todo' \in [Conns -> Seq(Conns)]
        /\ todo'[c] = todo[c] \/ todo'[c] = Tail(todo[c])
        /\ \A d \in Conns \ {c} : todo'[d] = todo[d]
    <3>1. CASE todo' = todo
      BY <3>1 DEF TInv, TypeOK
    <3>2. CASE todo' = [todo EXCEPT ![c] = Tail(todo[c])]
      <4> DEFINE rest == Tail(todo[c])
      <4>1. rest \in Seq(Conns) /\ todo' = [todo EXCEPT ![c] = rest]
        BY <2>2, <3>2
      <4> HIDE DEF rest
      <4>2. /\ todo' \in [Conns -> Seq(Conns)] /\ todo'[c] = rest
            /\ \A d \in Conns \ {c} : todo'[d] = todo[d]
        BY <4>1 DEF TInv, TypeOK
      <4> QED
        BY <4>2 DEF rest
    <3> QED
      BY <2>4, <3>1, <3>2
  <2>8. TypeOK'
    BY <2>5, <2>6, <2>7 DEF TInv, TypeOK
  <2>9. pc'[c] \in {"scan", "claim"} => todo'[c] # <<>>
    <3>1. CASE todo' = todo
      BY <2>1, <3>1
    <3>2. CASE todo' = [todo EXCEPT ![c] = Tail(todo[c])] /\ Tail(todo[c]) # <<>>
      BY <3>2 DEF TInv, TypeOK
    <3> QED
      BY <2>6, <3>1, <3>2
  <2>10. \A i \in DOMAIN todo'[c] : Owner[todo'[c][i]] # Owner[c]
    BY <2>3, <2>7 DEF TInv, TaskOK
  <2>11. TaskOK(c)'
    BY <2>6, <2>9, <2>10 DEF TaskOK, Sweeping
  <2>12. PartnersKnown'
    BY <2>5 DEF TInv, PartnersKnown
  <2> QED
    BY <2>5, <2>6, <2>7, <2>8, <2>11, <2>12, OneTask
<1>6. CASE ClaimGone(c)
  <2>1. Fail(c, queue, {1}) /\ {1} \in SUBSET {1, 2}
    BY <1>6 DEF ClaimGone
  <2>2. QueueOK /\ Moves(c, {"unkey", "walk"}) /\ PassesOK(c)
    BY <2>1, FailFacts
  <2>3. /\ todo' \in [Conns -> Seq(Conns)] /\ todo'[c] = <<>>
        /\ \A d \in Conns \ {c} : todo'[d] = todo[d]
    BY <1>6 DEF ClaimGone, TInv, TypeOK
  <2>4. UNCHANGED <<live, partner, accepted, entered, keys, link, seen, room, size, gone>>
    BY <1>6 DEF ClaimGone, client
  <2>5. TypeOK' /\ PartnersKnown'
    BY <2>2, <2>3, <2>4 DEF TInv, TypeOK, PartnersKnown
  <2>6. TaskOK(c)'
    BY <2>2, <2>3 DEF TaskOK
  <2> QED
    BY <2>2, <2>3, <2>4, <2>5, <2>6, OneTask
<1>7. CASE Claim(c)
  <2> DEFINE other == Owner[Head(todo[c])]
             rest  == Drop(queue, other)
             peer  == queue[Pos(queue, other)]
  <2>1. rest \in Seq(Conns) /\ OnePerUser(rest)
    BY DropKeeps
  <2>2. peer \in Conns
    BY <1>7, PosFinds DEF Claim
  <2>3. /\ pc[c] = "claim"
        /\ partner' = [partner EXCEPT ![c] = peer]
        /\ live' = live \cup {c}
        /\ todo' = [todo EXCEPT ![c] = <<>>]
        /\ UNCHANGED <<accepted, entered, keys, link, room, size, gone>>
        /\ \/ queue' = rest /\ seen' = Shown(c, c) /\ GoTo(c, "propose") /\ passes' = passes
           \/ seen' = seen /\ Fail(c, rest, {1, 2})
    BY <1>7 DEF Claim
  <2> HIDE DEF rest, peer, other
  <2>4. /\ QueueOK /\ Moves(c, {"propose", "unkey", "walk"}) /\ PassesOK(c)
        /\ seen' \in [Conns -> SUBSET Conns]
    <3>1. CASE queue' = rest /\ seen' = Shown(c, c) /\ GoTo(c, "propose") /\ passes' = passes
      BY <2>1, <3>1 DEF GoTo, Shown, TInv, TypeOK, PC, Handling, Sweeping
    <3>2. CASE seen' = seen /\ Fail(c, rest, {1, 2})
      <4>1. {1, 2} \in SUBSET {1, 2}
        OBVIOUS
      <4>2. QueueOK /\ Moves(c, {"unkey", "walk"}) /\ PassesOK(c)
        BY <2>1, <3>2, <4>1, FailFacts
      <4>3. seen' \in [Conns -> SUBSET Conns]
        BY <3>2 DEF TInv, TypeOK
      <4> QED
        BY <4>2, <4>3
    <3> QED
      BY <2>3, <3>1, <3>2
  <2>5. /\ todo' \in [Conns -> Seq(Conns)] /\ todo'[c] = <<>>
        /\ \A d \in Conns \ {c} : todo'[d] = todo[d]
    BY <2>3 DEF TInv, TypeOK
  <2>6. partner' \in [Conns -> Conns \cup {NoConn}] /\ live' \subseteq Conns
    BY <2>2, <2>3 DEF TInv, TypeOK
  <2>7. TypeOK'
    BY <2>3, <2>4, <2>5, <2>6 DEF TInv, TypeOK
  <2>8. TaskOK(c)'
    BY <2>3, <2>4, <2>5 DEF TInv, TypeOK, PartnersKnown, TaskOK,
             PC, Connecting, Sweeping, Handling
  <2>9. PartnersKnown'
    BY <2>2, <2>3 DEF TInv, TypeOK, PartnersKnown
  <2>10. \A r \in Conns : partner[r] \in Conns => partner'[r] \in Conns
    BY <2>2, <2>3 DEF TInv, TypeOK
  <2> QED
    BY <2>3, <2>4, <2>5, <2>7, <2>8, <2>9, <2>10, OneTask
<1>8. CASE Enqueue(c)
  <2>1. QueueOK
    BY <1>8, PutKeeps DEF Enqueue
  <2>2. Moves(c, {"recv"})
    BY <1>8, GoToFacts DEF Enqueue, PC, Handling
  <2>3. UNCHANGED <<live, partner, accepted, entered, keys, link, seen,
                    todo, room, size, gone, passes>>
    BY <1>8 DEF Enqueue, client
  <2>4. TypeOK' /\ PartnersKnown'
    BY <2>1, <2>2, <2>3 DEF TInv, TypeOK, PartnersKnown
  <2>5. TaskOK(c)'
    BY <2>2, <2>3 DEF TInv, TaskOK, Sweeping
  <2> QED
    BY <2>1, <2>2, <2>3, <2>4, <2>5, OneTask
<1>9. CASE Propose(c)
  <2>1. UNCHANGED <<live, partner, accepted, entered, keys, link, todo, room, size, gone>>
    BY <1>9 DEF Propose
  <2>2. CASE seen' = Shown(partner[c], c) /\ GoTo(c, "forget1") /\ UNCHANGED <<queue, passes>>
    <3>1. Moves(c, {"forget1"})
      BY <2>2, GoToFacts DEF PC, Handling
    <3>2. seen' \in [Conns -> SUBSET Conns]
      BY <2>2 DEF Shown, TInv, TypeOK
    <3>3. TypeOK' /\ PartnersKnown'
      BY <2>1, <2>2, <3>1, <3>2 DEF TInv, TypeOK, PartnersKnown
    <3>4. TaskOK(c)'
      BY <2>1, <2>2, <3>1 DEF TInv, TaskOK, Sweeping
    <3> QED
      BY <2>1, <2>2, <3>1, <3>3, <3>4, OneTask
  <2>3. CASE seen' = seen /\ Fail(c, queue, {1, 2})
    <3>1. {1, 2} \in SUBSET {1, 2}
      OBVIOUS
    <3>2. QueueOK /\ Moves(c, {"unkey", "walk"}) /\ PassesOK(c)
      BY <2>3, <3>1, FailFacts
    <3>3. TypeOK' /\ PartnersKnown'
      BY <2>1, <2>3, <3>2 DEF TInv, TypeOK, PartnersKnown
    <3>4. TaskOK(c)'
      BY <2>1, <3>2 DEF TInv, TaskOK
    <3> QED
      BY <2>1, <3>2, <3>3, <3>4, OneTask
  <2> QED
    BY <1>9, <2>2, <2>3 DEF Propose
<1>10. CASE Forget(c)
  <2>1. GoTo(c, "forget2") \/ GoTo(c, "recv")
    BY <1>10 DEF Forget
  <2>2. keys' \in [Users -> Conns \cup {NoConn}]
    BY <1>10 DEF Forget, TInv, TypeOK
  <2>3. UNCHANGED <<queue, live, partner, accepted, entered, link, seen,
                    todo, room, size, gone, passes>>
    BY <1>10 DEF Forget, client
  <2>4. Moves(c, {"forget2", "recv"})
    BY <2>1, GoToFacts DEF PC, Handling
  <2>5. TypeOK' /\ PartnersKnown'
    BY <2>2, <2>3, <2>4 DEF TInv, TypeOK, PartnersKnown
  <2>6. TaskOK(c)'
    BY <2>3, <2>4 DEF TInv, TaskOK, Sweeping
  <2> QED
    BY <2>3, <2>4, <2>5, <2>6, OneTask
<1> QED
  BY <1>1, <1>2, <1>3, <1>4, <1>5, <1>6, <1>7, <1>8, <1>9, <1>10

LEMMA DeleteOwnFacts ==
    ASSUME TInv, NEW c \in Conns, NEW q \in Seq(Conns), OnePerUser(q), DeleteOwn(c, q)
    PROVE  /\ QueueOK /\ Moves(c, {"recv", "unkey", "walk"}) /\ PassesOK(c)
           /\ live' \subseteq live /\ live' \subseteq Conns
           /\ accepted' \in [Conns -> SUBSET Users]
           /\ room' = [room EXCEPT ![c] = c]
<1>1. CASE /\ Delete({room[c]}) /\ queue' = q
           /\ GoTo(c, "recv") /\ passes' = passes
  <2>1. Moves(c, {"recv"})
    BY <1>1, GoToFacts DEF PC, Handling
  <2> QED
    BY <1>1, <2>1, DeleteFacts
       DEF DeleteOwn, QueueOK, Moves, PassesOK, Sweeping, TInv, TypeOK
<1>2. CASE UNCHANGED <<live, accepted>> /\ Fail(c, q, {1})
  <2>1. {1} \in SUBSET {1, 2}
    OBVIOUS
  <2>2. QueueOK /\ Moves(c, {"unkey", "walk"}) /\ PassesOK(c)
    BY <1>2, <2>1, FailFacts
  <2> QED
    BY <1>2, <2>2 DEF DeleteOwn, Moves, TInv, TypeOK
<1> QED
  BY <1>1, <1>2 DEF DeleteOwn

LEMMA ReceiveStep ==
    ASSUME TInv, NEW c \in Conns,
           ReceiveEntered(c) \/ ReceiveAccept(c) \/ TellMatched(c) \/ Settle(c)
             \/ ReceiveReject(c) \/ Requeue(c)
    PROVE  TInv'
<1> queue \in Seq(Conns) /\ OnePerUser(queue)
  BY DEF TInv, TypeOK
<1> {1, 2} \in SUBSET {1, 2}
  OBVIOUS
<1> USE DEF QueueOK, Moves, PassesOK
<1>1. CASE ReceiveEntered(c)
  <2>1. entered' \subseteq Users
    BY <1>1, OwnerAssumption DEF ReceiveEntered, TInv, TypeOK
  <2>2. UNCHANGED <<queue, live, partner, accepted, keys, link, seen,
                    pc, todo, room, size, gone, passes>>
    BY <1>1 DEF ReceiveEntered, client, task
  <2>3. TypeOK' /\ PartnersKnown' /\ TaskOK(c)'
    BY <2>1, <2>2 DEF TInv, TypeOK, PartnersKnown, TaskOK
  <2> QED
    BY <2>2, <2>3, OneTask
<1>2. CASE ReceiveAccept(c)
  <2>1. PICK r \in Conns :
           /\ accepted' = [accepted EXCEPT ![r] = @ \cup {Owner[c]}]
           /\ \/ UNCHANGED <<queue, pc, passes, room>>
              \/ /\ room' = [room EXCEPT ![c] = r]
                 /\ GoTo(c, "matched") /\ UNCHANGED <<queue, passes>>
              \/ room' = room /\ Fail(c, queue, {1, 2})
    BY <1>2 DEF ReceiveAccept, Receives
  <2>2. accepted' \in [Conns -> SUBSET Users]
    BY <2>1, OwnerAssumption DEF TInv, TypeOK
  <2>3. pc[c] = "recv" /\ UNCHANGED <<live, partner, entered, keys, link, seen, todo, size, gone>>
    BY <1>2 DEF ReceiveAccept, Receives, client
  <2>4. PartnersKnown'
    BY <2>3 DEF TInv, PartnersKnown
  <2>5. CASE UNCHANGED <<queue, pc, passes, room>>
    <3>1. TypeOK' /\ TaskOK(c)'
      BY <2>2, <2>3, <2>5 DEF TInv, TypeOK, TaskOK
    <3> QED
      BY <2>3, <2>4, <2>5, <3>1, OneTask
  <2>6. CASE /\ room' = [room EXCEPT ![c] = r]
             /\ GoTo(c, "matched") /\ UNCHANGED <<queue, passes>>
    <3>1. Moves(c, {"matched"})
      BY <2>6, GoToFacts DEF PC, Handling
    <3>2. room' \in [Conns -> Conns] /\ \A d \in Conns \ {c} : room'[d] = room[d]
      BY <2>6 DEF TInv, TypeOK
    <3>3. TypeOK' /\ TaskOK(c)'
      BY <2>2, <2>3, <2>6, <3>1, <3>2 DEF TInv, TypeOK, TaskOK, Sweeping
    <3> QED
      BY <2>3, <2>4, <2>6, <3>1, <3>2, <3>3, OneTask
  <2>7. CASE room' = room /\ Fail(c, queue, {1, 2})
    <3>1. QueueOK /\ Moves(c, {"unkey", "walk"}) /\ PassesOK(c)
      BY <2>7, FailFacts
    <3>2. TypeOK' /\ TaskOK(c)'
      BY <2>2, <2>3, <2>7, <3>1 DEF TInv, TypeOK, TaskOK, Sweeping
    <3> QED
      BY <2>3, <2>4, <2>7, <3>1, <3>2, OneTask
  <2> QED
    BY <2>1, <2>5, <2>6, <2>7
<1>3. CASE TellMatched(c)
  <2>1. UNCHANGED <<live, partner, accepted, entered, keys, link, seen, todo, size, gone>>
    BY <1>3 DEF TellMatched, client
  <2>2. PartnersKnown'
    BY <2>1 DEF TInv, PartnersKnown
  <2>3. CASE GoTo(c, "settle") /\ UNCHANGED <<queue, passes, room>>
    <3>1. Moves(c, {"settle"})
      BY <2>3, GoToFacts DEF PC, Handling
    <3>2. TypeOK' /\ TaskOK(c)'
      BY <2>1, <2>3, <3>1 DEF TInv, TypeOK, TaskOK, Sweeping
    <3> QED
      BY <2>1, <2>2, <2>3, <3>1, <3>2, OneTask
  <2>4. CASE room' = [room EXCEPT ![c] = c] /\ Fail(c, queue, {1, 2})
    <3>1. QueueOK /\ Moves(c, {"unkey", "walk"}) /\ PassesOK(c)
      BY <2>4, FailFacts
    <3>2. room' \in [Conns -> Conns] /\ \A d \in Conns \ {c} : room'[d] = room[d]
      BY <2>4 DEF TInv, TypeOK
    <3>3. TypeOK' /\ TaskOK(c)'
      BY <2>1, <3>1, <3>2 DEF TInv, TypeOK, TaskOK, Sweeping
    <3> QED
      BY <2>1, <2>2, <3>1, <3>2, <3>3, OneTask
  <2> QED
    BY <1>3, <2>3, <2>4 DEF TellMatched
<1>4. ASSUME NEW q \in Seq(Conns), OnePerUser(q), DeleteOwn(c, q),
             UNCHANGED <<partner, entered, keys, link, seen, todo, size, gone>>
      PROVE  TInv'
  <2>1. /\ QueueOK /\ Moves(c, {"recv", "unkey", "walk"}) /\ PassesOK(c)
        /\ live' \subseteq live /\ live' \subseteq Conns
        /\ accepted' \in [Conns -> SUBSET Users]
        /\ room' = [room EXCEPT ![c] = c]
    BY <1>4, DeleteOwnFacts
  <2>2. room' \in [Conns -> Conns] /\ \A d \in Conns \ {c} : room'[d] = room[d]
    BY <2>1 DEF TInv, TypeOK
  <2>3. TypeOK' /\ PartnersKnown'
    BY <1>4, <2>1, <2>2 DEF TInv, TypeOK, PartnersKnown
  <2>4. TaskOK(c)'
    BY <1>4, <2>1 DEF TInv, TaskOK
  <2> QED
    BY <1>4, <2>1, <2>2, <2>3, <2>4, OneTask
<1>5. CASE Settle(c)
  BY <1>4, <1>5 DEF Settle, client
<1>6. CASE ReceiveReject(c)
  <2>1. PICK r \in live :
           \/ /\ room' = [room EXCEPT ![c] = r]
              /\ GoTo(c, "requeue") /\ UNCHANGED <<live, accepted>>
           \/ Delete({r}) /\ UNCHANGED <<pc, room>>
    BY <1>6 DEF ReceiveReject, Receives
  <2>2. UNCHANGED <<queue, partner, entered, keys, link, seen, todo, size, gone, passes>>
    BY <1>6 DEF ReceiveReject, client
  <2>3. r \in Conns /\ partner[r] \in Conns
    BY DEF TInv, TypeOK, PartnersKnown
  <2>4. CASE /\ room' = [room EXCEPT ![c] = r]
             /\ GoTo(c, "requeue") /\ UNCHANGED <<live, accepted>>
    <3>1. Moves(c, {"requeue"})
      BY <2>4, GoToFacts DEF PC, Handling
    <3>2. /\ room' \in [Conns -> Conns] /\ room'[c] = r
          /\ \A d \in Conns \ {c} : room'[d] = room[d]
      BY <2>3, <2>4 DEF TInv, TypeOK
    <3>3. TypeOK' /\ PartnersKnown'
      BY <2>2, <2>4, <3>1, <3>2 DEF TInv, TypeOK, PartnersKnown
    <3>4. TaskOK(c)'
      BY <2>2, <2>3, <3>1, <3>2 DEF TInv, TaskOK, Sweeping
    <3> QED
      BY <2>2, <3>1, <3>2, <3>3, <3>4, OneTask
  <2>5. CASE Delete({r}) /\ UNCHANGED <<pc, room>>
    <3>1. /\ live' \subseteq live /\ live' \subseteq Conns
          /\ accepted' \in [Conns -> SUBSET Users]
      BY <2>5, DeleteFacts
    <3>2. TypeOK' /\ PartnersKnown' /\ TaskOK(c)'
      BY <2>2, <2>5, <3>1 DEF TInv, TypeOK, PartnersKnown, TaskOK
    <3> QED
      BY <2>2, <2>5, <3>2, OneTask
  <2> QED
    BY <2>1, <2>4, <2>5
<1>7. CASE Requeue(c)
  <2> DEFINE q == Put(queue, Other(room[c], Owner[c]))
  <2>1. Other(room[c], Owner[c]) \in Conns
    BY <1>7 DEF Requeue, Other, TInv, TypeOK, TaskOK
  <2>2. q \in Seq(Conns) /\ OnePerUser(q)
    BY <2>1, PutKeeps
  <2>3. DeleteOwn(c, q) /\ UNCHANGED <<partner, entered, keys, link, seen, todo, size, gone>>
    BY <1>7 DEF Requeue, client
  <2> HIDE DEF q
  <2> QED
    BY <1>4, <2>2, <2>3
<1> QED
  BY <1>1, <1>2, <1>3, <1>5, <1>6, <1>7

LEMMA DisconnectStep ==
    ASSUME TInv, NEW c \in Conns,
           Disconnect(c) \/ Unkey(c) \/ BeginWalk(c) \/ Notice(c) \/ WalkOn(c)
             \/ WalkChanged(c)
    PROVE  TInv'
<1> queue \in Seq(Conns) /\ OnePerUser(queue)
  BY DEF TInv, TypeOK
<1> USE DEF QueueOK, Moves, PassesOK
<1>1. CASE Disconnect(c)
  <2>1. Fail(c, queue, {1}) /\ {1} \in SUBSET {1, 2}
    BY <1>1 DEF Disconnect
  <2>2. QueueOK /\ Moves(c, {"unkey", "walk"}) /\ PassesOK(c)
    BY <2>1, FailFacts
  <2>3. UNCHANGED <<live, partner, accepted, entered, keys, link, seen,
                    todo, room, size, gone>>
    BY <1>1 DEF Disconnect, client
  <2>4. TypeOK' /\ PartnersKnown'
    BY <2>2, <2>3 DEF TInv, TypeOK, PartnersKnown
  <2>5. TaskOK(c)'
    BY <2>2, <2>3 DEF TInv, TaskOK
  <2> QED
    BY <2>2, <2>3, <2>4, <2>5, OneTask
<1>2. CASE Unkey(c)
  <2>1. pc[c] \in {"unkey", "unkeyRoom"} /\ (GoTo(c, "walk") \/ GoTo(c, "walkOn"))
    BY <1>2 DEF Unkey
  <2>2. Moves(c, {"walk", "walkOn"})
    BY <2>1, GoToFacts DEF PC, Sweeping
  <2>3. /\ keys' \in [Users -> Conns \cup {NoConn}]
        /\ UNCHANGED <<queue, live, partner, accepted, entered, link, seen,
                       todo, room, size, gone, passes>>
    BY <1>2 DEF Unkey, client, TInv, TypeOK
  <2>4. TypeOK' /\ PartnersKnown'
    BY <2>2, <2>3 DEF TInv, TypeOK, PartnersKnown
  <2>5. TaskOK(c)'
    BY <2>1, <2>2, <2>3 DEF TInv, TaskOK, Sweeping
  <2> QED
    BY <2>2, <2>3, <2>4, <2>5, OneTask
<1>3. ASSUME pc[c] \in Sweeping,
             NEW removed \in SUBSET Conns, NEW started \in Nat, Walk(c, removed, started),
             UNCHANGED <<partner, keys, link, seen, todo>>
      PROVE  TInv'
  <2>1. /\ QueueOK
        /\ live' \subseteq live /\ live' \subseteq Conns
        /\ accepted' \in [Conns -> SUBSET Users]
        /\ entered' \subseteq entered
        /\ Moves(c, {"done", "unkey", "walk", "notice"}) /\ PassesOK(c)
        /\ room' \in [Conns -> Conns]
        /\ \A d \in Conns \ {c} : room'[d] = room[d]
        /\ size' \in [Conns -> Nat]
        /\ gone' \in [Conns -> SUBSET Conns]
    BY <1>3, WalkFacts
  <2>2. TypeOK' /\ PartnersKnown'
    BY <1>3, <2>1 DEF TInv, TypeOK, PartnersKnown
  <2>3. TaskOK(c)'
    BY <1>3, <2>1 DEF TInv, TaskOK
  <2> QED
    BY <1>3, <2>1, <2>2, <2>3, OneTask
<1>4. CASE BeginWalk(c)
  <2>1. Cardinality(live) \in Nat
    BY ConnsAssumption, FS_Subset, FS_CardinalityType DEF TInv, TypeOK
  <2>2. pc[c] \in Sweeping /\ Walk(c, {}, Cardinality(live))
    BY <1>4 DEF BeginWalk, Sweeping
  <2> QED
    BY <1>3, <1>4, <2>1, <2>2 DEF BeginWalk, client
<1>5. CASE Notice(c)
  <2>1. Moves(c, {"unkeyRoom"})
    BY <1>5, GoToFacts DEF Notice, PC, Sweeping
  <2>2. UNCHANGED <<queue, live, partner, accepted, entered, keys, link, seen,
                    todo, room, size, gone, passes>>
    BY <1>5 DEF Notice, shared, client
  <2>3. TypeOK' /\ PartnersKnown'
    BY <2>1, <2>2 DEF TInv, TypeOK, PartnersKnown
  <2>4. TaskOK(c)'
    BY <1>5, <2>1, <2>2 DEF Notice, TInv, TaskOK, Sweeping
  <2> QED
    BY <2>1, <2>2, <2>3, <2>4, OneTask
<1>6. CASE WalkOn(c)
  <2>1. /\ pc[c] \in Sweeping
        /\ gone[c] \cup {room[c]} \in SUBSET Conns
        /\ size[c] \in Nat
    BY <1>6 DEF WalkOn, Sweeping, TInv, TypeOK
  <2>2. Walk(c, gone[c] \cup {room[c]}, size[c])
    BY <1>6 DEF WalkOn
  <2> QED
    BY <1>3, <1>6, <2>1, <2>2 DEF WalkOn, client
<1>7. CASE WalkChanged(c)
  <2>1. pc[c] \in Sweeping /\ Ended(c)
    BY <1>7 DEF WalkChanged, Sweeping
  <2>2. /\ QueueOK /\ Moves(c, {"done", "unkey", "walk"}) /\ PassesOK(c)
        /\ room' \in [Conns -> Conns]
        /\ \A d \in Conns \ {c} : room'[d] = room[d]
        /\ size' \in [Conns -> Nat]
        /\ gone' \in [Conns -> SUBSET Conns]
    BY <2>1, EndedFacts
  <2>3. UNCHANGED <<live, partner, accepted, entered, keys, link, seen, todo>>
    BY <1>7 DEF WalkChanged, client
  <2>4. TypeOK' /\ PartnersKnown'
    BY <2>2, <2>3 DEF TInv, TypeOK, PartnersKnown
  <2>5. TaskOK(c)'
    BY <2>2, <2>3 DEF TInv, TaskOK
  <2> QED
    BY <2>2, <2>3, <2>4, <2>5, OneTask
<1> QED
  BY <1>1, <1>2, <1>4, <1>5, <1>6, <1>7

(* Redis expiry and a restart of the server.                               *)
LEMMA EnvironmentStep ==
    ASSUME TInv, Restart \/ \E u \in Users : Expire(u)
    PROVE  TInv'
<1>1. CASE Restart
  <2>1. /\ queue' = <<>> /\ live' = {} /\ entered' = {}
        /\ pc' \in [Conns -> {"new", "done"}]
        /\ accepted' \in [Conns -> SUBSET Users]
        /\ todo' = [c \in Conns |-> <<>>]
        /\ room' \in [Conns -> Conns]
        /\ size' \in [Conns -> Nat]
        /\ gone' \in [Conns -> SUBSET Conns]
        /\ passes' \in [Conns -> 0..2]
        /\ UNCHANGED <<partner, keys, link, seen>>
    BY <1>1 DEF Restart, client
  <2>2. TypeOK'
    BY <2>1 DEF TInv, TypeOK, PC
  <2>3. OnePerUser(queue)' /\ PartnersKnown'
    BY <2>1 DEF OnePerUser, PartnersKnown
  <2>4. ASSUME NEW c \in Conns PROVE TaskOK(c)'
    <3>1. pc'[c] \in {"new", "done"} /\ todo'[c] = <<>>
      BY <2>1
    <3> QED
      BY <3>1 DEF TaskOK, Sweeping
  <2> QED
    BY <2>2, <2>3, <2>4 DEF TInv
<1>2. CASE \E u \in Users : Expire(u)
  <2>1. /\ keys' \in [Users -> Conns \cup {NoConn}]
        /\ UNCHANGED <<queue, live, partner, accepted, entered, link, seen,
                       pc, todo, room, size, gone, passes>>
    BY <1>2 DEF Expire, client, task, TInv, TypeOK
  <2> QED
    BY <2>1 DEF TInv, TypeOK, OnePerUser, PartnersKnown, TaskOK
<1> QED
  BY <1>1, <1>2

(* A step that changes nothing.                                            *)
LEMMA StutterStep == ASSUME IInv, UNCHANGED vars PROVE IInv'
  BY DEF vars, IInv, TInv, TypeOK, OnePerUser, PartnersKnown, TaskOK,
         EnteredHeld, PairsTwoUsers

-----------------------------------------------------------------------------
(***************************************************************************)
(* The marks of entered_users and the candidate rooms.                     *)
(***************************************************************************)

(* The task of c stays, if it was, one that will yet discard its user's    *)
(* mark, or has discarded it.                                              *)
Holds(c) ==
    /\ entered' \subseteq entered
    /\ \A d \in Conns \ {c} : pc'[d] = pc[d]
    /\ pc[c] \in Holding => pc'[c] \in Holding \/ Owner[c] \notin entered'

(* No room is made, and none gets another socket.                          *)
NoRoom == live' \subseteq live /\ partner' = partner

LEMMA HoldsKeeps ==
    ASSUME EnteredHeld, NEW c \in Conns, Holds(c)
    PROVE  EnteredHeld'
  BY DEF EnteredHeld, Holds

LEMMA NoRoomKeeps ==
    ASSUME PairsTwoUsers, NoRoom
    PROVE  PairsTwoUsers'
  BY DEF PairsTwoUsers, NoRoom

(* A step to a label of Holding.                                           *)
LEMMA GoesHolding ==
    ASSUME TInv, NEW c \in Conns, entered' = entered,
           pc' = pc \/ \E label \in Holding : GoTo(c, label)
    PROVE  Holds(c)
  BY DEF Holds, GoTo, TInv, TypeOK

LEMMA FailHolding ==
    ASSUME NEW c \in Conns, NEW q, NEW runs, Fail(c, q, runs)
    PROVE  \E label \in Holding : GoTo(c, label)
  BY DEF Fail, Sweep, Holding

LEMMA DeleteOwnHolding ==
    ASSUME NEW c \in Conns, NEW q, DeleteOwn(c, q)
    PROVE  /\ \E label \in Holding : GoTo(c, label)
           /\ live' \subseteq live
<1>1. CASE Delete({room[c]}) /\ GoTo(c, "recv")
  BY <1>1 DEF Delete, Holding, Handling
<1>2. CASE UNCHANGED live /\ Fail(c, q, {1})
  BY <1>2, FailHolding
<1> QED
  BY <1>1, <1>2 DEF DeleteOwn

(* The steps before the end of a connection keep the marks held.           *)
LEMMA HandlingHolds ==
    ASSUME TInv, NEW c \in Conns,
           Open(c) \/ Close(c) \/ SetKey(c) \/ Snapshot(c) \/ Scan(c) \/ ClaimGone(c)
             \/ Enqueue(c) \/ Propose(c) \/ Forget(c) \/ ReceiveAccept(c)
             \/ TellMatched(c) \/ Settle(c) \/ ReceiveReject(c) \/ Requeue(c)
             \/ Disconnect(c)
    PROVE  Holds(c) /\ NoRoom
<1> USE DEF NoRoom, Holding, Connecting, Handling
<1>1. CASE Open(c)
  BY <1>1, GoesHolding DEF Open, shared
<1>2. CASE Close(c)
  BY <1>2, GoesHolding DEF Close, shared, task
<1>3. CASE SetKey(c)
  BY <1>3, GoesHolding DEF SetKey
<1>4. CASE Snapshot(c)
  BY <1>4, GoesHolding DEF Snapshot
<1>5. CASE Scan(c)
  BY <1>5, GoesHolding DEF Scan, shared
<1>6. CASE ClaimGone(c)
  BY <1>6, GoesHolding, FailHolding DEF ClaimGone
<1>7. CASE Enqueue(c)
  BY <1>7, GoesHolding DEF Enqueue
<1>8. CASE Propose(c)
  BY <1>8, GoesHolding, FailHolding DEF Propose
<1>9. CASE Forget(c)
  BY <1>9, GoesHolding DEF Forget
<1>10. CASE ReceiveAccept(c)
  BY <1>10, GoesHolding, FailHolding DEF ReceiveAccept
<1>11. CASE TellMatched(c)
  BY <1>11, GoesHolding, FailHolding DEF TellMatched
<1>12. CASE Settle(c)
  BY <1>12, GoesHolding, DeleteOwnHolding DEF Settle
<1>13. CASE ReceiveReject(c)
  BY <1>13, GoesHolding DEF ReceiveReject, Delete
<1>14. CASE Requeue(c)
  BY <1>14, GoesHolding, DeleteOwnHolding DEF Requeue
<1>15. CASE Disconnect(c)
  BY <1>15, GoesHolding, FailHolding DEF Disconnect
<1> QED
  BY <1>1, <1>2, <1>3, <1>4, <1>5, <1>6, <1>7, <1>8, <1>9, <1>10, <1>11,
     <1>12, <1>13, <1>14, <1>15

(* The steps of handle_disconnect: a task leaves Holding only by a walk    *)
(* that discards its user's mark, and afterwards is not relied upon.       *)
LEMMA SweepingHolds ==
    ASSUME TInv, NEW c \in Conns,
           Unkey(c) \/ BeginWalk(c) \/ Notice(c) \/ WalkOn(c) \/ WalkChanged(c)
    PROVE  Holds(c) /\ NoRoom
<1> USE DEF NoRoom
<1>1. CASE Unkey(c)
  BY <1>1 DEF Unkey, GoTo, Holds, Holding, Connecting, Handling, TInv, TypeOK
<1>2. CASE BeginWalk(c)
  <2>1. Cardinality(live) \in Nat
    BY ConnsAssumption, FS_Subset, FS_CardinalityType DEF TInv, TypeOK
  <2>2. pc[c] \in Sweeping /\ Walk(c, {}, Cardinality(live)) /\ partner' = partner
    BY <1>2 DEF BeginWalk, Sweeping
  <2>3. /\ live' \subseteq live /\ entered' \subseteq entered
        /\ \A d \in Conns \ {c} : pc'[d] = pc[d]
        /\ Owner[c] \notin entered'
    BY <2>1, <2>2, WalkFacts DEF Moves
  <2> QED
    BY <2>2, <2>3 DEF Holds
<1>3. CASE Notice(c)
  BY <1>3 DEF Notice, shared, GoTo, Holds, Holding, Connecting, Handling, TInv, TypeOK
<1>4. CASE WalkOn(c)
  <2>1. /\ pc[c] \in Sweeping /\ pc[c] \notin Holding
        /\ gone[c] \cup {room[c]} \in SUBSET Conns
        /\ size[c] \in Nat
    BY <1>4 DEF WalkOn, Sweeping, Holding, Connecting, Handling, TInv, TypeOK
  <2>2. Walk(c, gone[c] \cup {room[c]}, size[c]) /\ partner' = partner
    BY <1>4 DEF WalkOn
  <2>3. /\ live' \subseteq live /\ entered' \subseteq entered
        /\ \A d \in Conns \ {c} : pc'[d] = pc[d]
    BY <2>1, <2>2, WalkFacts DEF Moves
  <2> QED
    BY <2>1, <2>2, <2>3 DEF Holds
<1>5. CASE WalkChanged(c)
  <2>1. /\ pc[c] \in Sweeping /\ pc[c] \notin Holding /\ Ended(c)
        /\ UNCHANGED <<live, partner, entered>>
    BY <1>5 DEF WalkChanged, Sweeping, Holding, Connecting, Handling
  <2>2. \A d \in Conns \ {c} : pc'[d] = pc[d]
    BY <2>1, EndedFacts DEF Moves
  <2> QED
    BY <2>1, <2>2 DEF Holds
<1> QED
  BY <1>1, <1>2, <1>3, <1>4, <1>5

(* A user is marked by a task that will discard the mark.                  *)
LEMMA EnteringHolds ==
    ASSUME TInv, EnteredHeld, NEW c \in Conns, ReceiveEntered(c)
    PROVE  EnteredHeld' /\ NoRoom
<1>1. /\ pc[c] = "recv"
      /\ entered' = entered \cup {Owner[c]}
      /\ UNCHANGED <<pc, live, partner>>
  BY DEF ReceiveEntered, Receives, task
<1>2. ASSUME NEW u \in entered'
      PROVE  \E d \in Conns : Owner[d] = u /\ pc'[d] \in Holding
  <2>1. CASE u \in entered
    BY <1>1, <2>1 DEF EnteredHeld
  <2>2. CASE u = Owner[c]
    BY <1>1, <2>2 DEF Holding, Handling
  <2> QED
    BY <1>1, <2>1, <2>2
<1> QED
  BY <1>1, <1>2 DEF EnteredHeld, NoRoom

(* The one step that makes a room: the user popped from the queue is not   *)
(* the connecting one, whose own entry was not in the snapshot.            *)
LEMMA ClaimPairs ==
    ASSUME TInv, PairsTwoUsers, NEW c \in Conns, Claim(c)
    PROVE  Holds(c) /\ PairsTwoUsers'
<1> DEFINE other == Owner[Head(todo[c])]
           peer  == queue[Pos(queue, other)]
<1>1. /\ pc[c] = "claim" /\ Waits(queue, other)
      /\ partner' = [partner EXCEPT ![c] = peer]
      /\ live' = live \cup {c}
      /\ entered' = entered
      /\ GoTo(c, "propose") \/ \E q : Fail(c, q, {1, 2})
  BY DEF Claim
<1>2. todo[c] \in Seq(Conns) /\ todo[c] # <<>>
  BY <1>1 DEF TInv, TypeOK, TaskOK
<1>3. 1 \in DOMAIN todo[c] /\ Head(todo[c]) = todo[c][1]
  BY <1>2
<1>4. other # Owner[c]
  BY <1>3 DEF TInv, TaskOK
<1>5. peer \in Conns /\ Owner[peer] = other
  BY <1>1, PosFinds DEF TInv, TypeOK
<1> HIDE DEF other, peer
<1>6. Holds(c)
  BY <1>1, GoesHolding, FailHolding DEF Holding, Handling
<1>7. partner'[c] = peer /\ \A r \in live \ {c} : partner'[r] = partner[r]
  BY <1>1, <1>5 DEF TInv, TypeOK
<1> QED
  BY <1>1, <1>4, <1>5, <1>6, <1>7 DEF PairsTwoUsers

(* Every step preserves the invariant.                                     *)
LEMMA NextIInv == ASSUME IInv, [Next]_vars PROVE IInv'
<1> TInv /\ EnteredHeld /\ PairsTwoUsers
  BY DEF IInv
<1>1. ASSUME NEW c \in Conns, Open(c) \/ Close(c) \/ Receive(c) \/ Handle(c)
      PROVE  IInv'
  <2>1. TInv'
    BY <1>1, ConnectStep, ReceiveStep, DisconnectStep DEF Receive, Handle
  <2>2. CASE ReceiveEntered(c)
    BY <2>1, <2>2, EnteringHolds, NoRoomKeeps DEF IInv
  <2>3. CASE Claim(c)
    BY <2>1, <2>3, ClaimPairs, HoldsKeeps DEF IInv
  <2>4. CASE ~ReceiveEntered(c) /\ ~Claim(c)
    <3>1. Holds(c) /\ NoRoom
      BY <1>1, <2>4, HandlingHolds, SweepingHolds DEF Receive, Handle
    <3> QED
      BY <2>1, <3>1, HoldsKeeps, NoRoomKeeps DEF IInv
  <2> QED
    BY <2>2, <2>3, <2>4
<1>2. ASSUME Restart \/ \E u \in Users : Expire(u)
      PROVE  IInv'
  <2>1. TInv'
    BY <1>2, EnvironmentStep
  <2>2. CASE Restart
    BY <2>1, <2>2 DEF Restart, IInv, EnteredHeld, PairsTwoUsers
  <2>3. CASE \E u \in Users : Expire(u)
    BY <2>1, <2>3 DEF Expire, task, IInv, EnteredHeld, PairsTwoUsers
  <2> QED
    BY <1>2, <2>2, <2>3
<1>3. CASE Over \/ UNCHANGED vars
  BY <1>3, StutterStep DEF Over
<1> QED
  BY <1>1, <1>2, <1>3 DEF Next

(* The invariant holds in every reachable state.                           *)
LEMMA Invariant == Spec => []IInv
  BY InitIInv, NextIInv, PTL DEF Spec

(* Every variable of every task stays in its type: in particular a         *)
(* disconnecting task never counts more than two runs of handle_disconnect *)
(* nor fewer than none.                                                    *)
THEOREM TypeCorrect == Spec => []TypeOK
<1>1. IInv => TypeOK
  BY DEF IInv, TInv
<1> QED
  BY <1>1, Invariant, PTL

(* A candidate room is always one of two users, for any number of tabs of  *)
(* a user and any interleaving of handle_connect with other tasks.         *)
THEOREM RoomsPairTwoUsers == Spec => []PairsTwoUsers
<1>1. IInv => PairsTwoUsers
  BY DEF IInv
<1> QED
  BY <1>1, Invariant, PTL

(* A user marked as entered always has a connection whose task has not     *)
(* ended, even though handle_disconnect may stop with an exception before  *)
(* it discards the mark.                                                   *)
THEOREM MarksAreSwept == Spec => []EnteredSwept
<1>1. IInv => EnteredSwept
  BY DEF IInv, EnteredHeld, EnteredSwept, Holding, Connecting, Handling
<1> QED
  BY <1>1, Invariant, PTL

-----------------------------------------------------------------------------
(***************************************************************************)
(* Who is proposed to whom: what the keys in Redis and a task between its  *)
(* read of a key and its claim may rely on.                                *)
(***************************************************************************)

(* Pairs of users each of whom has connected with filters the other suits. *)
Suited ==
    {p \in Users \X Users : \E c, d \in Conns :
        /\ Owner[c] = p[1] /\ Owner[d] = p[2]
        /\ pc[c] # "new" /\ pc[d] # "new"
        /\ Wants(Filters[c], Data[d]) /\ Wants(Filters[d], Data[c])}

(* A key holds the data of a connection its user has made.                 *)
KeysMade == \A u \in Users : keys[u] # NoConn => Owner[keys[u]] = u /\ pc[keys[u]] # "new"

(* Who is about to be claimed was found to match.                          *)
ClaimSuits == \A c \in Conns : pc[c] = "claim" => <<Owner[c], Owner[Head(todo[c])]>> \in Suited

RoomsSuit == \A r \in live : <<Owner[r], Owner[partner[r]]>> \in Suited

SInv == KeysMade /\ ClaimSuits /\ RoomsSuit

(* Whom is_match lets pass is wanted.                                      *)
LEMMA MatchIsWanted ==
    ASSUME NEW user, NEW filters, IsMatch(user, filters)
    PROVE  Wants(filters, user)
  BY DEF IsMatch, Wants

(* Connections are made and stay made; a key is set by its own user.       *)
Onward(c) ==
    /\ \A d \in Conns \ {c} : pc'[d] = pc[d] /\ todo'[d] = todo[d]
    /\ pc[c] # "new" => pc'[c] # "new"
KeysOnward == \A u \in Users : keys'[u] \in {NoConn, keys[u]}

(* A step of c that leaves the claims to others.                           *)
Unclaiming(c) == pc'[c] = "claim" => pc[c] = "claim" /\ todo'[c] = todo[c]

LEMMA SuitedGrows ==
    ASSUME \A d \in Conns : pc[d] # "new" => pc'[d] # "new"
    PROVE  Suited \subseteq Suited'
  BY DEF Suited

(* What a step of the task of c keeps, if it makes no room.                *)
LEMMA OnwardKeeps ==
    ASSUME TInv, SInv, NEW c \in Conns, Onward(c), Unclaiming(c), KeysOnward, NoRoom
    PROVE  SInv'
<1>1. \A d \in Conns : pc[d] # "new" => pc'[d] # "new"
  BY DEF Onward
<1>2. Suited \subseteq Suited'
  BY <1>1, SuitedGrows
<1>3. KeysMade'
  BY <1>1 DEF SInv, KeysMade, KeysOnward, TInv, TypeOK
<1>4. ASSUME NEW d \in Conns, pc'[d] = "claim"
      PROVE  <<Owner[d], Owner[Head(todo'[d])]>> \in Suited'
  <2>1. pc[d] = "claim" /\ todo'[d] = todo[d]
    BY <1>4 DEF Onward, Unclaiming
  <2> QED
    BY <1>2, <2>1 DEF SInv, ClaimSuits
<1>5. RoomsSuit'
  <2>1. live' \subseteq live /\ partner' = partner
    BY DEF NoRoom
  <2>2. ASSUME NEW r \in live' PROVE <<Owner[r], Owner[partner'[r]]>> \in Suited'
    BY <1>2, <2>1 DEF SInv, RoomsSuit
  <2> QED
    BY <2>2 DEF RoomsSuit
<1>6. ClaimSuits'
  BY <1>4 DEF ClaimSuits
<1> QED
  BY <1>3, <1>5, <1>6 DEF SInv

(* A step to another label than claim.                                     *)
LEMMA GoesOnward ==
    ASSUME TInv, NEW c \in Conns, NEW label \in PC \ {"new", "claim"}, GoTo(c, label),
           \A d \in Conns \ {c} : todo'[d] = todo[d]
    PROVE  Onward(c) /\ Unclaiming(c)
  BY GoToFacts DEF Moves, Onward, Unclaiming

LEMMA MovesOnward ==
    ASSUME NEW c \in Conns, Moves(c, {"done", "unkey", "walk", "notice", "recv"}),
           todo' = todo
    PROVE  Onward(c) /\ Unclaiming(c)
  BY DEF Moves, Onward, Unclaiming

LEMMA FailOnward ==
    ASSUME TInv, NEW c \in Conns, NEW q, NEW runs, Fail(c, q, runs),
           \A d \in Conns \ {c} : todo'[d] = todo[d]
    PROVE  Onward(c) /\ Unclaiming(c)
<1>1. GoTo(c, "unkey") \/ GoTo(c, "walk")
  BY DEF Fail, Sweep
<1> QED
  BY <1>1, GoesOnward DEF PC, Sweeping

LEMMA DeleteOwnOnward ==
    ASSUME TInv, NEW c \in Conns, NEW q, DeleteOwn(c, q), todo' = todo
    PROVE  Onward(c) /\ Unclaiming(c)
<1>1. CASE GoTo(c, "recv")
  BY <1>1, GoesOnward DEF PC, Handling
<1>2. CASE Fail(c, q, {1})
  BY <1>2, FailOnward
<1> QED
  BY <1>1, <1>2 DEF DeleteOwn

(* The steps that neither read nor write a key nor make a room.            *)
LEMMA HandlingOnward ==
    ASSUME TInv, NEW c \in Conns,
           Open(c) \/ Close(c) \/ Snapshot(c) \/ ClaimGone(c) \/ Enqueue(c) \/ Propose(c)
             \/ ReceiveEntered(c) \/ ReceiveAccept(c) \/ TellMatched(c) \/ Settle(c)
             \/ ReceiveReject(c) \/ Requeue(c) \/ Disconnect(c)
    PROVE  Onward(c) /\ Unclaiming(c) /\ keys' = keys
<1> USE GoesOnward DEF PC, Connecting, Handling, Sweeping
<1>0. pc' = pc /\ todo' = todo => Onward(c) /\ Unclaiming(c)
  BY DEF Onward, Unclaiming
<1>1. CASE Open(c)
  BY <1>1 DEF Open, shared
<1>2. CASE Close(c)
  BY <1>0, <1>2 DEF Close, shared, task
<1>3. CASE Snapshot(c)
  <2>1. \A d \in Conns \ {c} : todo'[d] = todo[d]
    BY <1>3 DEF Snapshot, TInv, TypeOK
  <2>2. (GoTo(c, "recv") \/ GoTo(c, "scan")) /\ keys' = keys
    BY <1>3 DEF Snapshot
  <2> QED
    BY <2>1, <2>2
<1>4. CASE ClaimGone(c)
  <2>1. \A d \in Conns \ {c} : todo'[d] = todo[d]
    BY <1>4 DEF ClaimGone, TInv, TypeOK
  <2> QED
    BY <1>4, <2>1, FailOnward DEF ClaimGone
<1>5. CASE Enqueue(c)
  BY <1>5 DEF Enqueue
<1>6. CASE Propose(c)
  BY <1>6, FailOnward DEF Propose
<1>7. CASE ReceiveEntered(c)
  BY <1>0, <1>7 DEF ReceiveEntered, task
<1>8. CASE ReceiveAccept(c)
  BY <1>0, <1>8, FailOnward DEF ReceiveAccept
<1>9. CASE TellMatched(c)
  BY <1>9, FailOnward DEF TellMatched
<1>10. CASE Settle(c)
  BY <1>10, DeleteOwnOnward DEF Settle
<1>11. CASE ReceiveReject(c)
  BY <1>0, <1>11 DEF ReceiveReject
<1>12. CASE Requeue(c)
  BY <1>12, DeleteOwnOnward DEF Requeue
<1>13. CASE Disconnect(c)
  BY <1>13, FailOnward DEF Disconnect
<1> QED
  BY <1>1, <1>2, <1>3, <1>4, <1>5, <1>6, <1>7, <1>8, <1>9, <1>10, <1>11, <1>12, <1>13

(* The steps of handle_disconnect, and the end of handle_connect.          *)
LEMMA SweepingOnward ==
    ASSUME TInv, NEW c \in Conns,
           Forget(c) \/ Unkey(c) \/ BeginWalk(c) \/ Notice(c) \/ WalkOn(c) \/ WalkChanged(c)
    PROVE  Onward(c) /\ Unclaiming(c) /\ KeysOnward
<1>0. keys' = keys => KeysOnward
  BY DEF KeysOnward
<1>1. CASE Forget(c)
  <2>1. KeysOnward
    BY <1>1 DEF Forget, KeysOnward, TInv, TypeOK
  <2> QED
    BY <1>1, <2>1, GoesOnward DEF Forget, PC, Handling
<1>2. CASE Unkey(c)
  <2>1. KeysOnward
    BY <1>2 DEF Unkey, KeysOnward, TInv, TypeOK
  <2>2. (GoTo(c, "walk") \/ GoTo(c, "walkOn")) /\ todo' = todo
    BY <1>2 DEF Unkey
  <2> QED
    BY <2>1, <2>2, GoesOnward DEF PC, Sweeping
<1>3. CASE BeginWalk(c)
  <2>1. Cardinality(live) \in Nat
    BY ConnsAssumption, FS_Subset, FS_CardinalityType DEF TInv, TypeOK
  <2>2. pc[c] \in Sweeping /\ Walk(c, {}, Cardinality(live)) /\ todo' = todo /\ keys' = keys
    BY <1>3 DEF BeginWalk, Sweeping
  <2>3. Moves(c, {"done", "unkey", "walk", "notice"})
    BY <2>1, <2>2, WalkFacts
  <2> QED
    BY <1>0, <2>2, <2>3, MovesOnward DEF Moves
<1>4. CASE Notice(c)
  BY <1>0, <1>4, GoesOnward DEF Notice, shared, PC, Sweeping
<1>5. CASE WalkOn(c)
  <2>1. pc[c] \in Sweeping /\ gone[c] \cup {room[c]} \in SUBSET Conns /\ size[c] \in Nat
    BY <1>5 DEF WalkOn, Sweeping, TInv, TypeOK
  <2>2. Walk(c, gone[c] \cup {room[c]}, size[c]) /\ todo' = todo /\ keys' = keys
    BY <1>5 DEF WalkOn
  <2>3. Moves(c, {"done", "unkey", "walk", "notice"})
    BY <2>1, <2>2, WalkFacts
  <2> QED
    BY <1>0, <2>2, <2>3, MovesOnward DEF Moves
<1>6. CASE WalkChanged(c)
  <2>1. pc[c] \in Sweeping /\ Ended(c) /\ todo' = todo /\ keys' = keys
    BY <1>6 DEF WalkChanged, Sweeping
  <2>2. Moves(c, {"done", "unkey", "walk"})
    BY <2>1, EndedFacts
  <2> QED
    BY <1>0, <2>1, <2>2, MovesOnward DEF Moves
<1> QED
  BY <1>1, <1>2, <1>3, <1>4, <1>5, <1>6

(* The key of a connection that has just been made.                        *)
LEMMA SetKeyKeeps == ASSUME TInv, SInv, NEW c \in Conns, SetKey(c) PROVE SInv'
<1>1. /\ pc[c] = "set" /\ keys' = [keys EXCEPT ![Owner[c]] = c]
      /\ GoTo(c, "snapshot") /\ UNCHANGED <<live, partner, todo>>
  BY DEF SetKey
<1>2. Onward(c) /\ Unclaiming(c)
  BY <1>1, GoesOnward DEF PC, Connecting
<1>3. /\ \A d \in Conns : pc[d] # "new" => pc'[d] # "new"
      /\ pc'[c] # "new"
  BY <1>1, <1>2 DEF Onward, GoTo, TInv, TypeOK
<1>4. Suited \subseteq Suited'
  BY <1>3, SuitedGrows
<1>5. KeysMade'
  <2> SUFFICES ASSUME NEW u \in Users, keys'[u] # NoConn
               PROVE  Owner[keys'[u]] = u /\ pc'[keys'[u]] # "new"
    BY DEF KeysMade
  <2>1. CASE u = Owner[c]
    BY <1>1, <1>3, <2>1 DEF TInv, TypeOK
  <2>2. CASE u # Owner[c]
    <3>1. keys'[u] = keys[u] /\ keys[u] \in Conns
      BY <1>1, <2>2 DEF TInv, TypeOK
    <3> QED
      BY <1>3, <3>1 DEF SInv, KeysMade
  <2> QED
    BY <2>1, <2>2
<1>6. ClaimSuits'
  BY <1>1, <1>2, <1>4 DEF SInv, ClaimSuits, Onward, Unclaiming
<1>7. RoomsSuit'
  BY <1>1, <1>4 DEF SInv, RoomsSuit
<1> QED
  BY <1>5, <1>6, <1>7 DEF SInv

(* A match is found, with the data of a connection of that user.           *)
LEMMA ScanKeeps == ASSUME TInv, SInv, NEW c \in Conns, Scan(c) PROVE SInv'
<1> DEFINE other == Owner[Head(todo[c])]
           found == keys[other]
<1>1. /\ pc[c] = "scan" /\ UNCHANGED <<live, partner, keys>>
      /\ \/ found # NoConn /\ Matches(c, found) /\ GoTo(c, "claim") /\ todo' = todo
         \/ /\ todo' = [todo EXCEPT ![c] = Tail(@)]
            /\ GoTo(c, IF Tail(todo[c]) = <<>> THEN "enqueue" ELSE "scan")
  BY DEF Scan, shared
<1>2. todo[c] \in Seq(Conns) /\ todo[c] # <<>>
  BY <1>1 DEF TInv, TypeOK, TaskOK
<1>3. Head(todo[c]) \in Conns /\ other \in Users
  BY <1>2, HeadTailProperties, OwnerAssumption
<1>4. CASE found # NoConn /\ Matches(c, found) /\ GoTo(c, "claim") /\ todo' = todo
  <2> HIDE DEF other
  <2>1. found \in Conns /\ Owner[found] = other /\ pc[found] # "new"
    BY <1>3, <1>4 DEF TInv, TypeOK, SInv, KeysMade
  <2>2. Wants(Filters[c], Data[found]) /\ Wants(Filters[found], Data[c])
    BY <1>4, MatchIsWanted DEF Matches
  <2> HIDE DEF found
  <2>3. Owner[c] \in Users /\ pc[c] # "new"
    BY <1>1, OwnerAssumption
  <2>4. <<Owner[c], other>> \in Suited
    BY <1>3, <2>1, <2>2, <2>3 DEF Suited
  <2>5. /\ \A d \in Conns \ {c} : pc'[d] = pc[d]
        /\ pc'[c] = "claim"
    BY <1>4, GoToFacts DEF Moves, PC, Connecting
  <2>6. \A d \in Conns : pc[d] # "new" => pc'[d] # "new"
    BY <2>5
  <2>7. Suited \subseteq Suited'
    BY <2>6, SuitedGrows
  <2>8. KeysMade'
    BY <1>1, <2>6 DEF SInv, KeysMade, TInv, TypeOK
  <2>9. ASSUME NEW d \in Conns, pc'[d] = "claim"
        PROVE  <<Owner[d], Owner[Head(todo'[d])]>> \in Suited'
    BY <1>4, <2>4, <2>5, <2>7, <2>9 DEF SInv, ClaimSuits, other
  <2>10. ClaimSuits'
    BY <2>9 DEF ClaimSuits
  <2>11. RoomsSuit'
    BY <1>1, <2>7 DEF SInv, RoomsSuit
  <2> QED
    BY <2>8, <2>10, <2>11 DEF SInv
<1>5. CASE /\ todo' = [todo EXCEPT ![c] = Tail(@)]
           /\ GoTo(c, IF Tail(todo[c]) = <<>> THEN "enqueue" ELSE "scan")
  <2>1. \A d \in Conns \ {c} : todo'[d] = todo[d]
    BY <1>5 DEF TInv, TypeOK
  <2>2. Onward(c) /\ Unclaiming(c)
    BY <1>5, <2>1, GoesOnward DEF PC, Connecting
  <2> QED
    BY <1>1, <2>2, OnwardKeeps DEF KeysOnward, NoRoom
<1> QED
  BY <1>1, <1>4, <1>5

(* The room is made of the user who was found, whichever of his            *)
(* connections is in the queue by now.                                     *)
LEMMA ClaimKeepsSuits == ASSUME TInv, SInv, NEW c \in Conns, Claim(c) PROVE SInv'
<1> DEFINE other == Owner[Head(todo[c])]
           peer  == queue[Pos(queue, other)]
<1>1. /\ pc[c] = "claim" /\ Waits(queue, other)
      /\ partner' = [partner EXCEPT ![c] = peer]
      /\ live' = live \cup {c}
      /\ keys' = keys
      /\ GoTo(c, "propose") \/ \E q : Fail(c, q, {1, 2})
      /\ todo' = [todo EXCEPT ![c] = <<>>]
  BY DEF Claim
<1>2. peer \in Conns /\ Owner[peer] = other
  BY <1>1, PosFinds DEF TInv, TypeOK
<1>3. <<Owner[c], other>> \in Suited
  BY <1>1 DEF SInv, ClaimSuits
<1> HIDE DEF other, peer
<1>4. \A d \in Conns \ {c} : todo'[d] = todo[d]
  BY <1>1 DEF TInv, TypeOK
<1>5. Onward(c) /\ Unclaiming(c)
  BY <1>1, <1>4, GoesOnward, FailOnward DEF PC, Handling
<1>6. \A d \in Conns : pc[d] # "new" => pc'[d] # "new"
  BY <1>5 DEF Onward
<1>7. Suited \subseteq Suited'
  BY <1>6, SuitedGrows
<1>8. KeysMade'
  BY <1>1, <1>6 DEF SInv, KeysMade, TInv, TypeOK
<1>9. pc'[c] # "claim"
  <2>1. GoTo(c, "propose") \/ GoTo(c, "unkey") \/ GoTo(c, "walk")
    BY <1>1 DEF Fail, Sweep
  <2> QED
    BY <2>1 DEF GoTo, TInv, TypeOK
<1>10. ASSUME NEW d \in Conns, pc'[d] = "claim"
       PROVE  <<Owner[d], Owner[Head(todo'[d])]>> \in Suited'
  BY <1>5, <1>7, <1>9, <1>10 DEF SInv, ClaimSuits, Onward
<1>11. ClaimSuits'
  BY <1>10 DEF ClaimSuits
<1>12. partner'[c] = peer /\ \A r \in live \ {c} : partner'[r] = partner[r]
  BY <1>1, <1>2 DEF TInv, TypeOK
<1>13. ASSUME NEW r \in live' PROVE <<Owner[r], Owner[partner'[r]]>> \in Suited'
  BY <1>1, <1>2, <1>3, <1>7, <1>12 DEF SInv, RoomsSuit
<1>14. RoomsSuit'
  BY <1>13 DEF RoomsSuit
<1> QED
  BY <1>8, <1>11, <1>14 DEF SInv

LEMMA NextSInv == ASSUME IInv, SInv, [Next]_vars PROVE SInv'
<1> TInv /\ EnteredHeld
  BY DEF IInv
<1>1. ASSUME NEW c \in Conns, Open(c) \/ Close(c) \/ Receive(c) \/ Handle(c)
      PROVE  SInv'
  <2>1. CASE SetKey(c) \/ Scan(c) \/ Claim(c)
    BY <2>1, SetKeyKeeps, ScanKeeps, ClaimKeepsSuits
  <2>2. CASE ~(SetKey(c) \/ Scan(c) \/ Claim(c))
    <3>1. NoRoom
      BY <1>1, <2>2, HandlingHolds, SweepingHolds, EnteringHolds DEF Receive, Handle
    <3>2. keys' = keys => KeysOnward
      BY DEF KeysOnward
    <3>3. Onward(c) /\ Unclaiming(c) /\ KeysOnward
      BY <1>1, <2>2, <3>2, HandlingOnward, SweepingOnward DEF Receive, Handle
    <3> QED
      BY <3>1, <3>3, OnwardKeeps
  <2> QED
    BY <2>1, <2>2
<1>2. CASE Restart
  <2>1. /\ \A d \in Conns : pc[d] # "new" => pc'[d] # "new"
        /\ \A d \in Conns : pc'[d] # "claim"
        /\ live' = {} /\ keys' = keys
    BY <1>2 DEF Restart
  <2> QED
    BY <2>1 DEF SInv, KeysMade, ClaimSuits, RoomsSuit, TInv, TypeOK
<1>3. CASE \E u \in Users : Expire(u)
  <2>1. KeysOnward
    BY <1>3 DEF Expire, KeysOnward, TInv, TypeOK
  <2>2. UNCHANGED <<pc, todo, live, partner>>
    BY <1>3 DEF Expire, task
  <2>3. Suited' = Suited
    BY <2>2 DEF Suited
  <2> QED
    BY <2>1, <2>2, <2>3 DEF SInv, KeysMade, ClaimSuits, RoomsSuit, KeysOnward
<1>4. CASE UNCHANGED vars
  <2>1. UNCHANGED <<pc, todo, live, partner, keys>>
    BY <1>4 DEF vars
  <2>2. Suited' = Suited
    BY <2>1 DEF Suited
  <2> QED
    BY <2>1, <2>2 DEF SInv, KeysMade, ClaimSuits, RoomsSuit
<1> QED
  BY <1>1, <1>2, <1>3, <1>4 DEF Next, Over

(* Two users who are proposed to each other have asked for each other, for *)
(* any number of tabs with filters of their own and any interleaving.      *)
THEOREM ProposedAreSuited == Spec => []MatchesSuit
<1>1. Init => SInv
  BY DEF Init, SInv, KeysMade, ClaimSuits, RoomsSuit
<1>2. IInv /\ SInv => MatchesSuit
  BY DEF SInv, RoomsSuit, Suited, MatchesSuit
<1> QED
  BY <1>1, <1>2, Invariant, NextSInv, PTL DEF Spec
=============================================================================
