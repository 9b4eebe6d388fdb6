------------------------------ MODULE WorkerProofs ------------------------------
(* Proofs about Worker and its process pool, for any jobs, processes and   *)
(* limits.                                                                 *)
EXTENDS Worker, SequenceTheorems, TLAPS

-----------------------------------------------------------------------------
(* Lists without repetitions.                                              *)

(* Appending a new element.                                                *)
LEMMA AppendFacts ==
    ASSUME NEW S, NEW s \in Seq(S), NEW e \in S
    PROVE  /\ Append(s, e) \in Seq(S)
           /\ ToSet(Append(s, e)) = ToSet(s) \cup {e}
           /\ IsInjective(s) /\ e \notin ToSet(s) => IsInjective(Append(s, e))
<1> DEFINE t == Append(s, e)
<1>1. /\ t \in Seq(S) /\ Len(s) \in Nat
      /\ DOMAIN s = 1..Len(s) /\ DOMAIN t = 1..(Len(s) + 1)
      /\ \A i \in 1..Len(s) : t[i] = s[i]
      /\ t[Len(s) + 1] = e
  BY AppendProperties, LenProperties
<1> HIDE DEF t
<1>2. ToSet(t) = ToSet(s) \cup {e}
  BY <1>1 DEF ToSet
<1>3. IsInjective(s) /\ e \notin ToSet(s) => IsInjective(t)
  BY <1>1 DEF ToSet, IsInjective
<1> QED
  BY <1>1, <1>2, <1>3 DEF t

(* Taking the first element.                                               *)
LEMMA TailFacts ==
    ASSUME NEW S, NEW s \in Seq(S), s # <<>>
    PROVE  /\ Head(s) \in S /\ Head(s) \in ToSet(s)
           /\ Tail(s) \in Seq(S)
           /\ ToSet(Tail(s)) \subseteq ToSet(s)
           /\ IsInjective(s) => /\ IsInjective(Tail(s))
                                /\ ToSet(Tail(s)) = ToSet(s) \ {Head(s)}
<1> DEFINE t == Tail(s)
<1>1. /\ t \in Seq(S) /\ Head(s) \in S /\ Head(s) = s[1]
      /\ Len(s) \in Nat \ {0}
      /\ DOMAIN s = 1..Len(s) /\ DOMAIN t = 1..(Len(s) - 1)
      /\ \A i \in 1..(Len(s) - 1) : t[i] = s[i + 1]
  BY HeadTailProperties, LenProperties, EmptySeq
<1> HIDE DEF t
<1>2. Head(s) \in ToSet(s)
  BY <1>1 DEF ToSet
<1>3. ToSet(t) \subseteq ToSet(s)
  BY <1>1 DEF ToSet
<1>4. ASSUME IsInjective(s)
      PROVE  IsInjective(t) /\ ToSet(t) = ToSet(s) \ {Head(s)}
  <2>1. IsInjective(t)
    <3> SUFFICES ASSUME NEW k \in 1..(Len(s) - 1), NEW m \in 1..(Len(s) - 1), t[k] = t[m]
                 PROVE  k = m
      BY <1>1 DEF IsInjective
    <3>1. k + 1 \in DOMAIN s /\ m + 1 \in DOMAIN s /\ s[k + 1] = s[m + 1]
      BY <1>1
    <3>2. k + 1 = m + 1
      BY <1>4, <3>1 DEF IsInjective
    <3> QED
      BY <3>2
  <2>2. Head(s) \notin ToSet(t)
    BY <1>1, <1>4 DEF IsInjective, ToSet
  <2>3. ASSUME NEW x \in ToSet(s), x # Head(s) PROVE x \in ToSet(t)
    <3>1. PICK i \in 1..Len(s) : x = s[i]
      BY <1>1 DEF ToSet
    <3>2. i - 1 \in 1..(Len(s) - 1) /\ (i - 1) + 1 = i
      BY <1>1, <2>3, <3>1
    <3>3. t[i - 1] = x
      BY <1>1, <3>1, <3>2
    <3> QED
      BY <1>1, <3>2, <3>3 DEF ToSet
  <2> QED
    BY <1>3, <2>1, <2>2, <2>3
<1> QED
  BY <1>1, <1>2, <1>3, <1>4 DEF t

(* Striking an element off.                                                *)
LEMMA RemoveAtFacts ==
    ASSUME NEW S, NEW s \in Seq(S), IsInjective(s), NEW i \in 1..Len(s)
    PROVE  /\ RemoveAt(s, i) \in Seq(S)
           /\ IsInjective(RemoveAt(s, i))
           /\ ToSet(RemoveAt(s, i)) = ToSet(s) \ {s[i]}
<1> DEFINE e == s[i]
           a == SubSeq(s, 1, i - 1)
           b == SubSeq(s, i + 1, Len(s))
           t == a \o b
<1>1. /\ Len(s) \in Nat /\ DOMAIN s = 1..Len(s)
      /\ \A k \in 1..Len(s) : s[k] \in S
  BY LenProperties
<1>2. i \in 1..Len(s) /\ s[i] = e
  BY <1>1
<1>3. /\ a \in Seq(S) /\ Len(a) = i - 1
      /\ \A k \in 1..(i - 1) : a[k] = s[k]
  <2>1. i - 1 \in Int /\ \A k \in 1..(i - 1) : s[k] \in S
    BY <1>1, <1>2
  <2> QED
    BY <1>2, <2>1, SubSeqProperties
<1>4. /\ b \in Seq(S) /\ Len(b) = Len(s) - i
      /\ \A k \in 1..(Len(s) - i) : b[k] = s[i + k]
  <2>1. i + 1 \in Int /\ Len(s) \in Int /\ \A k \in (i + 1)..Len(s) : s[k] \in S
    BY <1>1, <1>2
  <2>2. /\ b \in Seq(S)
        /\ Len(b) = IF i + 1 <= Len(s) THEN Len(s) - (i + 1) + 1 ELSE 0
        /\ \A k \in 1..(Len(s) - (i + 1) + 1) : b[k] = s[(i + 1) + k - 1]
    BY <2>1, SubSeqProperties
  <2>3. Len(b) = Len(s) - i
    <3> HIDE DEF b
    <3>1. CASE i + 1 <= Len(s)
      <4>1. Len(b) = Len(s) - (i + 1) + 1
        BY <2>2, <3>1
      <4>2. Len(s) - (i + 1) + 1 = Len(s) - i
        BY <1>1, <1>2
      <4> QED
        BY <4>1, <4>2
    <3>2. CASE ~(i + 1 <= Len(s))
      <4>1. Len(b) = 0
        BY <2>2, <3>2
      <4>2. \A n \in Nat : \A k \in 1..n : ~(k + 1 <= n) => n - k = 0
        OBVIOUS
      <4>3. Len(s) - i = 0
        BY <1>1, <1>2, <3>2, <4>2
      <4> QED
        BY <4>1, <4>3
    <3> QED
      BY <3>1, <3>2
  <2>4. ASSUME NEW k \in 1..(Len(s) - i) PROVE b[k] = s[i + k]
    <3>1. k \in 1..(Len(s) - (i + 1) + 1) /\ (i + 1) + k - 1 = i + k
      BY <1>1, <1>2
    <3>2. b[k] = s[(i + 1) + k - 1]
      BY <2>2, <3>1
    <3> HIDE DEF b
    <3> QED
      BY <3>1, <3>2
  <2> QED
    BY <2>2, <2>3, <2>4
<1> HIDE DEF a, b
<1>5. /\ t \in Seq(S) /\ DOMAIN t = 1..(Len(s) - 1)
      /\ \A k \in 1..(Len(s) - 1) : t[k] = IF k < i THEN s[k] ELSE s[k + 1]
  <2>1. /\ t \in Seq(S) /\ Len(t) = Len(a) + Len(b)
        /\ \A k \in 1..(Len(a) + Len(b)) : t[k] = IF k <= Len(a) THEN a[k] ELSE b[k - Len(a)]
    BY <1>3, <1>4, ConcatProperties
  <2>2. Len(t) = Len(s) - 1 /\ DOMAIN t = 1..Len(t)
    BY <1>1, <1>2, <1>3, <1>4, <2>1, LenProperties
  <2>3. ASSUME NEW k \in 1..(Len(s) - 1)
        PROVE  t[k] = IF k < i THEN s[k] ELSE s[k + 1]
    <3>1. CASE k < i
      <4>1. k \in 1..(i - 1) /\ k \in 1..(Len(a) + Len(b)) /\ k <= Len(a)
        BY <1>1, <1>2, <1>3, <1>4, <3>1
      <4>2. t[k] = a[k] /\ a[k] = s[k]
        BY <1>3, <2>1, <4>1
      <4> QED
        BY <3>1, <4>2
    <3>2. CASE ~(k < i)
      <4>1. k - (i - 1) \in 1..(Len(s) - i) /\ i + (k - (i - 1)) = k + 1
        BY <1>1, <1>2, <3>2
      <4>2. t[k] = b[k - (i - 1)]
        BY <1>1, <1>2, <1>3, <1>4, <2>1, <3>2
      <4>3. b[k - (i - 1)] = s[i + (k - (i - 1))]
        BY <1>4, <4>1
      <4> QED
        BY <3>2, <4>1, <4>2, <4>3
    <3> QED
      BY <3>1, <3>2
  <2> QED
    BY <2>1, <2>2, <2>3
<1> HIDE DEF t
<1>6. IsInjective(t)
  <2> SUFFICES ASSUME NEW k \in 1..(Len(s) - 1), NEW m \in 1..(Len(s) - 1), t[k] = t[m]
               PROVE  k = m
    BY <1>5 DEF IsInjective
  <2> DEFINE up(n) == IF n < i THEN n ELSE n + 1
  <2>1. /\ up(k) \in DOMAIN s /\ up(m) \in DOMAIN s
        /\ t[k] = s[up(k)] /\ t[m] = s[up(m)]
    BY <1>1, <1>2, <1>5
  <2>2. up(k) = up(m)
    BY <2>1 DEF IsInjective
  <2> QED
    BY <1>2, <2>2
<1>7. ToSet(t) \subseteq ToSet(s) \ {e}
  <2> SUFFICES ASSUME NEW k \in 1..(Len(s) - 1) PROVE t[k] \in ToSet(s) \ {e}
    BY <1>5 DEF ToSet
  <2>1. PICK m \in 1..Len(s) : t[k] = s[m] /\ m # i
    <3>1. k \in 1..Len(s) /\ k + 1 \in 1..Len(s)
      BY <1>1, <1>2
    <3> QED
      BY <1>1, <1>2, <1>5, <3>1
  <2> QED
    BY <1>1, <1>2, <2>1 DEF IsInjective, ToSet
<1>8. ASSUME NEW x \in ToSet(s), x # e PROVE x \in ToSet(t)
  <2>1. PICK m \in 1..Len(s) : x = s[m]
    BY <1>1 DEF ToSet
  <2>2. CASE m < i
    <3>1. m \in 1..(Len(s) - 1) /\ t[m] = x
      BY <1>1, <1>2, <1>5, <2>1, <2>2
    <3> QED
      BY <1>5, <3>1 DEF ToSet
  <2>3. CASE m > i
    <3>1. m - 1 \in 1..(Len(s) - 1) /\ ~(m - 1 < i) /\ (m - 1) + 1 = m
      BY <1>1, <1>2, <2>1, <2>3
    <3>2. t[m - 1] = x
      BY <1>5, <2>1, <3>1
    <3> QED
      BY <1>5, <3>1, <3>2 DEF ToSet
  <2>4. m # i
    BY <1>2, <1>8, <2>1
  <2> QED
    BY <1>2, <2>1, <2>2, <2>3, <2>4
<1>9. RemoveAt(s, i) = t
  BY DEF RemoveAt, t, a, b
<1> QED
  BY <1>5, <1>6, <1>7, <1>8, <1>9

LEMMA RemoveFacts ==
    ASSUME NEW S, NEW s \in Seq(S), IsInjective(s), NEW e \in ToSet(s)
    PROVE  LET t == RemoveAt(s, CHOOSE i \in DOMAIN s : s[i] = e)
           IN  t \in Seq(S) /\ IsInjective(t) /\ ToSet(t) = ToSet(s) \ {e}
<1> DEFINE i == CHOOSE i \in DOMAIN s : s[i] = e
<1>1. i \in 1..Len(s) /\ s[i] = e
  BY LenProperties DEF ToSet
<1> HIDE DEF i
<1>2. /\ RemoveAt(s, i) \in Seq(S)
      /\ IsInjective(RemoveAt(s, i))
      /\ ToSet(RemoveAt(s, i)) = ToSet(s) \ {e}
  BY <1>1, RemoveAtFacts
<1> QED
  BY <1>2 DEF i
-----------------------------------------------------------------------------
(***************************************************************************)
(* The inductive invariant, in five parts.                                 *)
(***************************************************************************)

(* The getters of the queue are distinct jobs, in one of the two places.   *)
Getters ==
    /\ IsInjective(waiting)
    /\ ToSet(waiting) \cap woken = {}

(* The list holds each executor once, from its spawn task to the end of    *)
(* its monitor, and what runs is a process of one of these.                *)
Listed ==
    /\ IsInjective(executors)
    /\ \A p \in Procs : p \in ToSet(executors) <=> stage[p] \in {"up", "stuck"} \cup Spawning
    /\ \A p \in Procs : child[p] = "alive" => stage[p] \in {"started", "initializing", "up"}

(* The queue holds each warmed process once and without a job, and a job   *)
(* that a process has is one that was handed out, to no other process.     *)
Handed ==
    /\ IsInjective(warmed)
    /\ \A p \in ToSet(warmed) : stage[p] \in {"up", "closed"} /\ job[p] = None
    /\ \A p \in Procs : stage[p] \in {"none", "stuck"} \cup Spawning => job[p] = None
    /\ \A p \in Procs : job[p] # None => phase[job[p]] \in {"handed", "raised"}
    /\ \A p, q \in Procs : job[p] = job[q] => p = q \/ job[p] = None

(* What each gather of aclose leaves behind it.                            *)
Closing ==
    /\ Connected => pool = "open"
    /\ pool = "spawns" => SpawnTasks \subseteq awaited
    /\ pool = "monitors" =>
          \A p \in Procs : \/ stage[p] \in {"none", "closed"}
                           \/ stage[p] \in {"up", "stuck"} /\ p \in awaited
    /\ pool = "closed" => \A p \in Procs : stage[p] \in {"none", "closed"}

(* A job the server has not asked for has no request task.                 *)
Asked == \A j \in Jobs : server[j] = "new" => phase[j] = "none"

IInv == TypeOK /\ Getters /\ Listed /\ Handed /\ Closing /\ Asked

-----------------------------------------------------------------------------
(* Steps on the list of executors.                                         *)

(* The frame of a part: what it depends on is left alone.                  *)
LEMMA ListedFrame == Listed /\ UNCHANGED <<stage, child, executors>> => Listed'
  BY DEF Listed

LEMMA HandedFrame == Handed /\ UNCHANGED <<stage, job, warmed, phase>> => Handed'
  BY DEF Handed

LEMMA AskedFrame == Asked /\ UNCHANGED <<server, phase>> => Asked'
  BY DEF Asked

LEMMA ClosingFrame == Closing /\ UNCHANGED <<stage, pool, awaited, worker>> => Closing'
  BY DEF Closing, Connected, SpawnTasks

(* A spawn task appends a new executor.                                    *)
LEMMA SpawnStep ==
    ASSUME IInv, NEW p \in Procs, Spawn(p), UNCHANGED <<child, job, warmed>>,
           \A q \in Procs : job[q] # None => phase'[job[q]] = phase[job[q]]
    PROVE  /\ stage' \in [Procs -> {"none", "up", "stuck", "closed"} \cup Spawning]
           /\ executors' \in Seq(Procs)
           /\ Listed' /\ Handed'
<1>1. /\ stage \in [Procs -> {"none", "up", "stuck", "closed"} \cup Spawning]
      /\ stage[p] = "none" /\ stage' = [stage EXCEPT ![p] = "created"]
      /\ executors \in Seq(Procs) /\ executors' = Append(executors, p)
      /\ Listed /\ Handed
  BY DEF IInv, TypeOK, PoolTypeOK, Spawn
<1>2. stage' \in [Procs -> {"none", "up", "stuck", "closed"} \cup Spawning]
  BY <1>1 DEF Spawning
<1>3. p \notin ToSet(executors)
  BY <1>1 DEF Listed, Spawning
<1>4. /\ executors' \in Seq(Procs) /\ IsInjective(executors')
      /\ ToSet(executors') = ToSet(executors) \cup {p}
  BY <1>1, <1>3, AppendFacts DEF Listed
<1>5. Listed'
  BY <1>1, <1>4 DEF Listed, Spawning
<1>6. Handed'
  BY <1>1 DEF Handed, Spawning
<1> QED
  BY <1>2, <1>4, <1>5, <1>6

(* An executor whose process does not run is struck off.                   *)
LEMMA StruckStep ==
    ASSUME IInv, NEW p \in Procs, stage[p] \in {"created", "up"}, child[p] # "alive",
           stage' = [stage EXCEPT ![p] = "closed"], executors' = StruckOff(p),
           UNCHANGED <<child, job, warmed, phase>>
    PROVE  /\ stage' \in [Procs -> {"none", "up", "stuck", "closed"} \cup Spawning]
           /\ executors' \in Seq(Procs)
           /\ Listed' /\ Handed'
<1>1. /\ stage \in [Procs -> {"none", "up", "stuck", "closed"} \cup Spawning]
      /\ executors \in Seq(Procs) /\ Listed /\ Handed
  BY DEF IInv, TypeOK, PoolTypeOK
<1>2. stage' \in [Procs -> {"none", "up", "stuck", "closed"} \cup Spawning]
  BY <1>1
<1>3. p \in ToSet(executors)
  BY <1>1 DEF Listed, Spawning
<1>4. /\ executors' \in Seq(Procs) /\ IsInjective(executors')
      /\ ToSet(executors') = ToSet(executors) \ {p}
  BY <1>1, <1>3, RemoveFacts DEF Listed, StruckOff
<1>5. Listed'
  BY <1>1, <1>4 DEF Listed, Spawning
<1>6. Handed'
  BY <1>1 DEF Handed, Spawning
<1> QED
  BY <1>2, <1>4, <1>5, <1>6

-----------------------------------------------------------------------------
(* What the tasks of an executor and its process do.                       *)

(* What is queued for the server is a status of a job.                     *)
LEMMA QueueStep ==
    ASSUME TypeOK, NEW j \in Jobs, NEW s \in {"running", "success", "failed"},
           Queue(Update(j, s))
    PROVE  msgChan' \in Seq([job : Jobs, what : {"running", "success", "failed"}])
<1> DEFINE M == [job : Jobs, what : {"running", "success", "failed"}]
           m == Update(j, s)
<1>1. m \in M
  BY DEF Update
<1>2. msgChan \in Seq(M)
  BY DEF TypeOK
<1>3. msgChan' = Append(msgChan, m) \/ msgChan' = <<>>
  BY DEF Queue
<1> HIDE DEF M, m
<1>4. msgChan' \in Seq(M)
  <2>1. CASE msgChan' = Append(msgChan, m)
    BY <1>1, <1>2, <2>1, AppendProperties
  <2>2. CASE msgChan' = <<>>
    BY <2>2, EmptySeq
  <2> QED
    BY <1>3, <2>1, <2>2
<1> QED
  BY <1>4 DEF M

LEMMA RefillStep ==
    ASSUME IInv, NEW p \in Procs, Refill(p), UNCHANGED <<jobVars, worker, drainVars>>
    PROVE  IInv'
<1>1. /\ TypeOK /\ Getters /\ Closing
      /\ Spawn(p) /\ pool = "open"
      /\ UNCHANGED <<child, told, job, status, queue, numIdle, target, idleReady, closing, failures>>
  BY DEF IInv, Refill
<1>2. /\ stage' \in [Procs -> {"none", "up", "stuck", "closed"} \cup Spawning]
      /\ executors' \in Seq(Procs)
      /\ Listed' /\ Handed'
  BY <1>1, SpawnStep DEF queue, jobVars
<1>3. Closing'
  BY <1>1 DEF Closing, Connected, closing
<1>4. Getters' /\ Getting' = Getting
  BY <1>1 DEF Getters, Getting, queue
<1>5. TypeOK'
  BY <1>1, <1>2, <1>4 DEF TypeOK, PoolTypeOK, queue, closing, jobVars, drainVars
<1> QED
  BY <1>2, <1>3, <1>4, <1>5, AskedFrame DEF IInv, jobVars

LEMMA BeginStartStep ==
    ASSUME IInv, NEW p \in Procs, BeginStart(p), UNCHANGED <<jobVars, worker, drainVars>>
    PROVE  IInv'
<1>1. /\ TypeOK /\ Getters /\ Listed /\ Handed /\ Closing
      /\ stage \in [Procs -> {"none", "up", "stuck", "closed"} \cup Spawning]
      /\ executors \in Seq(Procs)
      /\ stage[p] = "created"
      /\ UNCHANGED <<child, told, job, status, queue, numIdle, target, idleReady, closing, failures>>
      /\ UNCHANGED <<warmed, phase, waiting, woken, pool, awaited, worker>>
  BY DEF IInv, BeginStart, TypeOK, PoolTypeOK, queue, closing, jobVars
<1>2. /\ stage' \in [Procs -> {"none", "up", "stuck", "closed"} \cup Spawning]
      /\ executors' \in Seq(Procs)
      /\ Listed' /\ Handed'
  <2>1. CASE pool = "open"
    <3>1. stage' = [stage EXCEPT ![p] = "starting"] /\ executors' = executors
      BY <2>1 DEF BeginStart
    <3>2. stage' \in [Procs -> {"none", "up", "stuck", "closed"} \cup Spawning]
      BY <1>1, <3>1 DEF Spawning
    <3>3. Listed'
      BY <1>1, <3>1 DEF Listed, Spawning
    <3>4. Handed'
      BY <1>1, <3>1 DEF Handed, Spawning
    <3> QED
      BY <1>1, <3>1, <3>2, <3>3, <3>4
  <2>2. CASE pool # "open"
    <3>1. stage' = [stage EXCEPT ![p] = "closed"] /\ executors' = StruckOff(p)
      BY <2>2 DEF BeginStart
    <3>2. child[p] # "alive"
      BY <1>1 DEF Listed
    <3> QED
      BY <1>1, <3>1, <3>2, StruckStep
  <2> QED
    BY <2>1, <2>2
<1>3. Closing'
  <2>1. stage' \in {[stage EXCEPT ![p] = "starting"], [stage EXCEPT ![p] = "closed"]}
    BY DEF BeginStart
  <2> QED
    BY <1>1, <2>1 DEF Closing, Connected, SpawnTasks, Spawning
<1>4. Getters' /\ Getting' = Getting
  BY <1>1 DEF Getters, Getting
<1>5. TypeOK'
  BY <1>1, <1>2, <1>4 DEF TypeOK, PoolTypeOK, queue, closing, jobVars, drainVars
<1> QED
  BY <1>2, <1>3, <1>4, <1>5, AskedFrame DEF IInv, jobVars

LEMMA StartStep ==
    ASSUME IInv, NEW p \in Procs, Start(p), UNCHANGED <<jobVars, worker, drainVars>>
    PROVE  IInv'
<1>1. /\ TypeOK /\ Getters /\ Listed /\ Handed /\ Closing
      /\ stage \in [Procs -> {"none", "up", "stuck", "closed"} \cup Spawning]
      /\ child \in [Procs -> {"none", "alive", "exited", "killed"}]
      /\ stage[p] = "starting"
      /\ stage' = [stage EXCEPT ![p] = "started"]
      /\ child' = [child EXCEPT ![p] = "alive"]
      /\ UNCHANGED <<told, job, status, executors, queue, numIdle, target, idleReady, closing, failures>>
      /\ UNCHANGED <<warmed, phase, waiting, woken, pool, awaited, worker>>
  BY DEF IInv, Start, TypeOK, PoolTypeOK, queue, closing, jobVars
<1>2. /\ stage' \in [Procs -> {"none", "up", "stuck", "closed"} \cup Spawning]
      /\ child' \in [Procs -> {"none", "alive", "exited", "killed"}]
  BY <1>1 DEF Spawning
<1>3. Listed'
  BY <1>1 DEF Listed, Spawning
<1>4. Handed'
  BY <1>1 DEF Handed, Spawning
<1>5. Closing'
  BY <1>1 DEF Closing, Connected, SpawnTasks, Spawning
<1>6. Getters' /\ Getting' = Getting
  BY <1>1 DEF Getters, Getting
<1>7. TypeOK'
  BY <1>1, <1>2, <1>6 DEF TypeOK, PoolTypeOK, queue, closing, jobVars, drainVars
<1> QED
  BY <1>3, <1>4, <1>5, <1>6, <1>7, AskedFrame DEF IInv, jobVars

LEMMA SendInitializeStep ==
    ASSUME IInv, NEW p \in Procs, SendInitialize(p), UNCHANGED <<jobVars, worker, drainVars>>
    PROVE  IInv'
<1>1. /\ TypeOK /\ Getters /\ Listed /\ Handed /\ Closing
      /\ stage \in [Procs -> {"none", "up", "stuck", "closed"} \cup Spawning]
      /\ stage[p] = "started"
      /\ \/ stage' = [stage EXCEPT ![p] = "initializing"]
         \/ child[p] # "alive" /\ stage' = [stage EXCEPT ![p] = "stuck"]
      /\ UNCHANGED <<child, told, job, status, executors, queue, numIdle, target, idleReady, closing, failures>>
      /\ UNCHANGED <<warmed, phase, waiting, woken, pool, awaited, worker>>
  BY DEF IInv, SendInitialize, Ended, TypeOK, PoolTypeOK, queue, closing, jobVars
<1>2. stage' \in [Procs -> {"none", "up", "stuck", "closed"} \cup Spawning]
  BY <1>1 DEF Spawning
<1>3. Listed'
  BY <1>1 DEF Listed, Spawning
<1>4. Handed'
  <2>1. CASE stage' = [stage EXCEPT ![p] = "initializing"]
    BY <1>1, <2>1 DEF Handed, Spawning
  <2>2. CASE stage' = [stage EXCEPT ![p] = "stuck"]
    BY <1>1, <2>2 DEF Handed, Spawning
  <2> QED
    BY <1>1, <2>1, <2>2
<1>5. Closing'
  BY <1>1 DEF Closing, Connected, SpawnTasks, Spawning
<1>6. Getters' /\ Getting' = Getting
  BY <1>1 DEF Getters, Getting
<1>7. TypeOK'
  BY <1>1, <1>2, <1>6 DEF TypeOK, PoolTypeOK, queue, closing, jobVars, drainVars
<1> QED
  BY <1>3, <1>4, <1>5, <1>6, <1>7, AskedFrame DEF IInv, jobVars

(* The process is queued; the first getter, if any, is woken.              *)
LEMMA InitializedStep ==
    ASSUME IInv, NEW p \in Procs, Initialized(p), UNCHANGED <<jobVars, worker, drainVars>>
    PROVE  IInv'
<1>1. /\ TypeOK /\ Getters /\ Listed /\ Handed /\ Closing
      /\ stage \in [Procs -> {"none", "up", "stuck", "closed"} \cup Spawning]
      /\ warmed \in Seq(Procs) /\ waiting \in Seq(Jobs) /\ woken \subseteq Jobs
      /\ stage[p] = "initializing"
      /\ stage' = [stage EXCEPT ![p] = "up"]
      /\ PutWarmed(p)
      /\ idleReady' = (idleReady \/ Len(warmed') >= numIdle)
      /\ UNCHANGED <<numIdle, child, told, job, status, executors, target, closing, failures>>
      /\ UNCHANGED <<phase, pool, awaited, worker>>
  BY DEF IInv, Initialized, TypeOK, PoolTypeOK, closing, jobVars
<1>2. stage' \in [Procs -> {"none", "up", "stuck", "closed"} \cup Spawning]
  BY <1>1 DEF Spawning
<1>3. p \notin ToSet(warmed) /\ job[p] = None
  BY <1>1 DEF Handed, Spawning
<1>4. /\ warmed' \in Seq(Procs)
      /\ ToSet(warmed') = ToSet(warmed) \cup {p}
      /\ IsInjective(warmed')
  BY <1>1, <1>3, AppendFacts DEF Handed, PutWarmed
<1>5. Listed'
  BY <1>1 DEF Listed, Spawning
<1>6. Handed'
  <2>1. \A q \in ToSet(warmed') : stage'[q] \in {"up", "closed"} /\ job'[q] = None
    <3>1. ToSet(warmed) \subseteq Procs
      BY <1>1, LenProperties DEF ToSet
    <3> QED
      BY <1>1, <1>3, <1>4, <3>1 DEF Handed
  <2> QED
    BY <1>1, <1>3, <1>4, <2>1 DEF Handed, Spawning
<1>7. Closing'
  BY <1>1 DEF Closing, Connected, SpawnTasks, Spawning
<1>8. Getters' /\ Getting' = Getting /\ waiting' \in Seq(Jobs) /\ woken' \subseteq Jobs
  <2>1. CASE waiting = <<>>
    BY <1>1, <2>1 DEF PutWarmed, Getters, Getting
  <2>2. CASE waiting # <<>>
    <3>1. woken' = woken \cup {Head(waiting)} /\ waiting' = Tail(waiting)
      BY <1>1, <2>2 DEF PutWarmed
    <3>2. /\ Head(waiting) \in Jobs /\ Head(waiting) \in ToSet(waiting)
          /\ waiting' \in Seq(Jobs) /\ IsInjective(waiting')
          /\ ToSet(waiting') = ToSet(waiting) \ {Head(waiting)}
      BY <1>1, <2>2, <3>1, TailFacts DEF Getters
    <3> QED
      BY <1>1, <3>1, <3>2 DEF Getters, Getting
  <2> QED
    BY <2>1, <2>2
<1>9. idleReady' \in BOOLEAN
  BY <1>1
<1>10. TypeOK'
  <2>1. Getting' = {j \in Jobs : phase'[j] = "launching"}
    BY <1>1, <1>8 DEF TypeOK
  <2> QED
    BY <1>1, <1>2, <1>4, <1>8, <1>9, <2>1 DEF TypeOK, PoolTypeOK, closing, jobVars, drainVars
<1> QED
  BY <1>5, <1>6, <1>7, <1>8, <1>10, AskedFrame DEF IInv, jobVars

LEMMA InitializeFailsStep ==
    ASSUME IInv, NEW p \in Procs, InitializeFails(p), UNCHANGED <<jobVars, worker, drainVars>>
    PROVE  IInv'
<1>1. /\ TypeOK /\ Getters /\ Listed /\ Handed /\ Closing
      /\ stage \in [Procs -> {"none", "up", "stuck", "closed"} \cup Spawning]
      /\ child \in [Procs -> {"none", "alive", "exited", "killed"}]
      /\ failures \in 0..MaxFailures
      /\ stage[p] = "initializing"
      /\ stage' = [stage EXCEPT ![p] = "up"]
      /\ child' \in {child, [child EXCEPT ![p] = "killed"]}
      /\ failures' = failures \/ (failures < MaxFailures /\ failures' = failures + 1)
      /\ UNCHANGED <<told, job, status, executors, queue, numIdle, target, idleReady, closing>>
      /\ UNCHANGED <<warmed, phase, waiting, woken, pool, awaited, worker>>
  BY DEF IInv, InitializeFails, TypeOK, PoolTypeOK, queue, closing, jobVars
<1>2. /\ stage' \in [Procs -> {"none", "up", "stuck", "closed"} \cup Spawning]
      /\ child' \in [Procs -> {"none", "alive", "exited", "killed"}]
  BY <1>1 DEF Spawning
<1>3. failures' \in 0..MaxFailures
  BY <1>1, MaxFailuresAssumption
<1>4. Listed'
  BY <1>1 DEF Listed, Spawning
<1>5. Handed'
  BY <1>1 DEF Handed, Spawning
<1>6. Closing'
  BY <1>1 DEF Closing, Connected, SpawnTasks, Spawning
<1>7. Getters' /\ Getting' = Getting
  BY <1>1 DEF Getters, Getting
<1>8. TypeOK'
  BY <1>1, <1>2, <1>3, <1>7 DEF TypeOK, PoolTypeOK, queue, closing, jobVars, drainVars
<1> QED
  BY <1>4, <1>5, <1>6, <1>7, <1>8, AskedFrame DEF IInv, jobVars

(* A process ends, of itself or killed.                                    *)
LEMMA DiesStep ==
    ASSUME IInv, NEW p \in Procs, NEW how \in {"exited", "killed"}, Dies(p, how),
           failures' = failures \/ (failures < MaxFailures /\ failures' = failures + 1),
           UNCHANGED <<jobVars, worker, drainVars>>
    PROVE  IInv'
<1>1. /\ TypeOK /\ Getters /\ Listed /\ Handed /\ Closing
      /\ child \in [Procs -> {"none", "alive", "exited", "killed"}]
      /\ failures \in 0..MaxFailures
      /\ child' = [child EXCEPT ![p] = how]
      /\ UNCHANGED <<stage, told, job, status, executors, queue, numIdle, target, idleReady, closing>>
      /\ UNCHANGED <<warmed, phase, waiting, woken, pool, awaited, worker>>
  BY DEF IInv, Dies, TypeOK, PoolTypeOK, queue, closing, jobVars
<1>2. child' \in [Procs -> {"none", "alive", "exited", "killed"}]
  BY <1>1
<1>3. failures' \in 0..MaxFailures
  BY <1>1, MaxFailuresAssumption
<1>4. Listed'
  BY <1>1 DEF Listed, Spawning
<1>5. Getters' /\ Getting' = Getting
  BY <1>1 DEF Getters, Getting
<1>6. TypeOK'
  BY <1>1, <1>2, <1>3, <1>5 DEF TypeOK, PoolTypeOK, queue, closing, jobVars, drainVars
<1> QED
  BY <1>1, <1>4, <1>5, <1>6, HandedFrame, ClosingFrame, AskedFrame DEF IInv, jobVars

(* The monitor of an executor whose process has ended strikes it off.      *)
LEMMA JobClosedStep ==
    ASSUME IInv, NEW p \in Procs, JobClosed(p)
    PROVE  IInv'
<1>1. /\ TypeOK /\ Getters /\ Listed /\ Handed /\ Closing
      /\ stage \in [Procs -> {"none", "up", "stuck", "closed"} \cup Spawning]
      /\ status \in [Procs -> {"none", "running", "success", "failed"}]
      /\ job \in [Procs -> Jobs \cup {None}]
      /\ child \in [Procs -> {"none", "alive", "exited", "killed"}]
      /\ stage[p] = "up" /\ child[p] \in {"exited", "killed"}
      /\ stage' = [stage EXCEPT ![p] = "closed"]
      /\ executors' = StruckOff(p)
      /\ told' = told \ {p}
      /\ UNCHANGED <<child, job, queue, numIdle, target, idleReady, closing, failures>>
      /\ UNCHANGED <<server, phase, inFlight, drops, worker, drainVars>>
      /\ UNCHANGED <<warmed, waiting, woken, pool, awaited>>
  BY DEF IInv, JobClosed, ProcessClosed, Ended, TypeOK, PoolTypeOK, queue, closing
<1>2. /\ status' \in [Procs -> {"none", "running", "success", "failed"}]
      /\ job[p] # None => status'[p] \in {"success", "failed"}
  BY <1>1 DEF JobClosed, ProcessClosed
<1>3. msgChan' \in Seq([job : Jobs, what : {"running", "success", "failed"}])
  <2>1. CASE job[p] = None
    BY <1>1, <2>1 DEF JobClosed, TypeOK
  <2>2. CASE job[p] # None
    <3>1. job[p] \in Jobs
      BY <1>1, <2>2
    <3>2. Queue(Update(job[p], status'[p]))
      BY <2>2 DEF JobClosed
    <3> QED
      BY <1>1, <1>2, <2>2, <3>1, <3>2, QueueStep
  <2> QED
    BY <2>1, <2>2
<1>4. /\ stage' \in [Procs -> {"none", "up", "stuck", "closed"} \cup Spawning]
      /\ executors' \in Seq(Procs)
      /\ Listed' /\ Handed'
  BY <1>1, StruckStep
<1>5. Closing'
  BY <1>1 DEF Closing, Connected, SpawnTasks, Spawning
<1>6. Getters' /\ Getting' = Getting
  BY <1>1 DEF Getters, Getting
<1>7. TypeOK'
  BY <1>1, <1>2, <1>3, <1>4, <1>6 DEF TypeOK, PoolTypeOK, queue, closing, drainVars
<1> QED
  BY <1>1, <1>4, <1>5, <1>6, <1>7, AskedFrame DEF IInv

LEMMA ExecutorStep ==
    ASSUME IInv, NEW p \in Procs, Executor(p) \/ ProcessEnds(p)
    PROVE  IInv'
<1>1. CASE CloseTimeout(p) /\ UNCHANGED <<jobVars, worker, drainVars>>
  BY <1>1, DiesStep DEF CloseTimeout
<1>2. CASE Crash(p) /\ UNCHANGED <<jobVars, worker, drainVars>>
  BY <1>2, DiesStep DEF Crash
<1>3. CASE Exit(p) /\ UNCHANGED <<jobVars, worker, drainVars>>
  BY <1>3, DiesStep DEF Exit
<1> QED
  BY <1>1, <1>2, <1>3, RefillStep, BeginStartStep, StartStep, SendInitializeStep, InitializedStep,
     InitializeFailsStep, JobClosedStep DEF Executor, ProcessEnds

-----------------------------------------------------------------------------
(* Jobs and the connection.                                                *)

(* A process is handed to a job that has none.                             *)
LEMMA HandStep ==
    ASSUME IInv, NEW j \in Jobs, NEW raises \in BOOLEAN,
           phase[j] \in {"answered", "launching"},
           warmed # <<>>, Hand(Head(warmed), j, raises), Launched(j, raises),
           UNCHANGED stage
    PROVE  /\ job' \in [Procs -> Jobs \cup {None}]
           /\ status' \in [Procs -> {"none", "running", "success", "failed"}]
           /\ warmed' \in Seq(Procs)
           /\ phase' \in [Jobs -> {"none", "answered", "timedout", "launching", "handed", "raised"}]
           /\ phase'[j] \in {"handed", "raised"}
           /\ \A k \in Jobs \ {j} : phase'[k] = phase[k]
           /\ msgChan' \in Seq([job : Jobs, what : {"running", "success", "failed"}])
           /\ Handed'
<1> DEFINE p == Head(warmed)
<1>1. /\ TypeOK /\ Handed
      /\ stage \in [Procs -> {"none", "up", "stuck", "closed"} \cup Spawning]
      /\ job \in [Procs -> Jobs \cup {None}]
      /\ status \in [Procs -> {"none", "running", "success", "failed"}]
      /\ phase \in [Jobs -> {"none", "answered", "timedout", "launching", "handed", "raised"}]
      /\ warmed \in Seq(Procs)
      /\ None \notin Jobs
  BY NoneAssumption DEF IInv, TypeOK, PoolTypeOK
<1>2. /\ p \in Procs /\ p \in ToSet(warmed)
      /\ Tail(warmed) \in Seq(Procs) /\ IsInjective(Tail(warmed))
      /\ ToSet(Tail(warmed)) = ToSet(warmed) \ {p}
  BY <1>1, TailFacts DEF Handed
<1>3. /\ job' = [job EXCEPT ![p] = j]
      /\ status' = [status EXCEPT ![p] = "running"]
      /\ warmed' = Tail(warmed)
  BY DEF Hand
<1>4. phase' = [phase EXCEPT ![j] = IF raises THEN "raised" ELSE "handed"]
  BY DEF Launched
<1> HIDE DEF p
<1>5. /\ phase' \in [Jobs -> {"none", "answered", "timedout", "launching", "handed", "raised"}]
      /\ phase'[j] \in {"handed", "raised"}
      /\ \A k \in Jobs \ {j} : phase'[k] = phase[k]
  BY <1>1, <1>4
<1>6. msgChan' \in Seq([job : Jobs, what : {"running", "success", "failed"}])
  <2>1. CASE raises
    BY <1>1, <2>1 DEF Launched, TypeOK
  <2>2. CASE ~raises
    BY <1>1, <2>2, QueueStep DEF Launched
  <2> QED
    BY <2>1, <2>2
<1>7. \A q \in Procs : job[q] # j
  BY <1>1 DEF Handed
<1>8. Handed'
  <2>1. IsInjective(warmed')
    BY <1>2, <1>3
  <2>2. \A q \in ToSet(warmed') : stage'[q] \in {"up", "closed"} /\ job'[q] = None
    <3>1. ToSet(warmed) \subseteq Procs
      BY <1>1, LenProperties DEF ToSet
    <3> QED
      BY <1>1, <1>2, <1>3, <3>1 DEF Handed
  <2>3. \A q \in Procs : stage'[q] \in {"none", "stuck"} \cup Spawning => job'[q] = None
    <3>1. stage[p] \in {"up", "closed"}
      BY <1>1, <1>2 DEF Handed
    <3> QED
      BY <1>1, <1>2, <1>3, <3>1 DEF Handed, Spawning
  <2>4. \A q \in Procs : job'[q] # None => phase'[job'[q]] \in {"handed", "raised"}
    BY <1>1, <1>2, <1>3, <1>5, <1>7 DEF Handed
  <2>5. \A q, r \in Procs : job'[q] = job'[r] => q = r \/ job'[q] = None
    BY <1>1, <1>2, <1>3, <1>7 DEF Handed
  <2> QED
    BY <2>1, <2>2, <2>3, <2>4, <2>5 DEF Handed
<1>9. /\ job' \in [Procs -> Jobs \cup {None}]
      /\ status' \in [Procs -> {"none", "running", "success", "failed"}]
      /\ warmed' \in Seq(Procs)
  BY <1>1, <1>2, <1>3
<1> QED
  BY <1>5, <1>6, <1>8, <1>9

LEMMA HandleAssignmentStep ==
    ASSUME IInv, NEW j \in Jobs, HandleAssignment(j)
    PROVE  IInv'
<1>1. /\ TypeOK /\ Getters /\ Listed /\ Handed /\ Closing
      /\ inFlight' \subseteq Jobs
      /\ pool = "open" /\ Asked
      /\ UNCHANGED <<server, drops, worker, drainVars>>
  BY DEF IInv, HandleAssignment, TypeOK, Closing
<1>2. ASSUME phase[j] = "answered", NEW raises \in BOOLEAN, LaunchNow(j, raises), Launched(j, raises)
      PROVE  IInv'
  <2>1. /\ warmed # <<>> /\ Hand(Head(warmed), j, raises)
        /\ UNCHANGED <<numIdle, stage, child, told, executors, waiting, woken, target, idleReady,
                       closing, failures>>
        /\ UNCHANGED <<pool, awaited>>
    BY <1>2 DEF LaunchNow, closing
  <2>2. /\ job' \in [Procs -> Jobs \cup {None}]
        /\ status' \in [Procs -> {"none", "running", "success", "failed"}]
        /\ warmed' \in Seq(Procs)
        /\ phase' \in [Jobs -> {"none", "answered", "timedout", "launching", "handed", "raised"}]
        /\ phase'[j] \in {"handed", "raised"}
        /\ \A k \in Jobs \ {j} : phase'[k] = phase[k]
        /\ msgChan' \in Seq([job : Jobs, what : {"running", "success", "failed"}])
        /\ Handed'
    BY <1>2, <2>1, HandStep
  <2>3. Listed' /\ Closing' /\ Getters'
    BY <1>1, <2>1, ListedFrame, ClosingFrame DEF Getters
  <2>4. Getting' = {k \in Jobs : phase'[k] = "launching"}
    <3>1. Getting' = Getting
      BY <2>1 DEF Getting
    <3> QED
      BY <1>1, <1>2, <2>2, <3>1 DEF TypeOK
  <2>5. TypeOK'
    BY <1>1, <2>1, <2>2, <2>4 DEF TypeOK, PoolTypeOK, closing, drainVars
  <2> QED
    BY <1>1, <1>2, <2>2, <2>3, <2>5 DEF IInv, Asked
<1>3. ASSUME phase[j] = "answered", LaunchLater(j), phase' = [phase EXCEPT ![j] = "launching"],
             UNCHANGED msgChan
      PROVE  IInv'
  <2>1. /\ waiting' = Append(waiting, j)
        /\ UNCHANGED <<numIdle, child, told, job, status, warmed, woken, target, idleReady, closing,
                       failures>>
        /\ UNCHANGED <<pool, awaited>>
        /\ waiting \in Seq(Jobs) /\ woken \subseteq Jobs
        /\ phase \in [Jobs -> {"none", "answered", "timedout", "launching", "handed", "raised"}]
        /\ \A q \in Procs : job[q] \in Jobs \cup {None}
    BY <1>1, <1>3 DEF LaunchLater, closing, TypeOK, PoolTypeOK
  <2>2. /\ phase' \in [Jobs -> {"none", "answered", "timedout", "launching", "handed", "raised"}]
        /\ {k \in Jobs : phase'[k] = "launching"} = {k \in Jobs : phase[k] = "launching"} \cup {j}
    BY <1>3, <2>1
  <2>3. j \notin ToSet(waiting) /\ j \notin woken
    BY <1>1, <1>3 DEF TypeOK, Getting
  <2>4. /\ waiting' \in Seq(Jobs) /\ IsInjective(waiting')
        /\ ToSet(waiting') = ToSet(waiting) \cup {j}
    BY <1>1, <2>1, <2>3, AppendFacts DEF Getters
  <2>5. Getters' /\ Getting' = Getting \cup {j}
    BY <1>1, <2>1, <2>3, <2>4 DEF Getters, Getting
  <2>6. /\ stage' \in [Procs -> {"none", "up", "stuck", "closed"} \cup Spawning]
        /\ executors' \in Seq(Procs)
        /\ Listed' /\ Handed'
    <3>0. ASSUME Handed, UNCHANGED <<stage, job, warmed>> PROVE Handed'
      <4>1. \A q \in Procs : job[q] # None => phase'[job[q]] \in {"handed", "raised"}
        BY <1>3, <2>1, <3>0 DEF Handed
      <4> QED
        BY <3>0, <4>1 DEF Handed
    <3>1. CASE UNCHANGED <<stage, executors>>
      BY <1>1, <2>1, <3>0, <3>1, ListedFrame DEF TypeOK, PoolTypeOK
    <3>2. ASSUME NEW p \in Procs, Spawn(p)
          PROVE  /\ stage' \in [Procs -> {"none", "up", "stuck", "closed"} \cup Spawning]
                 /\ executors' \in Seq(Procs)
                 /\ Listed' /\ Handed'
      <4>1. \A q \in Procs : job[q] # None => phase'[job[q]] = phase[job[q]]
        BY <1>1, <1>3, <2>1 DEF Handed
      <4> QED
        BY <2>1, <3>2, <4>1, SpawnStep
    <3> QED
      BY <1>3, <3>1, <3>2 DEF LaunchLater
  <2>7. Closing'
    BY <1>1, <2>1 DEF Closing, Connected
  <2>8. Getting' = {k \in Jobs : phase'[k] = "launching"}
    BY <1>1, <2>2, <2>5 DEF TypeOK
  <2>9. TypeOK'
    BY <1>1, <1>3, <2>1, <2>2, <2>4, <2>6, <2>8 DEF TypeOK, PoolTypeOK, closing, drainVars
  <2> QED
    BY <1>1, <1>3, <2>1, <2>5, <2>6, <2>7, <2>9 DEF IInv, Asked
<1>4. ASSUME phase[j] = "timedout", UNCHANGED <<poolVars, phase, msgChan>>
      PROVE  IInv'
  <2>1. UNCHANGED <<stage, child, told, job, status, executors, warmed, waiting, woken, numIdle,
                    target, idleReady, pool, awaited, failures, phase, msgChan>>
    BY <1>4 DEF poolVars, procVars, queue, closing
  <2>2. Listed' /\ Handed' /\ Closing' /\ Getters' /\ Getting' = Getting
    BY <1>1, <2>1, ListedFrame, HandedFrame, ClosingFrame DEF Getters, Getting
  <2>3. TypeOK'
    BY <1>1, <2>1, <2>2 DEF TypeOK, PoolTypeOK, drainVars
  <2> QED
    BY <1>1, <2>1, <2>2, <2>3, AskedFrame DEF IInv
<1> QED
  BY <1>2, <1>3, <1>4 DEF HandleAssignment

LEMMA TakeProcessStep ==
    ASSUME IInv, NEW j \in Jobs, TakeProcess(j)
    PROVE  IInv'
<1>1. /\ TypeOK /\ Getters /\ Listed /\ Handed /\ Closing
      /\ waiting \in Seq(Jobs) /\ woken \subseteq Jobs /\ Asked
      /\ UNCHANGED <<server, inFlight, drops, worker, drainVars>>
  BY DEF IInv, TakeProcess, TypeOK, PoolTypeOK
<1>2. ASSUME NEW raises \in BOOLEAN, Take(j, raises), Launched(j, raises)
      PROVE  IInv'
  <2>1. /\ j \in woken /\ woken' = woken \ {j}
        /\ warmed # <<>> /\ Hand(Head(warmed), j, raises)
        /\ UNCHANGED <<numIdle, stage, child, told, executors, waiting, target, idleReady,
                       closing, failures>>
        /\ UNCHANGED <<pool, awaited>>
    BY <1>2 DEF Take, closing
  <2>2. phase[j] = "launching"
    BY <1>1, <2>1 DEF TypeOK, Getting
  <2>3. /\ job' \in [Procs -> Jobs \cup {None}]
        /\ status' \in [Procs -> {"none", "running", "success", "failed"}]
        /\ warmed' \in Seq(Procs)
        /\ phase' \in [Jobs -> {"none", "answered", "timedout", "launching", "handed", "raised"}]
        /\ phase'[j] \in {"handed", "raised"}
        /\ \A k \in Jobs \ {j} : phase'[k] = phase[k]
        /\ msgChan' \in Seq([job : Jobs, what : {"running", "success", "failed"}])
        /\ Handed'
    BY <1>2, <2>1, <2>2, HandStep
  <2>4. Listed' /\ Closing'
    BY <1>1, <2>1, ListedFrame, ClosingFrame
  <2>5. Getters' /\ Getting' = Getting \ {j} /\ woken' \subseteq Jobs
    BY <1>1, <2>1 DEF Getters, Getting
  <2>6. Getting' = {k \in Jobs : phase'[k] = "launching"}
    BY <1>1, <2>3, <2>5 DEF TypeOK
  <2>7. TypeOK'
    BY <1>1, <2>1, <2>3, <2>5, <2>6 DEF TypeOK, PoolTypeOK, closing, drainVars
  <2> QED
    BY <1>1, <2>2, <2>3, <2>4, <2>5, <2>7 DEF IInv, Asked
<1>3. ASSUME WaitAgain(j), UNCHANGED <<phase, msgChan>>
      PROVE  IInv'
  <2>1. /\ j \in woken /\ woken' = woken \ {j} /\ waiting' = Append(waiting, j)
        /\ UNCHANGED <<stage, child, told, job, status, executors, warmed, numIdle, target,
                       idleReady, pool, awaited, failures, phase>>
    BY <1>3 DEF WaitAgain, procVars, closing
  <2>2. j \notin ToSet(waiting)
    BY <1>1, <2>1 DEF Getters
  <2>3. /\ waiting' \in Seq(Jobs) /\ IsInjective(waiting')
        /\ ToSet(waiting') = ToSet(waiting) \cup {j}
    BY <1>1, <2>1, <2>2, AppendFacts DEF Getters
  <2>4. Getters' /\ Getting' = Getting /\ woken' \subseteq Jobs
    BY <1>1, <2>1, <2>3 DEF Getters, Getting
  <2>5. Listed' /\ Handed' /\ Closing'
    BY <1>1, <2>1, ListedFrame, HandedFrame, ClosingFrame
  <2>6. TypeOK'
    BY <1>1, <1>3, <2>1, <2>3, <2>4 DEF TypeOK, PoolTypeOK, drainVars
  <2> QED
    BY <1>1, <2>1, <2>4, <2>5, <2>6, AskedFrame DEF IInv
<1> QED
  BY <1>2, <1>3 DEF TakeProcess

(* Steps that leave the executors and the queue alone, and change a        *)
(* request task only between states in which it has no process.            *)
LEMMA FrameStep ==
    ASSUME IInv, TypeOK', Asked',
           UNCHANGED <<stage, child, job, executors, warmed, waiting, woken, pool, awaited, worker>>,
           \A q \in Procs : job[q] # None => phase'[job[q]] = phase[job[q]]
    PROVE  IInv'
<1>1. Listed /\ Handed /\ Closing /\ Getters
  BY DEF IInv
<1>2. Listed' /\ Closing' /\ Getters'
  BY <1>1, ListedFrame, ClosingFrame DEF Getters
<1>3. Handed'
  BY <1>1 DEF Handed
<1> QED
  BY <1>2, <1>3 DEF IInv

LEMMA RequestStep ==
    ASSUME IInv, NEW j \in Jobs, AnswerAvailability(j) \/ AssignmentTimeout(j)
    PROVE  IInv'
<1>1. /\ TypeOK /\ Handed /\ Asked
      /\ UNCHANGED <<stage, child, told, job, status, executors, warmed, waiting, woken, numIdle,
                     target, idleReady, pool, awaited, failures>>
      /\ UNCHANGED <<msgChan, drops, worker, drainJoins, drainAt>>
  BY DEF IInv, AnswerAvailability, AssignmentTimeout, poolVars, procVars, queue, closing, drainVars
<1>2. /\ server \in [Jobs -> {"new", "assigned", "running", "success", "failed"}]
      /\ phase \in [Jobs -> {"none", "answered", "timedout", "launching", "handed", "raised"}]
  BY <1>1 DEF TypeOK
<1>3. CASE AssignmentTimeout(j)
  <2>1. phase[j] = "answered" /\ phase' = [phase EXCEPT ![j] = "timedout"]
        /\ UNCHANGED <<server, inFlight>>
    BY <1>3 DEF AssignmentTimeout
  <2>2. /\ phase' \in [Jobs -> {"none", "answered", "timedout", "launching", "handed", "raised"}]
        /\ {k \in Jobs : phase'[k] = "launching"} = {k \in Jobs : phase[k] = "launching"}
    BY <1>2, <2>1
  <2>3. Getting' = Getting
    BY <1>1 DEF Getting
  <2>4. TypeOK'
    BY <1>1, <2>1, <2>2, <2>3 DEF TypeOK, PoolTypeOK
  <2>5. \A q \in Procs : job[q] # None => phase'[job[q]] = phase[job[q]]
    BY <1>1, <2>1 DEF Handed
  <2>6. Asked'
    BY <1>1, <2>1 DEF Asked
  <2> QED
    BY <1>1, <2>4, <2>5, <2>6, FrameStep
<1>4. CASE AnswerAvailability(j)
  <2>1. /\ server[j] = "new" /\ server' = [server EXCEPT ![j] = "assigned"]
        /\ phase' = [phase EXCEPT ![j] = "answered"]
        /\ inFlight' = inFlight \cup {j}
        /\ phase[j] = "none"
    BY <1>1, <1>4 DEF AnswerAvailability, Asked
  <2>2. /\ server' \in [Jobs -> {"new", "assigned", "running", "success", "failed"}]
        /\ phase' \in [Jobs -> {"none", "answered", "timedout", "launching", "handed", "raised"}]
        /\ {k \in Jobs : phase'[k] = "launching"} = {k \in Jobs : phase[k] = "launching"}
    BY <1>2, <2>1
  <2>3. Getting' = Getting
    BY <1>1 DEF Getting
  <2>4. TypeOK'
    BY <1>1, <2>1, <2>2, <2>3 DEF TypeOK, PoolTypeOK
  <2>5. \A q \in Procs : job[q] # None => phase'[job[q]] = phase[job[q]]
    BY <1>1, <2>1 DEF Handed
  <2>6. Asked'
    BY <1>1, <1>2, <2>1 DEF Asked
  <2> QED
    BY <1>1, <2>4, <2>5, <2>6, FrameStep
<1> QED
  BY <1>3, <1>4

LEMMA SendStep == ASSUME IInv, Send PROVE IInv'
<1> DEFINE M == [job : Jobs, what : {"running", "success", "failed"}]
<1>1. /\ TypeOK /\ Asked
      /\ server \in [Jobs -> {"new", "assigned", "running", "success", "failed"}]
      /\ msgChan \in Seq(M) /\ msgChan # <<>>
      /\ msgChan' = Tail(msgChan)
      /\ server' = [server EXCEPT ![Head(msgChan).job] = Head(msgChan).what]
      /\ UNCHANGED <<stage, child, told, job, status, executors, warmed, waiting, woken, numIdle,
                     target, idleReady, pool, awaited, failures>>
      /\ UNCHANGED <<phase, inFlight, drops, worker, drainJoins, drainAt>>
  BY DEF IInv, Send, TypeOK, poolVars, procVars, queue, closing, drainVars
<1>2. Head(msgChan) \in M /\ msgChan' \in Seq(M)
  BY <1>1, HeadTailProperties, EmptySeq
<1>3. /\ server' \in [Jobs -> {"new", "assigned", "running", "success", "failed"}]
      /\ \A j \in Jobs : server'[j] = "new" => server[j] = "new"
  BY <1>1, <1>2
<1>4. Getting' = Getting
  BY <1>1 DEF Getting
<1>5. TypeOK'
  BY <1>1, <1>2, <1>3, <1>4 DEF TypeOK, PoolTypeOK
<1>6. Asked'
  BY <1>1, <1>3 DEF Asked
<1> QED
  BY <1>1, <1>5, <1>6, FrameStep

LEMMA ReconnectStep == ASSUME IInv, Reconnect PROVE IInv'
<1> DEFINE M == [job : Jobs, what : {"running", "success", "failed"}]
<1>1. /\ TypeOK /\ Asked
      /\ msgChan \in Seq(M) /\ drops \in 0..MaxDrops
      /\ drops < MaxDrops /\ drops' = drops + 1 /\ inFlight' = {}
      /\ msgChan' = msgChan \/ (msgChan # <<>> /\ msgChan' = Tail(msgChan))
      /\ UNCHANGED <<stage, child, told, job, status, executors, warmed, waiting, woken, numIdle,
                     target, idleReady, pool, awaited, failures>>
      /\ UNCHANGED <<server, phase, worker, drainJoins, drainAt>>
  BY DEF IInv, Reconnect, TypeOK, poolVars, procVars, queue, closing, drainVars
<1>2. msgChan' \in Seq(M)
  BY <1>1, HeadTailProperties, EmptySeq
<1>3. drops' \in 0..MaxDrops
  BY <1>1, MaxDropsAssumption
<1>4. Getting' = Getting
  BY <1>1 DEF Getting
<1>5. TypeOK'
  BY <1>1, <1>2, <1>3, <1>4 DEF TypeOK, PoolTypeOK
<1> QED
  BY <1>1, <1>5, FrameStep, AskedFrame

(* HandleTermination and LoadTask change what is told and the target.      *)
LEMMA TerminationStep ==
    ASSUME IInv, NEW p \in Procs, HandleTermination(p)
    PROVE  IInv'
<1>1. /\ TypeOK /\ Asked
      /\ told' = told \cup {q \in {p} : Started(q)}
      /\ UNCHANGED <<stage, child, job, status, executors, warmed, waiting, woken, numIdle,
                     target, idleReady, pool, awaited, failures>>
      /\ UNCHANGED <<server, phase, inFlight, msgChan, drops, worker, drainJoins, drainAt>>
  BY DEF IInv, HandleTermination, Shutdown, jobVars, queue, closing, drainVars
<1>2. told' \subseteq Procs
  BY <1>1 DEF TypeOK, PoolTypeOK
<1>3. Getting' = Getting
  BY <1>1 DEF Getting
<1>4. TypeOK'
  BY <1>1, <1>2, <1>3 DEF TypeOK, PoolTypeOK
<1> QED
  BY <1>1, <1>4, FrameStep, AskedFrame

LEMMA LoadTaskStep == ASSUME IInv, LoadTask PROVE IInv'
<1>1. /\ TypeOK /\ Asked
      /\ target' \in {0, numIdle}
      /\ UNCHANGED <<stage, child, told, job, status, executors, warmed, waiting, woken, numIdle,
                     idleReady, pool, awaited, failures>>
      /\ UNCHANGED <<server, phase, inFlight, msgChan, drops, worker, drainJoins, drainAt>>
  BY DEF IInv, LoadTask, SetTarget, jobVars, procVars, queue, closing, drainVars
<1>2. target' \in 0..numIdle
  <2>1. numIdle \in Nat
    BY <1>1, NumIdleAssumption DEF TypeOK, PoolTypeOK
  <2> QED
    BY <1>1, <2>1
<1>3. Getting' = Getting
  BY <1>1 DEF Getting
<1>4. TypeOK'
  BY <1>1, <1>2, <1>3 DEF TypeOK, PoolTypeOK
<1> QED
  BY <1>1, <1>4, FrameStep, AskedFrame

-----------------------------------------------------------------------------
(* Stopping.                                                               *)

(* Each gather has waited for what was there when it began, and nothing    *)
(* can come after it.                                                      *)
LEMMA GatherStep == ASSUME IInv, Gather PROVE IInv'
<1>1. /\ TypeOK /\ Getters /\ Listed /\ Handed /\ Closing /\ Asked
      /\ stage \in [Procs -> {"none", "up", "stuck", "closed"} \cup Spawning]
      /\ UNCHANGED <<stage, child, told, job, status, executors, warmed, waiting, woken, numIdle,
                     target, idleReady, failures>>
      /\ UNCHANGED <<server, phase, inFlight, msgChan, drops, worker, drainJoins, drainAt>>
  BY DEF IInv, Gather, GatheredProcs, GatheredSpawns, GatheredMonitors, TypeOK, PoolTypeOK,
         jobVars, procVars, queue, drainVars
<1>2. ~Connected
  BY <1>1 DEF Gather, GatheredProcs, GatheredSpawns, GatheredMonitors, Closing
<1>3. Closing' /\ awaited' \subseteq Procs /\ pool' \in {"spawns", "monitors", "closed"}
  <2>0. ~Connected'
    BY <1>1, <1>2 DEF Connected
  <2>1. CASE GatheredProcs
    BY <1>1, <2>0, <2>1 DEF GatheredProcs, Closing, SpawnTasks
  <2>2. CASE GatheredSpawns
    <3>1. \A p \in Procs : stage[p] \in {"none", "up", "stuck", "closed"}
      BY <1>1, <2>2 DEF GatheredSpawns, Closing, SpawnTasks
    <3> QED
      BY <1>1, <2>0, <2>2, <3>1 DEF GatheredSpawns, Closing, MonitorTasks
  <2>3. CASE GatheredMonitors
    <3>1. \A p \in Procs : stage[p] \in {"none", "closed"}
      BY <1>1, <2>3 DEF GatheredMonitors, Closing
    <3> QED
      BY <1>1, <2>0, <2>3, <3>1 DEF GatheredMonitors, Closing
  <2> QED
    BY <2>1, <2>2, <2>3 DEF Gather
<1>4. Getters' /\ Getting' = Getting
  BY <1>1 DEF Getters, Getting
<1>5. TypeOK'
  BY <1>1, <1>3, <1>4 DEF TypeOK, PoolTypeOK
<1> QED
  BY <1>1, <1>3, <1>4, <1>5, ListedFrame, HandedFrame, AskedFrame DEF IInv

LEMMA BeginCloseStep == ASSUME IInv, BeginClose PROVE IInv'
<1>1. /\ TypeOK /\ Getters /\ Listed /\ Handed /\ Closing /\ Asked
      /\ worker' = "closing" /\ drainJoins' = None /\ drainAt' = 0
      /\ inFlight' = {} /\ msgChan' = <<>>
      /\ pool' = "procs" /\ awaited' \subseteq ToSet(executors)
      /\ told' = told \cup {p \in ToSet(executors) : Started(p)}
      /\ UNCHANGED <<stage, child, job, status, executors, warmed, waiting, woken, numIdle,
                     target, idleReady, failures>>
      /\ UNCHANGED <<server, phase, drops>>
      /\ executors \in Seq(Procs)
  BY DEF IInv, BeginClose, ClosePool, Shutdown, TypeOK, PoolTypeOK, queue
<1>2. ToSet(executors) \subseteq Procs
  BY <1>1, LenProperties DEF ToSet
<1>3. awaited' \subseteq Procs /\ told' \subseteq Procs
  BY <1>1, <1>2 DEF TypeOK, PoolTypeOK
<1>4. Closing'
  BY <1>1 DEF Closing, Connected
<1>5. Getters' /\ Getting' = Getting
  BY <1>1 DEF Getters, Getting
<1>6. msgChan' \in Seq([job : Jobs, what : {"running", "success", "failed"}])
  BY <1>1, EmptySeq
<1>7. TypeOK'
  BY <1>1, <1>3, <1>5, <1>6 DEF TypeOK, PoolTypeOK
<1> QED
  BY <1>1, <1>4, <1>5, <1>7, ListedFrame, HandedFrame, AskedFrame DEF IInv

LEMMA NextDrainedStep ==
    ASSUME IInv, NextDrained, worker \in {"running", "draining"}
    PROVE  IInv'
<1>1. CASE BeginClose
  BY <1>1, BeginCloseStep
<1>2. ASSUME NEW i \in DOMAIN executors, worker' = "draining",
             drainJoins' = executors[i], drainAt' = i, UNCHANGED <<poolVars, jobVars>>
      PROVE  IInv'
  <2>1. /\ TypeOK /\ Getters /\ Listed /\ Handed /\ Closing /\ Asked
        /\ executors \in Seq(Procs)
        /\ UNCHANGED <<stage, child, told, job, status, executors, warmed, waiting, woken, numIdle,
                       target, idleReady, pool, awaited, failures>>
        /\ UNCHANGED <<server, phase, inFlight, msgChan, drops>>
    BY <1>2 DEF IInv, TypeOK, PoolTypeOK, poolVars, procVars, queue, closing, jobVars
  <2>2. drainJoins' \in Procs /\ drainAt' \in Nat
    BY <1>2, <2>1, LenProperties
  <2>3. Closing'
    BY <1>2, <2>1 DEF Closing, Connected, SpawnTasks
  <2>4. Getters' /\ Getting' = Getting
    BY <2>1 DEF Getters, Getting
  <2>5. TypeOK'
    BY <1>2, <2>1, <2>2, <2>4 DEF TypeOK, PoolTypeOK
  <2> QED
    BY <2>1, <2>3, <2>4, <2>5, ListedFrame, HandedFrame, AskedFrame DEF IInv
<1> QED
  BY <1>1, <1>2 DEF NextDrained

LEMMA WorkerClosedStep == ASSUME IInv, WorkerClosed PROVE IInv'
<1>1. /\ TypeOK /\ Getters /\ Listed /\ Handed /\ Closing /\ Asked
      /\ worker' = "closed"
      /\ UNCHANGED <<stage, child, told, job, status, executors, warmed, waiting, woken, numIdle,
                     target, idleReady, pool, awaited, failures>>
      /\ UNCHANGED <<server, phase, inFlight, msgChan, drops, drainJoins, drainAt>>
  BY DEF IInv, WorkerClosed, poolVars, procVars, queue, closing, jobVars, drainVars
<1>2. Closing'
  BY <1>1 DEF Closing, Connected, SpawnTasks
<1>3. Getters' /\ Getting' = Getting
  BY <1>1 DEF Getters, Getting
<1>4. TypeOK'
  BY <1>1, <1>3 DEF TypeOK, PoolTypeOK
<1> QED
  BY <1>1, <1>2, <1>3, <1>4, ListedFrame, HandedFrame, AskedFrame DEF IInv

-----------------------------------------------------------------------------
(* The theorems.                                                           *)

LEMMA InitIInv == Init => IInv
<1> SUFFICES ASSUME Init PROVE IInv
  OBVIOUS
<1>1. ToSet(<<>>) = {} /\ IsInjective(<<>>)
  BY DEF ToSet, IsInjective
<1>2. <<>> \in Seq(Procs) /\ <<>> \in Seq(Jobs)
      /\ <<>> \in Seq([job : Jobs, what : {"running", "success", "failed"}])
  BY EmptySeq
<1>3. target \in 0..numIdle /\ idleReady \in BOOLEAN
  BY NumIdleAssumption DEF Init, PoolInit
<1>4. TypeOK
  BY <1>1, <1>2, <1>3, MaxFailuresAssumption, MaxDropsAssumption
     DEF Init, PoolInit, TypeOK, PoolTypeOK, Getting
<1>5. Getters /\ Listed /\ Handed /\ Closing /\ Asked
  BY <1>1 DEF Init, PoolInit, Getters, Listed, Handed, Closing, Asked, Spawning
<1> QED
  BY <1>4, <1>5 DEF IInv

LEMMA NextIInv == IInv /\ [Next]_vars => IInv'
<1> SUFFICES ASSUME IInv, [Next]_vars PROVE IInv'
  OBVIOUS
<1>1. CASE UNCHANGED vars
  <2>1. UNCHANGED <<stage, child, told, job, status, executors, warmed, waiting, woken, numIdle,
                    target, idleReady, pool, awaited, failures>>
        /\ UNCHANGED <<server, phase, inFlight, msgChan, drops, worker, drainJoins, drainAt>>
    BY <1>1 DEF vars, poolVars, procVars, queue, closing, jobVars, drainVars
  <2>2. Getting' = Getting
    BY <2>1 DEF Getting
  <2>3. TypeOK' /\ Asked'
    BY <2>1, <2>2 DEF IInv, TypeOK, PoolTypeOK, Asked
  <2> QED
    BY <2>1, <2>3, FrameStep
<1>2. ASSUME Stop PROVE IInv'
  BY <1>2, BeginCloseStep, NextDrainedStep DEF Stop
<1>3. ASSUME DrainOn PROVE IInv'
  BY <1>3, NextDrainedStep DEF DrainOn
<1> QED
  BY <1>1, <1>2, <1>3, ExecutorStep, TerminationStep, RequestStep, HandleAssignmentStep,
     TakeProcessStep, SendStep, ReconnectStep, LoadTaskStep, GatherStep, WorkerClosedStep DEF Next

LEMMA SpecIInv == Spec => []IInv
  BY InitIInv, NextIInv, PTL DEF Spec

(* Every reachable state is well-typed, and launch_job waits on the queue  *)
(* for exactly the jobs that count as waiting.                             *)
THEOREM TypeCorrect == Spec => []TypeOK
<1>1. IInv => TypeOK
  BY DEF IInv
<1> QED
  BY <1>1, SpecIInv, PTL

(* A process that runs is in the pool's list.                              *)
THEOREM NoneOrphaned == Spec => []NoOrphans
<1>1. IInv => NoOrphans
  BY DEF IInv, Listed, NoOrphans, Spawning
<1> QED
  BY <1>1, SpecIInv, PTL

(* launch_job hands a process out to one job and a job to one process.     *)
THEOREM HandedOutOnce == Spec => []HandedOnce
<1>1. IInv => HandedOnce
  BY DEF IInv, Handed, HandedOnce
<1> QED
  BY <1>1, SpecIInv, PTL

(* aclose of the pool leaves no process and no spawn task behind.          *)
THEOREM NothingLeft == Spec => []ClosedLeavesNothing
<1>1. IInv => ClosedLeavesNothing
  BY DEF IInv, Listed, Closing, ClosedLeavesNothing
<1> QED
  BY <1>1, SpecIInv, PTL

-----------------------------------------------------------------------------
(* The order of statuses.                                                  *)

Over == {"success", "failed"}

(* The jobs whose process is closed.                                       *)
EndedJobs == {job[p] : p \in {q \in Procs : stage[q] = "closed"}}

(* The end of a job is queued once, when its process is closed, after all  *)
(* that was queued for the job before.                                     *)
Ordered ==
    /\ \A i \in DOMAIN msgChan : msgChan[i].what \in Over => msgChan[i].job \in EndedJobs
    /\ \A i \in DOMAIN msgChan : \E p \in Procs : job[p] = msgChan[i].job
    /\ \A i, k \in DOMAIN msgChan :
          i < k /\ msgChan[i].job = msgChan[k].job => msgChan[i].what \notin Over
    /\ \A j \in Jobs : server[j] \in Over =>
          j \in EndedJobs /\ \A i \in DOMAIN msgChan : msgChan[i].job # j

(* Jobs stay with their processes, and closed ones stay closed.            *)
Keeps ==
    /\ \A p \in Procs : job[p] # None => job'[p] = job[p]
    /\ \A p \in Procs : stage[p] = "closed" => stage'[p] = "closed"

(* Positions in the list of messages and in what is left of it.            *)
LEMMA Positions ==
    ASSUME NEW S, NEW s \in Seq(S)
    PROVE  /\ Len(s) \in Nat /\ DOMAIN s = 1..Len(s)
           /\ \A i \in DOMAIN s : s[i] \in S
           /\ s # <<>> => /\ Len(s) >= 1 /\ Head(s) = s[1] /\ Head(s) \in S
                          /\ DOMAIN Tail(s) = 1..(Len(s) - 1)
                          /\ \A i \in 1..(Len(s) - 1) : Tail(s)[i] = s[i + 1]
<1>1. /\ Len(s) \in Nat /\ DOMAIN s = 1..Len(s)
      /\ \A i \in DOMAIN s : s[i] \in S
  BY LenProperties
<1>2. ASSUME s # <<>>
      PROVE  /\ Len(s) >= 1 /\ Head(s) = s[1] /\ Head(s) \in S
             /\ DOMAIN Tail(s) = 1..(Len(s) - 1)
             /\ \A i \in 1..(Len(s) - 1) : Tail(s)[i] = s[i + 1]
  BY <1>1, <1>2, HeadTailProperties, LenProperties, EmptySeq
<1> QED
  BY <1>1, <1>2

(* The messages queued are statuses of jobs.                               *)
LEMMA Messages ==
    ASSUME TypeOK
    PROVE  /\ Len(msgChan) \in Nat /\ DOMAIN msgChan = 1..Len(msgChan)
           /\ \A i \in DOMAIN msgChan : msgChan[i].job \in Jobs
           /\ \A i \in DOMAIN msgChan : msgChan[i].what \in {"running", "success", "failed"}
           /\ msgChan # <<>> =>
                /\ Len(msgChan) >= 1 /\ Head(msgChan) = msgChan[1]
                /\ DOMAIN Tail(msgChan) = 1..(Len(msgChan) - 1)
                /\ \A i \in 1..(Len(msgChan) - 1) : Tail(msgChan)[i] = msgChan[i + 1]
<1> DEFINE M == [job : Jobs, what : {"running", "success", "failed"}]
<1>1. msgChan \in Seq(M)
  BY DEF TypeOK
<1>2. \A m \in M : m.job \in Jobs /\ m.what \in {"running", "success", "failed"}
  OBVIOUS
<1> HIDE DEF M
<1>3. /\ Len(msgChan) \in Nat /\ DOMAIN msgChan = 1..Len(msgChan)
      /\ \A i \in DOMAIN msgChan : msgChan[i] \in M
      /\ msgChan # <<>> =>
                /\ Len(msgChan) >= 1 /\ Head(msgChan) = msgChan[1]
                /\ DOMAIN Tail(msgChan) = 1..(Len(msgChan) - 1)
                /\ \A i \in 1..(Len(msgChan) - 1) : Tail(msgChan)[i] = msgChan[i + 1]
  BY <1>1, Positions
<1> QED
  BY <1>2, <1>3

(* Nothing is queued: what there was is left, or sent, or lost.            *)
LEMMA UnqueuedStep ==
    ASSUME IInv, Ordered, Keeps, UNCHANGED server,
           \/ msgChan' = msgChan
           \/ msgChan' = <<>>
           \/ msgChan # <<>> /\ msgChan' = Tail(msgChan)
    PROVE  Ordered'
<1>1. TypeOK /\ None \notin Jobs
  BY NoneAssumption DEF IInv
<1>2. /\ \A i \in DOMAIN msgChan : msgChan[i].job \in Jobs
      /\ DOMAIN msgChan = 1..Len(msgChan) /\ Len(msgChan) \in Nat
  BY <1>1, Messages
<1>3. \A j \in Jobs : j \in EndedJobs => j \in EndedJobs'
  BY <1>1 DEF Keeps, EndedJobs
<1>4. \A j \in Jobs : (\E p \in Procs : job[p] = j) => (\E p \in Procs : job'[p] = j)
  BY <1>1 DEF Keeps
<1>5. CASE msgChan' = msgChan
  BY <1>2, <1>3, <1>4, <1>5 DEF Ordered
<1>6. CASE msgChan' = <<>>
  <2>1. DOMAIN msgChan' = {}
    BY <1>6
  <2> QED
    BY <1>3, <2>1 DEF Ordered
<1>7. CASE msgChan # <<>> /\ msgChan' = Tail(msgChan)
  <2>1. /\ Len(msgChan) >= 1
        /\ DOMAIN msgChan' = 1..(Len(msgChan) - 1)
        /\ \A i \in 1..(Len(msgChan) - 1) : msgChan'[i] = msgChan[i + 1]
    BY <1>1, <1>7, Messages
  <2>2. \A i \in DOMAIN msgChan' : i + 1 \in DOMAIN msgChan /\ msgChan'[i] = msgChan[i + 1]
    BY <1>2, <2>1
  <2>3. \A i \in DOMAIN msgChan' : msgChan'[i].what \in Over => msgChan'[i].job \in EndedJobs'
    BY <1>2, <1>3, <2>2 DEF Ordered
  <2>4. \A i \in DOMAIN msgChan' : \E p \in Procs : job'[p] = msgChan'[i].job
    BY <1>2, <1>4, <2>2 DEF Ordered
  <2>5. ASSUME NEW i \in DOMAIN msgChan', NEW k \in DOMAIN msgChan',
               i < k, msgChan'[i].job = msgChan'[k].job
        PROVE  msgChan'[i].what \notin Over
    <3>1. i + 1 < k + 1
      BY <2>1, <2>5
    <3> QED
      BY <2>2, <2>5, <3>1 DEF Ordered
  <2>6. \A j \in Jobs : server'[j] \in Over =>
           j \in EndedJobs' /\ \A i \in DOMAIN msgChan' : msgChan'[i].job # j
    BY <1>3, <2>2 DEF Ordered
  <2> QED
    BY <2>3, <2>4, <2>5, <2>6 DEF Ordered
<1> QED
  BY <1>5, <1>6, <1>7

(* A status of a job that has not ended is queued.                         *)
LEMMA QueuedStep ==
    ASSUME IInv, Ordered, Keeps, UNCHANGED server,
           NEW j \in Jobs, NEW s \in {"running", "success", "failed"}, Queue(Update(j, s)),
           j \notin EndedJobs,
           \E p \in Procs : job'[p] = j /\ (s \in Over => stage'[p] = "closed")
    PROVE  Ordered'
<1> DEFINE m == Update(j, s)
<1>1. CASE msgChan' = <<>>
  BY <1>1, UnqueuedStep
<1>2. CASE msgChan' = Append(msgChan, m)
  <2>1. /\ msgChan \in Seq([job : Jobs, what : {"running", "success", "failed"}])
        /\ None \notin Jobs
    BY NoneAssumption DEF IInv, TypeOK
  <2>t. TypeOK
    BY DEF IInv
  <2>2. /\ m \in [job : Jobs, what : {"running", "success", "failed"}]
        /\ m.job = j /\ m.what = s
    BY DEF Update
  <2> HIDE DEF m
  <2>3. /\ \A i \in DOMAIN msgChan : msgChan[i].job \in Jobs
        /\ DOMAIN msgChan = 1..Len(msgChan) /\ Len(msgChan) \in Nat
    BY <2>t, Messages
  <2>4. /\ DOMAIN msgChan' = 1..(Len(msgChan) + 1)
        /\ \A i \in 1..Len(msgChan) : msgChan'[i] = msgChan[i]
        /\ msgChan'[Len(msgChan) + 1] = m
    BY <1>2, <2>1, <2>2, AppendProperties, LenProperties
  <2>5. \A i \in DOMAIN msgChan' :
           \/ i \in DOMAIN msgChan /\ msgChan'[i] = msgChan[i]
           \/ i = Len(msgChan) + 1 /\ msgChan'[i] = m
    BY <2>3, <2>4
  <2>6. \A k \in Jobs : k \in EndedJobs => k \in EndedJobs'
    BY <2>1 DEF Keeps, EndedJobs
  <2>7. \A k \in Jobs : (\E p \in Procs : job[p] = k) => (\E p \in Procs : job'[p] = k)
    BY <2>1 DEF Keeps
  <2>8. s \in Over => j \in EndedJobs'
    BY DEF EndedJobs
  <2>9. \A i \in DOMAIN msgChan' : msgChan'[i].what \in Over => msgChan'[i].job \in EndedJobs'
    BY <2>2, <2>3, <2>5, <2>6, <2>8 DEF Ordered
  <2>10. \A i \in DOMAIN msgChan' : \E p \in Procs : job'[p] = msgChan'[i].job
    BY <2>2, <2>3, <2>5, <2>7 DEF Ordered
  <2>11. ASSUME NEW i \in DOMAIN msgChan', NEW k \in DOMAIN msgChan',
                i < k, msgChan'[i].job = msgChan'[k].job
         PROVE  msgChan'[i].what \notin Over
    <3>1. i \in DOMAIN msgChan /\ msgChan'[i] = msgChan[i]
      BY <2>3, <2>4, <2>11
    <3>2. CASE k \in DOMAIN msgChan /\ msgChan'[k] = msgChan[k]
      BY <2>11, <3>1, <3>2 DEF Ordered
    <3>3. CASE msgChan'[k] = m
      BY <2>2, <2>11, <3>1, <3>3 DEF Ordered
    <3> QED
      BY <2>5, <3>2, <3>3
  <2>12. \A k \in Jobs : server'[k] \in Over =>
            k \in EndedJobs' /\ \A i \in DOMAIN msgChan' : msgChan'[i].job # k
    BY <2>2, <2>5, <2>6 DEF Ordered
  <2> QED
    BY <2>9, <2>10, <2>11, <2>12 DEF Ordered
<1> QED
  BY <1>1, <1>2 DEF Queue

(* The server takes note of the first status queued.                       *)
LEMMA SentStep ==
    ASSUME IInv, Ordered, Send
    PROVE  /\ Ordered'
           /\ \A j \in Jobs : server[j] \in Over => server'[j] = server[j]
<1> DEFINE m == Head(msgChan)
<1>1. /\ TypeOK
      /\ server \in [Jobs -> {"new", "assigned", "running", "success", "failed"}]
      /\ msgChan # <<>> /\ msgChan' = Tail(msgChan)
      /\ server' = [server EXCEPT ![m.job] = m.what]
      /\ UNCHANGED <<stage, job>>
  BY DEF IInv, TypeOK, Send, poolVars, procVars
<1>2. /\ m = msgChan[1] /\ 1 \in DOMAIN msgChan
      /\ Len(msgChan) \in Nat /\ DOMAIN msgChan = 1..Len(msgChan)
      /\ DOMAIN msgChan' = 1..(Len(msgChan) - 1)
      /\ \A i \in 1..(Len(msgChan) - 1) : msgChan'[i] = msgChan[i + 1]
      /\ m.job \in Jobs /\ m.what \in {"running", "success", "failed"}
      /\ \A i \in DOMAIN msgChan : msgChan[i].job \in Jobs
  BY <1>1, Messages
<1> HIDE DEF m
<1>3. \A i \in DOMAIN msgChan' :
         /\ i + 1 \in DOMAIN msgChan /\ msgChan'[i] = msgChan[i + 1]
         /\ 1 < i + 1 /\ msgChan'[i].job \in Jobs
  <2> SUFFICES ASSUME NEW i \in DOMAIN msgChan'
               PROVE  /\ i + 1 \in DOMAIN msgChan /\ msgChan'[i] = msgChan[i + 1]
                      /\ 1 < i + 1 /\ msgChan'[i].job \in Jobs
    OBVIOUS
  <2>1. i + 1 \in DOMAIN msgChan /\ msgChan'[i] = msgChan[i + 1] /\ 1 < i + 1
    BY <1>2
  <2>2. msgChan[i + 1].job \in Jobs
    BY <1>2, <2>1
  <2> QED
    BY <2>1, <2>2
<1>4. \A j \in Jobs : j \in EndedJobs <=> j \in EndedJobs'
  BY <1>1 DEF EndedJobs
<1>5. server[m.job] \notin Over
  BY <1>2 DEF Ordered
<1>6. \A j \in Jobs : server[j] \in Over => server'[j] = server[j]
  BY <1>1, <1>5
<1>7. \A i \in DOMAIN msgChan' : msgChan'[i].what \in Over => msgChan'[i].job \in EndedJobs'
  BY <1>3, <1>4 DEF Ordered
<1>8. \A i \in DOMAIN msgChan' : \E p \in Procs : job'[p] = msgChan'[i].job
  BY <1>1, <1>3 DEF Ordered
<1>9. ASSUME NEW i \in DOMAIN msgChan', NEW k \in DOMAIN msgChan',
             i < k, msgChan'[i].job = msgChan'[k].job
      PROVE  msgChan'[i].what \notin Over
  <2>1. i + 1 < k + 1
    BY <1>2, <1>9
  <2> QED
    BY <1>3, <1>9, <2>1 DEF Ordered
<1>10. ASSUME NEW j \in Jobs, server'[j] \in Over
       PROVE  j \in EndedJobs' /\ \A i \in DOMAIN msgChan' : msgChan'[i].job # j
  <2>1. CASE j = m.job
    <3>1. m.what \in Over
      BY <1>1, <1>2, <1>10, <2>1
    <3>2. j \in EndedJobs
      BY <1>2, <2>1, <3>1 DEF Ordered
    <3>3. ASSUME NEW i \in DOMAIN msgChan', msgChan'[i].job = j PROVE FALSE
      BY <1>2, <1>3, <2>1, <3>1, <3>3 DEF Ordered
    <3> QED
      BY <1>4, <3>2, <3>3
  <2>2. CASE j # m.job
    <3>1. server[j] \in Over
      BY <1>1, <1>10, <2>2
    <3> QED
      BY <1>3, <1>4, <3>1 DEF Ordered
  <2> QED
    BY <2>1, <2>2
<1> QED
  BY <1>6, <1>7, <1>8, <1>9, <1>10 DEF Ordered

(* The end of launch_job for a process: its job was with no process.       *)
LEMMA LaunchedStep ==
    ASSUME IInv, Ordered, NEW j \in Jobs, NEW raises \in BOOLEAN,
           phase[j] \in {"answered", "launching"},
           warmed # <<>>, Hand(Head(warmed), j, raises), Launched(j, raises),
           UNCHANGED <<stage, server>>
    PROVE  Ordered'
<1> DEFINE p == Head(warmed)
<1>1. /\ TypeOK /\ Handed
      /\ job \in [Procs -> Jobs \cup {None}]
      /\ warmed \in Seq(Procs)
      /\ None \notin Jobs
  BY NoneAssumption DEF IInv, TypeOK, PoolTypeOK
<1>2. p \in Procs /\ p \in ToSet(warmed)
  BY <1>1, TailFacts
<1>3. job[p] = None /\ job' = [job EXCEPT ![p] = j]
  BY <1>1, <1>2 DEF Handed, Hand
<1> HIDE DEF p
<1>4. Keeps
  BY <1>1, <1>2, <1>3 DEF Keeps
<1>5. j \notin EndedJobs
  BY <1>1 DEF Handed, EndedJobs
<1>6. CASE raises
  <2>1. msgChan' = msgChan
    BY <1>6 DEF Launched
  <2> QED
    BY <1>4, <2>1, UnqueuedStep
<1>7. CASE ~raises
  <2>1. Queue(Update(j, "running"))
    BY <1>7 DEF Launched
  <2>2. job'[p] = j /\ "running" \notin Over
    BY <1>1, <1>2, <1>3 DEF Over
  <2> QED
    BY <1>2, <1>4, <1>5, <2>1, <2>2, QueuedStep
<1> QED
  BY <1>6, <1>7

(* The end of a job is queued when its process is closed.                  *)
LEMMA JobClosedOrdered ==
    ASSUME IInv, Ordered, NEW p \in Procs, JobClosed(p)
    PROVE  Ordered'
<1>1. /\ TypeOK /\ Handed
      /\ stage \in [Procs -> {"none", "up", "stuck", "closed"} \cup Spawning]
      /\ job \in [Procs -> Jobs \cup {None}]
      /\ status \in [Procs -> {"none", "running", "success", "failed"}]
      /\ stage[p] = "up" /\ child[p] \in {"exited", "killed"}
      /\ stage' = [stage EXCEPT ![p] = "closed"]
      /\ UNCHANGED <<job, server>>
  BY DEF IInv, JobClosed, ProcessClosed, Ended, TypeOK, PoolTypeOK
<1>2. Keeps
  BY <1>1 DEF Keeps
<1>3. CASE job[p] = None
  <2>1. msgChan' = msgChan
    BY <1>3 DEF JobClosed
  <2> QED
    BY <1>1, <1>2, <2>1, UnqueuedStep
<1>4. CASE job[p] # None
  <2>1. job[p] \in Jobs /\ job'[p] = job[p] /\ stage'[p] = "closed"
    BY <1>1, <1>4
  <2>2. status'[p] \in {"running", "success", "failed"}
    BY <1>1, <1>4 DEF JobClosed, ProcessClosed
  <2>3. job[p] \notin EndedJobs
    BY <1>1, <1>4 DEF Handed, EndedJobs
  <2>4. Queue(Update(job[p], status'[p]))
    BY <1>4 DEF JobClosed
  <2> QED
    BY <1>1, <1>2, <2>1, <2>2, <2>3, <2>4, QueuedStep
<1> QED
  BY <1>3, <1>4

(* What a step of the pool does to executors never revives one.            *)
LEMMA PoolOrdered ==
    ASSUME IInv, Ordered, NEW p \in Procs,
           \/ Refill(p) \/ BeginStart(p) \/ Start(p) \/ SendInitialize(p) \/ Initialized(p)
           \/ InitializeFails(p) \/ Crash(p) \/ Exit(p) \/ CloseTimeout(p),
           UNCHANGED jobVars
    PROVE  Ordered'
<1>1. /\ stage \in [Procs -> {"none", "up", "stuck", "closed"} \cup Spawning]
      /\ UNCHANGED <<job, server, msgChan>>
  BY DEF IInv, TypeOK, PoolTypeOK, jobVars, Refill, BeginStart, Start, SendInitialize, Initialized,
         InitializeFails, Crash, Exit, CloseTimeout, Dies
<1>2. \/ UNCHANGED stage
      \/ stage[p] # "closed" /\ \E s : stage' = [stage EXCEPT ![p] = s]
  BY DEF Refill, BeginStart, Start, SendInitialize, Initialized, InitializeFails, Crash, Exit,
         CloseTimeout, Dies, Spawn
<1>3. Keeps
  BY <1>1, <1>2 DEF Keeps
<1> QED
  BY <1>1, <1>3, UnqueuedStep

LEMMA AnswerOrdered ==
    ASSUME IInv, Ordered, NEW j \in Jobs, AnswerAvailability(j)
    PROVE  /\ Ordered'
           /\ \A k \in Jobs : server[k] \in Over => server'[k] = server[k]
<1>1. /\ server \in [Jobs -> {"new", "assigned", "running", "success", "failed"}]
      /\ server[j] = "new" /\ server' = [server EXCEPT ![j] = "assigned"]
      /\ UNCHANGED <<stage, job, msgChan>>
  BY DEF IInv, TypeOK, AnswerAvailability, poolVars, procVars
<1>2. \A k \in Jobs : server'[k] \in Over => server[k] \in Over
  BY <1>1 DEF Over
<1>3. \A k \in Jobs : server[k] \in Over => server'[k] = server[k]
  BY <1>1 DEF Over
<1>4. EndedJobs' = EndedJobs
  BY <1>1 DEF EndedJobs
<1> QED
  BY <1>1, <1>2, <1>3, <1>4 DEF Ordered

LEMMA HandleAssignmentOrdered ==
    ASSUME IInv, Ordered, NEW j \in Jobs, HandleAssignment(j)
    PROVE  Ordered' /\ UNCHANGED server
<1>1. UNCHANGED server /\ TypeOK
  BY DEF HandleAssignment, IInv
<1>2. ASSUME phase[j] = "answered", NEW raises \in BOOLEAN, LaunchNow(j, raises), Launched(j, raises)
      PROVE  Ordered'
  BY <1>1, <1>2, LaunchedStep DEF LaunchNow
<1>3. ASSUME LaunchLater(j), UNCHANGED msgChan
      PROVE  Ordered'
  <2>1. stage \in [Procs -> {"none", "up", "stuck", "closed"} \cup Spawning]
    BY <1>1 DEF TypeOK, PoolTypeOK
  <2>2. Keeps
    BY <1>3, <2>1 DEF LaunchLater, Spawn, Keeps
  <2> QED
    BY <1>1, <1>3, <2>2, UnqueuedStep
<1>4. ASSUME UNCHANGED <<poolVars, phase, msgChan>>
      PROVE  Ordered'
  <2>1. Keeps
    BY <1>4 DEF poolVars, procVars, Keeps
  <2> QED
    BY <1>1, <1>4, <2>1, UnqueuedStep
<1> QED
  BY <1>1, <1>2, <1>3, <1>4 DEF HandleAssignment

LEMMA TakeProcessOrdered ==
    ASSUME IInv, Ordered, NEW j \in Jobs, TakeProcess(j)
    PROVE  Ordered' /\ UNCHANGED server
<1>1. UNCHANGED server /\ TypeOK
  BY DEF TakeProcess, IInv
<1>2. ASSUME NEW raises \in BOOLEAN, Take(j, raises), Launched(j, raises)
      PROVE  Ordered'
  <2>1. phase[j] = "launching"
    BY <1>1, <1>2 DEF Take, TypeOK, Getting
  <2> QED
    BY <1>1, <1>2, <2>1, LaunchedStep DEF Take
<1>3. ASSUME WaitAgain(j), UNCHANGED <<phase, msgChan>>
      PROVE  Ordered'
  <2>1. Keeps
    BY <1>3 DEF WaitAgain, procVars, Keeps
  <2> QED
    BY <1>1, <1>3, <2>1, UnqueuedStep
<1> QED
  BY <1>1, <1>2, <1>3 DEF TakeProcess

(* Steps that leave the executors' stages and jobs alone.                  *)
LEMMA OtherOrdered ==
    ASSUME IInv, Ordered,
           \/ \E p \in Procs : HandleTermination(p)
           \/ \E j \in Jobs : AssignmentTimeout(j)
           \/ Reconnect \/ LoadTask \/ Gather \/ BeginClose \/ NextDrained \/ WorkerClosed
           \/ UNCHANGED vars
    PROVE  Ordered' /\ UNCHANGED server
<1>1. UNCHANGED <<stage, job, server>>
  BY DEF HandleTermination, AssignmentTimeout, Reconnect, LoadTask, SetTarget, Gather,
         GatheredProcs, GatheredSpawns, GatheredMonitors, BeginClose, ClosePool, NextDrained,
         WorkerClosed, vars, poolVars, procVars, jobVars
<1>2. \/ msgChan' = msgChan
      \/ msgChan' = <<>>
      \/ msgChan # <<>> /\ msgChan' = Tail(msgChan)
  BY DEF HandleTermination, AssignmentTimeout, Reconnect, LoadTask, Gather, BeginClose,
         NextDrained, WorkerClosed, vars, jobVars
<1>3. Keeps
  BY <1>1 DEF Keeps
<1> QED
  BY <1>1, <1>2, <1>3, UnqueuedStep

LEMMA NextOrdered ==
    ASSUME IInv, Ordered, [Next]_vars
    PROVE  /\ Ordered'
           /\ \A j \in Jobs : server[j] \in Over => server'[j] = server[j]
<1>1. ASSUME NEW p \in Procs, Executor(p) \/ ProcessEnds(p)
      PROVE  Ordered' /\ UNCHANGED server
  <2>1. CASE JobClosed(p)
    BY <2>1, JobClosedOrdered DEF JobClosed
  <2>2. CASE ~JobClosed(p)
    <3>1. /\ \/ Refill(p) \/ BeginStart(p) \/ Start(p) \/ SendInitialize(p) \/ Initialized(p)
             \/ InitializeFails(p) \/ Crash(p) \/ Exit(p) \/ CloseTimeout(p)
          /\ UNCHANGED jobVars
      BY <1>1, <2>2 DEF Executor, ProcessEnds
    <3> QED
      BY <3>1, PoolOrdered DEF jobVars
  <2> QED
    BY <2>1, <2>2
<1>2. ASSUME Stop \/ DrainOn PROVE Ordered' /\ UNCHANGED server
  BY <1>2, OtherOrdered DEF Stop, DrainOn
<1> QED
  BY <1>1, <1>2, AnswerOrdered, HandleAssignmentOrdered, TakeProcessOrdered, OtherOrdered,
     SentStep DEF Next

(* The server never hears that a job runs after it heard that it ended:    *)
(* statuses are queued in order, and each process has its last one sent    *)
(* once.                                                                   *)
THEOREM EndStaysFinal == Spec => EndIsFinal
<1>1. Init => Ordered
  BY DEF Init, Ordered, Over
<1>2. IInv /\ Ordered /\ [Next]_vars => Ordered'
  BY NextOrdered
<1>3. IInv /\ Ordered /\ [Next]_vars
        => [\A j \in Jobs : server[j] \in {"success", "failed"} => server'[j] = server[j]]_vars
  BY NextOrdered DEF Over
<1> QED
  BY <1>1, <1>2, <1>3, SpecIInv, PTL DEF Spec, EndIsFinal

=============================================================================
