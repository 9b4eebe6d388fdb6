--------------------------- MODULE SpeechProofs ---------------------------
(* Proofs about Speech, for any numbers of speeches, turns and tool steps. *)
EXTENDS Speech, SequenceTheorems, FiniteSetTheorems, TLAPS

(***************************************************************************)
(* The inductive invariant: of the handles, of each activity's scheduler,  *)
(* of the wake-ups, and of the session's handoff and close.                *)
(***************************************************************************)
Waits(h) == speech[h].stage \in {"scheduling", "authorizing"}

(* A speech that the scheduler still has to authorize.                     *)
Unauthorized(h) ==
    \/ Waits(h) /\ ~speech[h].authorized
    \/ speech[h].stage = "done" /\ speech[h].interrupted

Distinct(q) == \A i, j \in DOMAIN q : q[i] = q[j] => i = j

(* What is authorized or played is what its activity's scheduler waits for. *)
HandleOK(h) ==
    /\ speech[h].scheduled =>
          /\ speech[h].stage # "none"
          /\ ~speech[h].refused
          /\ act[speech[h].owner].scheduler # "none"
    /\ speech[h].stage \in {"playing", "tools", "cancelling"} => speech[h].scheduled
    /\ speech[h].stage \in {"tools", "cancelling"} => speech[h].gen = "done"
    /\ speech[h].stage = "playing" => ~speech[h].authorized
    /\ speech[h].stage = "playing" \/ speech[h].authorized =>
          /\ act[speech[h].owner].current = h
          /\ act[speech[h].owner].scheduler \in {"waiting", "cancelled"}
          /\ speech[h].gen = "open"

(* The queue, the current and the preemptive speech of an activity are its *)
(* own; a queued one is there once and not authorized.                     *)
OwnsOK(a) ==
    /\ \A h \in Queued(a) : speech[h].owner = a /\ speech[h].scheduled /\ Unauthorized(h)
    /\ Distinct(act[a].queue)
    /\ act[a].current # None =>
          /\ speech[act[a].current].owner = a
          /\ speech[act[a].current].scheduled
    /\ act[a].preempt # None =>
          /\ speech[act[a].preempt].owner = a
          /\ ~speech[act[a].preempt].scheduled
          /\ speech[act[a].preempt].refused => act[a].paused
          /\ Unauthorized(act[a].preempt)

(* What the scheduler is at.                                               *)
SchedulerOK(a) ==
    /\ act[a].scheduler \in {"none", "idle", "ended"} => act[a].current = None
    /\ act[a].scheduler = "delay" =>
          /\ act[a].current # None
          /\ act[a].current \notin Queued(a)
          /\ Unauthorized(act[a].current)
    /\ act[a].scheduler = "waiting" =>
          /\ act[a].current # None
          /\ speech[act[a].current].gen # "none"
          /\ speech[act[a].current].gen = "open" =>
                /\ Waits(act[a].current) => speech[act[a].current].authorized
                /\ speech[act[a].current].stage = "done" => speech[act[a].current].interrupted
          /\ speech[act[a].current].gen = "done" =>
                (Waits(act[a].current) => act[a].current \in Queued(a))

(* No wake-up is lost: an idle scheduler that was not woken has nothing to *)
(* serve, and when it is paused something to wait for.                     *)
WokenOK(a) ==
    act[a].scheduler = "idle" /\ ~act[a].woken =>
        /\ act[a].queue = <<>>
        /\ act[a].paused => HasTasks(a)

(* A turn's task runs in an activity that was started.                     *)
TurnOK(t) == turn[t].stage \notin {"none", "done"} => act[turn[t].owner].scheduler # "none"

(* After the scheduling task nothing is left and nothing begins.           *)
EndedOK(a) == act[a].scheduler = "ended" => act[a].paused

(* The second activity is started by the handoff, once the first is drained. *)
HandoffOK ==
    /\ sess.at["handoff"] \notin {"interrupting", "current"}
    /\ act[2].scheduler = "none" <=> sess.at["handoff"] # "over"
    /\ act[2].scheduler = "none" =>
          /\ act[2].phase = "new" /\ act[2].paused /\ act[2].queue = <<>> /\ act[2].preempt = None
          /\ sess.activity # 2 /\ \A w \in Stoppers : sess.on[w] # 2
    /\ act[2].scheduler # "none" => act[1].scheduler = "ended" /\ sess.activity # 1
    /\ act[1].scheduler \notin {"none", "cancelled"}
    /\ sess.at["handoff"] \in {"drain", "on_exit", "pausing", "aclose"} =>
          sess.on["handoff"] = 1 /\ sess.next = 2
    /\ sess.at["handoff"] = "aclose" => act[1].scheduler = "ended"
    /\ sess.next # None => sess.next = 2 /\ sess.at["handoff"] \notin {"no", "called", "over"}

(* The close drains what it closes, and closes the activity of the session. *)
CloseOK ==
    /\ sess.at["close"] \notin {"called", "failed"}
    /\ sess.at["close"] \in {"drain", "on_exit", "pausing", "aclose"} => sess.on["close"] # None
    /\ sess.started <=> sess.at["close"] # "over"
    /\ sess.activity = None => sess.at["close"] = "over" /\ act[1].scheduler = "ended"
    /\ sess.at["close"] = "current" /\ sess.activity = 1 => act[1].scheduler = "ended"
    /\ sess.at["close"] = "aclose" /\ sess.on["close"] = 1 => act[1].scheduler = "ended"
    /\ act[2].scheduler = "cancelled" => sess.at["close"] = "over"

(* Who drains holds the lock of the activity and has paused it; what the   *)
(* close waits for was interrupted, or is served.                          *)
DrainOK ==
    /\ \A a \in Activities : act[a].lock # "free" =>
          sess.at[act[a].lock] \in {"on_exit", "pausing"} /\ sess.on[act[a].lock] = a
    /\ \A w \in Stoppers : sess.at[w] = "pausing" => act[sess.on[w]].paused
    /\ sess.awaited # None =>
          /\ speech[sess.awaited].scheduled
          /\ sess.at["close"] = "interrupting" =>
                speech[sess.awaited].interrupted \/ speech[sess.awaited].stage = "done"

(* The parts about speeches, about the tasks of an activity, and about the *)
(* session; the type invariant is part of each step.                       *)
SpeechInv ==
    /\ \A h \in Speeches : HandleOK(h)
    /\ \A a \in Activities : OwnsOK(a) /\ SchedulerOK(a)
    /\ NoneForgotten

TaskInv ==
    /\ \A a \in Activities : WokenOK(a) /\ EndedOK(a)
    /\ \A t \in Turns : TurnOK(t)
    /\ DrainedIsQuiet

SessionInv == HandoffOK /\ CloseOK /\ DrainOK

IInv == TypeOK /\ SpeechInv /\ TaskInv /\ SessionInv

(* The records of the type invariant.                                      *)
Handle ==
    [stage : {"none", "scheduling", "authorizing", "playing", "cancelling", "tools", "done"},
     owner : Activities, say : BOOLEAN, allow : BOOLEAN, steps : 1..(MaxToolSteps + 1),
     scheduled : BOOLEAN, authorized : BOOLEAN, interrupted : BOOLEAN, refused : BOOLEAN,
     gen : {"none", "open", "done"}]

Activity ==
    [phase : {"new", "open", "closed"}, paused : BOOLEAN, woken : BOOLEAN,
     scheduler : {"none", "idle", "delay", "waiting", "ended", "cancelled"},
     queue : Seq(Speeches), current : Speeches \cup {None}, preempt : Speeches \cup {None},
     hooks : SUBSET {"on_enter", "on_exit"}, lock : Stoppers \cup {"free"}]


-----------------------------------------------------------------------------
(***************************************************************************)
(* Speeches.                                                               *)
(***************************************************************************)

(* A step that changes no more of a speech than that it is interrupted.    *)
Interrupts(g) ==
    /\ speech'[g].stage = speech[g].stage
    /\ speech'[g].owner = speech[g].owner
    /\ speech'[g].scheduled = speech[g].scheduled
    /\ speech'[g].authorized = speech[g].authorized
    /\ speech'[g].refused = speech[g].refused
    /\ speech'[g].gen = speech[g].gen
    /\ speech[g].interrupted => speech'[g].interrupted

(* A step that leaves an activity's speeches where they are, at most starts *)
(* or cancels its scheduler, and drops only a preemptive speech that was    *)
(* interrupted.                                                             *)
Keeps(a) ==
    /\ act'[a].queue = act[a].queue
    /\ act'[a].current = act[a].current
    /\ \/ act'[a].scheduler = act[a].scheduler
       \/ act'[a].scheduler = "cancelled"
       \/ act[a].scheduler = "none" /\ act'[a].scheduler = "idle"
    /\ \/ /\ act'[a].preempt = act[a].preempt
          /\ act[a].paused /\ act[a].preempt # None => act'[a].paused
       \/ /\ act'[a].preempt = None
          /\ act[a].preempt # None =>
                speech[act[a].preempt].stage = "done" \/ speech'[act[a].preempt].interrupted

(* What the variables hold.                                                *)
Ranges ==
    /\ \A h \in Speeches :
          /\ speech[h].owner \in Activities
          /\ speech[h].gen \in {"none", "open", "done"}
    /\ \A a \in Activities :
          /\ act[a].queue \in Seq(Speeches)
          /\ Queued(a) \subseteq Speeches
          /\ act[a].current \in Speeches \cup {None}
          /\ act[a].preempt \in Speeches \cup {None}

LEMMA TypesRange == TypeOK => Ranges
  BY DEF TypeOK, Ranges, Queued

(* The speeches of an activity stay its own.                               *)
LEMMA OwnsKept ==
    ASSUME Ranges, NEW a \in Activities, OwnsOK(a), Keeps(a),
           \A g \in Speeches : /\ speech'[g].owner = speech[g].owner
                               /\ speech'[g].scheduled = speech[g].scheduled
                               /\ speech'[g].refused = speech[g].refused
                               /\ Unauthorized(g) => Unauthorized(g)'
    PROVE  OwnsOK(a)'
<1>1. act'[a].queue = act[a].queue /\ Queued(a)' = Queued(a)
  BY DEF Keeps, Queued
<1>2. \A h \in Queued(a) : speech'[h].owner = a /\ speech'[h].scheduled /\ Unauthorized(h)'
  BY DEF Ranges, OwnsOK
<1>3. act'[a].current # None =>
        /\ speech'[act'[a].current].owner = a
        /\ speech'[act'[a].current].scheduled
  BY DEF Ranges, OwnsOK, Keeps
<1>4. (act[a].preempt # None =>
        /\ speech[act[a].preempt].owner = a
        /\ ~speech[act[a].preempt].scheduled
        /\ speech[act[a].preempt].refused => act[a].paused
        /\ Unauthorized(act[a].preempt))'
  <2> SUFFICES ASSUME act'[a].preempt # None
               PROVE  (/\ speech[act[a].preempt].owner = a
                       /\ ~speech[act[a].preempt].scheduled
                       /\ speech[act[a].preempt].refused => act[a].paused
                       /\ Unauthorized(act[a].preempt))'
    OBVIOUS
  <2>1. /\ act'[a].preempt = act[a].preempt /\ act[a].preempt \in Speeches
        /\ act[a].paused => act'[a].paused
    BY DEF Ranges, Keeps
  <2>2. Unauthorized(act[a].preempt)'
    BY <2>1 DEF OwnsOK, Unauthorized, Waits
  <2> QED
    BY <2>1, <2>2 DEF OwnsOK
<1> QED
  BY <1>1, <1>2, <1>3, <1>4 DEF OwnsOK

LEMMA QuietStep ==
    ASSUME TypeOK, SpeechInv,
           \A g \in Speeches : Interrupts(g),
           \A a \in Activities : Keeps(a)
    PROVE  SpeechInv'
<1>t. Ranges
  BY TypesRange
<1>1. ASSUME NEW h \in Speeches PROVE HandleOK(h)'
  BY <1>t DEF Ranges, SpeechInv, HandleOK, Interrupts, Keeps
<1>u. \A g \in Speeches : Unauthorized(g) => Unauthorized(g)'
  BY DEF Interrupts, Unauthorized, Waits
<1>f. /\ \A g \in Speeches : speech'[g].owner = speech[g].owner
      /\ \A g \in Speeches : speech'[g].scheduled = speech[g].scheduled
      /\ \A g \in Speeches : speech'[g].refused = speech[g].refused
  BY DEF Interrupts
<1>2. ASSUME NEW a \in Activities PROVE OwnsOK(a)'
  BY <1>t, <1>u, <1>f, OwnsKept DEF SpeechInv
<1>3. ASSUME NEW a \in Activities PROVE SchedulerOK(a)'
  BY <1>t, <1>3 DEF Ranges, SpeechInv, SchedulerOK, Interrupts, Keeps, Unauthorized, Waits, Queued
<1>4. NoneForgotten'
  BY <1>t DEF Ranges, SpeechInv, NoneForgotten, Interrupts, Keeps, Queued
<1> QED
  BY <1>1, <1>2, <1>3, <1>4 DEF SpeechInv

(* A speech is done: it was interrupted while it waited, or has played.    *)
LEMMA DoneStep ==
    ASSUME TypeOK, SpeechInv, NEW h \in Speeches,
           \/ Waits(h) /\ speech[h].interrupted
           \/ speech[h].stage \in {"playing", "tools", "cancelling"},
           /\ speech'[h].stage = "done"
           /\ speech'[h].owner = speech[h].owner
           /\ speech'[h].scheduled = speech[h].scheduled
           /\ ~speech'[h].authorized
           /\ speech'[h].refused = speech[h].refused
           /\ speech'[h].gen = IF speech[h].gen = "open" THEN "done" ELSE speech[h].gen
           /\ speech'[h].interrupted = speech[h].interrupted,
           \A g \in Speeches \ {h} : Interrupts(g),
           \A a \in Activities : Keeps(a)
    PROVE  SpeechInv'
<1>t. Ranges
  BY TypesRange
<1>1. ASSUME NEW g \in Speeches PROVE HandleOK(g)'
  BY <1>t DEF Ranges, SpeechInv, HandleOK, Interrupts, Keeps
<1>u. \A g \in Speeches : Unauthorized(g) => Unauthorized(g)'
  BY DEF Interrupts, Unauthorized, Waits
<1>f. /\ \A g \in Speeches : speech'[g].owner = speech[g].owner
      /\ \A g \in Speeches : speech'[g].scheduled = speech[g].scheduled
      /\ \A g \in Speeches : speech'[g].refused = speech[g].refused
  BY DEF Interrupts
<1>2. ASSUME NEW a \in Activities PROVE OwnsOK(a)'
  BY <1>t, <1>u, <1>f, OwnsKept DEF SpeechInv
<1>3. ASSUME NEW a \in Activities PROVE SchedulerOK(a)'
  BY <1>t, <1>3 DEF Ranges, SpeechInv, SchedulerOK, Interrupts, Keeps, Unauthorized, Waits, Queued
<1>4. NoneForgotten'
  BY <1>t DEF Ranges, SpeechInv, NoneForgotten, Interrupts, Keeps, Queued
<1> QED
  BY <1>1, <1>2, <1>3, <1>4 DEF SpeechInv

(* A scheduled reply waits for its authorization, an authorized speech is  *)
(* played, a reply that was played goes on to its tools.                   *)
LEMMA ProceedStep ==
    ASSUME TypeOK, SpeechInv, NEW h \in Speeches,
           \/ /\ speech[h].stage = "scheduling" /\ speech[h].scheduled
              /\ speech'[h].stage = "authorizing"
              /\ speech'[h].authorized = speech[h].authorized
              /\ speech'[h].gen = speech[h].gen
           \/ /\ speech[h].stage = "authorizing" /\ speech[h].authorized
              /\ speech'[h].stage = "playing"
              /\ ~speech'[h].authorized
              /\ speech'[h].gen = speech[h].gen
           \/ /\ speech[h].stage = "playing"
              /\ speech'[h].stage \in {"tools", "cancelling"}
              /\ speech'[h].authorized = speech[h].authorized
              /\ speech'[h].gen = "done",
           /\ speech'[h].owner = speech[h].owner
           /\ speech'[h].scheduled = speech[h].scheduled
           /\ speech'[h].refused = speech[h].refused
           /\ speech'[h].interrupted = speech[h].interrupted,
           \A g \in Speeches \ {h} : Interrupts(g),
           UNCHANGED act
    PROVE  SpeechInv'
<1>t. Ranges
  BY TypesRange
<1>1. ASSUME NEW g \in Speeches PROVE HandleOK(g)'
  <2>1. HandleOK(g)
    BY DEF SpeechInv
  <2>2. speech[g].authorized => speech[g].scheduled
    BY <1>t, <2>1 DEF Ranges, SpeechInv, OwnsOK, HandleOK, None, Speeches
  <2>3. CASE g # h
    BY <2>1, <2>3 DEF HandleOK, Interrupts
  <2>4. CASE g = h
    BY <2>1, <2>2, <2>4 DEF HandleOK
  <2> QED
    BY <2>3, <2>4
<1>f. /\ \A g \in Speeches : speech'[g].owner = speech[g].owner
      /\ \A g \in Speeches : speech'[g].scheduled = speech[g].scheduled
      /\ \A g \in Speeches : speech'[g].refused = speech[g].refused
  BY DEF Interrupts
(* An authorized speech is the current one of a scheduler that waits: it   *)
(* is neither queued nor preemptive.                                       *)
<1>2. ASSUME NEW a \in Activities PROVE OwnsOK(a)'
  <2>1. Keeps(a)
    BY DEF Keeps
  <2>2. \A g \in Speeches : Unauthorized(g) => Unauthorized(g)'
    BY SMTT(60), <1>t DEF Ranges, SpeechInv, HandleOK, Interrupts, Unauthorized, Waits
  <2> QED
    BY <1>t, <1>f, <2>1, <2>2, OwnsKept DEF SpeechInv
<1>3. ASSUME NEW a \in Activities PROVE SchedulerOK(a)'
  BY <1>t, <1>3 DEF Ranges, SpeechInv, HandleOK, SchedulerOK, Interrupts, Unauthorized, Waits, Queued
<1>4. NoneForgotten'
  BY <1>t DEF Ranges, SpeechInv, NoneForgotten, Interrupts, Queued
<1> QED
  BY <1>1, <1>2, <1>3, <1>4 DEF SpeechInv

(* The scheduler authorizes its current speech.                            *)
LEMMA AuthorizeStep ==
    ASSUME TypeOK, SpeechInv, NEW a \in Activities, Authorize(a)
    PROVE  SpeechInv'
<1>t. Ranges
  BY TypesRange
<1> DEFINE c == act[a].current
<1>a. /\ act[a].scheduler = "delay" /\ c \in Speeches
      /\ c \notin Queued(a) /\ Unauthorized(c)
      /\ speech[c].owner = a /\ speech[c].scheduled
  BY <1>t DEF Ranges, Authorize, SpeechInv, OwnsOK, SchedulerOK
<1>b. /\ speech'[c].stage = speech[c].stage
      /\ speech'[c].owner = speech[c].owner
      /\ speech'[c].scheduled = speech[c].scheduled
      /\ speech'[c].refused = speech[c].refused
      /\ speech'[c].interrupted = speech[c].interrupted
      /\ speech'[c].authorized
      /\ speech'[c].gen = "open"
      /\ \A g \in Speeches \ {c} : speech'[g] = speech[g]
  <2>1. /\ speech \in [Speeches -> Handle]
        /\ speech' = [speech EXCEPT ![c].authorized = TRUE, ![c].gen = "open"]
    BY DEF Authorize, TypeOK, Handle
  <2> HIDE DEF c
  <2> QED
    BY ZenonT(60), <1>a, <2>1 DEF Handle
<1>c. /\ act'[a].scheduler = "waiting"
      /\ \A b \in Activities :
            /\ act'[b].queue = act[b].queue
            /\ act'[b].current = act[b].current
            /\ act'[b].preempt = act[b].preempt
            /\ act'[b].paused = act[b].paused
            /\ b # a => act'[b].scheduler = act[b].scheduler
  BY <1>a DEF Authorize, TypeOK
<1> HIDE DEF c
<1>1. ASSUME NEW g \in Speeches PROVE HandleOK(g)'
  BY <1>t, <1>a, <1>b, <1>c DEF Ranges, SpeechInv, HandleOK, OwnsOK, Unauthorized, Waits, c
<1>2. ASSUME NEW b \in Activities PROVE OwnsOK(b)'
  <2>1. OwnsOK(b)
    BY DEF SpeechInv
  <2>2. Queued(b)' = Queued(b) /\ Queued(b) \subseteq Speeches \ {c}
    BY <1>t, <1>a, <1>c, <2>1 DEF Ranges, OwnsOK, Queued
  <2>3. act[b].preempt # None => act[b].preempt \in Speeches \ {c}
    BY <1>t, <1>a, <2>1 DEF Ranges, OwnsOK
  <2>4. \A h \in Queued(b) : speech'[h].owner = b /\ speech'[h].scheduled /\ Unauthorized(h)'
    BY <1>b, <2>1, <2>2 DEF OwnsOK, Unauthorized, Waits
  <2>5. act'[b].current # None =>
          /\ speech'[act'[b].current].owner = b
          /\ speech'[act'[b].current].scheduled
    BY <1>t, <1>b, <1>c, <2>1 DEF Ranges, OwnsOK
  <2>6. (act[b].preempt # None =>
          /\ speech[act[b].preempt].owner = b
          /\ ~speech[act[b].preempt].scheduled
          /\ speech[act[b].preempt].refused => act[b].paused
          /\ Unauthorized(act[b].preempt))'
    BY <1>b, <1>c, <2>1, <2>3 DEF OwnsOK, Unauthorized, Waits
  <2> QED
    BY <1>c, <2>1, <2>2, <2>4, <2>5, <2>6 DEF OwnsOK
<1>3. ASSUME NEW b \in Activities PROVE SchedulerOK(b)'
  <2>1. CASE b = a
    <3>1. act'[b].scheduler = "waiting" /\ act'[b].current = c /\ c # None
      BY <1>a, <1>c, <2>1 DEF None, Speeches, c
    <3> QED
      BY <1>a, <1>b, <3>1 DEF SchedulerOK, Unauthorized, Waits
  <2>2. CASE b # a
    <3>1. act[b].current # None => act[b].current \in Speeches \ {c}
      BY <1>t, <1>a, <2>2 DEF Ranges, SpeechInv, OwnsOK
    <3> QED
      BY <1>b, <1>c, <2>2, <3>1 DEF SpeechInv, SchedulerOK, Unauthorized, Waits, Queued
  <2> QED
    BY <2>1, <2>2
<1>4. NoneForgotten'
  BY <1>t, <1>a, <1>b, <1>c DEF Ranges, SpeechInv, NoneForgotten, Queued
<1> QED
  BY <1>1, <1>2, <1>3, <1>4 DEF SpeechInv

(* A queue without repetitions, its first entry taken.                     *)
Entries(q) == {q[i] : i \in DOMAIN q}

LEMMA QueueHead ==
    ASSUME NEW q \in Seq(Speeches), q # <<>>, Distinct(q)
    PROVE  /\ Head(q) \in Entries(q)
           /\ Tail(q) \in Seq(Speeches) /\ Distinct(Tail(q))
           /\ Entries(Tail(q)) = Entries(q) \ {Head(q)}
<1> DEFINE t == Tail(q)
<1>1. /\ Len(q) \in Nat \ {0} /\ DOMAIN q = 1..Len(q)
      /\ t \in Seq(Speeches) /\ DOMAIN t = 1..(Len(q) - 1)
      /\ \A i \in 1..(Len(q) - 1) : t[i] = q[i + 1]
      /\ Head(q) = q[1]
  BY EmptySeq, LenProperties, HeadTailProperties
<1> HIDE DEF t
<1>2. Distinct(t)
  <2> SUFFICES ASSUME NEW i \in DOMAIN t, NEW j \in DOMAIN t, t[i] = t[j] PROVE i = j
    BY DEF Distinct
  <2>1. i + 1 \in DOMAIN q /\ j + 1 \in DOMAIN q /\ q[i + 1] = q[j + 1]
    BY <1>1
  <2>2. i + 1 = j + 1
    BY <2>1 DEF Distinct
  <2> QED
    BY <1>1, <2>2
<1>3. Entries(t) \subseteq Entries(q) \ {Head(q)}
  <2> SUFFICES ASSUME NEW i \in DOMAIN t PROVE t[i] \in Entries(q) \ {Head(q)}
    BY DEF Entries
  <2>1. i + 1 \in DOMAIN q /\ 1 \in DOMAIN q /\ i + 1 # 1 /\ t[i] = q[i + 1]
    BY <1>1
  <2> QED
    BY <1>1, <2>1 DEF Entries, Distinct
<1>4. ASSUME NEW j \in DOMAIN q, q[j] # Head(q) PROVE q[j] \in Entries(t)
  <2>1. j - 1 \in DOMAIN t /\ (j - 1) + 1 = j
    BY <1>1, <1>4
  <2> QED
    BY <1>1, <2>1 DEF Entries
<1>5. Head(q) \in Entries(q)
  BY <1>1 DEF Entries
<1>6. Entries(q) \ {Head(q)} \subseteq Entries(t)
  BY <1>4 DEF Entries
<1> QED
  BY <1>1, <1>2, <1>3, <1>5, <1>6 DEF t

(* Another entry at its end.                                               *)
LEMMA QueueEnd ==
    ASSUME NEW q \in Seq(Speeches), NEW h \in Speeches
    PROVE  /\ Append(q, h) \in Seq(Speeches) /\ Append(q, h) # <<>>
           /\ Entries(Append(q, h)) = Entries(q) \cup {h}
           /\ Distinct(q) /\ h \notin Entries(q) => Distinct(Append(q, h))
<1> DEFINE t == Append(q, h)
<1>1. /\ Len(q) \in Nat /\ DOMAIN q = 1..Len(q)
      /\ t \in Seq(Speeches) /\ t # <<>> /\ DOMAIN t = 1..(Len(q) + 1)
      /\ \A i \in 1..Len(q) : t[i] = q[i]
      /\ t[Len(q) + 1] = h
  BY AppendProperties, LenProperties
<1> HIDE DEF t
<1>2. Entries(t) = Entries(q) \cup {h}
  BY <1>1 DEF Entries
<1>3. Distinct(q) /\ h \notin Entries(q) => Distinct(t)
  BY <1>1 DEF Entries, Distinct
<1> QED
  BY <1>1, <1>2, <1>3 DEF t

(* The scheduler takes its next speech, after the last one was played out  *)
(* or it was idle.                                                         *)
LEMMA ServeStep ==
    ASSUME TypeOK, SpeechInv, NEW a \in Activities, Serve(a), UNCHANGED speech,
           \/ act[a].scheduler = "idle"
           \/ act[a].scheduler = "waiting" /\ speech[act[a].current].gen = "done"
    PROVE  SpeechInv'
<1>t. Ranges
  BY TypesRange
<1> DEFINE q == act[a].queue
<1>a. /\ OwnsOK(a) /\ SchedulerOK(a)
      /\ q \in Seq(Speeches) /\ Queued(a) = Entries(q)
  BY <1>t DEF Ranges, SpeechInv, Queued, Entries
<1>b. \A b \in Activities \ {a} : act'[b] = act[b]
  BY DEF Serve, TypeOK
<1>c. /\ act'[a].preempt = act[a].preempt
      /\ act'[a].paused = act[a].paused
      /\ \/ /\ q # <<>> /\ act'[a].scheduler = "delay"
            /\ act'[a].current = Head(q) /\ act'[a].queue = Tail(q)
         \/ /\ q = <<>> /\ act'[a].scheduler \in {"ended", "idle"}
            /\ act'[a].current = None /\ act'[a].queue = q
  BY DEF Serve, TypeOK
<1>d. /\ Distinct(act'[a].queue)
      /\ Queued(a)' = Queued(a) \ {act'[a].current}
      /\ act'[a].current # None => act'[a].current \in Queued(a) /\ act'[a].scheduler = "delay"
      /\ act'[a].current = None => act'[a].scheduler \in {"ended", "idle"}
  <2>1. CASE q # <<>>
    <3>1. /\ Head(q) \in Entries(q) /\ Distinct(Tail(q))
          /\ Entries(Tail(q)) = Entries(q) \ {Head(q)}
      BY <1>a, <2>1, QueueHead DEF OwnsOK
    <3>2. Queued(a)' = Entries(Tail(q))
      BY <1>c, <2>1 DEF Queued, Entries
    <3>3. Head(q) # None
      BY <1>t, <1>a, <3>1 DEF Ranges, Speeches, None
    <3> QED
      BY <1>a, <1>c, <2>1, <3>1, <3>2, <3>3
  <2>2. CASE q = <<>>
    <3>1. Queued(a)' = Queued(a) /\ None \notin Queued(a)
      BY <1>t, <1>c, <2>2 DEF Ranges, Queued, Speeches, None
    <3> QED
      BY <1>a, <1>c, <2>2, <3>1 DEF OwnsOK
  <2> QED
    BY <2>1, <2>2
<1> HIDE DEF q
<1>e. \A h \in Speeches : speech[h].authorized \/ speech[h].stage = "playing" => speech[h].owner # a
  BY <1>t DEF Ranges, SpeechInv, HandleOK
<1>f. \A b \in Activities \ {a} : Queued(b)' = Queued(b)
  BY <1>b DEF Queued
<1>g. act'[a].scheduler # "none" /\ act[a].scheduler # "none" /\ act'[a].scheduler # "cancelled"
  BY <1>c
<1>1. ASSUME NEW h \in Speeches PROVE HandleOK(h)'
  <2>1. CASE speech[h].owner = a
    BY <1>e, <1>g, <2>1 DEF SpeechInv, HandleOK
  <2>2. CASE speech[h].owner # a
    BY <1>t, <1>b, <2>2 DEF Ranges, SpeechInv, HandleOK
  <2> QED
    BY <2>1, <2>2
<1>2. ASSUME NEW b \in Activities PROVE OwnsOK(b)'
  <2>1. CASE b = a
    BY <1>a, <1>c, <1>d, <2>1 DEF OwnsOK, Unauthorized, Waits
  <2>2. CASE b # a
    BY <1>b, <1>f, <2>2 DEF SpeechInv, OwnsOK, Unauthorized, Waits
  <2> QED
    BY <2>1, <2>2
<1>3. ASSUME NEW b \in Activities PROVE SchedulerOK(b)'
  <2>1. CASE b = a
    BY <1>a, <1>d, <2>1 DEF SchedulerOK, OwnsOK, Unauthorized, Waits
  <2>2. CASE b # a
    BY <1>b, <1>f, <2>2 DEF SpeechInv, SchedulerOK, Unauthorized, Waits
  <2> QED
    BY <2>1, <2>2
<1>4. NoneForgotten'
  <2> SUFFICES ASSUME NEW h \in Speeches, Waits(h), ~speech[h].interrupted, ~speech[h].refused
               PROVE  LET b == speech[h].owner
                      IN  \/ h \in Queued(b)' \cup {act'[b].current, act'[b].preempt}
                          \/ act'[b].scheduler = "cancelled"
    BY DEF NoneForgotten, Waits
  <2>1. LET b == speech[h].owner
        IN  \/ h \in Queued(b) \cup {act[b].current, act[b].preempt}
            \/ act[b].scheduler = "cancelled"
    BY DEF SpeechInv, NoneForgotten, Waits
  <2>2. CASE speech[h].owner = a
    BY <1>a, <1>c, <1>d, <2>1, <2>2 DEF SchedulerOK, Speeches, None
  <2>3. CASE speech[h].owner # a
    BY <1>t, <1>b, <1>f, <2>1, <2>3 DEF Ranges
  <2> QED
    BY <2>2, <2>3
<1> QED
  BY <1>1, <1>2, <1>3, <1>4 DEF SpeechInv

(* A speech that is in no queue: the scheduler does not serve it, unless   *)
(* it has just been played.                                                *)
Unqueued(h) == ~speech[h].scheduled \/ speech[h].stage = "tools"

LEMMA UnqueuedFacts ==
    ASSUME TypeOK, SpeechInv, NEW h \in Speeches, Unqueued(h)
    PROVE  /\ ~speech[h].authorized
           /\ \A b \in Activities :
                 /\ h \notin Queued(b)
                 /\ act[b].current = h =>
                       act[b].scheduler # "delay" /\ speech[h].gen = "done" /\ speech[h].scheduled
<1>t. Ranges
  BY TypesRange
<1>1. ASSUME NEW b \in Activities
      PROVE  /\ h \notin Queued(b)
             /\ act[b].current = h =>
                   act[b].scheduler # "delay" /\ speech[h].gen = "done" /\ speech[h].scheduled
  <2>1. OwnsOK(b) /\ SchedulerOK(b) /\ HandleOK(h) /\ h # None
    BY DEF SpeechInv, Speeches, None
  <2> QED
    BY <1>t, <2>1 DEF Unqueued, OwnsOK, SchedulerOK, HandleOK, Unauthorized, Waits
<1>2. ~speech[h].authorized
  <2>1. HandleOK(h) /\ speech[h].owner \in Activities
    BY <1>t DEF SpeechInv, Ranges
  <2> QED
    BY <1>1, <2>1 DEF HandleOK
<1> QED
  BY <1>1, <1>2

(* A step about the speech h that leaves the schedulers where they are and *)
(* drops a preemptive speech only if it is h or was interrupted.           *)
KeepsBut(b, h) ==
    /\ act'[b].current = act[b].current
    /\ act'[b].scheduler = act[b].scheduler
    /\ \/ /\ act'[b].preempt = act[b].preempt
          /\ act[b].paused => act'[b].paused
       \/ /\ act'[b].preempt \in {None, h}
          /\ act[b].preempt \notin {None, h} =>
                speech[act[b].preempt].stage = "done" \/ speech'[act[b].preempt].interrupted

(* No waiting speech is forgotten in the next state.                       *)
LEMMA NoneForgottenNext ==
    ASSUME \A g \in Speeches : speech'[g].owner \in Activities,
           \A g \in Speeches, b \in Activities :
              (/\ speech[g].owner = b /\ Waits(g)
               /\ ~speech[g].interrupted /\ ~speech[g].refused)' =>
              \/ g \in Queued(b)' \cup {act'[b].current, act'[b].preempt}
              \/ act'[b].scheduler = "cancelled"
    PROVE  NoneForgotten'
  BY DEF NoneForgotten, Waits, Queued

(* A speech that is made, or that was preemptive, is put at the end of no  *)
(* queue: it is preemptive, its scheduling raised, or its scheduler was    *)
(* cancelled.                                                              *)
LEMMA ApartStep ==
    ASSUME TypeOK, SpeechInv, NEW h \in Speeches, NEW a \in Activities,
           Unqueued(h),
           speech[h].stage = "none" \/ speech[h].owner = a,
           speech[h].scheduled => /\ act[a].scheduler = "cancelled"
                                  /\ ~speech'[h].refused
                                  /\ \A b \in Activities : act'[b].preempt # h,
           /\ speech'[h].owner = a
           /\ (speech'[h].scheduled <=> speech[h].scheduled)
           /\ ~speech'[h].authorized
           /\ Waits(h)' \/ speech'[h].stage = "done",
           \A g \in Speeches \ {h} : Interrupts(g),
           \A b \in Activities : KeepsBut(b, h) /\ act'[b].queue = act[b].queue,
           \A b \in Activities : act'[b].preempt = h =>
              b = a /\ (Unauthorized(h)') /\ (speech'[h].refused => act'[a].paused),
           \/ speech'[h].stage = "done" \/ speech'[h].interrupted \/ speech'[h].refused
           \/ act'[a].preempt = h \/ act[a].scheduler = "cancelled"
    PROVE  SpeechInv'
<1>t. Ranges
  BY TypesRange
<1>u. /\ ~speech[h].authorized
      /\ \A b \in Activities :
            /\ h \notin Queued(b)
            /\ act[b].current = h => speech[h].scheduled /\ b = a /\ act[b].scheduler = "cancelled"
  <2>1. \A b \in Activities : act[b].current = h => speech[h].owner = b /\ speech[h].stage # "none"
    BY DEF SpeechInv, OwnsOK, HandleOK, Speeches, None
  <2> QED
    BY <2>1, UnqueuedFacts
<1>q. \A b \in Activities : Queued(b)' = Queued(b)
  BY DEF Queued
<1>1. ASSUME NEW g \in Speeches PROVE HandleOK(g)'
  <2>1. CASE g = h
    BY <2>1 DEF HandleOK, Waits, KeepsBut
  <2>2. CASE g # h
    BY <1>t, <2>2 DEF Ranges, SpeechInv, HandleOK, Interrupts, KeepsBut
  <2> QED
    BY <2>1, <2>2
<1>2. ASSUME NEW b \in Activities PROVE OwnsOK(b)'
  <2>0. OwnsOK(b) /\ KeepsBut(b, h) /\ act'[b].queue = act[b].queue
    BY DEF SpeechInv
  <2>1. \A g \in Queued(b) : speech'[g].owner = b /\ speech'[g].scheduled /\ Unauthorized(g)'
    BY <1>t, <1>u, <2>0 DEF Ranges, OwnsOK, Interrupts, Unauthorized, Waits
  <2>2. act'[b].current # None =>
          /\ speech'[act'[b].current].owner = b
          /\ speech'[act'[b].current].scheduled
    BY <1>t, <1>u, <2>0 DEF Ranges, OwnsOK, Interrupts, KeepsBut
  <2>3. (act[b].preempt # None =>
          /\ speech[act[b].preempt].owner = b
          /\ ~speech[act[b].preempt].scheduled
          /\ speech[act[b].preempt].refused => act[b].paused
          /\ Unauthorized(act[b].preempt))'
    <3>1. CASE act'[b].preempt = h
      BY <3>1 DEF Unauthorized, Waits
    <3>2. CASE act'[b].preempt \notin {None, h}
      <4>1. /\ act'[b].preempt = act[b].preempt /\ act[b].preempt \in Speeches \ {h}
            /\ act[b].preempt # None
            /\ act[b].paused => act'[b].paused
        BY <1>t, <2>0, <3>2 DEF Ranges, KeepsBut
      <4> QED
        BY <2>0, <4>1 DEF OwnsOK, Interrupts, Unauthorized, Waits
    <3> QED
      BY <3>1, <3>2
  <2> QED
    BY <1>q, <2>0, <2>1, <2>2, <2>3 DEF OwnsOK
<1>3. ASSUME NEW b \in Activities PROVE SchedulerOK(b)'
  <2>0. SchedulerOK(b) /\ KeepsBut(b, h)
    BY DEF SpeechInv
  <2>1. act[b].current \notin {None, h} => Interrupts(act[b].current)
    BY <1>t DEF Ranges
  <2>2. act[b].current = h => act'[b].scheduler = "cancelled"
    BY <1>u, <2>0 DEF KeepsBut
  <2> QED
    BY <1>q, <2>0, <2>1, <2>2 DEF SchedulerOK, Interrupts, KeepsBut, Unauthorized, Waits
<1>4. NoneForgotten'
  <2> SUFFICES ASSUME NEW g \in Speeches, NEW b \in Activities, speech'[g].owner = b,
                      Waits(g)', ~speech'[g].interrupted, ~speech'[g].refused
               PROVE  \/ g \in Queued(b)' \cup {act'[b].current, act'[b].preempt}
                      \/ act'[b].scheduler = "cancelled"
    BY <1>t, NoneForgottenNext DEF Ranges, Interrupts
  <2>1. CASE g = h
    BY <2>1 DEF Waits, KeepsBut
  <2>2. CASE g # h
    <3>1. speech[g].owner = b /\ Waits(g) /\ ~speech[g].interrupted /\ ~speech[g].refused
      BY <1>t, <2>2 DEF Ranges, Interrupts, Waits
    <3>2. \/ g \in Queued(b) \cup {act[b].current, act[b].preempt}
          \/ act[b].scheduler = "cancelled"
      BY <3>1 DEF SpeechInv, NoneForgotten, Waits
    <3> QED
      BY <1>q, <2>2, <3>1, <3>2 DEF KeepsBut, Waits, Speeches, None
  <2> QED
    BY <2>1, <2>2
<1> QED
  BY <1>1, <1>2, <1>3, <1>4 DEF SpeechInv

(* A speech is put at the end of a queue: it was made, was preemptive, or  *)
(* has played and replies to its tools.                                    *)
LEMMA PlaceStep ==
    ASSUME TypeOK, SpeechInv, NEW h \in Speeches, NEW a \in Activities,
           Unqueued(h),
           speech[h].stage = "none" \/ speech[h].owner = a,
           /\ speech'[h].owner = a
           /\ speech'[h].scheduled
           /\ ~speech'[h].refused
           /\ Unauthorized(h)'
           /\ ~speech'[h].authorized
           /\ speech'[h].gen = speech[h].gen \/ speech[h].stage = "none",
           \A g \in Speeches \ {h} : Interrupts(g),
           act[a].scheduler # "none",
           act'[a].queue = Append(act[a].queue, h),
           \A b \in Activities :
              /\ KeepsBut(b, h) /\ act'[b].preempt # h
              /\ b # a => act'[b].queue = act[b].queue
    PROVE  SpeechInv'
<1>t. Ranges
  BY TypesRange
<1>u. /\ ~speech[h].authorized
      /\ \A b \in Activities :
            /\ h \notin Queued(b)
            /\ act[b].current = h =>
                  act[b].scheduler # "delay" /\ speech[h].gen = "done" /\ speech[h].scheduled
  BY UnqueuedFacts
<1>q. /\ Queued(a)' = Queued(a) \cup {h}
      /\ Distinct(act'[a].queue)
      /\ \A b \in Activities \ {a} : Queued(b)' = Queued(b)
  <2>1. /\ act[a].queue \in Seq(Speeches) /\ Distinct(act[a].queue)
        /\ h \notin Entries(act[a].queue)
    BY <1>t, <1>u DEF Ranges, SpeechInv, OwnsOK, Queued, Entries
  <2>2. /\ Entries(Append(act[a].queue, h)) = Entries(act[a].queue) \cup {h}
        /\ Distinct(Append(act[a].queue, h))
    BY <2>1, QueueEnd
  <2> QED
    BY SMTT(60), <2>2 DEF Queued, Entries
<1>o. \A b \in Activities : act[b].current = h => b = a
  BY <1>u DEF SpeechInv, OwnsOK, HandleOK, Speeches, None
<1>1. ASSUME NEW g \in Speeches PROVE HandleOK(g)'
  <2>1. CASE g = h
    BY <2>1 DEF HandleOK, Unauthorized, Waits, KeepsBut
  <2>2. CASE g # h
    BY <1>t, <2>2 DEF Ranges, SpeechInv, HandleOK, Interrupts, KeepsBut
  <2> QED
    BY <2>1, <2>2
<1>2. ASSUME NEW b \in Activities PROVE OwnsOK(b)'
  <2>0. OwnsOK(b) /\ KeepsBut(b, h) /\ act'[b].preempt # h
    BY DEF SpeechInv
  <2>1. \A g \in Queued(b)' : speech'[g].owner = b /\ speech'[g].scheduled /\ Unauthorized(g)'
    <3>1. \A g \in Queued(b) : speech'[g].owner = b /\ speech'[g].scheduled /\ Unauthorized(g)'
      BY <1>t, <1>u, <2>0 DEF Ranges, OwnsOK, Interrupts, Unauthorized, Waits
    <3> QED
      BY <1>q, <3>1
  <2>2. act'[b].current # None =>
          /\ speech'[act'[b].current].owner = b
          /\ speech'[act'[b].current].scheduled
    BY <1>t, <1>o, <2>0 DEF Ranges, OwnsOK, Interrupts, KeepsBut
  <2>3. (act[b].preempt # None =>
          /\ speech[act[b].preempt].owner = b
          /\ ~speech[act[b].preempt].scheduled
          /\ speech[act[b].preempt].refused => act[b].paused
          /\ Unauthorized(act[b].preempt))'
    <3> SUFFICES ASSUME act'[b].preempt # None
                 PROVE  (/\ speech[act[b].preempt].owner = b
                         /\ ~speech[act[b].preempt].scheduled
                         /\ speech[act[b].preempt].refused => act[b].paused
                         /\ Unauthorized(act[b].preempt))'
      OBVIOUS
    <3>1. /\ act'[b].preempt = act[b].preempt /\ act[b].preempt \in Speeches \ {h}
          /\ act[b].preempt # None
          /\ act[b].paused => act'[b].paused
      BY <1>t, <2>0 DEF Ranges, KeepsBut
    <3> QED
      BY <2>0, <3>1 DEF OwnsOK, Interrupts, Unauthorized, Waits
  <2>4. Distinct(act'[b].queue)
    BY <1>q, <2>0 DEF OwnsOK
  <2> QED
    BY <2>1, <2>2, <2>3, <2>4 DEF OwnsOK
<1>3. ASSUME NEW b \in Activities PROVE SchedulerOK(b)'
  <2>0. SchedulerOK(b) /\ KeepsBut(b, h)
    BY DEF SpeechInv
  <2>1. CASE act[b].current # h
    <3>1. act[b].current # None => Interrupts(act[b].current)
      BY <1>t, <2>1 DEF Ranges
    <3>2. Queued(b) \subseteq Queued(b)' /\ (act[b].current \in Queued(b)' => act[b].current \in Queued(b))
      BY <1>q, <2>1
    <3> QED
      BY <2>0, <3>1, <3>2 DEF SchedulerOK, Interrupts, KeepsBut, Unauthorized, Waits
  <2>2. CASE act[b].current = h
    <3>1. b = a /\ h \in Queued(b)' /\ act'[b].current = h /\ h # None
      BY SMTT(60), <1>o, <1>q, <2>0, <2>2 DEF KeepsBut, Speeches, None
    <3>2. /\ act'[b].scheduler = act[b].scheduler /\ act'[b].scheduler # "delay"
          /\ act'[b].scheduler \notin {"none", "idle", "ended"}
          /\ speech'[h].gen = "done"
      BY <1>u, <2>0, <2>2, <3>1 DEF KeepsBut, SchedulerOK, SpeechInv, HandleOK
    <3> QED
      BY <3>1, <3>2 DEF SchedulerOK
  <2> QED
    BY <2>1, <2>2
<1>4. NoneForgotten'
  <2> SUFFICES ASSUME NEW g \in Speeches, NEW b \in Activities, speech'[g].owner = b,
                      Waits(g)', ~speech'[g].interrupted, ~speech'[g].refused
               PROVE  \/ g \in Queued(b)' \cup {act'[b].current, act'[b].preempt}
                      \/ act'[b].scheduler = "cancelled"
    BY <1>t, NoneForgottenNext DEF Ranges, Interrupts
  <2>1. CASE g = h
    BY <1>q, <2>1
  <2>2. CASE g # h
    <3>1. speech[g].owner = b /\ Waits(g) /\ ~speech[g].interrupted /\ ~speech[g].refused
      BY <1>t, <2>2 DEF Ranges, Interrupts, Waits
    <3>2. \/ g \in Queued(b) \cup {act[b].current, act[b].preempt}
          \/ act[b].scheduler = "cancelled"
      BY <3>1 DEF SpeechInv, NoneForgotten, Waits
    <3> QED
      BY <1>q, <2>2, <3>1, <3>2 DEF KeepsBut, Waits, Speeches, None
  <2> QED
    BY <2>1, <2>2
<1> QED
  BY <1>1, <1>2, <1>3, <1>4 DEF SpeechInv

-----------------------------------------------------------------------------
(***************************************************************************)
(* What the model's operators change.                                      *)
(***************************************************************************)

LEMMA Types ==
    TypeOK <=> /\ speech \in [Speeches -> Handle]
               /\ act \in [Activities -> Activity]
               /\ turn \in [Turns -> [stage : {"none", "waiting", "callback", "done"}, owner : Activities]]
               /\ sess \in
                     [started : BOOLEAN, activity : Activities \cup {None}, next : Activities \cup {None},
                      awaited : Speeches \cup {None}, on : [Stoppers -> Activities \cup {None}],
                      at : [Stoppers -> {"no", "called", "interrupting", "drain", "on_exit", "pausing",
                                         "current", "aclose", "over", "failed"}]]
  BY DEF TypeOK, Handle, Activity

LEMMA TypesNext ==
    ASSUME speech' \in [Speeches -> Handle],
           act' \in [Activities -> Activity],
           turn' \in [Turns -> [stage : {"none", "waiting", "callback", "done"}, owner : Activities]],
           sess' \in
              [started : BOOLEAN, activity : Activities \cup {None}, next : Activities \cup {None},
               awaited : Speeches \cup {None}, on : [Stoppers -> Activities \cup {None}],
               at : [Stoppers -> {"no", "called", "interrupting", "drain", "on_exit", "pausing",
                                  "current", "aclose", "over", "failed"}]]
    PROVE  TypeOK'
  BY DEF TypeOK, Handle, Activity

(* Everything of an activity but its preemptive speech and its wake-up.    *)
Same(r, s) ==
    /\ r.phase = s.phase /\ r.paused = s.paused /\ r.scheduler = s.scheduler
    /\ r.queue = s.queue /\ r.current = s.current /\ r.hooks = s.hooks /\ r.lock = s.lock

LEMMA WokenFacts ==
    ASSUME NEW s \in Activity, NEW w \in BOOLEAN
    PROVE  /\ [s EXCEPT !.woken = w] \in Activity
           /\ Same([s EXCEPT !.woken = w], s)
           /\ [s EXCEPT !.woken = w].preempt = s.preempt
           /\ [s EXCEPT !.woken = w].woken = w
  BY DEF Activity, Same

LEMMA WakeUpFacts ==
    ASSUME NEW ac \in [Activities -> Activity], NEW a \in Activities
    PROVE  /\ WakeUp(ac, a) \in [Activities -> Activity]
           /\ \A b \in Activities :
                 /\ Same(WakeUp(ac, a)[b], ac[b])
                 /\ WakeUp(ac, a)[b].preempt = ac[b].preempt
                 /\ b # a => WakeUp(ac, a)[b] = ac[b]
           /\ WakeUp(ac, a)[a].woken <=> ac[a].scheduler = "idle"
<1>1. PICK w \in BOOLEAN : w <=> ac[a].scheduler = "idle"
  OBVIOUS
<1> DEFINE r == [ac[a] EXCEPT !.woken = w]
<1>2. WakeUp(ac, a) = [ac EXCEPT ![a] = r]
  <2>1. w = (ac[a].scheduler = "idle")
    BY <1>1, Zenon
  <2> QED
    BY <2>1, Zenon DEF WakeUp
<1>3. r \in Activity /\ Same(r, ac[a]) /\ r.preempt = ac[a].preempt /\ r.woken = w
  BY WokenFacts
<1> HIDE DEF r
<1>4. \A b \in Activities : Same(ac[b], ac[b])
  BY DEF Same
<1> QED
  BY <1>1, <1>2, <1>3, <1>4

LEMMA UnpreemptedFacts ==
    ASSUME NEW ac \in [Activities -> Activity], NEW a \in Activities
    PROVE  /\ Unpreempted(ac, a) \in [Activities -> Activity]
           /\ \A b \in Activities :
                 /\ Same(Unpreempted(ac, a)[b], ac[b])
                 /\ Unpreempted(ac, a)[b].woken = ac[b].woken
                 /\ Unpreempted(ac, a)[b].preempt = IF b = a THEN None ELSE ac[b].preempt
<1> DEFINE r == [ac[a] EXCEPT !.preempt = None]
<1>1. Unpreempted(ac, a) = [ac EXCEPT ![a] = r]
  BY DEF Unpreempted
<1>2. ac[a] \in Activity
  OBVIOUS
<1>3. r \in Activity /\ Same(r, ac[a]) /\ r.preempt = None /\ r.woken = ac[a].woken
  BY <1>2 DEF Activity, Same
<1> HIDE DEF r
<1>4. \A b \in Activities : Same(ac[b], ac[b])
  BY DEF Same
<1> QED
  BY <1>1, <1>3, <1>4

LEMMA CancelledFacts ==
    ASSUME NEW sp \in [Speeches -> Handle], NEW H
    PROVE  /\ Cancelled(sp, H) \in [Speeches -> Handle]
           /\ \A g \in Speeches :
                 /\ Cancelled(sp, H)[g].stage = sp[g].stage
                 /\ Cancelled(sp, H)[g].owner = sp[g].owner
                 /\ Cancelled(sp, H)[g].scheduled = sp[g].scheduled
                 /\ Cancelled(sp, H)[g].authorized = sp[g].authorized
                 /\ Cancelled(sp, H)[g].refused = sp[g].refused
                 /\ Cancelled(sp, H)[g].gen = sp[g].gen
                 /\ sp[g].interrupted => Cancelled(sp, H)[g].interrupted
                 /\ g \in H /\ sp[g].stage # "done" => Cancelled(sp, H)[g].interrupted
<1>1. ASSUME NEW g \in Speeches
      PROVE  /\ Cancelled(sp, H)[g] \in Handle
             /\ Cancelled(sp, H)[g].stage = sp[g].stage
             /\ Cancelled(sp, H)[g].owner = sp[g].owner
             /\ Cancelled(sp, H)[g].scheduled = sp[g].scheduled
             /\ Cancelled(sp, H)[g].authorized = sp[g].authorized
             /\ Cancelled(sp, H)[g].refused = sp[g].refused
             /\ Cancelled(sp, H)[g].gen = sp[g].gen
             /\ sp[g].interrupted => Cancelled(sp, H)[g].interrupted
             /\ g \in H /\ sp[g].stage # "done" => Cancelled(sp, H)[g].interrupted
  <2>1. Cancelled(sp, H)[g] = IF g \in H /\ sp[g].stage # "done"
                              THEN [sp[g] EXCEPT !.interrupted = TRUE] ELSE sp[g]
    BY DEF Cancelled
  <2>2. sp[g] \in Handle
    OBVIOUS
  <2> QED
    BY ZenonT(60), <2>1, <2>2 DEF Handle
<1>2. Cancelled(sp, H) \in [Speeches -> Handle]
  BY <1>1, Zenon DEF Cancelled
<1> QED
  BY <1>1, <1>2

LEMMA CreatedFacts ==
    ASSUME TypeOK, NEW h \in Speeches, NEW a \in Activities, NEW say \in BOOLEAN, NEW allow \in BOOLEAN
    PROVE  /\ Created(h, a, say, allow) \in [Speeches -> Handle]
           /\ Created(h, a, say, allow)[h].stage \in {"scheduling", "authorizing"}
           /\ Created(h, a, say, allow)[h].owner = a
           /\ ~Created(h, a, say, allow)[h].scheduled
           /\ ~Created(h, a, say, allow)[h].authorized
           /\ ~Created(h, a, say, allow)[h].refused
           /\ \A g \in Speeches \ {h} : Created(h, a, say, allow)[g] = speech[g]
<1> DEFINE r == [NoHandle EXCEPT !.stage = IF say THEN "authorizing" ELSE "scheduling",
                                !.owner = a, !.say = say, !.allow = allow]
<1>1. Created(h, a, say, allow) = [speech EXCEPT ![h] = r]
  BY DEF Created
<1>2. 1 \in 1..(MaxToolSteps + 1) /\ speech \in [Speeches -> Handle]
  BY Types, MaxToolStepsAssumption
<1>3. /\ r \in Handle /\ r.stage \in {"scheduling", "authorizing"} /\ r.owner = a
      /\ ~r.scheduled /\ ~r.authorized /\ ~r.refused
  <2>1. /\ NoHandle \in Handle
        /\ ~NoHandle.scheduled /\ ~NoHandle.authorized /\ ~NoHandle.refused
    BY <1>2 DEF NoHandle, Handle, Activities
  <2> HIDE DEF NoHandle
  <2> QED
    BY <2>1 DEF Handle
<1> HIDE DEF r
<1> QED
  BY <1>1, <1>2, <1>3

-----------------------------------------------------------------------------
(***************************************************************************)
(* Tasks.                                                                  *)
(***************************************************************************)
Going(t) == turn[t].stage \notin {"none", "done"}

(* No task of the activity ends, and its scheduler waits as it did.        *)
Lasts(a) ==
    /\ act'[a].scheduler = act[a].scheduler
    /\ act'[a].woken = act[a].woken
    /\ act'[a].queue = act[a].queue
    /\ act'[a].paused = act[a].paused
    /\ act[a].hooks \subseteq act'[a].hooks
    /\ \A g \in Speeches : Live(g) /\ speech[g].owner = a => Live(g)' /\ speech'[g].owner = a
    /\ \A t \in Turns : Going(t) /\ turn[t].owner = a => Going(t)' /\ turn'[t].owner = a

(* No task of the activity begins.                                         *)
Adds(a) ==
    \/ \E g \in Speeches : (Live(g) /\ speech[g].owner = a)' /\ ~(Live(g) /\ speech[g].owner = a)
    \/ \E t \in Turns : (Going(t) /\ turn[t].owner = a)' /\ ~(Going(t) /\ turn[t].owner = a)

LEMMA TaskStep ==
    ASSUME TaskInv,
           \A a \in Activities :
              \/ act'[a].scheduler # "idle"
              \/ act'[a].woken
              \/ Lasts(a)
              \/ act'[a].queue = <<>> /\ (act'[a].paused => HasTasks(a)'),
           \A a \in Activities : act'[a].scheduler = "ended" =>
              /\ act'[a].paused
              /\ \/ act[a].scheduler = "ended" /\ ~Adds(a)
                 \/ ~HasTasks(a)',
           \A t \in Turns : Going(t)' => act'[turn'[t].owner].scheduler # "none"
    PROVE  TaskInv'
<1>1. ASSUME NEW a \in Activities PROVE WokenOK(a)'
  <2>1. CASE Lasts(a)
    <3>1. HasTasks(a) => HasTasks(a)'
      BY <2>1 DEF Lasts, HasTasks, Going
    <3> QED
      BY <2>1, <3>1 DEF TaskInv, WokenOK, Lasts
  <2> QED
    BY <2>1 DEF WokenOK
<1>2. \A a \in Activities : EndedOK(a)'
  BY DEF EndedOK
<1>3. \A t \in Turns : TurnOK(t)'
  BY DEF TurnOK, Going
<1>4. DrainedIsQuiet'
  <2> SUFFICES ASSUME NEW a \in Activities, act'[a].scheduler = "ended"
               PROVE  /\ \A h \in Speeches : speech'[h].owner = a => ~Live(h)'
                      /\ \A t \in Turns : turn'[t].owner = a => turn'[t].stage \in {"none", "done"}
    BY DEF DrainedIsQuiet
  <2>1. CASE act[a].scheduler = "ended" /\ ~Adds(a)
    BY <2>1 DEF TaskInv, DrainedIsQuiet, Adds, Going
  <2>2. CASE ~HasTasks(a)'
    BY <2>2 DEF HasTasks
  <2> QED
    BY <2>1, <2>2
<1> QED
  BY <1>1, <1>2, <1>3, <1>4 DEF TaskInv

-----------------------------------------------------------------------------
(***************************************************************************)
(* The session.                                                            *)
(***************************************************************************)

(* Who drains or closes has an activity to drain or close.                 *)
LEMMA Draining ==
    ASSUME TypeOK, HandoffOK, CloseOK, NEW w \in Stoppers,
           sess.at[w] \in {"drain", "on_exit", "pausing", "aclose"}
    PROVE  sess.on[w] \in Activities
  BY DEF TypeOK, HandoffOK, CloseOK, Stoppers, Activities

(* What the handoff and the close rely on of the other tasks.              *)
LEMMA SessionFrame ==
    ASSUME TypeOK, SessionInv, UNCHANGED sess,
           \A a \in Activities :
              /\ act'[a].lock = act[a].lock
              /\ act[a].paused => act'[a].paused
              /\ act[a].scheduler = "ended" => act'[a].scheduler = "ended"
              /\ act'[a].scheduler = "none" <=> act[a].scheduler = "none"
              /\ act'[a].scheduler = "cancelled" <=> act[a].scheduler = "cancelled",
           act[2].scheduler = "none" =>
              /\ act'[2].phase = act[2].phase /\ act'[2].queue = act[2].queue
              /\ act'[2].preempt \in {None, act[2].preempt},
           \A g \in Speeches :
              /\ speech[g].scheduled => speech'[g].scheduled
              /\ speech[g].scheduled /\ speech[g].interrupted => speech'[g].interrupted
              /\ speech[g].stage = "done" => speech'[g].stage = "done"
    PROVE  SessionInv'
<1>1. HandoffOK'
  BY DEF SessionInv, HandoffOK, Activities
<1>2. CloseOK'
  BY DEF SessionInv, CloseOK, Activities
<1>3. DrainOK'
  <2>1. \A a \in Activities : act'[a].lock # "free" =>
          sess.at[act'[a].lock] \in {"on_exit", "pausing"} /\ sess.on[act'[a].lock] = a
    BY DEF SessionInv, DrainOK
  <2>2. ASSUME NEW w \in Stoppers, sess.at[w] = "pausing" PROVE act'[sess.on[w]].paused
    <3>1. sess.on[w] \in Activities
      BY <2>2, Draining DEF SessionInv
    <3> QED
      BY <2>2, <3>1 DEF SessionInv, DrainOK
  <2>3. sess.awaited \in Speeches \cup {None}
    BY DEF TypeOK
  <2>4. sess.awaited # None =>
          /\ speech'[sess.awaited].scheduled
          /\ sess.at["close"] = "interrupting" =>
                speech'[sess.awaited].interrupted \/ speech'[sess.awaited].stage = "done"
    BY <2>3 DEF SessionInv, DrainOK
  <2> QED
    BY <2>1, <2>2, <2>4 DEF DrainOK
<1> QED
  BY <1>1, <1>2, <1>3 DEF SessionInv

-----------------------------------------------------------------------------
(***************************************************************************)
(* The actions.                                                            *)
(***************************************************************************)

(* Interrupting speeches, with the preemptive one that is dropped.         *)
Cancels(H, a) ==
    /\ speech' = Cancelled(speech, H)
    /\ \/ act' = act
       \/ act' = Unpreempted(act, a) /\ act[a].preempt \in H

LEMMA CancelsFacts ==
    ASSUME TypeOK, NEW H, NEW a \in Activities, Cancels(H, a)
    PROVE  /\ speech' \in [Speeches -> Handle]
           /\ act' \in [Activities -> Activity]
           /\ \A g \in Speeches :
                 /\ Interrupts(g)
                 /\ g \in H /\ speech[g].stage # "done" => speech'[g].interrupted
           /\ \A b \in Activities :
                 /\ Keeps(b)
                 /\ Same(act'[b], act[b])
                 /\ act'[b].woken = act[b].woken
                 /\ act'[b].preempt \in {None, act[b].preempt}
<1>t. Ranges /\ speech \in [Speeches -> Handle] /\ act \in [Activities -> Activity]
  BY Types, TypesRange
<1>1. /\ speech' \in [Speeches -> Handle]
      /\ \A g \in Speeches :
            /\ Interrupts(g)
            /\ g \in H /\ speech[g].stage # "done" => speech'[g].interrupted
  BY <1>t, CancelledFacts DEF Cancels, Interrupts
<1>2. CASE act' = act
  BY <1>t, <1>1, <1>2 DEF Same, Keeps
<1>3. CASE act' = Unpreempted(act, a) /\ act[a].preempt \in H
  <2>1. /\ act' \in [Activities -> Activity]
        /\ \A b \in Activities :
              /\ Same(act'[b], act[b])
              /\ act'[b].woken = act[b].woken
              /\ act'[b].preempt = IF b = a THEN None ELSE act[b].preempt
    BY <1>t, <1>3, UnpreemptedFacts
  <2>2. \A b \in Activities : Keeps(b)
    BY <1>t, <1>1, <1>3, <2>1 DEF Same, Keeps, Ranges
  <2> QED
    BY <1>1, <2>1, <2>2
<1> QED
  BY <1>2, <1>3 DEF Cancels

(* Steps that end no task, begin none and change no scheduler.             *)
LEMMA TaskFrame ==
    ASSUME TypeOK, TaskInv,
           \A g \in Speeches : (Live(g)' <=> Live(g)) /\ speech'[g].owner = speech[g].owner,
           \A t \in Turns : (Going(t)' <=> Going(t)) /\ turn'[t].owner = turn[t].owner,
           \A b \in Activities :
              /\ act'[b].scheduler = act[b].scheduler
              /\ act'[b].woken = act[b].woken
              /\ act'[b].queue = act[b].queue
              /\ act'[b].paused = act[b].paused
              /\ act[b].hooks \subseteq act'[b].hooks
    PROVE  TaskInv'
<1>2. \A t \in Turns : (Going(t)' <=> Going(t)) /\ turn'[t].owner = turn[t].owner /\ turn[t].owner \in Activities
  BY DEF TypeOK
<1>3. \A b \in Activities : Lasts(b) /\ ~Adds(b)
  BY <1>2 DEF Lasts, Adds
<1>4. \A b \in Activities : act'[b].scheduler = "ended" => act'[b].paused /\ act[b].scheduler = "ended"
  BY DEF TaskInv, EndedOK
<1>5. \A t \in Turns : Going(t)' => act'[turn'[t].owner].scheduler # "none"
  BY <1>2 DEF TaskInv, TurnOK, Going
<1> QED
  BY <1>3, <1>4, <1>5, TaskStep

(* Steps that may end tasks of one activity and wake its scheduler.        *)
LEMMA WokenStep ==
    ASSUME TypeOK, TaskInv, NEW a \in Activities,
           \A g \in Speeches : /\ Live(g)' => Live(g)
                               /\ speech[g].owner # a => (Live(g)' <=> Live(g))
                               /\ speech'[g].owner = speech[g].owner,
           \A t \in Turns : /\ Going(t)' => Going(t)
                            /\ turn[t].owner # a => (Going(t)' <=> Going(t))
                            /\ turn'[t].owner = turn[t].owner,
           \A b \in Activities : /\ act'[b].scheduler = act[b].scheduler
                                 /\ act'[b].paused = act[b].paused
                                 /\ b # a => act'[b] = act[b],
           act'[a].woken <=> act[a].scheduler = "idle"
    PROVE  TaskInv'
<1>1. \A t \in Turns : turn[t].owner \in Activities
  BY DEF TypeOK
<1>2. \A b \in Activities : ~Adds(b)
  BY <1>1 DEF Adds
<1>3. \A b \in Activities : act'[b].scheduler # "idle" \/ act'[b].woken \/ Lasts(b)
  BY DEF Lasts
<1>4. \A b \in Activities : act'[b].scheduler = "ended" => act'[b].paused /\ act[b].scheduler = "ended"
  BY DEF TaskInv, EndedOK
<1>5. \A t \in Turns : Going(t)' => act'[turn'[t].owner].scheduler # "none"
  BY <1>1 DEF TaskInv, TurnOK, Going
<1> QED
  BY <1>2, <1>3, <1>4, <1>5, TaskStep

LEMMA CancelsStep ==
    ASSUME IInv, NEW H, NEW a \in Activities, Cancels(H, a), UNCHANGED <<turn, sess>>
    PROVE  IInv'
<1>0. TypeOK /\ SpeechInv /\ TaskInv /\ SessionInv
  BY DEF IInv
<1>1. /\ speech' \in [Speeches -> Handle]
      /\ act' \in [Activities -> Activity]
      /\ \A g \in Speeches : Interrupts(g)
      /\ \A b \in Activities : Keeps(b)
      /\ \A b \in Activities : /\ Same(act'[b], act[b])
                               /\ act'[b].woken = act[b].woken
                               /\ act'[b].preempt \in {None, act[b].preempt}
  BY <1>0, CancelsFacts
<1>2. TypeOK'
  BY <1>0, <1>1, Types, TypesNext
<1>3. SpeechInv'
  BY <1>0, <1>1, QuietStep
<1>4. TaskInv'
  BY <1>0, <1>1, TaskFrame DEF Same, Going, Interrupts, Live
<1>5. SessionInv'
  BY <1>0, <1>1, SessionFrame DEF Same, Interrupts, Activities
<1> QED
  BY <1>2, <1>3, <1>4, <1>5 DEF IInv

LEMMA InterruptStep ==
    ASSUME IInv,
           \/ UserInterrupts
           \/ \E h \in Speeches : HandleInterrupt(h)
           \/ \E a \in Activities : VadInterrupts(a) \/ TurnSkipped(a)
    PROVE  IInv'
<1>1. sess.activity \in Activities \cup {None}
  BY DEF IInv, TypeOK
<1>2. CASE UserInterrupts
  <2>1. act[sess.activity].preempt \in Interrupted(sess.activity)
    BY DEF Interrupted
  <2> QED
    BY <1>1, <1>2, <2>1, CancelsStep DEF UserInterrupts, Cancels
<1>3. CASE \E h \in Speeches : HandleInterrupt(h)
  <2>1. 1 \in Activities
    BY DEF Activities
  <2> QED
    BY <1>3, <2>1, CancelsStep DEF HandleInterrupt, Cancels
<1>4. CASE \E a \in Activities : VadInterrupts(a) \/ TurnSkipped(a)
  BY <1>4, CancelsStep DEF VadInterrupts, TurnSkipped, Cancels
<1> QED
  BY <1>2, <1>3, <1>4

(* A speech is done.                                                       *)
LEMMA FinishStep ==
    ASSUME IInv, NEW h \in Speeches,
           \/ Waits(h) /\ speech[h].interrupted
           \/ speech[h].stage \in {"playing", "tools", "cancelling"},
           Finish(h), UNCHANGED <<turn, sess>>
    PROVE  IInv'
<1>0. TypeOK /\ SpeechInv /\ TaskInv /\ SessionInv
  BY DEF IInv
<1>t. Ranges /\ speech \in [Speeches -> Handle] /\ act \in [Activities -> Activity]
  BY <1>0, Types, TypesRange
<1> DEFINE a == speech[h].owner
<1>1. /\ speech' \in [Speeches -> Handle]
      /\ speech'[h].stage = "done"
      /\ speech'[h].owner = speech[h].owner
      /\ speech'[h].scheduled = speech[h].scheduled
      /\ ~speech'[h].authorized
      /\ speech'[h].refused = speech[h].refused
      /\ speech'[h].gen = IF speech[h].gen = "open" THEN "done" ELSE speech[h].gen
      /\ speech'[h].interrupted = speech[h].interrupted
      /\ \A g \in Speeches \ {h} : speech'[g] = speech[g]
  <2> DEFINE r == [speech[h] EXCEPT !.stage = "done", !.authorized = FALSE,
                                    !.gen = IF @ = "open" THEN "done" ELSE @]
  <2>1. speech' = [speech EXCEPT ![h] = r]
    BY DEF Finish
  <2>2. speech[h] \in Handle
    BY <1>t
  <2>3. /\ r \in Handle /\ r.stage = "done" /\ r.owner = speech[h].owner
        /\ r.scheduled = speech[h].scheduled /\ ~r.authorized
        /\ r.refused = speech[h].refused /\ r.interrupted = speech[h].interrupted
        /\ r.gen = IF speech[h].gen = "open" THEN "done" ELSE speech[h].gen
    BY ZenonT(60), <2>2 DEF Handle
  <2> HIDE DEF r
  <2> QED
    BY <1>t, <2>1, <2>3
<1>2. /\ act' \in [Activities -> Activity]
      /\ \A b \in Activities : /\ Same(act'[b], act[b])
                               /\ act'[b].preempt = act[b].preempt
                               /\ b # a => act'[b] = act[b]
      /\ act'[a].woken <=> act[a].scheduler = "idle"
  BY <1>t, WakeUpFacts DEF Finish, Ranges
<1>3. \A g \in Speeches \ {h} : Interrupts(g)
  BY <1>1 DEF Interrupts
<1>4. SpeechInv'
  <2>1. \A b \in Activities : Keeps(b)
    BY <1>2 DEF Same, Keeps
  <2> QED
    BY <1>0, <1>1, <1>3, <2>1, DoneStep
<1>5. TaskInv'
  <2>1. \A g \in Speeches : /\ Live(g)' => Live(g)
                            /\ g # h => (Live(g)' <=> Live(g))
                            /\ speech'[g].owner = speech[g].owner
    BY <1>1 DEF Live
  <2>2. a \in Activities
    BY <1>t DEF Ranges
  <2> QED
    BY <1>0, <1>2, <2>1, <2>2, WokenStep DEF Same, Going
<1>6. SessionInv'
  <2>1. \A g \in Speeches :
          /\ speech[g].interrupted => speech'[g].interrupted
          /\ speech[g].scheduled => speech'[g].scheduled
          /\ speech[g].stage = "done" => speech'[g].stage = "done"
    BY <1>1
  <2> QED
    BY <1>0, <1>2, <2>1, SessionFrame DEF Same, Activities
<1> QED
  BY <1>0, <1>1, <1>2, <1>4, <1>5, <1>6, Types, TypesNext DEF IInv

(* The task of a speech goes on, without ending it.                        *)
LEMMA MovesStep ==
    ASSUME IInv, NEW h \in Speeches, NEW r \in Handle, speech' = [speech EXCEPT ![h] = r],
           UNCHANGED <<act, turn, sess>>,
           \/ /\ speech[h].stage = "scheduling" /\ speech[h].scheduled
              /\ r.stage = "authorizing"
              /\ r.authorized = speech[h].authorized
              /\ r.gen = speech[h].gen
           \/ /\ speech[h].stage = "authorizing" /\ speech[h].authorized
              /\ r.stage = "playing"
              /\ ~r.authorized
              /\ r.gen = speech[h].gen
           \/ /\ speech[h].stage = "playing"
              /\ r.stage \in {"tools", "cancelling"}
              /\ r.authorized = speech[h].authorized
              /\ r.gen = "done",
           /\ r.owner = speech[h].owner
           /\ r.scheduled = speech[h].scheduled
           /\ r.refused = speech[h].refused
           /\ r.interrupted = speech[h].interrupted
    PROVE  IInv'
<1>0. TypeOK /\ SpeechInv /\ TaskInv /\ SessionInv
  BY DEF IInv
<1>t. speech \in [Speeches -> Handle]
  BY <1>0, Types
<1>1. /\ speech' \in [Speeches -> Handle] /\ speech'[h] = r
      /\ \A g \in Speeches \ {h} : speech'[g] = speech[g]
  BY <1>t
<1>2. SpeechInv'
  <2>1. \A g \in Speeches \ {h} : Interrupts(g)
    BY <1>1 DEF Interrupts
  <2> QED
    BY <1>0, <1>1, <2>1, ProceedStep
<1>3. TaskInv'
  <2>1. \A g \in Speeches : (Live(g)' <=> Live(g)) /\ speech'[g].owner = speech[g].owner
    BY <1>1 DEF Live
  <2> QED
    BY <1>0, <2>1, TaskFrame DEF Going
<1>4. SessionInv'
  <2>1. \A g \in Speeches :
          /\ speech[g].interrupted => speech'[g].interrupted
          /\ speech[g].scheduled => speech'[g].scheduled
          /\ speech[g].stage = "done" => speech'[g].stage = "done"
    BY <1>1
  <2> QED
    BY <1>0, <2>1, SessionFrame
<1> QED
  BY <1>0, <1>1, <1>2, <1>3, <1>4, Types, TypesNext DEF IInv

LEMMA MakesStep ==
    ASSUME IInv, NEW h \in Speeches, Makes(h)
    PROVE  IInv'
<1>t. speech \in [Speeches -> Handle] /\ speech[h] \in Handle
  BY Types DEF IInv
<1>1. CASE GetScheduled(h)
  <2>1. CASE speech[h].interrupted
    BY <1>1, <2>1, FinishStep DEF GetScheduled, Waits
  <2>2. CASE ~speech[h].interrupted
    <3> DEFINE r == [speech[h] EXCEPT !.stage = "authorizing"]
    <3>1. speech' = [speech EXCEPT ![h] = r]
      BY <1>1, <2>2 DEF GetScheduled
    <3>2. /\ r \in Handle /\ r.stage = "authorizing" /\ r.authorized = speech[h].authorized
          /\ r.gen = speech[h].gen /\ r.owner = speech[h].owner
          /\ r.scheduled = speech[h].scheduled /\ r.refused = speech[h].refused
          /\ r.interrupted = speech[h].interrupted
      BY <1>t DEF Handle
    <3> HIDE DEF r
    <3> QED
      BY <1>1, <2>2, <3>1, <3>2, MovesStep DEF GetScheduled
  <2> QED
    BY <2>1, <2>2
<1>2. CASE GetAuthorized(h)
  <2>1. CASE speech[h].interrupted
    BY <1>2, <2>1, FinishStep DEF GetAuthorized, Waits
  <2>2. CASE ~speech[h].interrupted
    <3> DEFINE r == [speech[h] EXCEPT !.stage = "playing", !.authorized = FALSE]
    <3>1. speech' = [speech EXCEPT ![h] = r]
      BY <1>2, <2>2 DEF GetAuthorized
    <3>2. /\ r \in Handle /\ r.stage = "playing" /\ ~r.authorized
          /\ r.gen = speech[h].gen /\ r.owner = speech[h].owner
          /\ r.scheduled = speech[h].scheduled /\ r.refused = speech[h].refused
          /\ r.interrupted = speech[h].interrupted
      BY <1>t DEF Handle
    <3> HIDE DEF r
    <3> QED
      BY <1>2, <2>2, <3>1, <3>2, MovesStep DEF GetAuthorized
  <2> QED
    BY <2>1, <2>2
<1>3. CASE PlayoutEnds(h)
  <2>1. CASE speech[h].say
    BY <1>3, <2>1, FinishStep DEF PlayoutEnds
  <2>2. CASE ~speech[h].say
    <3> DEFINE r == [speech[h] EXCEPT !.gen = "done",
                       !.stage = IF speech[h].interrupted THEN "cancelling" ELSE "tools"]
    <3>1. speech' = [speech EXCEPT ![h] = r]
      BY <1>3, <2>2 DEF PlayoutEnds
    <3>2. /\ r \in Handle /\ r.stage \in {"tools", "cancelling"}
          /\ r.authorized = speech[h].authorized
          /\ r.gen = "done" /\ r.owner = speech[h].owner
          /\ r.scheduled = speech[h].scheduled /\ r.refused = speech[h].refused
          /\ r.interrupted = speech[h].interrupted
      BY <1>t DEF Handle
    <3> HIDE DEF r
    <3> QED
      BY <1>3, <2>2, <3>1, <3>2, MovesStep DEF PlayoutEnds
  <2> QED
    BY <2>1, <2>2
<1>4. CASE ToolsEnd(h)
  BY <1>4, FinishStep DEF ToolsEnd
<1> QED
  BY <1>1, <1>2, <1>3, <1>4 DEF Makes

(* The scheduler takes its next speech, or ends.                           *)
LEMMA ServesStep ==
    ASSUME IInv, NEW a \in Activities, Serve(a), UNCHANGED <<speech, turn, sess>>,
           \/ act[a].scheduler = "idle"
           \/ act[a].scheduler = "waiting" /\ speech[act[a].current].gen = "done"
    PROVE  IInv'
<1>0. TypeOK /\ SpeechInv /\ TaskInv /\ SessionInv
  BY DEF IInv
<1>t. /\ Ranges /\ act \in [Activities -> Activity] /\ act[a] \in Activity
      /\ act[a].queue \in Seq(Speeches)
  BY <1>0, Types, TypesRange DEF Ranges
<1>1. /\ act' \in [Activities -> Activity]
      /\ \A b \in Activities \ {a} : act'[b] = act[b]
      /\ act'[a].paused = act[a].paused /\ act'[a].lock = act[a].lock
      /\ act'[a].phase = act[a].phase /\ act'[a].hooks = act[a].hooks
      /\ act'[a].preempt = act[a].preempt
      /\ \/ act'[a].scheduler = "delay"
         \/ /\ act'[a].queue = <<>>
            /\ act'[a].scheduler = IF act[a].paused /\ ~HasTasks(a) THEN "ended" ELSE "idle"
  <2>1. CASE /\ act[a].queue # <<>>
             /\ act' = [act EXCEPT ![a].current = Head(act[a].queue), ![a].queue = Tail(@),
                                   ![a].scheduler = "delay", ![a].woken = FALSE]
    <3> DEFINE c == Head(act[a].queue)
               q == Tail(act[a].queue)
               r == [act[a] EXCEPT !.current = c, !.queue = q, !.scheduler = "delay", !.woken = FALSE]
    <3>1. act' = [act EXCEPT ![a] = r]
      BY <2>1
    <3>2. c \in Speeches /\ q \in Seq(Speeches)
      BY <1>t, <2>1, HeadTailProperties
    <3> HIDE DEF c, q
    <3>3. /\ r \in Activity /\ r.scheduler = "delay"
          /\ r.paused = act[a].paused /\ r.lock = act[a].lock /\ r.phase = act[a].phase
          /\ r.hooks = act[a].hooks /\ r.preempt = act[a].preempt
      BY <1>t, <3>2 DEF Activity
    <3> HIDE DEF r
    <3> QED
      BY <1>t, <3>1, <3>3
  <2>2. CASE /\ act[a].queue = <<>>
             /\ act' = [act EXCEPT ![a].current = None, ![a].woken = FALSE,
                          ![a].scheduler = IF act[a].paused /\ ~HasTasks(a) THEN "ended" ELSE "idle"]
    <3> DEFINE x == IF act[a].paused /\ ~HasTasks(a) THEN "ended" ELSE "idle"
               r == [act[a] EXCEPT !.current = None, !.woken = FALSE, !.scheduler = x]
    <3>1. act' = [act EXCEPT ![a] = r]
      BY <2>2
    <3>2. x \in {"ended", "idle"}
      OBVIOUS
    <3> HIDE DEF x
    <3>3. /\ r \in Activity /\ r.scheduler = x /\ r.queue = act[a].queue
          /\ r.paused = act[a].paused /\ r.lock = act[a].lock /\ r.phase = act[a].phase
          /\ r.hooks = act[a].hooks /\ r.preempt = act[a].preempt
      BY <1>t, <3>2 DEF Activity
    <3> HIDE DEF r
    <3>4. act'[a] = r
      BY <1>t, <3>1
    <3> QED
      BY <1>t, <2>2, <3>1, <3>3, <3>4 DEF x
  <2> QED
    BY <2>1, <2>2 DEF Serve
<1>2. SpeechInv'
  BY <1>0, ServeStep
<1>3. TaskInv'
  <2>1. \A b \in Activities : /\ HasTasks(b)' <=> HasTasks(b)
                              /\ ~Adds(b)
    <3>1. \A b \in Activities : act'[b].hooks = act[b].hooks
      BY <1>1
    <3> QED
      BY <1>1, <3>1 DEF HasTasks, Adds, Live, Going
  <2>2. ASSUME NEW b \in Activities
        PROVE  \/ act'[b].scheduler # "idle"
               \/ Lasts(b)
               \/ act'[b].queue = <<>> /\ (act'[b].paused => HasTasks(b)')
    BY <1>1, <2>1 DEF Lasts, Live, Going
  <2>3. ASSUME NEW b \in Activities, act'[b].scheduler = "ended"
        PROVE  /\ act'[b].paused
               /\ act[b].scheduler = "ended" \/ ~HasTasks(b)'
    BY <1>0, <1>1, <2>1, <2>3 DEF TaskInv, EndedOK
  <2>4. \A t \in Turns : Going(t)' => act'[turn'[t].owner].scheduler # "none"
    <3>1. \A t \in Turns : turn[t].owner \in Activities
      BY <1>0 DEF TypeOK
    <3> QED
      BY <1>0, <1>1, <3>1 DEF TaskInv, TurnOK, Going
  <2> QED
    BY <1>0, <2>1, <2>2, <2>3, <2>4, TaskStep
<1>4. SessionInv'
  BY <1>0, <1>1, SessionFrame DEF Activities
<1> QED
  BY <1>0, <1>1, <1>2, <1>3, <1>4, Types, TypesNext DEF IInv

LEMMA SchedulesStep ==
    ASSUME IInv, NEW a \in Activities, Schedules(a)
    PROVE  IInv'
<1>0. TypeOK /\ SpeechInv /\ TaskInv /\ SessionInv
  BY DEF IInv
<1>t. /\ Ranges /\ speech \in [Speeches -> Handle] /\ act \in [Activities -> Activity]
      /\ act[a] \in Activity
  BY <1>0, Types, TypesRange DEF Ranges
<1>1. CASE Wake(a)
  BY <1>1, ServesStep DEF Wake
<1>2. CASE GenerationDone(a)
  BY <1>2, ServesStep DEF GenerationDone
<1>3. CASE Authorize(a)
  <2> DEFINE c == act[a].current
             r == [speech[c] EXCEPT !.authorized = TRUE, !.gen = "open"]
             s == [act[a] EXCEPT !.scheduler = "waiting"]
  <2>1. c \in Speeches /\ act[a].scheduler = "delay"
    BY <1>0, <1>t, <1>3 DEF Authorize, SpeechInv, SchedulerOK, Ranges
  <2>2. speech' = [speech EXCEPT ![c] = r] /\ act' = [act EXCEPT ![a] = s]
    BY <1>3 DEF Authorize
  <2> HIDE DEF c
  <2>3. speech[c] \in Handle
    BY <1>t, <2>1
  <2>4. /\ r \in Handle /\ r.stage = speech[c].stage /\ r.owner = speech[c].owner
        /\ r.scheduled = speech[c].scheduled /\ r.interrupted = speech[c].interrupted
    BY <2>3 DEF Handle
  <2>5. /\ s \in Activity /\ s.scheduler = "waiting" /\ s.paused = act[a].paused
        /\ s.lock = act[a].lock /\ s.phase = act[a].phase /\ s.queue = act[a].queue
        /\ s.preempt = act[a].preempt /\ s.hooks = act[a].hooks
    BY <1>t DEF Activity
  <2> HIDE DEF r, s
  <2>6. /\ speech' \in [Speeches -> Handle] /\ act' \in [Activities -> Activity]
        /\ \A g \in Speeches : /\ speech'[g].stage = speech[g].stage
                               /\ speech'[g].owner = speech[g].owner
                               /\ speech'[g].scheduled = speech[g].scheduled
                               /\ speech'[g].interrupted = speech[g].interrupted
        /\ \A b \in Activities \ {a} : act'[b] = act[b]
        /\ act'[a] = s
    BY <1>t, <2>1, <2>2, <2>4, <2>5
  <2>7. SpeechInv'
    BY <1>0, <1>3, AuthorizeStep
  <2>8. TaskInv'
    <3>1. \A b \in Activities : ~Adds(b)
      BY SMTT(60), <1>3, <2>6 DEF Adds, Live, Going, Authorize
    <3>2. \A b \in Activities : act'[b].scheduler # "idle" \/ Lasts(b)
      BY <1>3, <2>5, <2>6 DEF Lasts, Live, Going, Authorize
    <3>3. \A b \in Activities : act'[b].scheduler = "ended" => act'[b].paused /\ act[b].scheduler = "ended"
      BY <1>0, <2>5, <2>6 DEF TaskInv, EndedOK
    <3>4. \A t \in Turns : Going(t)' => act'[turn'[t].owner].scheduler # "none"
      <4>1. \A t \in Turns : turn[t].owner \in Activities
        BY SMTT(60), <1>0 DEF TypeOK
      <4> QED
        BY <1>0, <1>3, <2>5, <2>6, <4>1 DEF TaskInv, TurnOK, Going, Authorize
    <3> QED
      BY <1>0, <3>1, <3>2, <3>3, <3>4, TaskStep
  <2>9. SessionInv'
    BY <1>0, <1>3, <2>1, <2>5, <2>6, SessionFrame DEF Activities, Authorize
  <2> QED
    BY <1>0, <1>3, <2>6, <2>7, <2>8, <2>9, Types, TypesNext DEF IInv, Authorize
<1> QED
  BY <1>1, <1>2, <1>3 DEF Schedules

(* on_enter or on_exit returns.                                            *)
LEMMA HookEndsStep ==
    ASSUME IInv, NEW a \in Activities, NEW hook, HookEnds(a, hook)
    PROVE  IInv'
<1>0. TypeOK /\ SpeechInv /\ TaskInv /\ SessionInv
  BY DEF IInv
<1>t. act \in [Activities -> Activity] /\ act[a] \in Activity
  BY <1>0, Types
<1> DEFINE r  == [act[a] EXCEPT !.hooks = @ \ {hook}]
           ac == [act EXCEPT ![a] = r]
<1>1. act' = WakeUp(ac, a)
  BY DEF HookEnds
<1>2. /\ r \in Activity /\ r.scheduler = act[a].scheduler /\ r.paused = act[a].paused
      /\ r.lock = act[a].lock /\ r.phase = act[a].phase /\ r.queue = act[a].queue
      /\ r.preempt = act[a].preempt /\ r.current = act[a].current
  BY <1>t DEF Activity
<1> HIDE DEF r
<1>3. ac \in [Activities -> Activity] /\ ac[a] = r /\ \A b \in Activities \ {a} : ac[b] = act[b]
  BY <1>t, <1>2
<1> HIDE DEF ac
<1>4. /\ act' \in [Activities -> Activity]
      /\ \A b \in Activities :
            /\ act'[b].scheduler = act[b].scheduler /\ act'[b].paused = act[b].paused
            /\ act'[b].lock = act[b].lock /\ act'[b].phase = act[b].phase
            /\ act'[b].queue = act[b].queue /\ act'[b].preempt = act[b].preempt
            /\ act'[b].current = act[b].current
            /\ b # a => act'[b] = act[b]
      /\ act'[a].woken <=> act[a].scheduler = "idle"
  BY <1>1, <1>2, <1>3, WakeUpFacts DEF Same
<1>u. UNCHANGED <<speech, turn, sess>>
  BY DEF HookEnds
<1>5. SpeechInv'
  <2>1. \A b \in Activities : Keeps(b)
    BY <1>4 DEF Keeps
  <2>2. \A g \in Speeches : Interrupts(g)
    BY <1>u DEF Interrupts
  <2> QED
    BY <1>0, <2>1, <2>2, QuietStep
<1>6. TaskInv'
  BY <1>0, <1>4, <1>u, WokenStep DEF Going, Live
<1>7. SessionInv'
  BY <1>0, <1>4, <1>u, SessionFrame DEF Activities
<1> QED
  BY <1>0, <1>4, <1>5, <1>6, <1>7, <1>u, Types, TypesNext DEF IInv

-----------------------------------------------------------------------------
(***************************************************************************)
(* Scheduling.                                                             *)
(***************************************************************************)

LEMMA ScheduleFacts ==
    ASSUME NEW sp \in [Speeches -> Handle], NEW ac \in [Activities -> Activity],
           NEW a \in Activities, NEW h \in Speeches, NEW force \in BOOLEAN,
           ScheduleSpeech(sp, ac, a, h, force)
    PROVE  /\ speech' \in [Speeches -> Handle]
           /\ act' \in [Activities -> Activity]
           /\ \A g \in Speeches \ {h} : speech'[g] = sp[g]
           /\ speech'[h].stage = sp[h].stage /\ speech'[h].owner = sp[h].owner
           /\ (speech'[h].authorized <=> sp[h].authorized) /\ speech'[h].gen = sp[h].gen
           /\ (speech'[h].interrupted <=> sp[h].interrupted)
           /\ \A b \in Activities :
                 /\ act'[b].phase = ac[b].phase /\ act'[b].paused = ac[b].paused
                 /\ act'[b].scheduler = ac[b].scheduler /\ act'[b].current = ac[b].current
                 /\ act'[b].hooks = ac[b].hooks /\ act'[b].lock = ac[b].lock
                 /\ act'[b].preempt = ac[b].preempt
                 /\ b # a => act'[b] = ac[b]
           /\ \/ /\ Refused(a, force) /\ act' = ac
                 /\ speech'[h].refused /\ (speech'[h].scheduled <=> sp[h].scheduled)
              \/ ~Refused(a, force) /\ Over(a) /\ act' = ac /\ speech' = sp
              \/ /\ ~Refused(a, force) /\ ~Over(a)
                 /\ speech'[h].scheduled /\ (speech'[h].refused <=> sp[h].refused)
                 /\ act'[a].queue = Append(ac[a].queue, h)
                 /\ act'[a].woken <=> ac[a].scheduler = "idle"
<1>t. sp[h] \in Handle /\ ac[a] \in Activity
  OBVIOUS
<1>1. CASE Refused(a, force) /\ speech' = [sp EXCEPT ![h].refused = TRUE] /\ act' = ac
  <2> DEFINE r == [sp[h] EXCEPT !.refused = TRUE]
  <2>1. speech' = [sp EXCEPT ![h] = r]
    BY <1>1
  <2>2. /\ r \in Handle /\ r.stage = sp[h].stage /\ r.owner = sp[h].owner
        /\ (r.authorized <=> sp[h].authorized) /\ r.gen = sp[h].gen
        /\ (r.interrupted <=> sp[h].interrupted) /\ r.refused /\ (r.scheduled <=> sp[h].scheduled)
    BY <1>t DEF Handle
  <2> HIDE DEF r
  <2> QED
    BY <1>1, <2>1, <2>2
<1>2. CASE ~Refused(a, force) /\ Over(a) /\ speech' = sp /\ act' = ac
  BY SMTT(60), <1>2
<1>3. CASE /\ ~Refused(a, force) /\ ~Over(a)
           /\ speech' = [sp EXCEPT ![h].scheduled = TRUE]
           /\ act' = WakeUp([ac EXCEPT ![a].queue = Append(@, h)], a)
  <2> DEFINE r  == [sp[h] EXCEPT !.scheduled = TRUE]
             q  == Append(ac[a].queue, h)
             s  == [ac[a] EXCEPT !.queue = q]
             aq == [ac EXCEPT ![a] = s]
  <2>1. speech' = [sp EXCEPT ![h] = r] /\ act' = WakeUp(aq, a)
    BY <1>3
  <2>2. /\ r \in Handle /\ r.stage = sp[h].stage /\ r.owner = sp[h].owner
        /\ (r.authorized <=> sp[h].authorized) /\ r.gen = sp[h].gen
        /\ (r.interrupted <=> sp[h].interrupted) /\ r.scheduled /\ (r.refused <=> sp[h].refused)
    BY <1>t DEF Handle
  <2>3. q \in Seq(Speeches)
    <3>1. ac[a].queue \in Seq(Speeches)
      BY <1>t DEF Activity
    <3> QED
      BY <3>1, AppendProperties
  <2> HIDE DEF r, q
  <2>4. /\ s \in Activity /\ s.queue = q
        /\ s.phase = ac[a].phase /\ s.paused = ac[a].paused /\ s.scheduler = ac[a].scheduler
        /\ s.current = ac[a].current /\ s.hooks = ac[a].hooks /\ s.lock = ac[a].lock
        /\ s.preempt = ac[a].preempt
    BY <1>t, <2>3 DEF Activity
  <2> HIDE DEF s
  <2>5. aq \in [Activities -> Activity] /\ aq[a] = s /\ \A b \in Activities \ {a} : aq[b] = ac[b]
    BY <2>4
  <2> HIDE DEF aq
  <2>6. /\ act' \in [Activities -> Activity]
        /\ \A b \in Activities : /\ Same(act'[b], aq[b])
                                 /\ act'[b].preempt = aq[b].preempt
                                 /\ b # a => act'[b] = aq[b]
        /\ act'[a].woken <=> aq[a].scheduler = "idle"
    BY <2>1, <2>5, WakeUpFacts
  <2>7. speech' \in [Speeches -> Handle] /\ speech'[h] = r /\ \A g \in Speeches \ {h} : speech'[g] = sp[g]
    BY <2>1, <2>2
  <2>8. \A b \in Activities :
                 /\ act'[b].phase = ac[b].phase /\ act'[b].paused = ac[b].paused
                 /\ act'[b].scheduler = ac[b].scheduler /\ act'[b].current = ac[b].current
                 /\ act'[b].hooks = ac[b].hooks /\ act'[b].lock = ac[b].lock
                 /\ act'[b].preempt = ac[b].preempt
                 /\ b # a => act'[b] = ac[b]
    BY <2>4, <2>5, <2>6 DEF Same
  <2>9. act'[a].queue = Append(ac[a].queue, h) /\ (act'[a].woken <=> ac[a].scheduler = "idle")
    BY <2>4, <2>5, <2>6 DEF Same, q
  <2> QED
    BY <1>3, <2>2, <2>6, <2>7, <2>8, <2>9
<1> QED
  BY <1>1, <1>2, <1>3 DEF ScheduleSpeech

LEMMA ScheduleInterrupted ==
    ASSUME NEW sp \in [Speeches -> Handle], NEW ac \in [Activities -> Activity],
           NEW a \in Activities, NEW h \in Speeches, NEW force \in BOOLEAN,
           ScheduleSpeech(sp, ac, a, h, force)
    PROVE  /\ (speech'[h].interrupted <=> sp[h].interrupted)
           /\ \A g \in Speeches \ {h} : speech'[g] = sp[g]
  BY ScheduleFacts

(* A speech is scheduled: it was made, was preemptive, or replies to its   *)
(* tools, and force is for these alone.                                    *)
MayPlace(h, a, force, sp) ==
    /\ Unqueued(h)
    /\ speech[h].stage = "none" \/ speech[h].owner = a
    /\ IF force THEN speech[h].stage = "tools" ELSE ~speech[h].scheduled
    /\ act[a].scheduler # "ended"
    /\ sp[h].owner = a
    /\ (sp[h].scheduled <=> speech[h].scheduled)
    /\ ~sp[h].authorized
    /\ sp[h].stage \in {"scheduling", "authorizing"} \/ (sp[h].stage = "done" /\ sp[h].interrupted)
    /\ sp[h].gen = speech[h].gen \/ speech[h].stage = "none"
    /\ speech[h].interrupted /\ speech[h].scheduled => sp[h].interrupted
    /\ speech[h].stage = "done" <=> sp[h].stage = "done"
    /\ ~Refused(a, force) => ~sp[h].refused

Prepares(h, a, force, ac) ==
    /\ \A b \in Activities :
          /\ Same(ac[b], act[b])
          /\ ac[b].preempt \in {None, act[b].preempt}
          /\ ac[b].preempt = h => b = a /\ Refused(a, force)
          /\ b # a => ac[b].woken = act[b].woken
    /\ \/ ac[a].woken <=> act[a].scheduler = "idle"
       \/ ac = act /\ UNCHANGED turn

(* The task of a turn of the activity may end.                             *)
EndsTurns(a) ==
    /\ turn' \in [Turns -> [stage : {"none", "waiting", "callback", "done"}, owner : Activities]]
    /\ \A t \in Turns : /\ turn'[t].owner = turn[t].owner
                        /\ Going(t)' => Going(t)
                        /\ turn[t].owner # a => (Going(t)' <=> Going(t))

LEMMA ScheduleStep ==
    ASSUME IInv, NEW h \in Speeches, NEW a \in Activities, NEW force \in BOOLEAN,
           NEW sp \in [Speeches -> Handle], NEW ac \in [Activities -> Activity],
           ScheduleSpeech(sp, ac, a, h, force),
           UNCHANGED sess,
           MayPlace(h, a, force, sp),
           Prepares(h, a, force, ac),
           EndsTurns(a),
           \A g \in Speeches \ {h} : Interrupts(g),
           \A b \in Activities : KeepsBut(b, h)
    PROVE  IInv'
<1>0. TypeOK /\ SpeechInv /\ TaskInv /\ SessionInv
  BY DEF IInv
<1>t. Ranges
  BY <1>0, TypesRange
<1>e. \A b \in Activities :
         /\ ac[b].phase = act[b].phase /\ ac[b].paused = act[b].paused
         /\ ac[b].scheduler = act[b].scheduler /\ ac[b].current = act[b].current
         /\ ac[b].hooks = act[b].hooks /\ ac[b].lock = act[b].lock
         /\ ac[b].queue = act[b].queue
         /\ b # a => ac[b].woken = act[b].woken
  BY DEF Same, Prepares
<1>g. /\ speech' \in [Speeches -> Handle]
      /\ act' \in [Activities -> Activity]
      /\ \A b \in Activities :
            /\ act'[b].phase = ac[b].phase /\ act'[b].paused = ac[b].paused
            /\ act'[b].scheduler = ac[b].scheduler /\ act'[b].current = ac[b].current
            /\ act'[b].hooks = ac[b].hooks /\ act'[b].lock = ac[b].lock
            /\ act'[b].preempt = ac[b].preempt
            /\ b # a => act'[b] = ac[b]
  BY ScheduleFacts
<1>f. /\ speech' \in [Speeches -> Handle]
      /\ act' \in [Activities -> Activity]
      /\ speech'[h].stage = sp[h].stage /\ speech'[h].owner = sp[h].owner
      /\ (speech'[h].authorized <=> sp[h].authorized) /\ speech'[h].gen = sp[h].gen
      /\ (speech'[h].interrupted <=> sp[h].interrupted)
      /\ \A b \in Activities :
            /\ act'[b].phase = act[b].phase /\ act'[b].paused = act[b].paused
            /\ act'[b].scheduler = act[b].scheduler /\ act'[b].current = act[b].current
            /\ act'[b].hooks = act[b].hooks /\ act'[b].lock = act[b].lock
            /\ act'[b].preempt = ac[b].preempt
            /\ b # a => act'[b].queue = act[b].queue /\ act'[b].woken = act[b].woken
  <2>1. /\ speech'[h].stage = sp[h].stage /\ speech'[h].owner = sp[h].owner
        /\ (speech'[h].authorized <=> sp[h].authorized) /\ speech'[h].gen = sp[h].gen
        /\ (speech'[h].interrupted <=> sp[h].interrupted)
    <3>1. speech'[h].stage = sp[h].stage /\ speech'[h].owner = sp[h].owner
      BY ScheduleFacts
    <3>2. (speech'[h].authorized <=> sp[h].authorized)
      BY ScheduleFacts
    <3>3. speech'[h].gen = sp[h].gen
      BY ScheduleFacts
    <3>4. (speech'[h].interrupted <=> sp[h].interrupted)
      BY ScheduleInterrupted
    <3> QED
      BY <3>1, <3>2, <3>3, <3>4
  <2> QED
    BY <1>e, <1>g, <2>1
<1>c. \/ /\ Refused(a, force) /\ act' = ac /\ act'[a].queue = act[a].queue
         /\ speech'[h].refused /\ (speech'[h].scheduled <=> speech[h].scheduled)
      \/ /\ ~Refused(a, force) /\ Over(a) /\ act' = ac /\ act'[a].queue = act[a].queue
         /\ ~speech'[h].refused /\ (speech'[h].scheduled <=> speech[h].scheduled)
      \/ /\ ~Refused(a, force) /\ ~Over(a)
         /\ speech'[h].scheduled /\ ~speech'[h].refused
         /\ act'[a].queue = Append(act[a].queue, h)
         /\ act'[a].woken <=> act[a].scheduler = "idle"
  BY SMTT(60), <1>e, ScheduleFacts DEF MayPlace
<1> USE DEF MayPlace, Prepares, EndsTurns
<1>n. ~Refused(a, force) => act[a].scheduler # "none"
  <2>1. CASE force
    <3>1. speech[h].owner = a /\ HandleOK(h)
      BY <1>0, <2>1 DEF SpeechInv
    <3> QED
      BY <2>1, <3>1 DEF HandleOK
  <2>2. CASE ~force
    <3>1. act[a].scheduler = "none" => act[a].paused
      BY <1>0 DEF SessionInv, HandoffOK, Activities
    <3> QED
      BY <2>2, <3>1 DEF Refused
  <2> QED
    BY <2>1, <2>2
<1>r. Refused(a, force) => act[a].paused /\ ~force
  BY DEF Refused
<1>o. act[a].preempt # None => ~speech[act[a].preempt].scheduled
  BY <1>0 DEF SpeechInv, OwnsOK
<1>1. SpeechInv'
  <2>1. CASE act'[a].queue = Append(act[a].queue, h) /\ ~Refused(a, force) /\ speech'[h].scheduled /\ ~speech'[h].refused
    <3>1. Unauthorized(h)'
      BY <1>f DEF Unauthorized, Waits
    <3>2. \A b \in Activities : KeepsBut(b, h) /\ act'[b].preempt # h /\ (b # a => act'[b].queue = act[b].queue)
      BY <1>f, <2>1
    <3> QED
      BY SMTT(60), <1>0, <1>f, <1>n, <2>1, <3>1, <3>2, PlaceStep
  <2>2. CASE /\ act'[a].queue = act[a].queue /\ (speech'[h].scheduled <=> speech[h].scheduled)
             /\ \/ Refused(a, force) /\ speech'[h].refused
                \/ ~Refused(a, force) /\ Over(a) /\ ~speech'[h].refused
    <3>1. Unauthorized(h)' /\ (Waits(h)' \/ speech'[h].stage = "done")
      BY <1>f DEF Unauthorized, Waits
    <3>2. Refused(a, force) \/ act[a].scheduler = "cancelled"
      BY <2>2 DEF Over
    <3>3. \A b \in Activities : KeepsBut(b, h) /\ act'[b].queue = act[b].queue
      BY <1>f, <2>2
    <3>4. \A b \in Activities : act'[b].preempt = h =>
              b = a /\ (Unauthorized(h)') /\ (speech'[h].refused => act'[a].paused)
      BY <1>f, <1>r, <3>1
    <3>5. speech[h].scheduled => /\ act[a].scheduler = "cancelled"
                                 /\ ~speech'[h].refused
                                 /\ \A b \in Activities : act'[b].preempt # h
      BY <1>f, <1>r, <2>2, <3>2
    <3>6. \/ speech'[h].stage = "done" \/ speech'[h].interrupted \/ speech'[h].refused
          \/ act'[a].preempt = h \/ act[a].scheduler = "cancelled"
      BY <2>2, <3>2
    <3>7. /\ speech'[h].owner = a
          /\ (speech'[h].scheduled <=> speech[h].scheduled)
          /\ ~speech'[h].authorized
          /\ Waits(h)' \/ speech'[h].stage = "done"
      BY <1>f, <2>2, <3>1
    <3> QED
      BY <1>0, <3>3, <3>4, <3>5, <3>6, <3>7, ApartStep
  <2> QED
    BY <1>c, <2>1, <2>2
<1>2. TaskInv'
  <2>0. /\ \A t \in Turns : turn[t].owner \in Activities
        /\ \A g \in Speeches \ {h} : (Live(g)' <=> Live(g)) /\ speech'[g].owner = speech[g].owner
        /\ speech'[h].owner = a
        /\ Live(h) => Live(h)' /\ speech[h].owner = a
    BY <1>0, <1>f DEF TypeOK, Interrupts, Live
  <2>1. ASSUME NEW b \in Activities
        PROVE  act'[b].scheduler # "idle" \/ act'[b].woken \/ Lasts(b)
    <3>1. CASE b # a
      BY <1>f, <2>0, <3>1 DEF Lasts
    <3>2. CASE b = a /\ ((act'[a].woken <=> act[a].scheduler = "idle") \/ Over(a))
      BY <1>f, <3>2 DEF Over
    <3>3. CASE b = a /\ act' = act /\ UNCHANGED turn
      BY <2>0, <3>3 DEF Lasts, Going
    <3> QED
      BY <1>c, <3>1, <3>2, <3>3
  <2>2. ASSUME NEW b \in Activities, act'[b].scheduler = "ended"
        PROVE  act'[b].paused /\ act[b].scheduler = "ended" /\ ~Adds(b)
    <3>1. act[b].scheduler = "ended" /\ b # a /\ act'[b].paused
      BY <1>0, <1>f, <2>2 DEF TaskInv, EndedOK
    <3> QED
      BY <2>0, <3>1 DEF Adds
  <2>3. \A t \in Turns : Going(t)' => act'[turn'[t].owner].scheduler # "none"
    BY <1>0, <1>f, <2>0 DEF TaskInv, TurnOK, Going
  <2> QED
    BY <1>0, <2>1, <2>2, <2>3, TaskStep
<1>3. SessionInv'
  <2>1. \A g \in Speeches :
          /\ speech[g].scheduled => speech'[g].scheduled
          /\ speech[g].scheduled /\ speech[g].interrupted => speech'[g].interrupted
          /\ speech[g].stage = "done" => speech'[g].stage = "done"
    <3>1. ASSUME NEW g \in Speeches \ {h}
          PROVE  /\ speech[g].scheduled => speech'[g].scheduled
                 /\ speech[g].scheduled /\ speech[g].interrupted => speech'[g].interrupted
                 /\ speech[g].stage = "done" => speech'[g].stage = "done"
      BY DEF Interrupts
    <3> QED
      BY <1>c, <1>f, <3>1
  <2>2. act[2].scheduler = "none" =>
          /\ act'[2].phase = act[2].phase /\ act'[2].queue = act[2].queue
          /\ act'[2].preempt \in {None, act[2].preempt}
    BY <1>c, <1>f, <1>n DEF Activities
  <2> QED
    BY <1>0, <1>f, <2>1, <2>2, SessionFrame DEF Activities
<1> QED
  BY <1>0, <1>1, <1>2, <1>3, <1>f, Types, TypesNext DEF IInv

(* A tool needs a reply.                                                   *)
LEMMA ToolReplyStep ==
    ASSUME IInv, NEW h \in Speeches, ToolReply(h)
    PROVE  IInv'
<1>0. TypeOK /\ SpeechInv /\ TaskInv /\ SessionInv
  BY DEF IInv
<1>t. /\ Ranges /\ speech \in [Speeches -> Handle] /\ act \in [Activities -> Activity]
      /\ speech[h] \in Handle /\ speech[h].owner \in Activities
      /\ turn \in [Turns -> [stage : {"none", "waiting", "callback", "done"}, owner : Activities]]
  BY <1>0, Types, TypesRange DEF Ranges
<1> DEFINE a  == speech[h].owner
           n  == speech[h].steps + 1
           r  == [speech[h] EXCEPT !.steps = n, !.stage = "scheduling"]
           sp == [speech EXCEPT ![h] = r]
<1>f. PICK force \in BOOLEAN : force = TRUE /\ force
  BY Zenon
<1>1. /\ speech[h].stage = "tools" /\ speech[h].steps < MaxToolSteps + 1
      /\ ScheduleSpeech(sp, act, a, h, force)
      /\ UNCHANGED <<turn, sess>>
  BY <1>f, Zenon DEF ToolReply
<1>n. n \in 1..(MaxToolSteps + 1)
  BY <1>t, <1>1, MaxToolStepsAssumption DEF Handle
<1> HIDE DEF n
<1>2. /\ r \in Handle /\ r.stage = "scheduling" /\ r.owner = speech[h].owner
      /\ (r.scheduled <=> speech[h].scheduled) /\ (r.authorized <=> speech[h].authorized)
      /\ (r.interrupted <=> speech[h].interrupted) /\ (r.refused <=> speech[h].refused)
      /\ r.gen = speech[h].gen
  BY <1>t, <1>n DEF Handle
<1> HIDE DEF r
<1>3. sp \in [Speeches -> Handle] /\ sp[h] = r /\ \A g \in Speeches \ {h} : sp[g] = speech[g]
  BY <1>t, <1>2
<1> HIDE DEF sp
<1>4. speech[h].scheduled /\ ~speech[h].refused
  BY <1>0, <1>1 DEF SpeechInv, HandleOK
<1>5. Unqueued(h) /\ ~speech[h].authorized
  BY <1>0, <1>1, UnqueuedFacts DEF Unqueued
<1>6. act[a].scheduler # "ended"
  BY <1>0, <1>t, <1>1 DEF TaskInv, DrainedIsQuiet, Live
<1>7. \A g \in Speeches \ {h} : Interrupts(g)
  <2>1. \A g \in Speeches \ {h} : speech'[g] = speech[g]
    BY <1>t, <1>1, <1>3, ScheduleInterrupted
  <2> QED
    BY <2>1 DEF Interrupts
<1>8. \A b \in Activities :
         /\ Same(act[b], act[b]) /\ KeepsBut(b, h)
         /\ act[b].preempt # h
  <2>1. \A b \in Activities :
           /\ act'[b].scheduler = act[b].scheduler /\ act'[b].current = act[b].current
           /\ act'[b].preempt = act[b].preempt /\ act'[b].paused = act[b].paused
    BY SMTT(60), <1>t, <1>1, <1>3, ScheduleFacts
  <2>2. \A b \in Activities : act[b].preempt # h
    BY <1>0, <1>4 DEF SpeechInv, OwnsOK, Speeches, None
  <2> QED
    BY <2>1, <2>2 DEF Same, KeepsBut
<1> HIDE DEF a
<1>9. a \in Activities /\ speech[h].owner = a
  BY <1>t DEF a
<1>10. MayPlace(h, a, force, sp)
  BY <1>f, <1>1, <1>2, <1>3, <1>4, <1>5, <1>6, <1>9 DEF MayPlace
<1>11. Prepares(h, a, force, act)
  BY <1>1, <1>8 DEF Prepares
<1>12. EndsTurns(a) /\ UNCHANGED sess
  BY <1>1, <1>t DEF EndsTurns, Going
<1> QED
  BY <1>1, <1>3, <1>7, <1>8, <1>9, <1>10, <1>11, <1>12, <1>t, ScheduleStep

LEMMA AskStep ==
    ASSUME IInv, NEW h \in Speeches, NEW say \in BOOLEAN, NEW allow \in BOOLEAN, Ask(h, say, allow)
    PROVE  IInv'
<1>0. TypeOK /\ SpeechInv /\ TaskInv /\ SessionInv
  BY DEF IInv
<1>t. /\ Ranges /\ act \in [Activities -> Activity]
      /\ turn \in [Turns -> [stage : {"none", "waiting", "callback", "done"}, owner : Activities]]
      /\ sess.activity \in Activities \cup {None} /\ sess.next \in Activities \cup {None}
  BY <1>0, Types, TypesRange
<1> DEFINE a  == Target
           sp == Created(h, a, say, allow)
<1>f. PICK force \in BOOLEAN : force = FALSE /\ ~force
  BY Zenon
<1>s. ScheduleSpeech(sp, act, a, h, force)
  BY <1>f, Zenon DEF Ask
<1>1. /\ a \in Activities /\ speech[h].stage = "none"
      /\ UNCHANGED <<turn, sess>>
  BY <1>t DEF Ask, Target, Fresh
<1>2. act[a].scheduler # "ended"
  <2>1. CASE act[sess.activity].paused
    BY <1>0, <1>1, <2>1 DEF Target, SessionInv, HandoffOK, None, Activities
  <2>2. CASE ~act[sess.activity].paused
    BY <1>0, <1>1, <2>2 DEF Target, TaskInv, EndedOK
  <2> QED
    BY <2>1, <2>2
<1> HIDE DEF a
<1>3. /\ sp \in [Speeches -> Handle] /\ sp[h].stage \in {"scheduling", "authorizing"}
      /\ sp[h].owner = a /\ ~sp[h].scheduled /\ ~sp[h].authorized /\ ~sp[h].refused
      /\ \A g \in Speeches \ {h} : sp[g] = speech[g]
  BY <1>0, <1>1, CreatedFacts
<1> HIDE DEF sp
<1>4. ~speech[h].scheduled
  BY <1>0, <1>1 DEF SpeechInv, HandleOK
<1>5. speech[h].scheduled = FALSE /\ sp[h].scheduled = FALSE
  BY <1>0, <1>3, <1>4, Types DEF Handle
<1>6. \A g \in Speeches \ {h} : Interrupts(g)
  <2>1. \A g \in Speeches \ {h} : speech'[g] = speech[g]
    BY <1>t, <1>s, <1>1, <1>3, ScheduleInterrupted
  <2> QED
    BY <2>1 DEF Interrupts
<1>7. \A b \in Activities :
         /\ Same(act[b], act[b]) /\ KeepsBut(b, h)
         /\ act[b].preempt # h
  <2>1. \A b \in Activities :
           /\ act'[b].scheduler = act[b].scheduler /\ act'[b].current = act[b].current
           /\ act'[b].preempt = act[b].preempt /\ act'[b].paused = act[b].paused
    BY <1>t, <1>s, <1>1, <1>3, ScheduleFacts
  <2>2. \A b \in Activities : act[b].preempt # h
    BY <1>0, <1>1 DEF SpeechInv, OwnsOK, Unauthorized, Waits, Speeches, None
  <2> QED
    BY <2>1, <2>2 DEF Same, KeepsBut
<1>8. MayPlace(h, a, force, sp)
  BY <1>f, <1>1, <1>2, <1>3, <1>4, <1>5 DEF MayPlace, Unqueued
<1>9. Prepares(h, a, force, act)
  BY <1>1, <1>7 DEF Prepares
<1>10. EndsTurns(a) /\ UNCHANGED sess
  BY <1>1, <1>t DEF EndsTurns, Going
<1> QED
  BY <1>s, <1>1, <1>3, <1>6, <1>7, <1>8, <1>9, <1>10, <1>t, ScheduleStep

-----------------------------------------------------------------------------
(***************************************************************************)
(* The turns of the user.                                                  *)
(***************************************************************************)

(* The speeches sp are those of the state, but for h and interruptions.    *)
InterruptsIn(sp, g) ==
    /\ sp[g].stage = speech[g].stage
    /\ sp[g].owner = speech[g].owner
    /\ sp[g].scheduled = speech[g].scheduled
    /\ sp[g].authorized = speech[g].authorized
    /\ sp[g].refused = speech[g].refused
    /\ sp[g].gen = speech[g].gen
    /\ speech[g].interrupted => sp[g].interrupted

(* In ac the preemptive speech is dropped that became h or was interrupted. *)
DropsIn(sp, ac, b, h) ==
    \/ ac[b].preempt = act[b].preempt
    \/ /\ ac[b].preempt = None
       /\ act[b].preempt \notin {None, h} =>
             speech[act[b].preempt].stage = "done" \/ sp[act[b].preempt].interrupted

DropsAll(sp, ac, a, h, force) ==
    /\ \A b \in Activities :
          /\ Same(ac[b], act[b]) /\ ac[b].woken = act[b].woken
          /\ DropsIn(sp, ac, b, h)
          /\ ac[b].preempt = h => b = a /\ Refused(b, force)
    /\ \A g \in Speeches \ {h} : InterruptsIn(sp, g)

LEMMA TurnEndsStep ==
    ASSUME IInv, NEW t \in Turns, NEW h \in Speeches,
           NEW sp \in [Speeches -> Handle], NEW ac \in [Activities -> Activity],
           NEW force \in BOOLEAN, ~force,
           turn[t].stage = "callback",
           TurnEnds(t, sp, ac, h),
           MayPlace(h, turn[t].owner, force, sp),
           DropsAll(sp, ac, turn[t].owner, h, force)
    PROVE  IInv'
<1>0. TypeOK /\ SpeechInv /\ TaskInv /\ SessionInv
  BY DEF IInv
<1>t. /\ Ranges
      /\ turn \in [Turns -> [stage : {"none", "waiting", "callback", "done"}, owner : Activities]]
      /\ turn[t] \in [stage : {"none", "waiting", "callback", "done"}, owner : Activities]
      /\ turn[t].owner \in Activities
  BY <1>0, Types, TypesRange
<1>f. force = FALSE
  BY Zenon
<1>b. /\ \A b \in Activities :
         /\ Same(ac[b], act[b]) /\ ac[b].woken = act[b].woken
         /\ DropsIn(sp, ac, b, h)
         /\ ac[b].preempt = h => b = turn[t].owner /\ Refused(b, force)
      /\ \A g \in Speeches \ {h} : InterruptsIn(sp, g)
  BY DEF DropsAll
<1> DEFINE a == turn[t].owner
           outdated == \E u \in Turns : u > t /\ turn[u].owner = a /\ turn[u].stage # "none"
           s  == IF outdated /\ ~Refused(a, FALSE) THEN Cancelled(sp, {h}) ELSE sp
           wk == WakeUp(ac, a)
<1>s. ScheduleSpeech(s, wk, a, h, force) /\ MayPlace(h, a, force, sp)
  BY <1>f, Zenon DEF TurnEnds
<1>1. turn' = [turn EXCEPT ![t].stage = "done"] /\ UNCHANGED sess
  BY DEF TurnEnds
<1> HIDE DEF outdated
<1>2. /\ s \in [Speeches -> Handle]
      /\ \A g \in Speeches :
            /\ s[g].stage = sp[g].stage
            /\ s[g].owner = sp[g].owner
            /\ s[g].scheduled = sp[g].scheduled
            /\ s[g].authorized = sp[g].authorized
            /\ s[g].refused = sp[g].refused
            /\ s[g].gen = sp[g].gen
            /\ sp[g].interrupted => s[g].interrupted
  <2>1. CASE s = Cancelled(sp, {h})
    <3> HIDE DEF s
    <3> QED
      BY <2>1, CancelledFacts
  <2>2. CASE s = sp
    <3> HIDE DEF s
    <3> QED
      BY <2>2
  <2> QED
    BY <2>1, <2>2
<1> HIDE DEF s
<1> HIDE DEF a
<1>a. a \in Activities /\ a = turn[t].owner
  BY <1>t DEF a
<1>3. /\ wk \in [Activities -> Activity]
      /\ \A b \in Activities :
            /\ Same(wk[b], ac[b])
            /\ wk[b].preempt = ac[b].preempt
            /\ b # a => wk[b] = ac[b]
      /\ wk[a].woken <=> ac[a].scheduler = "idle"
  BY <1>a, WakeUpFacts
<1> HIDE DEF wk
<1>e. \A b \in Activities :
         /\ ac[b].phase = act[b].phase /\ ac[b].paused = act[b].paused
         /\ ac[b].scheduler = act[b].scheduler /\ ac[b].current = act[b].current
         /\ ac[b].hooks = act[b].hooks /\ ac[b].lock = act[b].lock
         /\ ac[b].queue = act[b].queue /\ ac[b].woken = act[b].woken
         /\ ac[b].preempt \in {None, act[b].preempt}
  BY <1>b DEF Same, DropsIn
<1>w. \A b \in Activities :
         /\ wk[b].phase = act[b].phase /\ wk[b].paused = act[b].paused
         /\ wk[b].scheduler = act[b].scheduler /\ wk[b].current = act[b].current
         /\ wk[b].hooks = act[b].hooks /\ wk[b].lock = act[b].lock
         /\ wk[b].queue = act[b].queue
         /\ wk[b].preempt = ac[b].preempt
         /\ b # a => wk[b].woken = act[b].woken
  <2>1. \A b \in Activities :
           /\ wk[b].phase = ac[b].phase /\ wk[b].paused = ac[b].paused
           /\ wk[b].scheduler = ac[b].scheduler /\ wk[b].current = ac[b].current
           /\ wk[b].hooks = ac[b].hooks /\ wk[b].lock = ac[b].lock
           /\ wk[b].queue = ac[b].queue
           /\ wk[b].preempt = ac[b].preempt
           /\ b # a => wk[b].woken = ac[b].woken
    BY <1>3 DEF Same
  <2> QED
    BY <1>e, <2>1
<1>4. MayPlace(h, a, force, s)
  BY <1>s, <1>2 DEF MayPlace
<1>5. Prepares(h, a, force, wk)
  <2>1. \A b \in Activities :
           /\ Same(wk[b], act[b])
           /\ wk[b].preempt \in {None, act[b].preempt}
           /\ b # a => wk[b].woken = act[b].woken
    BY <1>e, <1>w DEF Same
  <2>2. \A b \in Activities : wk[b].preempt = h => b = a /\ Refused(a, force)
    BY <1>a, <1>b, <1>3
  <2>3. wk[a].woken <=> act[a].scheduler = "idle"
    BY <1>a, <1>3, <1>e
  <2> QED
    BY <2>1, <2>2, <2>3 DEF Prepares
<1>6. EndsTurns(a)
  <2> DEFINE r == [turn[t] EXCEPT !.stage = "done"]
  <2>1. turn' = [turn EXCEPT ![t] = r]
    BY <1>1
  <2>2. r \in [stage : {"none", "waiting", "callback", "done"}, owner : Activities]
        /\ r.stage = "done" /\ r.owner = turn[t].owner
    BY <1>t
  <2> HIDE DEF r
  <2> QED
    BY <1>a, <1>t, <2>1, <2>2 DEF EndsTurns, Going
<1>7. \A g \in Speeches \ {h} : speech'[g] = s[g]
  BY <1>s, <1>2, <1>3, <1>a, ScheduleInterrupted
<1>8. \A g \in Speeches \ {h} : Interrupts(g)
  <2> SUFFICES ASSUME NEW g \in Speeches \ {h} PROVE Interrupts(g)
    OBVIOUS
  <2>1. InterruptsIn(sp, g) /\ speech'[g] = s[g]
    BY <1>7, <1>b
  <2> QED
    BY <1>2, <2>1 DEF Interrupts, InterruptsIn
<1>9. \A b \in Activities : KeepsBut(b, h)
  <2>1. \A b \in Activities :
           /\ act'[b].scheduler = wk[b].scheduler /\ act'[b].current = wk[b].current
           /\ act'[b].preempt = wk[b].preempt /\ act'[b].paused = wk[b].paused
    BY <1>s, <1>2, <1>3, <1>a, ScheduleFacts
  <2>2. \A b \in Activities :
           /\ act'[b].scheduler = act[b].scheduler /\ act'[b].current = act[b].current
           /\ act'[b].preempt = ac[b].preempt /\ act'[b].paused = act[b].paused
    BY <1>w, <2>1
  <2> SUFFICES ASSUME NEW b \in Activities PROVE KeepsBut(b, h)
    OBVIOUS
  <2>3. CASE ac[b].preempt = act[b].preempt
    BY <2>2, <2>3 DEF KeepsBut
  <2>4. CASE /\ ac[b].preempt = None
             /\ act[b].preempt \notin {None, h} =>
                   speech[act[b].preempt].stage = "done" \/ sp[act[b].preempt].interrupted
    <3>1. act[b].preempt \notin {None, h} => act[b].preempt \in Speeches \ {h}
      BY <1>t DEF Ranges
    <3>2. act[b].preempt \notin {None, h} =>
             speech[act[b].preempt].stage = "done" \/ speech'[act[b].preempt].interrupted
      BY <1>2, <1>7, <2>4, <3>1
    <3> QED
      BY <2>2, <2>4, <3>2 DEF KeepsBut
  <2> QED
    BY <1>b, <2>3, <2>4 DEF DropsIn
<1> QED
  BY <1>s, <1>1, <1>2, <1>3, <1>4, <1>5, <1>6, <1>8, <1>9, <1>a, ScheduleStep

(* The preemptive generation is the reply.                                 *)
LEMMA TurnUsesStep ==
    ASSUME IInv, NEW t \in Turns, TurnUses(t)
    PROVE  IInv'
<1>0. TypeOK /\ SpeechInv /\ TaskInv /\ SessionInv
  BY DEF IInv
<1>f. PICK force \in BOOLEAN : force = FALSE /\ ~force
  BY Zenon
<1> DEFINE a  == turn[t].owner
           p  == act[a].preempt
           ac == IF Refused(a, FALSE) THEN act ELSE Unpreempted(act, a)
<1>1. turn[t].stage = "callback" /\ p # None /\ TurnEnds(t, speech, ac, p)
  BY DEF TurnUses
<1>t. /\ Ranges /\ speech \in [Speeches -> Handle] /\ act \in [Activities -> Activity]
      /\ a \in Activities /\ p \in Speeches
  BY <1>0, <1>1, Types, TypesRange DEF Ranges
<1>2. /\ speech[p].owner = a /\ ~speech[p].scheduled
      /\ speech[p].refused => act[a].paused
      /\ Unauthorized(p)
  BY SMTT(60), <1>0, <1>1, <1>t DEF SpeechInv, OwnsOK
<1>3. ~speech[p].authorized /\ Unqueued(p)
  BY <1>0, <1>2, <1>t, UnqueuedFacts DEF Unqueued
<1>4. act[a].scheduler # "ended"
  BY <1>0, <1>1, <1>t DEF TaskInv, DrainedIsQuiet
<1>5. ~Refused(a, force) => ~speech[p].refused
  BY SMTT(60), <1>2, <1>f DEF Refused
<1>6. MayPlace(p, a, force, speech)
  BY <1>f, <1>2, <1>3, <1>4, <1>5 DEF MayPlace, Unauthorized, Waits
<1>7. ac \in [Activities -> Activity]
  BY <1>t, UnpreemptedFacts
<1>8. \A b \in Activities :
         /\ Same(ac[b], act[b]) /\ ac[b].woken = act[b].woken
         /\ DropsIn(speech, ac, b, p)
         /\ ac[b].preempt = p => b = a /\ Refused(b, force)
  <2>1. \A b \in Activities : act[b].preempt = p => b = a
    BY <1>0, <1>1, <1>2 DEF SpeechInv, OwnsOK
  <2>2. CASE Refused(a, force)
    BY <1>f, <2>1, <2>2, Zenon DEF Same, DropsIn
  <2>3. CASE ~Refused(a, force)
    <3>1. \A b \in Activities : /\ Same(ac[b], act[b])
                                /\ ac[b].woken = act[b].woken
                                /\ ac[b].preempt = IF b = a THEN None ELSE act[b].preempt
      BY ZenonT(60), <1>f, <1>t, <2>3, UnpreemptedFacts
    <3> HIDE DEF ac
    <3> QED
      BY <1>1, <2>1, <3>1 DEF DropsIn
  <2> QED
    BY <2>2, <2>3
<1>9. \A g \in Speeches \ {p} : InterruptsIn(speech, g)
  BY DEF InterruptsIn
<1> HIDE DEF p, ac
<1>10. DropsAll(speech, ac, a, p, force)
  BY <1>8, <1>9 DEF DropsAll
<1> QED
  BY <1>f, <1>1, <1>6, <1>7, <1>10, <1>t, TurnEndsStep

(* A new reply.                                                            *)
LEMMA TurnRepliesStep ==
    ASSUME IInv, NEW t \in Turns, NEW h \in Speeches, TurnReplies(t, h)
    PROVE  IInv'
<1>0. TypeOK /\ SpeechInv /\ TaskInv /\ SessionInv
  BY DEF IInv
<1>f. PICK force \in BOOLEAN : force = FALSE /\ ~force
  BY Zenon
<1> DEFINE a  == turn[t].owner
           cr == Created(h, a, FALSE, TRUE)
           sp == Cancelled(cr, {act[a].preempt})
           ac == Unpreempted(act, a)
<1>1. turn[t].stage = "callback" /\ speech[h].stage = "none" /\ TurnEnds(t, sp, ac, h)
  BY DEF TurnReplies, Fresh
<1>t. /\ Ranges /\ speech \in [Speeches -> Handle] /\ act \in [Activities -> Activity]
      /\ a \in Activities
  BY <1>0, Types, TypesRange
<1>2. /\ cr \in [Speeches -> Handle]
      /\ cr[h].stage \in {"scheduling", "authorizing"}
      /\ cr[h].owner = a
      /\ ~cr[h].scheduled
      /\ ~cr[h].authorized
      /\ ~cr[h].refused
      /\ \A g \in Speeches \ {h} : cr[g] = speech[g]
  BY ZenonT(60), <1>0, <1>t, CreatedFacts
<1> HIDE DEF cr
<1>3. /\ sp \in [Speeches -> Handle]
      /\ \A g \in Speeches :
            /\ sp[g].stage = cr[g].stage
            /\ sp[g].owner = cr[g].owner
            /\ sp[g].scheduled = cr[g].scheduled
            /\ sp[g].authorized = cr[g].authorized
            /\ sp[g].refused = cr[g].refused
            /\ sp[g].gen = cr[g].gen
            /\ cr[g].interrupted => sp[g].interrupted
            /\ g \in {act[a].preempt} /\ cr[g].stage # "done" => sp[g].interrupted
  BY <1>2, CancelledFacts
<1> HIDE DEF sp
<1>4. ~speech[h].scheduled /\ Unqueued(h)
  BY <1>0, <1>1 DEF SpeechInv, HandleOK, Unqueued
<1>5. act[a].scheduler # "ended"
  BY <1>0, <1>1, <1>t DEF TaskInv, DrainedIsQuiet
<1>6. MayPlace(h, a, force, sp)
  BY <1>f, <1>1, <1>2, <1>3, <1>4, <1>5 DEF MayPlace
<1>7. /\ ac \in [Activities -> Activity]
      /\ \A b \in Activities : /\ Same(ac[b], act[b])
                               /\ ac[b].woken = act[b].woken
                               /\ ac[b].preempt = IF b = a THEN None ELSE act[b].preempt
  BY <1>t, UnpreemptedFacts
<1> HIDE DEF ac
<1>8. \A b \in Activities :
         /\ DropsIn(sp, ac, b, h)
         /\ ac[b].preempt # h
  <2>1. \A b \in Activities : act[b].preempt # h
    BY <1>0, <1>1 DEF SpeechInv, OwnsOK, Unauthorized, Waits, Speeches, None
  <2>2. act[a].preempt # None => act[a].preempt \in Speeches \ {h}
    BY <1>t, <2>1 DEF Ranges
  <2>3. act[a].preempt # None =>
           speech[act[a].preempt].stage = "done" \/ sp[act[a].preempt].interrupted
    BY <1>2, <1>3, <2>2
  <2>4. h # None
    BY DEF Speeches, None
  <2> QED
    BY <1>7, <2>1, <2>3, <2>4 DEF DropsIn
<1>9. \A g \in Speeches \ {h} : InterruptsIn(sp, g)
  BY <1>2, <1>3 DEF InterruptsIn
<1>10. DropsAll(sp, ac, a, h, force)
  BY <1>7, <1>8, <1>9 DEF DropsAll
<1> QED
  BY <1>f, <1>1, <1>3, <1>6, <1>7, <1>10, TurnEndsStep

(* A preemptive generation begins.                                         *)
LEMMA PreemptiveStep ==
    ASSUME IInv, NEW a \in Activities, NEW h \in Speeches, Preemptive(a, h)
    PROVE  IInv'
<1>0. TypeOK /\ SpeechInv /\ TaskInv /\ SessionInv
  BY DEF IInv
<1>t. Ranges /\ speech \in [Speeches -> Handle] /\ act \in [Activities -> Activity] /\ act[a] \in Activity
  BY <1>0, Types, TypesRange
<1> DEFINE cr == Created(h, a, FALSE, TRUE)
           r  == [act[a] EXCEPT !.preempt = h]
<1>1. /\ act[a].phase = "open" /\ ~act[a].paused /\ speech[h].stage = "none"
      /\ speech' = Cancelled(cr, {act[a].preempt})
      /\ act' = [act EXCEPT ![a] = r]
      /\ UNCHANGED <<turn, sess>>
  BY DEF Preemptive, Fresh
<1>2. /\ cr \in [Speeches -> Handle]
      /\ cr[h].stage \in {"scheduling", "authorizing"}
      /\ cr[h].owner = a
      /\ ~cr[h].scheduled
      /\ ~cr[h].authorized
      /\ ~cr[h].refused
      /\ \A g \in Speeches \ {h} : cr[g] = speech[g]
  BY <1>0, CreatedFacts
<1> HIDE DEF cr
<1>3. /\ speech' \in [Speeches -> Handle]
      /\ \A g \in Speeches :
            /\ speech'[g].stage = cr[g].stage
            /\ speech'[g].owner = cr[g].owner
            /\ speech'[g].scheduled = cr[g].scheduled
            /\ speech'[g].authorized = cr[g].authorized
            /\ speech'[g].refused = cr[g].refused
            /\ speech'[g].gen = cr[g].gen
            /\ cr[g].interrupted => speech'[g].interrupted
            /\ g \in {act[a].preempt} /\ cr[g].stage # "done" => speech'[g].interrupted
  BY <1>1, <1>2, CancelledFacts
<1>4. /\ r \in Activity /\ r.preempt = h /\ Same(r, act[a]) /\ r.woken = act[a].woken
  BY <1>t DEF Activity, Same
<1> HIDE DEF r
<1>5. /\ act' \in [Activities -> Activity] /\ act'[a] = r
      /\ \A b \in Activities \ {a} : act'[b] = act[b]
  BY <1>t, <1>1, <1>4
<1>6. \A g \in Speeches \ {h} : Interrupts(g)
  BY <1>2, <1>3 DEF Interrupts
<1>7. /\ ~speech[h].scheduled
      /\ \A b \in Activities : act[b].preempt # h
      /\ h # None
  BY <1>0, <1>1 DEF SpeechInv, HandleOK, OwnsOK, Unauthorized, Waits, Speeches, None
<1>8. SpeechInv'
  <2>1. \A b \in Activities : KeepsBut(b, h) /\ act'[b].queue = act[b].queue
    <3>1. act[a].preempt # None => act[a].preempt \in Speeches \ {h}
      BY <1>t, <1>7 DEF Ranges
    <3>2. act[a].preempt # None =>
             speech[act[a].preempt].stage = "done" \/ speech'[act[a].preempt].interrupted
      BY <1>2, <1>3, <3>1
    <3>3. KeepsBut(a, h) /\ act'[a].queue = act[a].queue
      BY <1>4, <1>5, <3>2 DEF KeepsBut, Same
    <3>4. \A b \in Activities \ {a} : KeepsBut(b, h) /\ act'[b].queue = act[b].queue
      BY <1>5 DEF KeepsBut
    <3> QED
      BY <3>3, <3>4
  <2>2. /\ speech'[h].owner = a /\ ~speech'[h].scheduled /\ ~speech'[h].authorized
        /\ ~speech'[h].refused
        /\ Waits(h)'
    BY <1>2, <1>3 DEF Waits
  <2>3. Unauthorized(h)'
    BY <2>2 DEF Unauthorized
  <2>4. \A b \in Activities : act'[b].preempt = h => b = a
    BY <1>5, <1>7
  <2>5. act'[a].preempt = h /\ Unqueued(h)
    BY <1>4, <1>5, <1>7 DEF Unqueued
  <2>6. \A b \in Activities : act'[b].preempt = h =>
           b = a /\ (Unauthorized(h)') /\ (speech'[h].refused => act'[a].paused)
    BY <2>2, <2>3, <2>4
  <2>7. /\ speech'[h].owner = a
        /\ speech'[h].scheduled <=> speech[h].scheduled
        /\ ~speech'[h].authorized
        /\ Waits(h)' \/ speech'[h].stage = "done"
    BY <1>7, <2>2
  <2> QED
    BY ZenonT(60), <1>0, <1>1, <1>6, <1>7, <2>1, <2>5, <2>6, <2>7, ApartStep
<1>9. TaskInv'
  <2>0. /\ \A t \in Turns : turn[t].owner \in Activities
        /\ \A g \in Speeches \ {h} : (Live(g)' <=> Live(g)) /\ speech'[g].owner = speech[g].owner
        /\ speech'[h].owner = a /\ ~Live(h)
        /\ \A b \in Activities : /\ act'[b].scheduler = act[b].scheduler
                                 /\ act'[b].woken = act[b].woken
                                 /\ act'[b].queue = act[b].queue
                                 /\ act'[b].paused = act[b].paused
                                 /\ act'[b].hooks = act[b].hooks
    <3>1. \A t \in Turns : turn[t].owner \in Activities
      BY <1>0 DEF TypeOK
    <3>2. \A g \in Speeches \ {h} : (Live(g)' <=> Live(g)) /\ speech'[g].owner = speech[g].owner
      BY <1>6 DEF Interrupts, Live
    <3>3. speech'[h].owner = a /\ ~Live(h)
      BY <1>1, <1>2, <1>3 DEF Live
    <3>4. \A b \in Activities : /\ act'[b].scheduler = act[b].scheduler
                                /\ act'[b].woken = act[b].woken
                                /\ act'[b].queue = act[b].queue
                                /\ act'[b].paused = act[b].paused
                                /\ act'[b].hooks = act[b].hooks
      BY <1>4, <1>5 DEF Same
    <3> QED
      BY <3>1, <3>2, <3>3, <3>4
  <2>1. \A b \in Activities : Lasts(b)
    BY <1>1, <2>0 DEF Lasts, Going
  <2>2. ASSUME NEW b \in Activities, act'[b].scheduler = "ended"
        PROVE  act'[b].paused /\ act[b].scheduler = "ended" /\ ~Adds(b)
    <3>1. act[b].scheduler = "ended" /\ b # a /\ act'[b].paused
      BY <1>0, <1>1, <2>0, <2>2 DEF TaskInv, EndedOK
    <3> QED
      BY ZenonT(60), <1>1, <2>0, <3>1 DEF Adds, Going
  <2>3. \A t \in Turns : Going(t)' => act'[turn'[t].owner].scheduler # "none"
    BY <1>0, <1>1, <2>0 DEF TaskInv, TurnOK, Going
  <2> QED
    BY <1>0, <2>1, <2>2, <2>3, TaskStep
<1>10. SessionInv'
  <2>1. \A g \in Speeches :
          /\ speech[g].scheduled => speech'[g].scheduled
          /\ speech[g].scheduled /\ speech[g].interrupted => speech'[g].interrupted
          /\ speech[g].stage = "done" => speech'[g].stage = "done"
    BY <1>1, <1>6, <1>7 DEF Interrupts
  <2>2. act[2].scheduler = "none" => a # 2
    BY <1>0, <1>1 DEF SessionInv, HandoffOK
  <2>3. \A b \in Activities : Same(act'[b], act[b])
    BY <1>4, <1>5 DEF Same
  <2> QED
    BY <1>0, <1>1, <1>5, <2>1, <2>2, <2>3, SessionFrame DEF Activities, Same
<1> QED
  BY <1>0, <1>1, <1>3, <1>5, <1>8, <1>9, <1>10, Types, TypesNext DEF IInv

(* The task of a turn begins, goes on, or ends without a reply.            *)
LEMMA TurnMoves ==
    ASSUME IInv, NEW t \in Turns, NEW s \in {"none", "waiting", "callback", "done"},
           NEW a \in Activities,
           turn' = [turn EXCEPT ![t] = [stage |-> s, owner |-> a]]
    PROVE  /\ turn' \in [Turns -> [stage : {"none", "waiting", "callback", "done"}, owner : Activities]]
           /\ turn'[t].stage = s /\ turn'[t].owner = a
           /\ \A u \in Turns \ {t} : turn'[u] = turn[u]
<1>1. turn \in [Turns -> [stage : {"none", "waiting", "callback", "done"}, owner : Activities]]
  BY Types DEF IInv
<1> QED
  BY <1>1

LEMMA EndOfTurnStep ==
    ASSUME IInv, NEW a \in Activities, NEW t \in Turns, EndOfTurn(a, t)
    PROVE  IInv'
<1>0. TypeOK /\ SpeechInv /\ TaskInv /\ SessionInv
  BY DEF IInv
<1>1. /\ act[a].phase = "open" /\ ~act[a].paused /\ turn[t].stage = "none"
      /\ turn' = [turn EXCEPT ![t] = [stage |-> "waiting", owner |-> a]]
      /\ UNCHANGED <<speech, act, sess>>
  BY DEF EndOfTurn
<1>2. /\ turn' \in [Turns -> [stage : {"none", "waiting", "callback", "done"}, owner : Activities]]
      /\ turn'[t].stage = "waiting" /\ turn'[t].owner = a
      /\ \A u \in Turns \ {t} : turn'[u] = turn[u]
  BY <1>1, TurnMoves
<1>3. SpeechInv'
  BY <1>0, <1>1, QuietStep DEF Interrupts, Keeps
<1>4. TaskInv'
  <2>0. \A u \in Turns : turn[u].owner \in Activities
    BY <1>0 DEF TypeOK
  <2>1. \A b \in Activities : Lasts(b)
    BY <1>1, <1>2 DEF Lasts, Going, Live
  <2>2. ASSUME NEW b \in Activities, act'[b].scheduler = "ended"
        PROVE  act'[b].paused /\ act[b].scheduler = "ended" /\ ~Adds(b)
    <3>1. act[b].scheduler = "ended" /\ b # a /\ act'[b].paused
      BY <1>0, <1>1, <2>2 DEF TaskInv, EndedOK
    <3> QED
      BY <1>1, <1>2, <3>1 DEF Adds, Going, Live
  <2>3. act[a].scheduler # "none"
    BY <1>0, <1>1 DEF SessionInv, HandoffOK, Activities
  <2>4. \A u \in Turns : Going(u)' => act'[turn'[u].owner].scheduler # "none"
    BY <1>0, <1>1, <1>2, <2>0, <2>3 DEF TaskInv, TurnOK, Going
  <2> QED
    BY <1>0, <2>1, <2>2, <2>4, TaskStep
<1>5. SessionInv'
  BY <1>0, <1>1, SessionFrame
<1> QED
  BY <1>0, <1>1, <1>2, <1>3, <1>4, <1>5, Types, TypesNext DEF IInv

(* The task of a turn ends without a reply, and wakes the scheduler.       *)
LEMMA TurnDone ==
    ASSUME IInv, NEW t \in Turns, turn' = [turn EXCEPT ![t].stage = "done"],
           act' = WakeUp(act, turn[t].owner), UNCHANGED <<speech, sess>>
    PROVE  IInv'
<1>0. TypeOK /\ SpeechInv /\ TaskInv /\ SessionInv
  BY DEF IInv
<1> DEFINE a == turn[t].owner
<1>t. a \in Activities /\ act \in [Activities -> Activity]
  BY <1>0, Types
<1>1. turn' = [turn EXCEPT ![t] = [stage |-> "done", owner |-> a]]
  <2>1. turn[t] \in [stage : {"none", "waiting", "callback", "done"}, owner : Activities]
    BY <1>0, Types
  <2>2. [turn[t] EXCEPT !.stage = "done"] = [stage |-> "done", owner |-> a]
    BY <2>1
  <2>3. turn' = [turn EXCEPT ![t] = [turn[t] EXCEPT !.stage = "done"]]
    OBVIOUS
  <2> QED
    BY <2>2, <2>3, Zenon
<1>2. /\ turn' \in [Turns -> [stage : {"none", "waiting", "callback", "done"}, owner : Activities]]
      /\ turn'[t].stage = "done" /\ turn'[t].owner = a
      /\ \A u \in Turns \ {t} : turn'[u] = turn[u]
  BY <1>t, <1>1, TurnMoves
<1>3. /\ act' \in [Activities -> Activity]
      /\ \A b \in Activities : /\ Same(act'[b], act[b])
                               /\ act'[b].preempt = act[b].preempt
                               /\ b # a => act'[b] = act[b]
      /\ act'[a].woken <=> act[a].scheduler = "idle"
  BY <1>t, WakeUpFacts
<1>4. SpeechInv'
  BY <1>0, <1>3, QuietStep DEF Interrupts, Keeps, Same
<1>5. TaskInv'
  <2>1. \A u \in Turns : /\ Going(u)' => Going(u)
                         /\ turn[u].owner # a => (Going(u)' <=> Going(u))
                         /\ turn'[u].owner = turn[u].owner
    BY SMTT(60), <1>2 DEF Going
  <2> QED
    BY <1>0, <1>t, <1>3, <2>1, WokenStep DEF Same, Live
<1>6. SessionInv'
  BY <1>0, <1>3, SessionFrame DEF Same, Activities
<1> QED
  BY <1>0, <1>2, <1>3, <1>4, <1>5, <1>6, Types, TypesNext DEF IInv

LEMMA TurnStartsStep ==
    ASSUME IInv, NEW t \in Turns, TurnStarts(t)
    PROVE  IInv'
<1>0. TypeOK /\ SpeechInv /\ TaskInv /\ SessionInv
  BY DEF IInv
<1> DEFINE a == turn[t].owner
           c == act[a].current
<1>t. /\ a \in Activities /\ act \in [Activities -> Activity] /\ speech \in [Speeches -> Handle]
      /\ turn[t] \in [stage : {"none", "waiting", "callback", "done"}, owner : Activities]
  BY <1>0, Types
<1>1. CASE /\ turn' = [turn EXCEPT ![t].stage = "callback"]
           /\ speech' = Cancelled(speech, {c})
           /\ UNCHANGED <<act, sess>>
  <2>1. turn' = [turn EXCEPT ![t] = [stage |-> "callback", owner |-> a]]
    <3>1. [turn[t] EXCEPT !.stage = "callback"] = [stage |-> "callback", owner |-> a]
      BY <1>t
    <3>2. turn' = [turn EXCEPT ![t] = [turn[t] EXCEPT !.stage = "callback"]]
      BY <1>1
    <3> QED
      BY <3>1, <3>2, Zenon
  <2>2. /\ turn' \in [Turns -> [stage : {"none", "waiting", "callback", "done"}, owner : Activities]]
        /\ turn'[t].stage = "callback" /\ turn'[t].owner = a
        /\ \A u \in Turns \ {t} : turn'[u] = turn[u]
    BY <1>t, <2>1, TurnMoves
  <2>3. Cancels({c}, a)
    BY <1>1 DEF Cancels
  <2>4. speech' \in [Speeches -> Handle] /\ \A g \in Speeches : Interrupts(g)
    BY <1>0, <1>t, <2>3, CancelsFacts
  <2>5. SpeechInv'
    BY <1>0, <1>1, <2>4, QuietStep DEF Keeps
  <2>6. TaskInv'
    <3>1. turn[t].stage = "waiting"
      BY DEF TurnStarts
    <3>2. \A u \in Turns : (Going(u)' <=> Going(u)) /\ turn'[u].owner = turn[u].owner
      BY <2>2, <3>1 DEF Going
    <3>3. \A g \in Speeches : (Live(g)' <=> Live(g)) /\ speech'[g].owner = speech[g].owner
      BY SMTT(60), <2>4 DEF Interrupts, Live
    <3> QED
      BY <1>0, <1>1, <3>2, <3>3, TaskFrame
  <2>7. SessionInv'
    BY <1>0, <1>1, <2>4, SessionFrame DEF Interrupts
  <2> QED
    BY <1>0, <1>1, <2>2, <2>4, <2>5, <2>6, <2>7, Types, TypesNext DEF IInv
<1>2. CASE /\ turn' = [turn EXCEPT ![t].stage = "done"]
           /\ act' = WakeUp(act, a)
           /\ UNCHANGED <<speech, sess>>
  BY <1>2, TurnDone
<1> QED
  BY <1>1, <1>2 DEF TurnStarts

LEMMA CompletesStep ==
    ASSUME IInv, NEW t \in Turns, Completes(t)
    PROVE  IInv'
<1>1. CASE TurnStarts(t)
  BY <1>1, TurnStartsStep
<1>2. CASE TurnStops(t)
  BY <1>2, TurnDone DEF TurnStops
<1>3. CASE TurnUses(t)
  BY <1>3, TurnUsesStep
<1>4. ASSUME NEW h \in Speeches, TurnReplies(t, h) PROVE IInv'
  BY <1>4, TurnRepliesStep
<1> QED
  BY <1>1, <1>2, <1>3, <1>4 DEF Completes

-----------------------------------------------------------------------------
(***************************************************************************)
(* The handoff and the close.                                              *)
(***************************************************************************)
Places == {"no", "called", "interrupting", "drain", "on_exit", "pausing",
           "current", "aclose", "over", "failed"}

SessionRecord ==
    [started : BOOLEAN, activity : Activities \cup {None}, next : Activities \cup {None},
     awaited : Speeches \cup {None}, on : [Stoppers -> Activities \cup {None}],
     at : [Stoppers -> Places]]

(* What the session's record holds, field by field.                        *)
LEMMA SessionTypes ==
    ASSUME TypeOK
    PROVE  /\ speech \in [Speeches -> Handle]
           /\ act \in [Activities -> Activity]
           /\ turn \in [Turns -> [stage : {"none", "waiting", "callback", "done"}, owner : Activities]]
           /\ sess \in SessionRecord
           /\ sess.activity \in Activities \cup {None}
           /\ sess.next \in Activities \cup {None}
           /\ sess.awaited \in Speeches \cup {None}
           /\ sess.on \in [Stoppers -> Activities \cup {None}]
           /\ sess.at \in [Stoppers -> Places]
  BY Types DEF SessionRecord, Places

LEMMA SessionTypesNext ==
    ASSUME speech' \in [Speeches -> Handle],
           act' \in [Activities -> Activity],
           turn' \in [Turns -> [stage : {"none", "waiting", "callback", "done"}, owner : Activities]],
           sess' \in SessionRecord
    PROVE  TypeOK'
  BY TypesNext DEF SessionRecord, Places

LEMMA AtFacts ==
    ASSUME TypeOK, NEW w \in Stoppers, NEW p \in Places
    PROVE  /\ At(w, p) \in [Stoppers -> Places]
           /\ At(w, p)[w] = p
           /\ \A v \in Stoppers \ {w} : At(w, p)[v] = sess.at[v]
<1>1. sess.at \in [Stoppers -> Places]
  BY SessionTypes
<1> QED
  BY <1>1 DEF At

LEMMA OnFacts ==
    ASSUME TypeOK, NEW w \in Stoppers, NEW a \in Activities \cup {None}
    PROVE  /\ On(w, a) \in [Stoppers -> Activities \cup {None}]
           /\ On(w, a)[w] = a
           /\ \A v \in Stoppers \ {w} : On(w, a)[v] = sess.on[v]
<1>1. sess.on \in [Stoppers -> Activities \cup {None}]
  BY SessionTypes
<1> QED
  BY <1>1 DEF On

LEMMA LockTypes ==
    TypeOK => \A b \in Activities : act[b].lock \in Stoppers \cup {"free"}
  BY DEF TypeOK

(* The handoff and the close alone go on.                                  *)
LEMMA Waiting ==
    ASSUME TypeOK, SpeechInv, TaskInv, UNCHANGED <<speech, act, turn>>
    PROVE  SpeechInv' /\ TaskInv'
<1>1. SpeechInv'
  BY QuietStep DEF Interrupts, Keeps
<1>2. TaskInv'
  BY TaskFrame DEF Live, Going
<1> QED
  BY <1>1, <1>2

LEMMA UpdateAgentStep ==
    ASSUME IInv, UpdateAgent
    PROVE  IInv'
<1>0. TypeOK /\ SpeechInv /\ TaskInv /\ SessionInv
  BY DEF IInv
<1> DEFINE at == At("handoff", "called")
<1>1. /\ sess.at["handoff"] = "no" /\ sess' = [sess EXCEPT !.at = at]
      /\ UNCHANGED <<speech, act, turn>>
  BY DEF UpdateAgent
<1>2. /\ at \in [Stoppers -> Places] /\ at["handoff"] = "called"
      /\ at["close"] = sess.at["close"]
  BY <1>0, AtFacts DEF Stoppers, Places
<1> HIDE DEF at
<1>3. /\ sess' \in SessionRecord /\ sess'.at = at /\ sess'.on = sess.on /\ sess'.activity = sess.activity
      /\ sess'.next = sess.next /\ sess'.awaited = sess.awaited /\ (sess'.started <=> sess.started)
  BY <1>0, <1>1, <1>2, SessionTypes DEF SessionRecord
<1>4. SessionInv'
  <2>1. HandoffOK'
    BY <1>0, <1>1, <1>2, <1>3 DEF SessionInv, HandoffOK, Stoppers
  <2>2. CloseOK'
    BY <1>0, <1>1, <1>2, <1>3 DEF SessionInv, CloseOK, Stoppers
  <2>3. DrainOK'
    BY <1>0, <1>1, <1>2, <1>3, LockTypes DEF SessionInv, DrainOK, Stoppers
  <2> QED
    BY <2>1, <2>2, <2>3 DEF SessionInv
<1> QED
  BY <1>0, <1>1, <1>3, <1>4, Waiting, SessionTypes, SessionTypesNext DEF IInv

(* The close waited for a speech, and goes on to drain or to close.        *)
LEMMA CloseMovesStep ==
    ASSUME IInv, CloseDrains \/ CloseCloses
    PROVE  IInv'
<1>0. TypeOK /\ SpeechInv /\ TaskInv /\ SessionInv
  BY DEF IInv
<1> DEFINE b  == sess.activity
           p  == IF CloseDrains THEN "drain" ELSE "aclose"
           at == At("close", p)
           on == On("close", b)
<1>1. /\ sess' = [sess EXCEPT !.at = at, !.on = on, !.awaited = None]
      /\ UNCHANGED <<speech, act, turn>>
  <2>1. ~(CloseDrains /\ CloseCloses)
    BY DEF CloseDrains, CloseCloses
  <2> QED
    BY <2>1 DEF CloseDrains, CloseCloses
<1>p. \/ p = "drain" /\ sess.at["close"] = "interrupting"
      \/ p = "aclose" /\ sess.at["close"] = "current"
  BY DEF CloseDrains, CloseCloses
<1> HIDE DEF p
<1>t. b \in Activities
  <2>1. b \in Activities \cup {None}
    BY <1>0, SessionTypes
  <2> QED
    BY <1>0, <1>p, <2>1 DEF SessionInv, CloseOK
<1>2. /\ at \in [Stoppers -> Places] /\ at["close"] = p /\ at["handoff"] = sess.at["handoff"]
      /\ on \in [Stoppers -> Activities \cup {None}] /\ on["close"] = b /\ on["handoff"] = sess.on["handoff"]
  BY <1>0, <1>p, <1>t, AtFacts, OnFacts DEF Stoppers, Places
<1> HIDE DEF at, on
<1>3. /\ sess' \in SessionRecord /\ sess'.at = at /\ sess'.on = on /\ sess'.activity = sess.activity
      /\ sess'.next = sess.next /\ sess'.awaited = None /\ (sess'.started <=> sess.started)
  BY <1>0, <1>1, <1>2, SessionTypes DEF SessionRecord
<1>4. SessionInv'
  <2>1. HandoffOK'
    BY <1>0, <1>1, <1>2, <1>3, <1>p, <1>t DEF SessionInv, HandoffOK, Stoppers
  <2>2. CloseOK'
    BY <1>0, <1>1, <1>2, <1>3, <1>p, <1>t DEF SessionInv, CloseOK, Stoppers, Activities, None
  <2>3. DrainOK'
    BY <1>0, <1>1, <1>2, <1>3, <1>p, LockTypes DEF SessionInv, DrainOK, Stoppers
  <2> QED
    BY <2>1, <2>2, <2>3 DEF SessionInv
<1> QED
  BY <1>0, <1>1, <1>3, <1>4, Waiting, SessionTypes, SessionTypesNext DEF IInv

(* The close begins: it drains, or it interrupts first.                    *)
LEMMA BeginCloseStep ==
    ASSUME IInv, NEW drain \in BOOLEAN, BeginClose(drain)
    PROVE  IInv'
<1>0. TypeOK /\ SpeechInv /\ TaskInv /\ SessionInv
  BY DEF IInv
<1> DEFINE a == sess.activity
<1>t. a \in Activities /\ sess.at["close"] = "no" /\ UNCHANGED turn
  <2>1. a \in Activities \cup {None}
    BY <1>0, SessionTypes
  <2> QED
    BY <1>0, <2>1 DEF BeginClose, SessionInv, CloseOK
<1>1. CASE /\ sess' = [sess EXCEPT !.at = At("close", "drain"), !.on = On("close", a)]
           /\ UNCHANGED <<speech, act>>
  <2> DEFINE at == At("close", "drain")
             on == On("close", a)
  <2>2. /\ at \in [Stoppers -> Places] /\ at["close"] = "drain" /\ at["handoff"] = sess.at["handoff"]
        /\ on \in [Stoppers -> Activities \cup {None}] /\ on["close"] = a /\ on["handoff"] = sess.on["handoff"]
    BY <1>0, <1>t, AtFacts, OnFacts DEF Stoppers, Places
  <2>s. sess' = [sess EXCEPT !.at = at, !.on = on]
    BY <1>1
  <2> HIDE DEF at, on
  <2>3. /\ sess' \in SessionRecord /\ sess'.at = at /\ sess'.on = on /\ sess'.activity = sess.activity
        /\ sess'.next = sess.next /\ sess'.awaited = sess.awaited /\ (sess'.started <=> sess.started)
    BY <1>0, <2>s, <2>2, SessionTypes DEF SessionRecord
  <2>4. HandoffOK'
    BY <1>0, <1>1, <1>t, <2>2, <2>3 DEF SessionInv, HandoffOK, Stoppers
  <2>5. CloseOK'
    BY <1>0, <1>1, <1>t, <2>2, <2>3 DEF SessionInv, CloseOK, Stoppers, Activities, None
  <2>6. DrainOK'
    BY <1>0, <1>1, <1>t, <2>2, <2>3, LockTypes DEF SessionInv, DrainOK, Stoppers
  <2> QED
    BY <1>0, <1>1, <1>t, <2>3, <2>4, <2>5, <2>6, Waiting, SessionTypes, SessionTypesNext DEF IInv, SessionInv
<1>2. CASE /\ speech' = Cancelled(speech, Interrupted(a))
           /\ act' = Unpreempted(act, a)
           /\ sess' = [sess EXCEPT !.awaited = IF Raises(a) THEN None ELSE act[a].current,
                                   !.at = At("close", "interrupting")]
  <2> DEFINE at == At("close", "interrupting")
             s  == IF Raises(a) THEN None ELSE act[a].current
  <2>1. Cancels(Interrupted(a), a)
    BY <1>2 DEF Cancels, Interrupted
  <2>2. /\ speech' \in [Speeches -> Handle]
        /\ act' \in [Activities -> Activity]
        /\ \A g \in Speeches :
              /\ Interrupts(g)
              /\ g \in Interrupted(a) /\ speech[g].stage # "done" => speech'[g].interrupted
        /\ \A b \in Activities :
              /\ Keeps(b)
              /\ Same(act'[b], act[b])
              /\ act'[b].woken = act[b].woken
              /\ act'[b].preempt \in {None, act[b].preempt}
    BY <1>0, <1>t, <2>1, CancelsFacts
  <2>3. /\ at \in [Stoppers -> Places] /\ at["close"] = "interrupting"
        /\ at["handoff"] = sess.at["handoff"]
    BY <1>0, AtFacts DEF Stoppers, Places
  <2>4. /\ s \in Speeches \cup {None}
        /\ s # None => /\ speech'[s].scheduled
                       /\ speech'[s].interrupted \/ speech'[s].stage = "done"
    <3>1. s \in Speeches \cup {None} /\ s \in {None, act[a].current}
      BY <1>0, <1>t, TypesRange DEF Ranges
    <3>2. s # None => s = act[a].current /\ speech[s].scheduled /\ ~Raises(a)
      BY SMTT(60), <1>0, <1>t, <3>1 DEF SpeechInv, OwnsOK
    <3>3. s # None => s \in Interrupted(a)
      <4>1. s # None => speech[act[a].current].allow
        BY <3>1, <3>2 DEF Raises
      <4> QED
        BY <3>2, <4>1 DEF Interrupted
    <3> HIDE DEF s
    <3> QED
      BY <2>2, <3>1, <3>2, <3>3 DEF Interrupts
  <2>s. sess' = [sess EXCEPT !.awaited = s, !.at = at]
    BY <1>2
  <2> HIDE DEF at, s
  <2>5. /\ sess' \in SessionRecord /\ sess'.at = at /\ sess'.on = sess.on /\ sess'.activity = sess.activity
        /\ sess'.next = sess.next /\ sess'.awaited = s /\ (sess'.started <=> sess.started)
    BY <1>0, <2>s, <2>3, <2>4, SessionTypes DEF SessionRecord
  <2>6. SpeechInv'
    BY <1>0, <2>2, QuietStep
  <2>7. TaskInv'
    <3>1. \A g \in Speeches : (Live(g)' <=> Live(g)) /\ speech'[g].owner = speech[g].owner
      BY <2>2 DEF Interrupts, Live
    <3> QED
      BY <1>0, <1>t, <2>2, <3>1, TaskFrame DEF Same, Going
  <2>e. \A b \in Activities : /\ act'[b].scheduler = act[b].scheduler
                              /\ act'[b].phase = act[b].phase
                              /\ act'[b].paused = act[b].paused
                              /\ act'[b].queue = act[b].queue
                              /\ act'[b].lock = act[b].lock
    BY <2>2 DEF Same
  <2>8. HandoffOK'
    BY <1>0, <1>t, <2>2, <2>3, <2>5, <2>e DEF SessionInv, HandoffOK, Stoppers, Activities
  <2>9. CloseOK'
    BY <1>0, <1>t, <2>3, <2>5, <2>e DEF SessionInv, CloseOK, Stoppers, Activities, None
  <2>10. DrainOK'
    <3>1. \A b \in Activities : act'[b].lock # "free" =>
             sess'.at[act'[b].lock] \in {"on_exit", "pausing"} /\ sess'.on[act'[b].lock] = b
      BY <1>0, <1>t, <2>3, <2>5, <2>e, LockTypes DEF SessionInv, DrainOK, Stoppers
    <3>2. \A w \in Stoppers : sess'.at[w] = "pausing" => act'[sess'.on[w]].paused
      <4>1. \A w \in Stoppers : sess.at[w] = "pausing" => sess.on[w] \in Activities
        BY <1>0, Draining DEF SessionInv
      <4> QED
        BY <1>0, <1>t, <2>3, <2>5, <2>e, <4>1, LockTypes DEF SessionInv, DrainOK, Stoppers
    <3> QED
      BY <2>4, <2>5, <3>1, <3>2 DEF DrainOK
  <2> QED
    BY SMTT(60), <1>0, <1>t, <2>2, <2>5, <2>6, <2>7, <2>8, <2>9, <2>10, SessionTypes, SessionTypesNext DEF IInv, SessionInv
<1> QED
  BY <1>1, <1>2 DEF BeginClose

(* An activity starts: the one the session hands over to.                  *)
LEMMA StartFacts ==
    ASSUME NEW ac \in [Activities -> Activity], NEW a \in Activities
    PROVE  /\ Start(ac, a) \in [Activities -> Activity]
           /\ \A b \in Activities \ {a} : Start(ac, a)[b] = ac[b]
           /\ Start(ac, a)[a].phase = "open" /\ ~Start(ac, a)[a].paused
           /\ Start(ac, a)[a].scheduler = "idle"
           /\ Start(ac, a)[a].queue = ac[a].queue
           /\ Start(ac, a)[a].current = ac[a].current
           /\ Start(ac, a)[a].preempt = ac[a].preempt
           /\ Start(ac, a)[a].lock = ac[a].lock
<1> DEFINE r == [ac[a] EXCEPT !.phase = "open", !.paused = FALSE, !.scheduler = "idle",
                              !.hooks = {"on_enter"}]
<1>1. Start(ac, a) = [ac EXCEPT ![a] = r]
  BY DEF Start
<1>2. ac[a] \in Activity
  OBVIOUS
<1>3. /\ r \in Activity /\ r.phase = "open" /\ ~r.paused /\ r.scheduler = "idle"
      /\ r.queue = ac[a].queue /\ r.current = ac[a].current /\ r.preempt = ac[a].preempt
      /\ r.lock = ac[a].lock
  BY <1>2 DEF Activity
<1> HIDE DEF r
<1> QED
  BY <1>1, <1>3

(* The second activity starts once the first is drained: the parts about   *)
(* speeches and tasks.                                                     *)
LEMMA HandedOver ==
    ASSUME TypeOK, SpeechInv, TaskInv, SessionInv, UNCHANGED turn,
           act[1].scheduler = "ended", act[2].scheduler = "none",
           act'[1].scheduler = "ended", act'[1].paused = act[1].paused, Keeps(1),
           ~act'[2].paused, act'[2].scheduler = "idle",
           act'[2].queue = act[2].queue, act'[2].current = act[2].current,
           act'[2].preempt = act[2].preempt,
           \A g \in Speeches : Interrupts(g)
    PROVE  SpeechInv' /\ TaskInv'
<1>1. act[2].queue = <<>> /\ act[2].preempt = None
  BY DEF SessionInv, HandoffOK
<1>2. SpeechInv'
  <2>1. Keeps(2)
    BY <1>1 DEF Keeps
  <2> QED
    BY <2>1, QuietStep DEF Activities
<1>3. TaskInv'
  <2>1. /\ \A g \in Speeches : (Live(g)' <=> Live(g)) /\ speech'[g].owner = speech[g].owner
        /\ \A t \in Turns : turn[t].owner \in Activities
    BY ZenonT(60) DEF Interrupts, Live, TypeOK
  <2>2. \A a \in Activities : act'[a].scheduler # "idle" \/ (act'[a].queue = <<>> /\ ~act'[a].paused)
    BY <1>1 DEF Activities
  <2>3. ASSUME NEW a \in Activities, act'[a].scheduler = "ended"
        PROVE  act'[a].paused /\ act[a].scheduler = "ended" /\ ~Adds(a)
    <3>1. a = 1
      BY <2>3 DEF Activities
    <3>2. act[1].paused /\ 1 \in Activities
      BY DEF TaskInv, EndedOK, Activities
    <3> QED
      BY <2>1, <3>1, <3>2 DEF Adds, Going
  <2>4. \A t \in Turns : Going(t)' => act'[turn'[t].owner].scheduler # "none"
    BY <2>1 DEF Activities
  <2> QED
    BY <2>2, <2>3, <2>4, TaskStep
<1> QED
  BY <1>2, <1>3

(* AgentSession.update_agent's task: it drains the first activity, or      *)
(* starts the second when the session is closed.                           *)
LEMMA UpdateActivityStep ==
    ASSUME IInv, UpdateActivity
    PROVE  IInv'
<1>0. TypeOK /\ SpeechInv /\ TaskInv /\ SessionInv
  BY DEF IInv
<1>1. CASE /\ sess.activity # None
           /\ sess' = [sess EXCEPT !.at = At("handoff", "drain"), !.next = 2,
                                   !.on = On("handoff", sess.activity)]
           /\ UNCHANGED act
  <2> DEFINE b  == sess.activity
             at == At("handoff", "drain")
             on == On("handoff", b)
  <2>1. b = 1 /\ sess.at["handoff"] = "called" /\ UNCHANGED <<speech, turn>>
    <3>1. b \in Activities \cup {None}
      BY <1>0, SessionTypes
    <3> QED
      BY <1>0, <1>1, <3>1 DEF UpdateActivity, SessionInv, HandoffOK, Activities
  <2>2. /\ at \in [Stoppers -> Places] /\ at["handoff"] = "drain" /\ at["close"] = sess.at["close"]
        /\ on \in [Stoppers -> Activities \cup {None}] /\ on["handoff"] = 1 /\ on["close"] = sess.on["close"]
    BY <1>0, <2>1, AtFacts, OnFacts DEF Stoppers, Places, Activities
  <2>s. sess' = [sess EXCEPT !.at = at, !.next = 2, !.on = on]
    BY <1>1
  <2> HIDE DEF at, on
  <2>3. /\ sess' \in SessionRecord /\ sess'.at = at /\ sess'.on = on /\ sess'.activity = sess.activity
        /\ sess'.next = 2 /\ sess'.awaited = sess.awaited /\ (sess'.started <=> sess.started)
    BY <1>0, <2>s, <2>2, SessionTypes DEF SessionRecord, Activities
  <2>4. HandoffOK'
    BY <1>0, <1>1, <2>1, <2>2, <2>3 DEF SessionInv, HandoffOK, Stoppers, None
  <2>5. CloseOK'
    BY <1>0, <1>1, <2>1, <2>2, <2>3 DEF SessionInv, CloseOK, Stoppers
  <2>6. DrainOK'
    BY <1>0, <1>1, <2>1, <2>2, <2>3, LockTypes DEF SessionInv, DrainOK, Stoppers
  <2> QED
    BY <1>0, <1>1, <2>1, <2>3, <2>4, <2>5, <2>6, Waiting, SessionTypes, SessionTypesNext DEF IInv, SessionInv
<1>2. CASE /\ sess.activity = None
           /\ sess' = [sess EXCEPT !.at = At("handoff", "over"), !.activity = 2]
           /\ act' = Start(act, 2)
  <2> DEFINE at == At("handoff", "over")
  <2>1. sess.at["handoff"] = "called" /\ UNCHANGED <<speech, turn>>
    BY DEF UpdateActivity
  <2>2. at \in [Stoppers -> Places] /\ at["handoff"] = "over" /\ at["close"] = sess.at["close"]
    BY <1>0, AtFacts DEF Stoppers, Places
  <2>s. sess' = [sess EXCEPT !.at = at, !.activity = 2]
    BY <1>2
  <2> HIDE DEF at
  <2>3. /\ sess' \in SessionRecord /\ sess'.at = at /\ sess'.on = sess.on /\ sess'.activity = 2
        /\ sess'.next = sess.next /\ sess'.awaited = sess.awaited /\ (sess'.started <=> sess.started)
    BY <1>0, <2>s, <2>2, SessionTypes DEF SessionRecord, Activities
  <2>4. /\ act' \in [Activities -> Activity] /\ act'[1] = act[1]
        /\ act'[2].phase = "open" /\ ~act'[2].paused /\ act'[2].scheduler = "idle"
        /\ act'[2].queue = act[2].queue /\ act'[2].current = act[2].current
        /\ act'[2].preempt = act[2].preempt /\ act'[2].lock = act[2].lock
    BY <1>0, <1>2, SessionTypes, StartFacts DEF Activities
  <2>5. act[1].scheduler = "ended" /\ act[2].scheduler = "none" /\ sess.at["close"] = "over"
    BY <1>0, <1>2, <2>1 DEF SessionInv, HandoffOK, CloseOK
  <2>6. SpeechInv' /\ TaskInv'
    <3>1. Keeps(1) /\ \A g \in Speeches : Interrupts(g)
      BY <2>1, <2>4 DEF Keeps, Interrupts
    <3> QED
      BY <1>0, <2>1, <2>4, <2>5, <3>1, HandedOver
  <2>7. HandoffOK'
    BY <1>0, <2>1, <2>2, <2>3, <2>4, <2>5 DEF SessionInv, HandoffOK, None
  <2>8. CloseOK'
    BY <1>0, <2>1, <2>2, <2>3, <2>4, <2>5 DEF SessionInv, CloseOK, None
  <2>9. DrainOK'
    <3>1. \A b \in Activities : act'[b].lock = act[b].lock
      BY <2>4 DEF Activities
    <3>2. \A w \in Stoppers : sess'.at[w] = "pausing" => act'[sess'.on[w]].paused
      BY SMTT(60), <1>0, <2>1, <2>2, <2>3, <2>5 DEF Stoppers
    <3> QED
      BY <1>0, <2>1, <2>2, <2>3, <3>1, <3>2, LockTypes DEF SessionInv, DrainOK, Stoppers
  <2> QED
    BY <1>0, <2>1, <2>3, <2>4, <2>6, <2>7, <2>8, <2>9, SessionTypes, SessionTypesNext DEF IInv, SessionInv
<1> QED
  BY <1>1, <1>2 DEF UpdateActivity

(* A drain begins: it takes the lock and calls on_exit.                    *)
LEMMA DrainBeginStep ==
    ASSUME IInv, NEW w \in Stoppers, DrainBegin(w)
    PROVE  IInv'
<1>0. TypeOK /\ SpeechInv /\ TaskInv /\ SessionInv
  BY DEF IInv
<1> DEFINE a  == sess.on[w]
           un == Unpreempted(act, a)
           r  == [un[a] EXCEPT !.lock = w, !.hooks = @ \cup {"on_exit"}]
           at == At(w, "on_exit")
<1>1. /\ sess.at[w] = "drain" /\ act[a].lock = "free"
      /\ speech' = Cancelled(speech, {act[a].preempt})
      /\ act' = [un EXCEPT ![a] = r]
      /\ sess' = [sess EXCEPT !.at = at]
      /\ UNCHANGED turn
  BY DEF DrainBegin
<1>a. a \in Activities
  BY <1>0, <1>1, Draining DEF SessionInv
<1>2. /\ speech' \in [Speeches -> Handle]
      /\ \A g \in Speeches : Interrupts(g)
      /\ act[a].preempt # None =>
            speech[act[a].preempt].stage = "done" \/ speech'[act[a].preempt].interrupted
  <2>1. /\ speech' \in [Speeches -> Handle]
        /\ \A g \in Speeches :
              /\ Interrupts(g)
              /\ g \in {act[a].preempt} /\ speech[g].stage # "done" => speech'[g].interrupted
    BY <1>0, <1>1, SessionTypes, CancelledFacts DEF Interrupts
  <2>2. act[a].preempt \in Speeches \cup {None}
    BY <1>0, <1>a, TypesRange DEF Ranges
  <2> QED
    BY SMTT(60), <2>1, <2>2
<1>3. /\ un \in [Activities -> Activity]
      /\ \A b \in Activities :
            /\ Same(un[b], act[b])
            /\ un[b].woken = act[b].woken
            /\ un[b].preempt = IF b = a THEN None ELSE act[b].preempt
  BY <1>0, <1>a, SessionTypes, UnpreemptedFacts
<1> HIDE DEF un
<1>4. /\ r \in Activity /\ r.lock = w /\ un[a].hooks \subseteq r.hooks
      /\ r.phase = un[a].phase /\ r.paused = un[a].paused /\ r.scheduler = un[a].scheduler
      /\ r.queue = un[a].queue /\ r.current = un[a].current /\ r.preempt = un[a].preempt
      /\ r.woken = un[a].woken
  <2>1. un[a] \in Activity
    BY <1>3, <1>a
  <2> QED
    BY <2>1 DEF Activity
<1> HIDE DEF r
<1>5. /\ act' \in [Activities -> Activity]
      /\ act'[a].lock = w
      /\ \A b \in Activities :
            /\ b # a => act'[b].lock = act[b].lock
            /\ act[b].hooks \subseteq act'[b].hooks
            /\ act'[b].phase = act[b].phase /\ act'[b].paused = act[b].paused
            /\ act'[b].scheduler = act[b].scheduler
            /\ act'[b].queue = act[b].queue /\ act'[b].current = act[b].current
            /\ act'[b].preempt = IF b = a THEN None ELSE act[b].preempt
            /\ act'[b].woken = act[b].woken
  <2>1. act' \in [Activities -> Activity] /\ act'[a] = r /\ \A b \in Activities \ {a} : act'[b] = un[b]
    BY <1>1, <1>3, <1>4, <1>a
  <2>2. \A b \in Activities :
            /\ un[b].lock = act[b].lock
            /\ un[b].hooks = act[b].hooks
            /\ un[b].phase = act[b].phase /\ un[b].paused = act[b].paused
            /\ un[b].scheduler = act[b].scheduler
            /\ un[b].queue = act[b].queue /\ un[b].current = act[b].current
            /\ un[b].preempt = IF b = a THEN None ELSE act[b].preempt
            /\ un[b].woken = act[b].woken
    BY <1>3 DEF Same
  <2> QED
    BY <1>4, <1>a, <2>1, <2>2
<1>6. at \in [Stoppers -> Places] /\ at[w] = "on_exit" /\ \A v \in Stoppers \ {w} : at[v] = sess.at[v]
  BY <1>0, AtFacts DEF Places
<1> HIDE DEF at
<1>7. /\ sess' \in SessionRecord /\ sess'.at = at /\ sess'.on = sess.on /\ sess'.activity = sess.activity
      /\ sess'.next = sess.next /\ sess'.awaited = sess.awaited /\ (sess'.started <=> sess.started)
  BY <1>0, <1>1, <1>6, SessionTypes DEF SessionRecord
<1>8. SpeechInv'
  <2>1. \A b \in Activities : Keeps(b)
    BY <1>2, <1>5 DEF Keeps
  <2> QED
    BY <1>0, <1>2, <2>1, QuietStep
<1>9. TaskInv'
  <2>1. \A g \in Speeches : (Live(g)' <=> Live(g)) /\ speech'[g].owner = speech[g].owner
    BY <1>2 DEF Interrupts, Live
  <2>2. \A t \in Turns : (Going(t)' <=> Going(t)) /\ turn'[t].owner = turn[t].owner
    BY <1>1 DEF Going
  <2> QED
    BY <1>0, <1>5, <2>1, <2>2, TaskFrame
<1>10. SessionInv'
  <2>1. act[2].scheduler = "none" => a # 2
    BY <1>0 DEF SessionInv, HandoffOK
  <2>2. HandoffOK'
    BY <1>0, <1>1, <1>5, <1>6, <1>7, <2>1 DEF SessionInv, HandoffOK, Stoppers, Activities
  <2>3. CloseOK'
    BY <1>0, <1>1, <1>5, <1>6, <1>7 DEF SessionInv, CloseOK, Stoppers, Activities
  <2>4. DrainOK'
    <3>1. \A b \in Activities : act'[b].lock # "free" =>
             sess'.at[act'[b].lock] \in {"on_exit", "pausing"} /\ sess'.on[act'[b].lock] = b
      BY <1>0, <1>1, <1>5, <1>6, <1>7, LockTypes DEF SessionInv, DrainOK, Stoppers
    <3>2. \A v \in Stoppers : sess'.at[v] = "pausing" => act'[sess'.on[v]].paused
      <4>1. \A v \in Stoppers : sess.at[v] = "pausing" => sess.on[v] \in Activities
        BY <1>0, Draining DEF SessionInv
      <4> QED
        BY <1>0, <1>1, <1>5, <1>6, <1>7, <4>1 DEF SessionInv, DrainOK, Stoppers
    <3>3. sess'.awaited # None =>
            /\ speech'[sess'.awaited].scheduled
            /\ sess'.at["close"] = "interrupting" =>
                  speech'[sess'.awaited].interrupted \/ speech'[sess'.awaited].stage = "done"
      <4>1. sess.awaited \in Speeches \cup {None}
        BY <1>0, SessionTypes
      <4>2. sess'.at["close"] = "interrupting" => sess.at["close"] = "interrupting"
        BY <1>6, <1>7 DEF Stoppers
      <4> QED
        BY <1>0, <1>2, <1>7, <4>1, <4>2 DEF SessionInv, DrainOK, Interrupts
    <3> QED
      BY <3>1, <3>2, <3>3 DEF DrainOK
  <2> QED
    BY <2>2, <2>3, <2>4 DEF SessionInv
<1> QED
  BY <1>0, <1>1, <1>2, <1>5, <1>7, <1>8, <1>9, <1>10, SessionTypes, SessionTypesNext DEF IInv

(* After on_exit the drain pauses the scheduling.                          *)
LEMMA DrainPauseStep ==
    ASSUME IInv, NEW w \in Stoppers, DrainPause(w)
    PROVE  IInv'
<1>0. TypeOK /\ SpeechInv /\ TaskInv /\ SessionInv
  BY DEF IInv
<1> DEFINE a  == sess.on[w]
           r  == [act[a] EXCEPT !.paused = TRUE]
           ac == [act EXCEPT ![a] = r]
           at == At(w, "pausing")
<1>1. /\ sess.at[w] = "on_exit"
      /\ act' = WakeUp(ac, a)
      /\ sess' = [sess EXCEPT !.at = at]
      /\ UNCHANGED <<speech, turn>>
  BY DEF DrainPause
<1>a. a \in Activities
  BY <1>0, <1>1, Draining DEF SessionInv
<1>t. act \in [Activities -> Activity] /\ act[a] \in Activity
  BY <1>0, <1>a, SessionTypes
<1>2. /\ r \in Activity /\ r.paused /\ r.lock = act[a].lock /\ r.hooks = act[a].hooks
      /\ r.phase = act[a].phase /\ r.scheduler = act[a].scheduler
      /\ r.queue = act[a].queue /\ r.current = act[a].current /\ r.preempt = act[a].preempt
  BY <1>t DEF Activity
<1> HIDE DEF r
<1>3. ac \in [Activities -> Activity] /\ ac[a] = r /\ \A b \in Activities \ {a} : ac[b] = act[b]
  BY <1>t, <1>2, <1>a
<1> HIDE DEF ac
<1>4. /\ act' \in [Activities -> Activity]
      /\ \A b \in Activities :
            /\ Same(act'[b], ac[b])
            /\ act'[b].preempt = ac[b].preempt
            /\ b # a => act'[b] = ac[b]
      /\ act'[a].woken <=> ac[a].scheduler = "idle"
  BY <1>1, <1>3, <1>a, WakeUpFacts
<1>5. /\ act'[a].paused
      /\ act'[a].woken <=> act[a].scheduler = "idle"
      /\ \A b \in Activities :
            /\ b # a => act'[b] = act[b]
            /\ act'[b].lock = act[b].lock /\ act'[b].hooks = act[b].hooks
            /\ act'[b].phase = act[b].phase /\ act'[b].scheduler = act[b].scheduler
            /\ act'[b].queue = act[b].queue /\ act'[b].current = act[b].current
            /\ act'[b].preempt = act[b].preempt
  <2>1. \A b \in Activities :
            /\ ac[b].lock = act[b].lock /\ ac[b].hooks = act[b].hooks
            /\ ac[b].phase = act[b].phase /\ ac[b].scheduler = act[b].scheduler
            /\ ac[b].queue = act[b].queue /\ ac[b].current = act[b].current
            /\ ac[b].preempt = act[b].preempt
    BY <1>2, <1>3
  <2>2. act'[a].paused /\ (act'[a].woken <=> act[a].scheduler = "idle")
    BY <1>2, <1>3, <1>4, <1>a DEF Same
  <2>3. \A b \in Activities :
            /\ act'[b].lock = act[b].lock /\ act'[b].hooks = act[b].hooks
            /\ act'[b].phase = act[b].phase /\ act'[b].scheduler = act[b].scheduler
            /\ act'[b].queue = act[b].queue /\ act'[b].current = act[b].current
            /\ act'[b].preempt = act[b].preempt
    BY <1>4, <2>1 DEF Same
  <2>4. \A b \in Activities : b # a => act'[b] = act[b]
    BY <1>3, <1>4
  <2> QED
    BY <2>2, <2>3, <2>4
<1>6. at \in [Stoppers -> Places] /\ at[w] = "pausing" /\ \A v \in Stoppers \ {w} : at[v] = sess.at[v]
  BY <1>0, AtFacts DEF Places
<1> HIDE DEF at
<1>7. /\ sess' \in SessionRecord /\ sess'.at = at /\ sess'.on = sess.on /\ sess'.activity = sess.activity
      /\ sess'.next = sess.next /\ sess'.awaited = sess.awaited /\ (sess'.started <=> sess.started)
  BY <1>0, <1>1, <1>6, SessionTypes DEF SessionRecord
<1>8. SpeechInv'
  <2>1. \A b \in Activities : Keeps(b)
    BY <1>5 DEF Keeps
  <2> QED
    BY <1>0, <1>1, <2>1, QuietStep DEF Interrupts
<1>9. TaskInv'
  <2>1. \A b \in Activities : act'[b].scheduler # "idle" \/ act'[b].woken \/ Lasts(b)
    BY <1>1, <1>5 DEF Lasts, Live, Going
  <2>2. \A b \in Activities : act'[b].scheduler = "ended" =>
           act'[b].paused /\ act[b].scheduler = "ended" /\ ~Adds(b)
    <3>1. \A b \in Activities : ~Adds(b)
      BY <1>1 DEF Adds, Live, Going
    <3> QED
      BY <1>0, <1>5, <3>1 DEF TaskInv, EndedOK
  <2>3. \A t \in Turns : Going(t)' => act'[turn'[t].owner].scheduler # "none"
    <3>1. \A t \in Turns : turn[t].owner \in Activities
      BY <1>0 DEF TypeOK
    <3> QED
      BY <1>0, <1>1, <1>5, <3>1 DEF TaskInv, TurnOK, Going
  <2> QED
    BY <1>0, <2>1, <2>2, <2>3, TaskStep
<1>10. SessionInv'
  <2>1. act[2].scheduler = "none" => a # 2
    BY <1>0 DEF SessionInv, HandoffOK
  <2>2. HandoffOK'
    BY <1>0, <1>1, <1>5, <1>6, <1>7, <2>1 DEF SessionInv, HandoffOK, Stoppers, Activities
  <2>3. CloseOK'
    BY <1>0, <1>1, <1>5, <1>6, <1>7 DEF SessionInv, CloseOK, Stoppers, Activities
  <2>4. DrainOK'
    <3>1. \A b \in Activities : act'[b].lock # "free" =>
             sess'.at[act'[b].lock] \in {"on_exit", "pausing"} /\ sess'.on[act'[b].lock] = b
      BY <1>0, <1>1, <1>5, <1>6, <1>7, LockTypes DEF SessionInv, DrainOK, Stoppers
    <3>2. \A v \in Stoppers : sess'.at[v] = "pausing" => act'[sess'.on[v]].paused
      <4>1. \A v \in Stoppers : sess.at[v] = "pausing" => sess.on[v] \in Activities
        BY <1>0, Draining DEF SessionInv
      <4> QED
        BY <1>0, <1>1, <1>5, <1>6, <1>7, <4>1 DEF SessionInv, DrainOK, Stoppers
    <3>3. sess'.awaited # None =>
            /\ speech'[sess'.awaited].scheduled
            /\ sess'.at["close"] = "interrupting" =>
                  speech'[sess'.awaited].interrupted \/ speech'[sess'.awaited].stage = "done"
      <4>2. sess'.at["close"] = "interrupting" => sess.at["close"] = "interrupting"
        BY <1>6, <1>7 DEF Stoppers
      <4> QED
        BY <1>0, <1>1, <1>7, <4>2 DEF SessionInv, DrainOK
    <3> QED
      BY <3>1, <3>2, <3>3 DEF DrainOK
  <2> QED
    BY <2>2, <2>3, <2>4 DEF SessionInv
<1> QED
  BY <1>0, <1>1, <1>4, <1>7, <1>8, <1>9, <1>10, SessionTypes, SessionTypesNext DEF IInv

(* The drain returns: the close waits for a current speech, the handoff    *)
(* goes on to close the activity.                                          *)
LEMMA DrainedStep ==
    ASSUME IInv, NEW w \in Stoppers, Drained(w)
    PROVE  IInv'
<1>0. TypeOK /\ SpeechInv /\ TaskInv /\ SessionInv
  BY DEF IInv
<1> DEFINE a == sess.on[w]
           b == sess.activity
           r == [act[a] EXCEPT !.lock = "free"]
<1>1. /\ sess.at[w] = "pausing" /\ Over(a)
      /\ act' = [act EXCEPT ![a] = r]
      /\ UNCHANGED <<speech, turn>>
  BY DEF Drained
<1>a. a \in Activities
  BY <1>0, <1>1, Draining DEF SessionInv
<1>2. /\ act' \in [Activities -> Activity]
      /\ act'[a].lock = "free"
      /\ \A c \in Activities :
            /\ c # a => act'[c] = act[c]
            /\ act'[c].hooks = act[c].hooks /\ act'[c].paused = act[c].paused
            /\ act'[c].phase = act[c].phase /\ act'[c].scheduler = act[c].scheduler
            /\ act'[c].queue = act[c].queue /\ act'[c].current = act[c].current
            /\ act'[c].preempt = act[c].preempt /\ act'[c].woken = act[c].woken
  <2>1. act \in [Activities -> Activity] /\ act[a] \in Activity
    BY <1>0, <1>a, SessionTypes
  <2>2. /\ r \in Activity /\ r.paused = act[a].paused /\ r.lock = "free" /\ r.hooks = act[a].hooks
        /\ r.phase = act[a].phase /\ r.scheduler = act[a].scheduler
        /\ r.queue = act[a].queue /\ r.current = act[a].current /\ r.preempt = act[a].preempt
        /\ r.woken = act[a].woken
    BY <2>1 DEF Activity
  <2> HIDE DEF r
  <2> QED
    BY <1>1, <1>a, <2>1, <2>2
<1>3. SpeechInv'
  <2>1. \A c \in Activities : Keeps(c)
    BY <1>2 DEF Keeps
  <2> QED
    BY <1>0, <1>1, <2>1, QuietStep DEF Interrupts
<1>4. TaskInv'
  BY <1>0, <1>1, <1>2, TaskFrame DEF Live, Going
<1>5. \A c \in Activities : act'[c].lock # "free" => act'[c].lock = act[c].lock
  BY <1>2
<1>6. act[1].scheduler = "ended"
  <2>1. act[a].scheduler \in {"ended", "cancelled"} /\ a \in {1, 2}
    BY <1>1, <1>a DEF Over, Activities
  <2> QED
    BY <1>0, <2>1 DEF SessionInv, HandoffOK
<1>7. CASE /\ w = "close"
           /\ sess' = [sess EXCEPT !.at = At(w, "current"), !.on = On(w, b), !.awaited = act[b].current]
  <2> DEFINE at == At(w, "current")
             on == On(w, b)
             s  == act[b].current
  <2>1. b \in Activities
    <3>1. b \in Activities \cup {None}
      BY <1>0, SessionTypes
    <3> QED
      BY <1>0, <1>1, <1>7, <3>1 DEF SessionInv, CloseOK
  <2>2. /\ at \in [Stoppers -> Places] /\ at["close"] = "current" /\ at["handoff"] = sess.at["handoff"]
        /\ on \in [Stoppers -> Activities \cup {None}] /\ on["close"] = b /\ on["handoff"] = sess.on["handoff"]
    BY <1>0, <1>7, <2>1, AtFacts, OnFacts DEF Stoppers, Places
  <2>3. s \in Speeches \cup {None} /\ (s # None => speech[s].scheduled)
    BY <1>0, <2>1, TypesRange DEF Ranges, SpeechInv, OwnsOK
  <2>s. sess' = [sess EXCEPT !.at = at, !.on = on, !.awaited = s]
    BY <1>7
  <2> HIDE DEF at, on, s
  <2>4. /\ sess' \in SessionRecord /\ sess'.at = at /\ sess'.on = on /\ sess'.activity = sess.activity
        /\ sess'.next = sess.next /\ sess'.awaited = s /\ (sess'.started <=> sess.started)
    BY <1>0, <2>s, <2>2, <2>3, SessionTypes DEF SessionRecord
  <2>5. HandoffOK'
    BY <1>0, <1>2, <1>6, <2>1, <2>2, <2>4 DEF SessionInv, HandoffOK, Stoppers, Activities
  <2>6. CloseOK'
    BY <1>0, <1>1, <1>2, <1>6, <1>7, <2>1, <2>2, <2>4 DEF SessionInv, CloseOK, Stoppers, Activities, None
  <2>7. DrainOK'
    <3>1. \A c \in Activities : act'[c].lock # "free" =>
             sess'.at[act'[c].lock] \in {"on_exit", "pausing"} /\ sess'.on[act'[c].lock] = c
      <4>1. ASSUME NEW c \in Activities, act'[c].lock = "close" PROVE FALSE
        BY <1>0, <1>2, <1>5, <1>7, <4>1 DEF SessionInv, DrainOK
      <4> QED
        BY <1>0, <1>5, <2>2, <2>4, <4>1, LockTypes DEF SessionInv, DrainOK, Stoppers
    <3>2. \A v \in Stoppers : sess'.at[v] = "pausing" => act'[sess'.on[v]].paused
      <4>1. \A v \in Stoppers : sess.at[v] = "pausing" => sess.on[v] \in Activities
        BY <1>0, Draining DEF SessionInv
      <4> QED
        BY <1>0, <1>2, <2>2, <2>4, <4>1 DEF SessionInv, DrainOK, Stoppers
    <3> QED
      BY <1>1, <2>2, <2>3, <2>4, <3>1, <3>2 DEF DrainOK
  <2> QED
    BY <1>0, <1>1, <1>2, <1>3, <1>4, <2>4, <2>5, <2>6, <2>7, SessionTypes, SessionTypesNext DEF IInv, SessionInv
<1>8. CASE /\ w = "handoff" /\ b # None
           /\ sess' = [sess EXCEPT !.at = At(w, "aclose"), !.on = On(w, b)]
  <2> DEFINE at == At(w, "aclose")
             on == On(w, b)
  <2>1. b = 1
    <3>1. b \in Activities \cup {None}
      BY <1>0, SessionTypes
    <3> QED
      BY <1>0, <1>1, <1>8, <3>1 DEF SessionInv, HandoffOK, Activities
  <2>2. /\ at \in [Stoppers -> Places] /\ at["handoff"] = "aclose" /\ at["close"] = sess.at["close"]
        /\ on \in [Stoppers -> Activities \cup {None}] /\ on["handoff"] = 1 /\ on["close"] = sess.on["close"]
    BY <1>0, <1>8, <2>1, AtFacts, OnFacts DEF Stoppers, Places, Activities
  <2>s. sess' = [sess EXCEPT !.at = at, !.on = on]
    BY <1>8
  <2> HIDE DEF at, on
  <2>4. /\ sess' \in SessionRecord /\ sess'.at = at /\ sess'.on = on /\ sess'.activity = sess.activity
        /\ sess'.next = sess.next /\ sess'.awaited = sess.awaited /\ (sess'.started <=> sess.started)
    BY <1>0, <2>s, <2>2, SessionTypes DEF SessionRecord
  <2>5. HandoffOK'
    BY <1>0, <1>1, <1>2, <1>6, <1>8, <2>1, <2>2, <2>4 DEF SessionInv, HandoffOK, Stoppers, Activities
  <2>6. CloseOK'
    BY <1>0, <1>2, <1>6, <2>1, <2>2, <2>4 DEF SessionInv, CloseOK, Stoppers, Activities, None
  <2>7. DrainOK'
    <3>1. \A c \in Activities : act'[c].lock # "free" =>
             sess'.at[act'[c].lock] \in {"on_exit", "pausing"} /\ sess'.on[act'[c].lock] = c
      <4>1. ASSUME NEW c \in Activities, act'[c].lock = "handoff" PROVE FALSE
        BY <1>0, <1>2, <1>5, <1>8, <4>1 DEF SessionInv, DrainOK
      <4> QED
        BY <1>0, <1>5, <2>2, <2>4, <4>1, LockTypes DEF SessionInv, DrainOK, Stoppers
    <3>2. \A v \in Stoppers : sess'.at[v] = "pausing" => act'[sess'.on[v]].paused
      <4>1. \A v \in Stoppers : sess.at[v] = "pausing" => sess.on[v] \in Activities
        BY <1>0, Draining DEF SessionInv
      <4> QED
        BY <1>0, <1>2, <2>2, <2>4, <4>1 DEF SessionInv, DrainOK, Stoppers
    <3> QED
      BY <1>0, <1>1, <2>2, <2>4, <3>1, <3>2 DEF SessionInv, DrainOK
  <2> QED
    BY <1>0, <1>1, <1>2, <1>3, <1>4, <2>4, <2>5, <2>6, <2>7, SessionTypes, SessionTypesNext DEF IInv, SessionInv
<1>9. CASE /\ w = "handoff"
           /\ sess' = [sess EXCEPT !.at = At(w, "failed")]
  <2> DEFINE at == At(w, "failed")
  <2>2. at \in [Stoppers -> Places] /\ at["handoff"] = "failed" /\ at["close"] = sess.at["close"]
    BY <1>0, <1>9, AtFacts DEF Stoppers, Places
  <2>s. sess' = [sess EXCEPT !.at = at]
    BY <1>9
  <2> HIDE DEF at
  <2>4. /\ sess' \in SessionRecord /\ sess'.at = at /\ sess'.on = sess.on /\ sess'.activity = sess.activity
        /\ sess'.next = sess.next /\ sess'.awaited = sess.awaited /\ (sess'.started <=> sess.started)
    BY SMTT(60), <1>0, <2>s, <2>2, SessionTypes DEF SessionRecord
  <2>5. HandoffOK'
    BY <1>0, <1>1, <1>2, <1>6, <1>9, <2>2, <2>4 DEF SessionInv, HandoffOK, Stoppers, Activities
  <2>6. CloseOK'
    BY <1>0, <1>2, <1>6, <2>2, <2>4 DEF SessionInv, CloseOK, Stoppers, Activities, None
  <2>7. DrainOK'
    <3>1. \A c \in Activities : act'[c].lock # "free" =>
             sess'.at[act'[c].lock] \in {"on_exit", "pausing"} /\ sess'.on[act'[c].lock] = c
      <4>1. ASSUME NEW c \in Activities, act'[c].lock = "handoff" PROVE FALSE
        BY <1>0, <1>2, <1>5, <1>9, <4>1 DEF SessionInv, DrainOK
      <4> QED
        BY <1>0, <1>5, <2>2, <2>4, <4>1, LockTypes DEF SessionInv, DrainOK, Stoppers
    <3>2. \A v \in Stoppers : sess'.at[v] = "pausing" => act'[sess'.on[v]].paused
      <4>1. \A v \in Stoppers : sess.at[v] = "pausing" => sess.on[v] \in Activities
        BY <1>0, Draining DEF SessionInv
      <4> QED
        BY <1>0, <1>2, <2>2, <2>4, <4>1 DEF SessionInv, DrainOK, Stoppers
    <3> QED
      BY <1>0, <1>1, <2>2, <2>4, <3>1, <3>2 DEF SessionInv, DrainOK
  <2> QED
    BY <1>0, <1>1, <1>2, <1>3, <1>4, <2>4, <2>5, <2>6, <2>7, SessionTypes, SessionTypesNext DEF IInv, SessionInv
<1> QED
  BY <1>7, <1>8, <1>9 DEF Drained, Stoppers

(* AgentActivity.aclose of an activity.                                    *)
LEMMA AClosedFacts ==
    ASSUME TypeOK, NEW a \in Activities
    PROVE  /\ AClosed(a) \in [Activities -> Activity]
           /\ AClosed(a)[a].phase = "closed" /\ AClosed(a)[a].preempt = None
           /\ AClosed(a)[a].scheduler = IF act[a].scheduler = "ended" THEN "ended" ELSE "cancelled"
           /\ AClosed(a)[a].paused = act[a].paused /\ AClosed(a)[a].queue = act[a].queue
           /\ AClosed(a)[a].current = act[a].current /\ AClosed(a)[a].lock = act[a].lock
           /\ AClosed(a)[a].hooks = act[a].hooks /\ AClosed(a)[a].woken = act[a].woken
           /\ \A b \in Activities \ {a} : AClosed(a)[b] = act[b]
<1> DEFINE s == IF act[a].scheduler = "ended" THEN "ended" ELSE "cancelled"
           r == [act[a] EXCEPT !.preempt = None, !.phase = "closed", !.scheduler = s]
<1>1. act \in [Activities -> Activity] /\ act[a] \in Activity
  BY SessionTypes
<1>2. AClosed(a) = [act EXCEPT ![a] = r]
  <2> DEFINE q == [act[a] EXCEPT !.preempt = None]
  <2>1. q \in Activity /\ q.scheduler = act[a].scheduler
    BY <1>1 DEF Activity
  <2>2. Unpreempted(act, a) = [act EXCEPT ![a] = q]
    BY DEF Unpreempted
  <2>3. Unpreempted(act, a)[a] = q
    BY <1>1, <2>2
  <2>4. AClosed(a) = [Unpreempted(act, a) EXCEPT
                         ![a] = [Unpreempted(act, a)[a] EXCEPT !.phase = "closed",
                                    !.scheduler = IF Unpreempted(act, a)[a].scheduler = "ended"
                                                  THEN Unpreempted(act, a)[a].scheduler ELSE "cancelled"]]
    BY DEF AClosed
  <2>5. AClosed(a) = [[act EXCEPT ![a] = q] EXCEPT ![a] = [q EXCEPT !.phase = "closed", !.scheduler = s]]
    <3>1. (IF q.scheduler = "ended" THEN q.scheduler ELSE "cancelled") = s
      BY <2>1
    <3> HIDE DEF q, s
    <3> QED
      BY <2>2, <2>3, <2>4, <3>1
  <2>6. [q EXCEPT !.phase = "closed", !.scheduler = s] = r
    OBVIOUS
  <2> HIDE DEF q, r
  <2> QED
    BY <1>1, <2>5, <2>6
<1>3. /\ r \in Activity /\ r.phase = "closed" /\ r.preempt = None /\ r.scheduler = s
      /\ r.paused = act[a].paused /\ r.queue = act[a].queue /\ r.current = act[a].current
      /\ r.lock = act[a].lock /\ r.hooks = act[a].hooks /\ r.woken = act[a].woken
  BY ZenonT(60), <1>1 DEF Activity, None
<1> HIDE DEF r
<1> QED
  BY <1>1, <1>2, <1>3

LEMMA ACloseStep ==
    ASSUME IInv, NEW w \in Stoppers, AClose(w)
    PROVE  IInv'
<1>0. TypeOK /\ SpeechInv /\ TaskInv /\ SessionInv
  BY DEF IInv
<1> DEFINE a  == sess.on[w]
           ac == IF act[a].phase = "closed" THEN act ELSE AClosed(a)
           at == At(w, "over")
           on == On(w, None)
<1>1. /\ sess.at[w] = "aclose" /\ act[a].lock = "free"
      /\ speech' = IF act[a].phase = "closed" THEN speech ELSE Cancelled(speech, {act[a].preempt})
      /\ UNCHANGED turn
  BY DEF AClose
<1>2. \/ /\ w = "handoff" /\ act' = Start(ac, sess.next)
         /\ sess' = [sess EXCEPT !.at = at, !.on = on, !.activity = sess.next, !.next = None]
      \/ /\ w = "close" /\ act' = ac
         /\ sess' = [sess EXCEPT !.at = at, !.on = on, !.activity = None, !.started = FALSE]
  BY DEF AClose, Stoppers
<1>a. a \in Activities
  BY <1>0, <1>1, Draining DEF SessionInv
<1>3. /\ speech' \in [Speeches -> Handle]
      /\ \A g \in Speeches : Interrupts(g)
      /\ act[a].phase = "closed" \/
            (act[a].preempt # None =>
               speech[act[a].preempt].stage = "done" \/ speech'[act[a].preempt].interrupted)
  <2>1. CASE act[a].phase = "closed"
    BY <1>0, <1>1, <2>1, SessionTypes DEF Interrupts
  <2>2. CASE act[a].phase # "closed"
    <3>1. /\ speech' \in [Speeches -> Handle]
          /\ \A g \in Speeches :
                /\ Interrupts(g)
                /\ g \in {act[a].preempt} /\ speech[g].stage # "done" => speech'[g].interrupted
      BY SMTT(60), <1>0, <1>1, <2>2, SessionTypes, CancelledFacts DEF Interrupts
    <3>2. act[a].preempt \in Speeches \cup {None}
      BY <1>0, <1>a, TypesRange DEF Ranges
    <3> QED
      BY SMTT(60), <3>1, <3>2
  <2> QED
    BY <2>1, <2>2
<1>4. /\ ac \in [Activities -> Activity]
      /\ ac[a].scheduler \in {act[a].scheduler, "cancelled"}
      /\ act[a].scheduler = "ended" => ac[a].scheduler = "ended"
      /\ ac[a].preempt = act[a].preempt \/
            (/\ ac[a].preempt = None
             /\ act[a].preempt # None =>
                   speech[act[a].preempt].stage = "done" \/ speech'[act[a].preempt].interrupted)
      /\ ac[a].paused = act[a].paused /\ ac[a].queue = act[a].queue
      /\ ac[a].current = act[a].current /\ ac[a].lock = act[a].lock
      /\ ac[a].hooks = act[a].hooks /\ ac[a].woken = act[a].woken
      /\ \A b \in Activities \ {a} : ac[b] = act[b]
  <2>1. CASE act[a].phase = "closed"
    BY SMTT(60), <1>0, <2>1, SessionTypes
  <2>2. CASE act[a].phase # "closed"
    <3>1. ac = AClosed(a)
      BY <2>2
    <3> HIDE DEF ac
    <3> QED
      BY <1>0, <1>3, <1>a, <2>2, <3>1, AClosedFacts
  <2> QED
    BY <2>1, <2>2
<1> HIDE DEF ac
<1>5. act[1].scheduler = "ended"
  <2>1. CASE w = "handoff"
    BY <1>0, <1>1, <2>1 DEF SessionInv, HandoffOK
  <2>2. CASE w = "close"
    BY <1>0, <1>1, <1>a, <2>2 DEF SessionInv, HandoffOK, CloseOK, Activities, Stoppers
  <2> QED
    BY <2>1, <2>2 DEF Stoppers
<1>6. /\ at \in [Stoppers -> Places] /\ at[w] = "over" /\ \A v \in Stoppers \ {w} : at[v] = sess.at[v]
      /\ on \in [Stoppers -> Activities \cup {None}] /\ on[w] = None
      /\ \A v \in Stoppers \ {w} : on[v] = sess.on[v]
  BY <1>0, AtFacts, OnFacts DEF Places
<1> HIDE DEF at, on
<1>l. \A b \in Activities : act[b].lock # w
  BY <1>0, <1>1 DEF SessionInv, DrainOK, Stoppers
<1>d. ASSUME \A b \in Activities : act'[b].lock = act[b].lock,
             \A v \in Stoppers \ {w} : sess.at[v] = "pausing" => act'[sess.on[v]].paused,
             sess'.at = at, sess'.on = on, sess'.awaited = sess.awaited
      PROVE  DrainOK'
  <2>1. \A b \in Activities : act'[b].lock # "free" =>
           sess'.at[act'[b].lock] \in {"on_exit", "pausing"} /\ sess'.on[act'[b].lock] = b
    BY <1>0, <1>d, <1>6, <1>l, LockTypes DEF SessionInv, DrainOK
  <2>2. \A v \in Stoppers : sess'.at[v] = "pausing" => act'[sess'.on[v]].paused
    BY SMTT(60), <1>d, <1>6
  <2>3. sess'.awaited # None =>
          /\ speech'[sess'.awaited].scheduled
          /\ sess'.at["close"] = "interrupting" =>
                speech'[sess'.awaited].interrupted \/ speech'[sess'.awaited].stage = "done"
    <3>1. sess.awaited \in Speeches \cup {None}
      BY <1>0, SessionTypes
    <3>2. sess'.at["close"] = "interrupting" => sess.at["close"] = "interrupting"
      BY SMTT(60), <1>d, <1>6 DEF Stoppers
    <3> QED
      BY <1>0, <1>3, <1>d, <3>1, <3>2 DEF SessionInv, DrainOK, Interrupts
  <2> QED
    BY <2>1, <2>2, <2>3 DEF DrainOK
<1>7. CASE /\ w = "handoff" /\ act' = Start(ac, sess.next)
           /\ sess' = [sess EXCEPT !.at = at, !.on = on, !.activity = sess.next, !.next = None]
  <2>1. a = 1 /\ sess.next = 2 /\ act[2].scheduler = "none"
    BY <1>0, <1>1, <1>7 DEF SessionInv, HandoffOK
  <2>2. /\ sess' \in SessionRecord /\ sess'.at = at /\ sess'.on = on /\ sess'.activity = 2
        /\ sess'.next = None /\ sess'.awaited = sess.awaited /\ (sess'.started <=> sess.started)
    BY <1>0, <1>7, <1>6, <2>1, SessionTypes DEF SessionRecord, Activities
  <2>3. /\ act' \in [Activities -> Activity]
        /\ act'[1] = ac[1]
        /\ act'[2].phase = "open" /\ ~act'[2].paused /\ act'[2].scheduler = "idle"
        /\ act'[2].queue = act[2].queue /\ act'[2].current = act[2].current
        /\ act'[2].preempt = act[2].preempt /\ act'[2].lock = act[2].lock
    <3>1. act' = Start(ac, 2) /\ 2 \in Activities /\ 1 \in Activities /\ ac[2] = act[2]
      BY <1>4, <1>7, <2>1 DEF Activities
    <3> QED
      BY <1>4, <3>1, StartFacts
  <2>4. SpeechInv' /\ TaskInv'
    <3>1. Keeps(1)
      BY <1>4, <1>5, <2>1, <2>3 DEF Keeps
    <3> QED
      BY <1>0, <1>1, <1>3, <1>4, <1>5, <2>1, <2>3, <3>1, HandedOver
  <2>5. HandoffOK'
    BY <1>0, <1>4, <1>5, <1>6, <1>7, <2>1, <2>2, <2>3 DEF SessionInv, HandoffOK, None
  <2>6. CloseOK'
    BY <1>0, <1>4, <1>5, <1>6, <1>7, <2>1, <2>2, <2>3 DEF SessionInv, CloseOK, Stoppers, None
  <2>7. DrainOK'
    <3>1. \A b \in Activities : act'[b].lock = act[b].lock
      BY <1>4, <2>1, <2>3 DEF Activities
    <3>2. \A v \in Stoppers \ {w} : sess.at[v] = "pausing" => act'[sess.on[v]].paused
      <4>1. \A v \in Stoppers : sess.at[v] = "pausing" => sess.on[v] = 1
        BY SMTT(60), <1>0, <2>1, Draining DEF SessionInv, HandoffOK, Activities
      <4> QED
        BY <1>0, <1>4, <2>1, <2>3, <4>1 DEF SessionInv, DrainOK
    <3> QED
      BY <1>d, <2>2, <3>1, <3>2
  <2> QED
    BY <1>0, <1>1, <1>3, <2>2, <2>3, <2>4, <2>5, <2>6, <2>7, SessionTypes, SessionTypesNext DEF IInv, SessionInv
<1>8. CASE /\ w = "close" /\ act' = ac
           /\ sess' = [sess EXCEPT !.at = at, !.on = on, !.activity = None, !.started = FALSE]
  <2>2. /\ sess' \in SessionRecord /\ sess'.at = at /\ sess'.on = on /\ sess'.activity = None
        /\ sess'.next = sess.next /\ sess'.awaited = sess.awaited /\ ~sess'.started
    BY <1>0, <1>8, <1>6, SessionTypes DEF SessionRecord
  <2>3. SpeechInv'
    <3>1. Keeps(a)
      BY <1>4, <1>8 DEF Keeps
    <3>2. \A b \in Activities \ {a} : Keeps(b)
      BY <1>4, <1>8 DEF Keeps
    <3> QED
      BY <1>0, <1>3, <3>1, <3>2, QuietStep
  <2>4. TaskInv'
    <3>0. /\ \A g \in Speeches : (Live(g)' <=> Live(g)) /\ speech'[g].owner = speech[g].owner
          /\ \A t \in Turns : turn[t].owner \in Activities
      BY SMTT(60), <1>0, <1>3 DEF Interrupts, Live, TypeOK
    <3>1. ASSUME NEW b \in Activities, act'[b].scheduler = "idle" PROVE Lasts(b)
      <4>1. /\ act'[b].scheduler = act[b].scheduler /\ act'[b].woken = act[b].woken
            /\ act'[b].queue = act[b].queue /\ act'[b].paused = act[b].paused
            /\ act'[b].hooks = act[b].hooks
        <5>1. CASE b = a
          BY <1>4, <1>8, <3>1, <5>1
        <5>2. CASE b # a
          BY <1>4, <1>8, <5>2
        <5> QED
          BY <5>1, <5>2
      <4> QED
        BY <1>1, <3>0, <4>1 DEF Lasts, Going
    <3>2. \A b \in Activities : act'[b].scheduler = "ended" =>
             act'[b].paused /\ act[b].scheduler = "ended" /\ ~Adds(b)
      <4>1. \A b \in Activities : ~Adds(b)
        BY <1>1, <3>0 DEF Adds, Going
      <4> QED
        BY <1>0, <1>4, <1>8, <4>1 DEF TaskInv, EndedOK
    <3>3. \A t \in Turns : Going(t)' => act'[turn'[t].owner].scheduler # "none"
      <4>1. \A b \in Activities : act[b].scheduler # "none" => act'[b].scheduler # "none"
        BY <1>4, <1>8
      <4> QED
        BY <1>0, <1>1, <3>0, <4>1 DEF TaskInv, TurnOK, Going
    <3> QED
      BY <1>0, <3>1, <3>2, <3>3, TaskStep
  <2>5. act[2].scheduler = "none" => a # 2
    BY <1>0 DEF SessionInv, HandoffOK
  <2>6. HandoffOK'
    <3>1. /\ \A v \in Stoppers : v # "close" => at[v] = sess.at[v] /\ on[v] = sess.on[v]
          /\ on["close"] = None /\ "handoff" \in Stoppers
      BY <1>6, <1>8 DEF Stoppers
    <3>2. act'[1].scheduler = "ended"
      <4>1. act'[1] = act[1] \/ (1 = a /\ act'[a] = ac[a])
        BY <1>4, <1>8 DEF Activities
      <4> QED
        BY <1>4, <1>5, <4>1
    <3>3. CASE act[2].scheduler = "none"
      <4>1. act'[2] = act[2]
        BY <1>4, <1>8, <2>5, <3>3 DEF Activities
      <4> QED
        BY <1>0, <2>2, <3>1, <3>2, <3>3, <4>1 DEF SessionInv, HandoffOK, Stoppers, None
    <3>4. CASE act[2].scheduler # "none"
      <4>1. act'[2].scheduler # "none"
        <5>1. act'[2] = act[2] \/ (2 = a /\ act'[a] = ac[a])
          BY <1>4, <1>8 DEF Activities
        <5> QED
          BY <1>4, <3>4, <5>1
      <4> QED
        BY <1>0, <2>2, <3>1, <3>2, <3>4, <4>1 DEF SessionInv, HandoffOK, None
    <3> QED
      BY <3>3, <3>4
  <2>7. CloseOK'
    BY <1>0, <1>4, <1>5, <1>6, <1>8, <1>a, <2>2 DEF SessionInv, CloseOK, Stoppers, Activities, None
  <2>8. DrainOK'
    <3>1. \A b \in Activities : act'[b].lock = act[b].lock /\ act'[b].paused = act[b].paused
      BY <1>4, <1>8
    <3>2. \A v \in Stoppers : sess.at[v] = "pausing" => sess.on[v] \in Activities
      BY <1>0, Draining DEF SessionInv
    <3> QED
      BY <1>0, <1>d, <2>2, <3>1, <3>2 DEF SessionInv, DrainOK
  <2> QED
    BY ZenonT(60), <1>0, <1>1, <1>3, <1>4, <1>8, <2>2, <2>3, <2>4, <2>6, <2>7, <2>8, SessionTypes, SessionTypesNext DEF IInv, SessionInv
<1> QED
  BY <1>2, <1>7, <1>8

-----------------------------------------------------------------------------
(***************************************************************************)
(* The specification.                                                      *)
(***************************************************************************)

LEMMA InitIInv == Init => IInv
<1> SUFFICES ASSUME Init PROVE IInv
  OBVIOUS
<1> DEFINE new == [a \in Activities |-> NewActivity]
<1>1. NewActivity \in Activity
  <2>1. <<>> \in Seq(Speeches)
    OBVIOUS
  <2> QED
    BY <2>1 DEF NewActivity, Activity, Stoppers
<1>2. new \in [Activities -> Activity] /\ \A a \in Activities : new[a] = NewActivity
  BY <1>1
<1> DEFINE st == Start(new, 1)
<1>3. /\ st \in [Activities -> Activity]
      /\ st[2] = NewActivity
      /\ st[1].phase = "open" /\ ~st[1].paused /\ st[1].scheduler = "idle"
      /\ st[1].queue = <<>> /\ st[1].current = None /\ st[1].preempt = None
      /\ st[1].lock = "free"
  <2> HIDE DEF new
  <2>1. 1 \in Activities /\ 2 \in Activities \ {1}
    BY DEF Activities
  <2>2. /\ new[1].queue = <<>> /\ new[1].current = None /\ new[1].preempt = None
        /\ new[1].lock = "free"
    BY <1>2, <2>1 DEF NewActivity
  <2> QED
    BY <1>2, <2>1, <2>2, StartFacts
<1>4. /\ act \in [Activities -> Activity]
      /\ act[2] = NewActivity
      /\ act[1].phase = "open" /\ ~act[1].paused /\ act[1].scheduler = "idle"
      /\ act[1].queue = <<>> /\ act[1].current = None /\ act[1].preempt = None
      /\ act[1].lock = "free"
  <2> DEFINE r == [st[1] EXCEPT !.hooks = {}]
  <2>1. act = [st EXCEPT ![1] = r]
    BY DEF Init
  <2> HIDE DEF st
  <2>2. 1 \in Activities /\ 2 \in Activities \ {1} /\ st[1] \in Activity
    BY <1>3 DEF Activities
  <2>3. /\ r \in Activity /\ r.phase = "open" /\ ~r.paused /\ r.scheduler = "idle"
        /\ r.queue = <<>> /\ r.current = None /\ r.preempt = None /\ r.lock = "free"
    BY <1>3, <2>2 DEF Activity
  <2> HIDE DEF r
  <2> QED
    BY <1>3, <2>1, <2>2, <2>3
<1>5. /\ speech \in [Speeches -> Handle] /\ \A h \in Speeches : speech[h] = NoHandle
  <2>1. NoHandle \in Handle
    BY MaxToolStepsAssumption DEF NoHandle, Handle, Activities
  <2> QED
    BY <2>1 DEF Init
<1>6. /\ turn \in [Turns -> [stage : {"none", "waiting", "callback", "done"}, owner : Activities]]
      /\ \A t \in Turns : turn[t].stage = "none" /\ turn[t].owner = 1
  BY DEF Init, Activities
<1>7. /\ sess \in SessionRecord /\ sess.started /\ sess.activity = 1 /\ sess.next = None
      /\ sess.awaited = None
      /\ \A w \in Stoppers : sess.at[w] = "no" /\ sess.on[w] = None
  BY DEF Init, SessionRecord, Places, Activities, None
<1>8. /\ act[2].phase = "new" /\ act[2].paused /\ act[2].scheduler = "none"
      /\ act[2].queue = <<>> /\ act[2].current = None /\ act[2].preempt = None
      /\ act[2].lock = "free"
  BY <1>4 DEF NewActivity
<1>9. TypeOK
  BY <1>4, <1>5, <1>6, <1>7, Types DEF SessionRecord, Places
<1>10. SpeechInv
  <2>1. \A h \in Speeches : HandleOK(h)
    BY <1>5 DEF HandleOK, NoHandle
  <2>2. \A a \in Activities : act[a].queue = <<>> /\ act[a].current = None /\ act[a].preempt = None
                            /\ act[a].scheduler \in {"idle", "none"}
    BY <1>4, <1>8 DEF Activities
  <2>3. \A a \in Activities : OwnsOK(a) /\ SchedulerOK(a)
    BY <2>2 DEF OwnsOK, SchedulerOK, Queued, Distinct
  <2>4. NoneForgotten
    BY <1>5 DEF NoneForgotten, NoHandle
  <2> QED
    BY <2>1, <2>3, <2>4 DEF SpeechInv
<1>11. TaskInv
  <2>1. \A a \in Activities : WokenOK(a) /\ EndedOK(a)
    BY <1>4, <1>8 DEF WokenOK, EndedOK, Activities
  <2>2. \A t \in Turns : TurnOK(t)
    BY <1>6 DEF TurnOK
  <2>3. DrainedIsQuiet
    BY <1>4, <1>8 DEF DrainedIsQuiet, Activities
  <2> QED
    BY <2>1, <2>2, <2>3 DEF TaskInv
<1>12. SessionInv
  <2>1. HandoffOK
    BY <1>4, <1>7, <1>8 DEF HandoffOK, Stoppers, None
  <2>2. CloseOK
    BY <1>7, <1>8 DEF CloseOK, Stoppers, None
  <2>3. DrainOK
    BY <1>4, <1>7, <1>8 DEF DrainOK, Stoppers, Activities, None
  <2> QED
    BY <2>1, <2>2, <2>3 DEF SessionInv
<1> QED
  BY <1>9, <1>10, <1>11, <1>12 DEF IInv

LEMMA NextIInv == IInv /\ [Next]_vars => IInv'
<1> SUFFICES ASSUME IInv, [Next]_vars PROVE IInv'
  OBVIOUS
<1>1. CASE UNCHANGED vars
  <2>1. TypeOK /\ SpeechInv /\ TaskInv /\ SessionInv
    BY DEF IInv
  <2>2. UNCHANGED <<speech, act, turn, sess>>
    BY <1>1 DEF vars
  <2>3. TypeOK'
    BY <2>1, <2>2 DEF TypeOK
  <2> QED
    BY <2>1, <2>2, <2>3, Waiting, SessionFrame DEF IInv
<1>2. CASE Runs
  <2>1. ASSUME NEW h \in Speeches, Makes(h) PROVE IInv'
    BY <2>1, MakesStep
  <2>2. ASSUME NEW a \in Activities, Schedules(a) PROVE IInv'
    BY <2>2, SchedulesStep
  <2>3. ASSUME NEW a \in Activities, NEW hook \in {"on_enter", "on_exit"}, HookEnds(a, hook) PROVE IInv'
    BY <2>3, HookEndsStep
  <2>4. ASSUME NEW t \in Turns, Completes(t) PROVE IInv'
    BY <2>4, CompletesStep
  <2>5. ASSUME NEW w \in Stoppers, Stops(w) PROVE IInv'
    BY <2>5, DrainBeginStep, DrainPauseStep, DrainedStep, ACloseStep DEF Stops
  <2>6. CASE Session
    BY <2>6, UpdateActivityStep, CloseMovesStep DEF Session
  <2> QED
    BY <1>2, <2>1, <2>2, <2>3, <2>4, <2>5, <2>6 DEF Runs
<1>3. ASSUME NEW h \in Speeches, ToolReply(h) \/ HandleInterrupt(h) PROVE IInv'
  BY <1>3, ToolReplyStep, InterruptStep
<1>4. ASSUME NEW a \in Activities, Hears(a) PROVE IInv'
  BY <1>4, InterruptStep, PreemptiveStep, EndOfTurnStep DEF Hears
<1>5. ASSUME NEW h \in Speeches, NEW say \in BOOLEAN, NEW allow \in BOOLEAN, Ask(h, say, allow) PROVE IInv'
  BY <1>5, AskStep
<1>6. CASE UserInterrupts
  BY <1>6, InterruptStep
<1>7. CASE UpdateAgent
  BY <1>7, UpdateAgentStep
<1>8. ASSUME NEW drain \in BOOLEAN, BeginClose(drain) PROVE IInv'
  BY <1>8, BeginCloseStep
<1> QED
  BY <1>1, <1>2, <1>3, <1>4, <1>5, <1>6, <1>7, <1>8 DEF Next

LEMMA SpecIInv == Spec => []IInv
  BY InitIInv, NextIInv, PTL DEF Spec

-----------------------------------------------------------------------------
(***************************************************************************)
(* The theorems.                                                           *)
(***************************************************************************)

(* TypeOK: a handle takes no more steps than max_tool_steps allows.        *)
THEOREM TypeCorrect == Spec => []TypeOK
<1>1. IInv => TypeOK
  BY DEF IInv
<1> QED
  BY <1>1, SpecIInv, PTL

(* NoneForgotten: no speech that waits is dropped by _schedule_speech, by  *)
(* the scheduler, or by a preemptive generation that replaces it.          *)
THEOREM NoSpeechForgotten == Spec => []NoneForgotten
<1>1. IInv => NoneForgotten
  BY DEF IInv, SpeechInv
<1> QED
  BY <1>1, SpecIInv, PTL

(* DrainedIsQuiet: the scheduling task ends after every speech and turn of *)
(* its activity, and none begins later.                                    *)
THEOREM DrainIsQuiet == Spec => []DrainedIsQuiet
<1>1. IInv => DrainedIsQuiet
  BY DEF IInv, TaskInv
<1> QED
  BY <1>1, SpecIInv, PTL

(* StuckByInterruption: the scheduler waits for ever only for a speech     *)
(* that was interrupted before it was authorized.                          *)
THEOREM OnlyInterruptedStick == Spec => []StuckByInterruption
<1>1. IInv => StuckByInterruption
  BY DEF IInv, SpeechInv, SchedulerOK, StuckByInterruption, Stuck
<1> QED
  BY <1>1, SpecIInv, PTL

(* OneSpeaks: two speeches are never played together, of one activity or   *)
(* of the two of a handoff.                                                *)
THEOREM OneAtATime == Spec => []OneSpeaks
<1>1. IInv => OneSpeaks
  <2> SUFFICES ASSUME IInv PROVE OneSpeaks
    OBVIOUS
  <2> DEFINE P == {h \in Speeches : speech[h].stage = "playing"}
  <2>1. ASSUME NEW g \in P, NEW h \in P PROVE g = h
    <3>1. \A k \in P : /\ speech[k].owner \in {1, 2}
                       /\ act[speech[k].owner].current = k
                       /\ act[speech[k].owner].scheduler \in {"waiting", "cancelled"}
      BY TypesRange DEF IInv, SpeechInv, HandleOK, Ranges, Activities
    <3>2. ~(act[1].scheduler \in {"waiting", "cancelled"} /\ act[2].scheduler \in {"waiting", "cancelled"})
      BY DEF IInv, SessionInv, HandoffOK
    <3> QED
      BY <3>1, <3>2
  <2>2. CASE P = {}
    BY <2>2, FS_EmptySet DEF OneSpeaks
  <2>3. CASE P # {}
    <3>1. PICK g \in P : TRUE
      BY <2>3
    <3>2. P = {g}
      BY <2>1, <3>1
    <3> QED
      BY SMTT(60), <3>2, FS_Singleton DEF OneSpeaks
  <2> QED
    BY <2>2, <2>3
<1> QED
  BY <1>1, SpecIInv, PTL

(* At rest a scheduler is stuck, or has nothing to serve.                  *)
LEMMA RestingScheduler ==
    ASSUME IInv, AtRest, NEW a \in Activities, ~Stuck(a)
    PROVE  \/ act[a].scheduler \in {"none", "ended", "cancelled"}
           \/ /\ act[a].scheduler = "idle" /\ Queued(a) = {} /\ act[a].current = None
              /\ act[a].paused => HasTasks(a)
<1>0. TypeOK /\ SpeechInv /\ TaskInv /\ SessionInv
  BY DEF IInv
<1>1. CASE act[a].scheduler = "idle" /\ ~act[a].woken
  BY <1>0, <1>1 DEF TaskInv, WokenOK, SpeechInv, SchedulerOK, Queued
<1>2. CASE act[a].scheduler = "waiting" /\ speech[act[a].current].gen # "done"
  <2> DEFINE c == act[a].current
  <2>1. c \in Speeches /\ speech[c].gen = "open" /\ speech[c].scheduled /\ speech[c].stage # "none"
    <3>1. c \in Speeches /\ speech[c].scheduled
      BY <1>0, <1>2, TypesRange DEF SpeechInv, SchedulerOK, OwnsOK, Ranges
    <3> QED
      BY <1>0, <1>2, <3>1, TypesRange DEF SpeechInv, SchedulerOK, HandleOK, Ranges
  <2>2. speech[c].stage = "done"
    BY <1>0, <1>2, <2>1 DEF AtRest, Live, SpeechInv, SchedulerOK, Waits
  <2> QED
    BY <1>2, <2>1, <2>2 DEF Stuck
<1> QED
  BY <1>1, <1>2 DEF AtRest

(* At rest a speech that was scheduled is done, with the two exceptions.   *)
LEMMA RestingSpeech ==
    ASSUME IInv, AtRest, NEW h \in Speeches, speech[h].scheduled, speech[h].stage # "done"
    PROVE  Stuck(speech[h].owner) \/ act[speech[h].owner].scheduler = "cancelled"
<1> DEFINE a == speech[h].owner
<1>0. TypeOK /\ SpeechInv /\ TaskInv /\ SessionInv
  BY DEF IInv
<1>1. a \in Activities /\ h # None
  BY <1>0, TypesRange DEF Ranges, Speeches, None
<1>2. speech[h].stage # "none" /\ ~speech[h].refused /\ act[a].scheduler # "none"
  BY <1>0 DEF SpeechInv, HandleOK
<1>3. Live(h) /\ ~speech[h].interrupted /\ speech[h].stage = "authorizing"
  BY <1>2 DEF AtRest, Live
<1>4. h \in Queued(a) \cup {act[a].current} \/ act[a].scheduler = "cancelled"
  <2>1. act[a].preempt # h
    BY <1>0, <1>1 DEF SpeechInv, OwnsOK
  <2> QED
    BY <1>0, <1>2, <1>3, <2>1 DEF SpeechInv, NoneForgotten
<1>5. act[a].scheduler # "ended"
  BY <1>0, <1>1, <1>3 DEF TaskInv, DrainedIsQuiet
<1> QED
  BY <1>1, <1>2, <1>4, <1>5, RestingScheduler

(* SpeechEnds: wherever the tasks of the runtime come to rest, no scheduled *)
(* speech is left behind: no wake-up of the scheduler is lost.             *)
THEOREM SpeechesEnd == Spec => []SpeechEnds
<1>1. IInv => SpeechEnds
  BY RestingSpeech DEF SpeechEnds
<1> QED
  BY <1>1, SpecIInv, PTL

(* StopsEnd: wherever the tasks of the runtime come to rest, a handoff or  *)
(* a close that has begun is over, with the three exceptions it names.     *)
THEOREM StopsAreOver == Spec => []StopsEnd
<1>1. IInv => StopsEnd
  <2> SUFFICES ASSUME IInv, AtRest,
                      \A a \in Activities : ~Stuck(a),
                      \A h \in Speeches : ~(speech[h].refused /\ Live(h)),
                      \A a \in Activities : ~(act[a].paused /\ act[a].preempt # None),
                      NEW w \in Stoppers, sess.at[w] \notin {"no", "over", "failed"}
               PROVE  FALSE
    BY DEF StopsEnd
  <2>0. TypeOK /\ SpeechInv /\ TaskInv /\ SessionInv
    BY DEF IInv
  <2>1. ASSUME NEW a \in Activities, act[a].paused
        PROVE  act[a].scheduler \in {"none", "ended", "cancelled"}
    <3> SUFFICES ASSUME act[a].scheduler = "idle", Queued(a) = {}, act[a].current = None, HasTasks(a)
                 PROVE  FALSE
      BY <2>1, RestingScheduler
    <3>1. PICK h \in Speeches : Live(h) /\ speech[h].owner = a
      BY DEF HasTasks, AtRest
    <3>2. Waits(h) /\ ~speech[h].interrupted /\ ~speech[h].refused
      BY <3>1 DEF AtRest, Waits
    <3>3. act[a].preempt = h /\ h # None
      BY <2>0, <3>1, <3>2 DEF SpeechInv, NoneForgotten, Waits, Speeches, None
    <3> QED
      BY <2>1, <3>3
  <2>2. \A v \in Stoppers : sess.at[v] # "pausing"
    <3> SUFFICES ASSUME NEW v \in Stoppers, sess.at[v] = "pausing" PROVE FALSE
      OBVIOUS
    <3> DEFINE a == sess.on[v]
    <3>1. a \in Activities /\ act[a].paused
      BY <2>0, Draining DEF SessionInv, DrainOK
    <3>2. act[a].scheduler = "none"
      <4>1. ~Over(a)
        BY DEF AtRest
      <4> QED
        BY <2>1, <3>1, <4>1 DEF Over
    <3> QED
      BY <2>0, <3>1, <3>2 DEF SessionInv, HandoffOK, Activities
  <2>3. \A a \in Activities : act[a].lock = "free"
    <3>1. \A v \in Stoppers : sess.at[v] # "on_exit"
      BY DEF AtRest
    <3> QED
      BY <2>0, <2>2, <3>1, LockTypes DEF SessionInv, DrainOK
  <2>4. sess.at[w] \in {"interrupting", "current"} /\ ~SpeechAwaited
    <3>1. sess.at[w] \in {"drain", "aclose"} => sess.on[w] \in Activities
      BY <2>0, Draining DEF SessionInv
    <3> QED
      BY <2>2, <2>3, <3>1 DEF AtRest
  <2>5. w = "close"
    BY <2>0, <2>4 DEF SessionInv, HandoffOK, Stoppers
  <2> DEFINE s == sess.awaited
  <2>6. s \in Speeches /\ s # None /\ speech[s].stage # "done" /\ speech[s].scheduled
    <3>1. s \in Speeches \cup {None}
      BY <2>0, SessionTypes
    <3> QED
      BY <2>0, <2>4, <3>1 DEF SpeechAwaited, SessionInv, DrainOK
  <2>7. Live(s) /\ ~speech[s].interrupted
    BY <2>0, <2>6 DEF SpeechInv, HandleOK, Live, AtRest
  <2>8. sess.at["close"] = "current"
    BY <2>0, <2>4, <2>5, <2>6, <2>7 DEF SessionInv, DrainOK
  <2>9. speech[s].owner \in Activities /\ act[speech[s].owner].scheduler = "cancelled"
    <3>1. speech[s].owner \in Activities
      BY <2>0, <2>6, TypesRange DEF Ranges
    <3> QED
      BY <2>6, <3>1, RestingSpeech
  <2> QED
    BY <2>0, <2>8, <2>9 DEF SessionInv, HandoffOK, CloseOK, Activities
<1> QED
  BY <1>1, SpecIInv, PTL
=============================================================================
