------------------------------ MODULE Speech ------------------------------
(***************************************************************************)
(* The voice runtime's speeches: SpeechHandle, the scheduling of           *)
(* AgentActivity (agents/voice/agent_activity.py) with its LLM pipeline    *)
(* replies, spoken texts, preemptive generations and user turns, and the   *)
(* two operations of AgentSession that stop an activity: the handoff to    *)
(* another agent and the close.  Recognition, models, audio and the code   *)
(* of the agent (tools, on_enter, on_exit, on_user_turn_completed) are the *)
(* environment.  Realtime models and AgentTask's pause are left out.       *)
(***************************************************************************)
EXTENDS Naturals, Sequences, FiniteSets

CONSTANTS
    MaxSpeeches,     \* bound: speech handles
    MaxTurns,        \* bound: user turns
    MaxCalls,        \* bound: speech handles and user turns together
    MaxToolSteps     \* options.max_tool_steps

ASSUME MaxSpeechesAssumption  == MaxSpeeches \in Nat
ASSUME MaxTurnsAssumption     == MaxTurns \in Nat
ASSUME MaxCallsAssumption     == MaxCalls \in Nat
ASSUME MaxToolStepsAssumption == MaxToolSteps \in Nat

VARIABLES
    speech,     \* the speech handles and the tasks that make them
    act,        \* the activities: of the first agent, and of the one it hands over to
    turn,       \* the tasks of the user turns
    sess        \* the session, its handoff and its close

vars == <<speech, act, turn, sess>>

Speeches   == 1..MaxSpeeches
Turns      == 1..MaxTurns
Activities == {1, 2}
Stoppers   == {"handoff", "close"}
None       == 0

(* The types; a handle goes through its stages once for each tool step.    *)
TypeOK ==
    /\ speech \in [Speeches ->
          [stage : {"none", "scheduling", "authorizing", "playing", "cancelling", "tools", "done"},
           owner : Activities, say : BOOLEAN, allow : BOOLEAN, steps : 1..(MaxToolSteps + 1),
           scheduled : BOOLEAN, authorized : BOOLEAN, interrupted : BOOLEAN, refused : BOOLEAN,
           gen : {"none", "open", "done"}]]
    /\ act \in [Activities ->
          [phase : {"new", "open", "closed"}, paused : BOOLEAN, woken : BOOLEAN,
           scheduler : {"none", "idle", "delay", "waiting", "ended", "cancelled"},
           queue : Seq(Speeches), current : Speeches \cup {None}, preempt : Speeches \cup {None},
           hooks : SUBSET {"on_enter", "on_exit"}, lock : Stoppers \cup {"free"}]]
    /\ turn \in [Turns -> [stage : {"none", "waiting", "callback", "done"}, owner : Activities]]
    /\ sess \in
          [started : BOOLEAN, activity : Activities \cup {None}, next : Activities \cup {None},
           awaited : Speeches \cup {None}, on : [Stoppers -> Activities \cup {None}],
           at : [Stoppers -> {"no", "called", "interrupting", "drain", "on_exit", "pausing",
                              "current", "aclose", "over", "failed"}]]

NoHandle == [stage |-> "none", owner |-> 1, say |-> FALSE, allow |-> TRUE, steps |-> 1,
             scheduled |-> FALSE, authorized |-> FALSE, interrupted |-> FALSE, refused |-> FALSE,
             gen |-> "none"]

NewActivity == [phase |-> "new", paused |-> TRUE, woken |-> FALSE, scheduler |-> "none",
                queue |-> <<>>, current |-> None, preempt |-> None, hooks |-> {}, lock |-> "free"]

(* AgentActivity.start: the scheduler runs, recognition is on, on_enter is called. *)
Start(ac, a) ==
    [ac EXCEPT ![a].phase = "open", ![a].paused = FALSE, ![a].scheduler = "idle",
               ![a].hooks = {"on_enter"}]

(* A session that has started its first agent, whose on_enter is over.     *)
Init ==
    /\ speech = [h \in Speeches |-> NoHandle]
    /\ act = [Start([a \in Activities |-> NewActivity], 1) EXCEPT ![1].hooks = {}]
    /\ turn = [t \in Turns |-> [stage |-> "none", owner |-> 1]]
    /\ sess = [started |-> TRUE, activity |-> 1, next |-> None, awaited |-> None,
               at |-> [w \in Stoppers |-> "no"], on |-> [w \in Stoppers |-> None]]

(* _wake_up_scheduling_task: the event is cleared whenever the scheduler   *)
(* comes to wait for it, so that setting it matters to an idle one only.   *)
WakeUp(ac, a) == [ac EXCEPT ![a].woken = ac[a].scheduler = "idle"]

-----------------------------------------------------------------------------
(* Handles and scheduling.                                                 *)

Live(h)   == speech[h].stage \notin {"none", "done"}
Queued(a) == {act[a].queue[i] : i \in DOMAIN act[a].queue}

(* _speech_tasks, which a drain waits for.                                 *)
HasTasks(a) ==
    \/ \E h \in Speeches : Live(h) /\ speech[h].owner = a
    \/ \E t \in Turns : turn[t].stage \notin {"none", "done"} /\ turn[t].owner = a
    \/ act[a].hooks # {}

(* The bound on speeches and turns; the next handle.                       *)
CallsLeft == Cardinality({h \in Speeches : speech[h].stage # "none"}) +
             Cardinality({t \in Turns : turn[t].stage # "none"}) < MaxCalls

Fresh(h) == /\ CallsLeft
            /\ speech[h].stage = "none"
            /\ \A g \in 1..(h - 1) : speech[g].stage # "none"

(* A handle and the task that makes it: _tts_task at once, and a           *)
(* _pipeline_reply_task once it is scheduled, waits for its authorization. *)
Created(h, a, say, allow) ==
    [speech EXCEPT ![h] = [NoHandle EXCEPT !.stage = IF say THEN "authorizing" ELSE "scheduling",
                                           !.owner = a, !.say = say, !.allow = allow]]

(* _cancel: a handle that is done is not interrupted any more.             *)
Cancelled(sp, H) ==
    [h \in Speeches |-> IF h \in H /\ sp[h].stage # "done"
                        THEN [sp[h] EXCEPT !.interrupted = TRUE] ELSE sp[h]]

(* Mutant of ScheduleSpeech: the scheduler is not woken.                   *)
ScheduleUnwoken(sp, ac, a, h, force) ==
    /\ speech' = [sp EXCEPT ![h].scheduled = TRUE]
    /\ act' = [ac EXCEPT ![a].queue = Append(@, h)]

(* _schedule_speech: it raises while the scheduling is paused, when the    *)
(* handle and its task exist already, and does nothing when the scheduling *)
(* task is over.                                                           *)
Refused(a, force) == act[a].paused /\ ~force
Over(a)           == act[a].scheduler \in {"ended", "cancelled"}

ScheduleSpeech(sp, ac, a, h, force) ==
    \/ /\ Refused(a, force)
       /\ speech' = [sp EXCEPT ![h].refused = TRUE]
       /\ act' = ac
    \/ /\ ~Refused(a, force) /\ Over(a)
       /\ speech' = sp
       /\ act' = ac
    \/ /\ ~Refused(a, force) /\ ~Over(a)
       /\ speech' = [sp EXCEPT ![h].scheduled = TRUE]
       /\ act' = WakeUp([ac EXCEPT ![a].queue = Append(@, h)], a)

(* Mutant of Finish: _mark_done leaves the last generation open.           *)
FinishOpen(h) ==
    /\ speech' = [speech EXCEPT ![h].stage = "done", ![h].authorized = FALSE]
    /\ act' = WakeUp(act, speech[h].owner)

(* All tasks of the handle are over: it is done, its last generation too,  *)
(* and the scheduler is woken.                                             *)
Finish(h) ==
    /\ speech' = [speech EXCEPT ![h].stage = "done", ![h].authorized = FALSE,
                                ![h].gen = IF @ = "open" THEN "done" ELSE @]
    /\ act' = WakeUp(act, speech[h].owner)

-----------------------------------------------------------------------------
(* The task of a speech.                                                   *)

(* The reply is scheduled, or interrupted before that.                     *)
GetScheduled(h) ==
    /\ speech[h].stage = "scheduling"
    /\ speech[h].scheduled \/ speech[h].interrupted
    /\ IF speech[h].interrupted
       THEN Finish(h)
       ELSE /\ speech' = [speech EXCEPT ![h].stage = "authorizing"]
            /\ UNCHANGED act
    /\ UNCHANGED <<turn, sess>>

(* Mutant of GetAuthorized: the generation is marked done before it plays. *)
GetAuthorizedDone(h) ==
    /\ speech[h].stage = "authorizing"
    /\ speech[h].authorized \/ speech[h].interrupted
    /\ IF speech[h].interrupted
       THEN Finish(h)
       ELSE /\ speech' = [speech EXCEPT ![h].stage = "playing", ![h].authorized = FALSE,
                                        ![h].gen = "done"]
            /\ UNCHANGED act
    /\ UNCHANGED <<turn, sess>>

(* The speech is authorized, or interrupted before that.                   *)
GetAuthorized(h) ==
    /\ speech[h].stage = "authorizing"
    /\ speech[h].authorized \/ speech[h].interrupted
    /\ IF speech[h].interrupted
       THEN Finish(h)
       ELSE /\ speech' = [speech EXCEPT ![h].stage = "playing", ![h].authorized = FALSE]
            /\ UNCHANGED act
    /\ UNCHANGED <<turn, sess>>

(* The playout ends, or is stopped by an interruption; a reply marks its   *)
(* generation done before it waits for its tools, or cancels them.         *)
PlayoutEnds(h) ==
    /\ speech[h].stage = "playing"
    /\ IF speech[h].say
       THEN Finish(h)
       ELSE /\ speech' = [speech EXCEPT ![h].gen = "done",
                            ![h].stage = IF speech[h].interrupted THEN "cancelling" ELSE "tools"]
            /\ UNCHANGED act
    /\ UNCHANGED <<turn, sess>>

(* The tools end: there were none, none needs a reply, there were too many *)
(* steps, or they were cancelled.                                          *)
ToolsEnd(h) ==
    /\ speech[h].stage \in {"tools", "cancelling"}
    /\ Finish(h)
    /\ UNCHANGED <<turn, sess>>

(* Mutant of ToolReply: the steps are not limited.                         *)
ToolReplyUnlimited(h) ==
    /\ speech[h].stage = "tools"
    /\ LET sp == [speech EXCEPT ![h].steps = @ + 1, ![h].stage = "scheduling"]
       IN  ScheduleSpeech(sp, act, speech[h].owner, h, TRUE)
    /\ UNCHANGED <<turn, sess>>

(* A tool needs a reply: the handle is scheduled again, even in a drain.   *)
ToolReply(h) ==
    /\ speech[h].stage = "tools"
    /\ speech[h].steps < MaxToolSteps + 1
    /\ LET sp == [speech EXCEPT ![h].steps = @ + 1, ![h].stage = "scheduling"]
       IN  ScheduleSpeech(sp, act, speech[h].owner, h, TRUE)
    /\ UNCHANGED <<turn, sess>>

-----------------------------------------------------------------------------
(* _scheduling_task.                                                       *)

(* Mutant of Serve: a paused scheduler ends with tasks left.               *)
ServeEnds(a) ==
    \/ /\ act[a].queue # <<>>
       /\ act' = [act EXCEPT ![a].current = Head(act[a].queue), ![a].queue = Tail(@),
                             ![a].scheduler = "delay", ![a].woken = FALSE]
    \/ /\ act[a].queue = <<>>
       /\ act' = [act EXCEPT ![a].current = None, ![a].woken = FALSE,
                    ![a].scheduler = IF act[a].paused THEN "ended" ELSE "idle"]

(* The next speech of the queue; with none left, the task ends when it is  *)
(* paused and no task is left, or waits.                                   *)
Serve(a) ==
    \/ /\ act[a].queue # <<>>
       /\ act' = [act EXCEPT ![a].current = Head(act[a].queue), ![a].queue = Tail(@),
                             ![a].scheduler = "delay", ![a].woken = FALSE]
    \/ /\ act[a].queue = <<>>
       /\ act' = [act EXCEPT ![a].current = None, ![a].woken = FALSE,
                    ![a].scheduler = IF act[a].paused /\ ~HasTasks(a) THEN "ended" ELSE "idle"]

Wake(a) ==
    /\ act[a].scheduler = "idle"
    /\ act[a].woken
    /\ Serve(a)
    /\ UNCHANGED <<speech, turn, sess>>

(* After min_consecutive_speech_delay.                                     *)
Authorize(a) ==
    /\ act[a].scheduler = "delay"
    /\ speech' = [speech EXCEPT ![act[a].current].authorized = TRUE, ![act[a].current].gen = "open"]
    /\ act' = [act EXCEPT ![a].scheduler = "waiting"]
    /\ UNCHANGED <<turn, sess>>

GenerationDone(a) ==
    /\ act[a].scheduler = "waiting"
    /\ speech[act[a].current].gen = "done"
    /\ Serve(a)
    /\ UNCHANGED <<speech, turn, sess>>

(* on_enter or on_exit returns.                                            *)
HookEnds(a, hook) ==
    /\ hook \in act[a].hooks
    /\ act' = WakeUp([act EXCEPT ![a].hooks = @ \ {hook}], a)
    /\ UNCHANGED <<speech, turn, sess>>

-----------------------------------------------------------------------------
(* Calls of the user's code.                                               *)

(* AgentSession.say and generate_reply: of the activity, or of the next    *)
(* one when the scheduling of this one is paused.                          *)
Target == IF act[sess.activity].paused THEN sess.next ELSE sess.activity

Ask(h, say, allow) ==
    /\ sess.activity # None
    /\ Target # None
    /\ Fresh(h)
    /\ ScheduleSpeech(Created(h, Target, say, allow), act, Target, h, FALSE)
    /\ UNCHANGED <<turn, sess>>

(* AgentActivity.interrupt: it raises at the first speech that does not    *)
(* allow it; the heap's list is in the order of the queue for three        *)
(* entries or fewer.                                                       *)
Raises(a) == \E h \in (Queued(a) \cup {act[a].current}) \ {None} : ~speech[h].allow

Interrupted(a) ==
    {act[a].preempt} \cup
    IF act[a].current # None /\ ~speech[act[a].current].allow THEN {} ELSE
    {act[a].current} \cup
    {act[a].queue[i] : i \in {j \in DOMAIN act[a].queue : \A k \in 1..j : speech[act[a].queue[k]].allow}}

Unpreempted(ac, a) == [ac EXCEPT ![a].preempt = None]

UserInterrupts ==
    /\ sess.activity # None
    /\ speech' = Cancelled(speech, Interrupted(sess.activity))
    /\ act' = Unpreempted(act, sess.activity)
    /\ UNCHANGED <<turn, sess>>

(* SpeechHandle.interrupt.                                                 *)
HandleInterrupt(h) ==
    /\ Live(h)
    /\ speech[h].allow
    /\ speech' = Cancelled(speech, {h})
    /\ UNCHANGED <<act, turn, sess>>

-----------------------------------------------------------------------------
(* Recognition: on_vad_inference_done, on_preemptive_generation and        *)
(* on_end_of_turn, until the activity closes.                              *)

VadInterrupts(a) ==
    /\ act[a].phase = "open"
    /\ act[a].current # None
    /\ speech[act[a].current].allow
    /\ speech' = Cancelled(speech, {act[a].current})
    /\ UNCHANGED <<act, turn, sess>>

(* Mutant of Preemptive: the generation before it is not cancelled.        *)
PreemptiveOver(a, h) ==
    /\ act[a].phase = "open"
    /\ ~act[a].paused
    /\ act[a].current # None => speech[act[a].current].interrupted
    /\ Fresh(h)
    /\ speech' = Created(h, a, FALSE, TRUE)
    /\ act' = [act EXCEPT ![a].preempt = h]
    /\ UNCHANGED <<turn, sess>>

(* The reply is made before the turn has ended; it may be interrupted, the *)
(* default of an agent.                                                    *)
Preemptive(a, h) ==
    /\ act[a].phase = "open"
    /\ ~act[a].paused
    /\ act[a].current # None => speech[act[a].current].interrupted
    /\ Fresh(h)
    /\ speech' = Cancelled(Created(h, a, FALSE, TRUE), {act[a].preempt})
    /\ act' = [act EXCEPT ![a].preempt = h]
    /\ UNCHANGED <<turn, sess>>

(* A turn that is skipped: the scheduling is paused, or too few words were *)
(* said to interrupt the current speech.                                   *)
TurnSkipped(a) ==
    /\ act[a].phase = "open"
    /\ \/ act[a].paused
       \/ /\ act[a].current # None
          /\ speech[act[a].current].allow
          /\ ~speech[act[a].current].interrupted
    /\ speech' = Cancelled(speech, {act[a].preempt})
    /\ act' = Unpreempted(act, a)
    /\ UNCHANGED <<turn, sess>>

EndOfTurn(a, t) ==
    /\ act[a].phase = "open"
    /\ ~act[a].paused
    /\ CallsLeft
    /\ turn[t].stage = "none" /\ \A u \in 1..(t - 1) : turn[u].stage # "none"
    /\ turn' = [turn EXCEPT ![t] = [stage |-> "waiting", owner |-> a]]
    /\ UNCHANGED <<speech, act, sess>>

(* _user_turn_completed_task, once the task of the previous turn is over:  *)
(* it interrupts the current speech and calls on_user_turn_completed.      *)
TurnStarts(t) ==
    LET a == turn[t].owner
        c == act[a].current
    IN  /\ turn[t].stage = "waiting"
        /\ \A u \in 1..(t - 1) : turn[u].owner = a => turn[u].stage = "done"
        /\ IF ~act[a].paused /\ (c # None => speech[c].allow)
           THEN /\ turn' = [turn EXCEPT ![t].stage = "callback"]
                /\ speech' = Cancelled(speech, {c})
                /\ UNCHANGED act
           ELSE /\ turn' = [turn EXCEPT ![t].stage = "done"]
                /\ act' = WakeUp(act, a)
                /\ UNCHANGED speech
        /\ UNCHANGED sess

(* The callback raises (StopResponse or an error): there is no reply.      *)
TurnStops(t) ==
    /\ turn[t].stage = "callback"
    /\ turn' = [turn EXCEPT ![t].stage = "done"]
    /\ act' = WakeUp(act, turn[t].owner)
    /\ UNCHANGED <<speech, sess>>

(* The end of the task: the reply h is scheduled, and interrupted at once  *)
(* when another turn has ended meanwhile.                                  *)
TurnEnds(t, sp, ac, h) ==
    LET a        == turn[t].owner
        outdated == \E u \in Turns : u > t /\ turn[u].owner = a /\ turn[u].stage # "none"
    IN  /\ ScheduleSpeech(IF outdated /\ ~Refused(a, FALSE) THEN Cancelled(sp, {h}) ELSE sp,
                          WakeUp(ac, a), a, h, FALSE)
        /\ turn' = [turn EXCEPT ![t].stage = "done"]
        /\ UNCHANGED sess

(* The preemptive generation is the reply; a schedule that raises leaves   *)
(* it where it is.                                                         *)
TurnUses(t) ==
    LET a == turn[t].owner
        p == act[a].preempt
    IN  /\ turn[t].stage = "callback"
        /\ p # None
        /\ TurnEnds(t, speech, IF Refused(a, FALSE) THEN act ELSE Unpreempted(act, a), p)

(* There is none, or the callback has changed the context.  The agent      *)
(* allows interruptions, as it does by default: with one that does not,    *)
(* the interruption of an outdated turn raises, and ends the later turns   *)
(* that await it.                                                          *)
TurnReplies(t, h) ==
    LET a == turn[t].owner
    IN  /\ turn[t].stage = "callback"
        /\ Fresh(h)
        /\ TurnEnds(t, Cancelled(Created(h, a, FALSE, TRUE), {act[a].preempt}), Unpreempted(act, a), h)

-----------------------------------------------------------------------------
(* AgentActivity.drain and aclose, for the handoff and for the close; what *)
(* runs after each of them reads the session's activity again.             *)

At(w, s) == [sess.at EXCEPT ![w] = s]
On(w, a) == [sess.on EXCEPT ![w] = a]

DrainBegin(w) ==
    LET a == sess.on[w]
    IN  /\ sess.at[w] = "drain"
        /\ act[a].lock = "free"
        /\ speech' = Cancelled(speech, {act[a].preempt})
        /\ act' = [Unpreempted(act, a) EXCEPT ![a].lock = w, ![a].hooks = @ \cup {"on_exit"}]
        /\ sess' = [sess EXCEPT !.at = At(w, "on_exit")]
        /\ UNCHANGED turn

(* Mutant of DrainPause: the scheduler is not woken.                       *)
DrainPauseUnwoken(w) ==
    LET a == sess.on[w]
    IN  /\ sess.at[w] = "on_exit"
        /\ "on_exit" \notin act[a].hooks
        /\ act' = [act EXCEPT ![a].paused = TRUE]
        /\ sess' = [sess EXCEPT !.at = At(w, "pausing")]
        /\ UNCHANGED <<speech, turn>>

(* _pause_scheduling_task, after on_exit.                                  *)
DrainPause(w) ==
    LET a == sess.on[w]
    IN  /\ sess.at[w] = "on_exit"
        /\ "on_exit" \notin act[a].hooks
        /\ act' = WakeUp([act EXCEPT ![a].paused = TRUE], a)
        /\ sess' = [sess EXCEPT !.at = At(w, "pausing")]
        /\ UNCHANGED <<speech, turn>>

(* The handoff goes on to close the activity; the close first waits for a  *)
(* current speech.                                                         *)
Drained(w) ==
    LET a == sess.on[w]
        b == sess.activity
    IN  /\ sess.at[w] = "pausing"
        /\ Over(a)
        /\ act' = [act EXCEPT ![a].lock = "free"]
        /\ sess' = CASE w = "close" -> [sess EXCEPT !.at = At(w, "current"), !.on = On(w, b),
                                                    !.awaited = act[b].current]
                     [] w = "handoff" /\ b # None -> [sess EXCEPT !.at = At(w, "aclose"), !.on = On(w, b)]
                     [] OTHER -> [sess EXCEPT !.at = At(w, "failed")]
        /\ UNCHANGED <<speech, turn>>

(* aclose: the scheduling task is cancelled if it still runs.              *)
AClosed(a) ==
    [Unpreempted(act, a) EXCEPT ![a].phase = "closed",
                                ![a].scheduler = IF @ = "ended" THEN @ ELSE "cancelled"]

(* One step with the start of the next activity: in the awaits between     *)
(* them the code has an activity that is closed or not started, whose      *)
(* calls raise, as those of a closed activity do here.                     *)
AClose(w) ==
    LET a == sess.on[w]
    IN  /\ sess.at[w] = "aclose"
        /\ act[a].lock = "free"
        /\ speech' = IF act[a].phase = "closed" THEN speech ELSE Cancelled(speech, {act[a].preempt})
        /\ LET ac == IF act[a].phase = "closed" THEN act ELSE AClosed(a)
           IN  IF w = "handoff"
               THEN /\ act' = Start(ac, sess.next)
                    /\ sess' = [sess EXCEPT !.at = At(w, "over"), !.on = On(w, None), !.activity = sess.next, !.next = None]
               ELSE /\ act' = ac
                    /\ sess' = [sess EXCEPT !.at = At(w, "over"), !.on = On(w, None), !.activity = None, !.started = FALSE]
        /\ UNCHANGED turn

(* AgentSession.update_agent and the task it creates.                      *)
UpdateAgent ==
    /\ sess.started
    /\ sess.at["handoff"] = "no"
    /\ sess' = [sess EXCEPT !.at = At("handoff", "called")]
    /\ UNCHANGED <<speech, act, turn>>

UpdateActivity ==
    /\ sess.at["handoff"] = "called"
    /\ IF sess.activity # None
       THEN /\ sess' = [sess EXCEPT !.at = At("handoff", "drain"), !.next = 2,
                                    !.on = On("handoff", sess.activity)]
            /\ UNCHANGED act
       ELSE /\ sess' = [sess EXCEPT !.at = At("handoff", "over"), !.activity = 2]
            /\ act' = Start(act, 2)
    /\ UNCHANGED <<speech, turn>>

(* AgentSession._aclose_impl: unless it drains, it interrupts and waits    *)
(* for the interrupted speech.                                             *)
BeginClose(drain) ==
    LET a == sess.activity
    IN  /\ sess.started
        /\ sess.at["close"] = "no"
        /\ \/ /\ drain
              /\ sess' = [sess EXCEPT !.at = At("close", "drain"), !.on = On("close", a)]
              /\ UNCHANGED <<speech, act>>
           \/ /\ ~drain
              /\ speech' = Cancelled(speech, Interrupted(a))
              /\ act' = Unpreempted(act, a)
              /\ sess' = [sess EXCEPT !.awaited = IF Raises(a) THEN None ELSE act[a].current,
                                      !.at = At("close", "interrupting")]
        /\ UNCHANGED turn

(* The awaited speech is done.                                             *)
SpeechAwaited == sess.awaited # None => speech[sess.awaited].stage = "done"

CloseDrains ==
    /\ sess.at["close"] = "interrupting"
    /\ SpeechAwaited
    /\ sess' = [sess EXCEPT !.at = At("close", "drain"), !.on = On("close", sess.activity),
                            !.awaited = None]
    /\ UNCHANGED <<speech, act, turn>>

CloseCloses ==
    /\ sess.at["close"] = "current"
    /\ SpeechAwaited
    /\ sess' = [sess EXCEPT !.at = At("close", "aclose"), !.on = On("close", sess.activity),
                            !.awaited = None]
    /\ UNCHANGED <<speech, act, turn>>

-----------------------------------------------------------------------------

Makes(h)     == GetScheduled(h) \/ GetAuthorized(h) \/ PlayoutEnds(h) \/ ToolsEnd(h)
Schedules(a) == Wake(a) \/ Authorize(a) \/ GenerationDone(a)
Completes(t) == TurnStarts(t) \/ TurnStops(t) \/ TurnUses(t) \/ \E h \in Speeches : TurnReplies(t, h)
Stops(w)     == DrainBegin(w) \/ DrainPause(w) \/ Drained(w) \/ AClose(w)
Session      == UpdateActivity \/ CloseDrains \/ CloseCloses

Hears(a) ==
    \/ VadInterrupts(a)
    \/ TurnSkipped(a)
    \/ \E h \in Speeches : Preemptive(a, h)
    \/ \E t \in Turns : EndOfTurn(a, t)

(* The tasks of the runtime, playouts, tools and the agent's code.         *)
Runs ==
    \/ \E h \in Speeches : Makes(h)
    \/ \E a \in Activities : Schedules(a)
    \/ \E a \in Activities, hook \in {"on_enter", "on_exit"} : HookEnds(a, hook)
    \/ \E t \in Turns : Completes(t)
    \/ \E w \in Stoppers : Stops(w)
    \/ Session

Next ==
    \/ Runs
    \/ \E h \in Speeches : ToolReply(h) \/ HandleInterrupt(h)
    \/ \E a \in Activities : Hears(a)
    \/ \E h \in Speeches, say, allow \in BOOLEAN : Ask(h, say, allow)
    \/ UserInterrupts
    \/ UpdateAgent
    \/ \E drain \in BOOLEAN : BeginClose(drain)

Spec == Init /\ [][Next]_vars

-----------------------------------------------------------------------------
(* Properties.                                                             *)

(* One speech is played at a time, over the handoff and the close too: the *)
(* scheduler authorizes one and waits for its generation, and an activity  *)
(* is started when the one before it is drained.                           *)
OneSpeaks == Cardinality({h \in Speeches : speech[h].stage = "playing"}) <= 1

(* A speech whose task still waits is in its activity's queue or its       *)
(* current or preemptive one, unless its scheduling raised, it was         *)
(* interrupted, or the close has cancelled a scheduler that still served.  *)
NoneForgotten ==
    \A h \in Speeches :
        LET a == speech[h].owner
        IN  (/\ speech[h].stage \in {"scheduling", "authorizing"}
             /\ ~speech[h].interrupted /\ ~speech[h].refused) =>
            \/ h \in Queued(a) \cup {act[a].current, act[a].preempt}
            \/ act[a].scheduler = "cancelled"

(* When the scheduling task has ended, every speech and every turn of the  *)
(* activity has: a drain does not return before, and none begins after.    *)
DrainedIsQuiet ==
    \A a \in Activities : act[a].scheduler = "ended" =>
        /\ \A h \in Speeches : speech[h].owner = a => ~Live(h)
        /\ \A t \in Turns : turn[t].owner = a => turn[t].stage \in {"none", "done"}

(* The scheduler waits for a generation that nothing ends: the speech was  *)
(* done when it was authorized.                                            *)
Stuck(a) == /\ act[a].scheduler = "waiting"
            /\ speech[act[a].current].stage = "done"
            /\ speech[act[a].current].gen = "open"

(* What the scheduler can be stuck on is a speech that was interrupted     *)
(* while it was queued, and nothing else.                                  *)
StuckByInterruption == \A a \in Activities : Stuck(a) => speech[act[a].current].interrupted

(* At rest no task of the runtime can go on (no step of Runs is enabled):  *)
(* it takes another call, word or turn.  What each task then waits for.    *)
AtRest ==
    /\ \A h \in Speeches : Live(h) =>
          /\ ~speech[h].interrupted
          /\ \/ speech[h].stage = "scheduling" /\ ~speech[h].scheduled
             \/ speech[h].stage = "authorizing" /\ ~speech[h].authorized
    /\ \A a \in Activities :
          /\ act[a].hooks = {}
          /\ \/ act[a].scheduler \in {"none", "ended", "cancelled"}
             \/ act[a].scheduler = "idle" /\ ~act[a].woken
             \/ act[a].scheduler = "waiting" /\ speech[act[a].current].gen # "done"
    /\ \A t \in Turns : turn[t].stage \in {"none", "done"}
    /\ \A w \in Stoppers :
          \/ sess.at[w] \in {"no", "over", "failed"}
          \/ sess.at[w] \in {"drain", "aclose"} /\ act[sess.on[w]].lock # "free"
          \/ sess.at[w] = "pausing" /\ ~Over(sess.on[w])
          \/ sess.at[w] \in {"interrupting", "current"} /\ ~SpeechAwaited

(* Wherever the runtime comes to rest, each speech that was scheduled is   *)
(* done, tools and replies to them included, unless the scheduler is stuck *)
(* or was cancelled.  No step of a task is repeated, so the fair runtime   *)
(* comes to rest, and no wake-up of the scheduler is lost.                 *)
SpeechEnds ==
    \/ \A h \in Speeches : speech[h].scheduled =>
          \/ speech[h].stage = "done"
          \/ Stuck(speech[h].owner)
          \/ act[speech[h].owner].scheduler = "cancelled"
    \/ ~AtRest

(* A close and a handoff do not wait for ever, whatever is said, turned    *)
(* over and interrupted meanwhile, unless a scheduler is stuck, a speech   *)
(* whose scheduling raised is never done, or a preemptive generation begun *)
(* during on_exit waits for the end of a turn.                             *)
StopsEnd ==
    \/ \A w \in Stoppers : sess.at[w] \in {"no", "over", "failed"}
    \/ \E a \in Activities : Stuck(a)
    \/ \E h \in Speeches : speech[h].refused /\ Live(h)
    \/ \E a \in Activities : act[a].paused /\ act[a].preempt # None
    \/ ~AtRest

=============================================================================
