-------------------------------- MODULE CallRoom --------------------------------
(***************************************************************************)
(* One voice room: the call page of its two users                          *)
(* (front/.../voiceChat/components/CustomRoomUI.tsx) and the server's room *)
(* and history services (server/.../call/services/livekit_service.py).     *)
(* LiveKit's room is external: it tells its members of what happens, in    *)
(* order.  The recording agent is a member that comes and goes.            *)
(***************************************************************************)
EXTENDS Integers, Sequences, FiniteSets

CONSTANTS
    Sides,        \* the two users
    Agent,        \* the recording agent as a member of the room
    CallTime,     \* the countdown of a call (300 in the code)
    Extension,    \* what one extension adds (300)
    MaxExtends,   \* bound on the extensions of a call
    MaxLeaves,    \* bound on the leave routines of one page
    Returners,    \* who may reload the page or come back to it, once
    Strangers     \* who comes without the partner's profile

ASSUME SidesAssumption == Agent \notin Sides
ASSUME TimeAssumption  == CallTime \in Nat \ {0} /\ Extension \in Nat \ {0, 1}
ASSUME BoundAssumption ==
    /\ MaxExtends \in Nat
    /\ MaxLeaves \in Nat \ {0}

VARIABLES
    page,        \* "entering", "ui" (CustomRoomUI is mounted) or "home"
    time,        \* remainingTime
    armed,       \* the timer effect's timeout runs
    dirty,       \* remainingTime has changed since the last render
    elapsed,     \* timeouts since the page was mounted
    user,        \* the user's profile is in the store
    handler,     \* saveHistory of the participantDisconnected handler knows him
    leaving,     \* leave routines: their stage, and whether they know the user
    inbox,       \* room events on their way to a page
    members,     \* participants of the LiveKit room
    open,        \* the LiveKit room exists
    called,      \* an agent job was dispatched for the room and has not joined
    history,     \* what became of a user's visit to the call in his history
    extends,     \* extensions so far
    unheard,     \* an extension was published without the partner in the room
    returned     \* who has reloaded the page or come back to it

screen == <<page, time, armed, dirty, elapsed, user, handler, leaving, returned>>
room   == <<inbox, members, open, called>>
vars   == <<screen, room, history, extends, unheard>>

Routine == [stage : {"none", "sent", "answered"}, knows : BOOLEAN]
Idle    == [stage |-> "none", knows |-> FALSE]
Events  == {"extend", "left"}

(* Nothing yet; a row, or several; none, since a request was not made, was *)
(* refused or lost; none, since the user walked away to another page.      *)
Histories == {"none", "recorded", "missed", "walked"}

Granted == CallTime + MaxExtends * Extension

(* The types; a countdown is never below zero nor above what was granted.  *)
TypeOK ==
    /\ page \in [Sides -> {"entering", "ui", "home"}]
    /\ time \in [Sides -> 0..Granted]
    /\ armed \in [Sides -> BOOLEAN]
    /\ dirty \in [Sides -> BOOLEAN]
    /\ elapsed \in [Sides -> 0..Granted]
    /\ user \in [Sides -> BOOLEAN]
    /\ handler \in [Sides -> BOOLEAN]
    /\ leaving \in [Sides -> [1..MaxLeaves -> Routine]]
    /\ inbox \in [Sides -> Seq(Events)]
    /\ members \subseteq Sides \cup {Agent}
    /\ open \in BOOLEAN
    /\ called \in BOOLEAN
    /\ history \in [Sides -> Histories]
    /\ extends \in 0..MaxExtends
    /\ unheard \in BOOLEAN
    /\ returned \subseteq Sides

Init ==
    /\ page = [s \in Sides |-> "entering"]
    /\ time = [s \in Sides |-> 0]
    /\ armed = [s \in Sides |-> FALSE]
    /\ dirty = [s \in Sides |-> FALSE]
    /\ elapsed = [s \in Sides |-> 0]
    /\ user = [s \in Sides |-> TRUE]
    /\ handler = [s \in Sides |-> FALSE]
    /\ leaving = [s \in Sides |-> [i \in 1..MaxLeaves |-> Idle]]
    /\ inbox = [s \in Sides |-> <<>>]
    /\ members = {}
    /\ open = FALSE
    /\ called = FALSE
    /\ history = [s \in Sides |-> "none"]
    /\ extends = 0
    /\ unheard = FALSE
    /\ returned = {}

-----------------------------------------------------------------------------
(* POST /call/record, once or more.  A request may fail, and a duration    *)
(* that is zero in whole seconds is refused.  Nobody awaits the answer:    *)
(* the row is there at once, or never.                                     *)
Missed(h) == IF h = "recorded" THEN h ELSE "missed"
RecordCall(s) ==
    history' \in {[history EXCEPT ![s] = "recorded"], [history EXCEPT ![s] = Missed(@)]}

-----------------------------------------------------------------------------
(* LiveKit's room.                                                         *)

Present == members \cap Sides

(* inbox once the members S other than p have been told of e.              *)
Told(S, p, e) ==
    [s \in Sides |-> IF s = p THEN <<>>
                     ELSE IF s \in S THEN Append(inbox[s], e) ELSE inbox[s]]

(* p disconnects: the others are told; p hears nothing more.               *)
Departs(p) ==
    /\ members' = members \ {p}
    /\ inbox' = IF p \in members THEN Told(members, p, "left") ELSE Told({}, p, "left")
    /\ UNCHANGED <<open, called>>

(* A member may be told of another that goes before it is disconnected.    *)
DeleteRoom ==
    /\ open' = FALSE
    /\ called' = FALSE
    /\ members' = {}
    /\ \E told \in SUBSET {s \in Present : members # {s}} : inbox' = Told(told, Agent, "left")

(* The agent's job joins a room of users, and leaves: its worker stops or  *)
(* its process dies.                                                       *)
AgentJoins ==
    /\ open
    /\ called
    /\ called' = FALSE
    /\ members' = members \cup {Agent}
    /\ UNCHANGED <<inbox, open, screen, history, extends, unheard>>

AgentLeaves ==
    /\ Agent \in members
    /\ Departs(Agent)
    /\ UNCHANGED <<screen, history, extends, unheard>>

(* LiveKit closes a room that no user is in.                               *)
RoomEmpties ==
    /\ open
    /\ Present = {}
    /\ open' = FALSE
    /\ called' = FALSE
    /\ members' = {}
    /\ UNCHANGED <<inbox, screen, history, extends, unheard>>

-----------------------------------------------------------------------------
(* The call page.                                                          *)

(* LiveKit is connected and CustomRoomUI mounted.                          *)
Join(s) ==
    /\ page[s] = "entering"
    /\ page' = [page EXCEPT ![s] = "ui"]
    /\ time' = [time EXCEPT ![s] = CallTime]
    /\ elapsed' = [elapsed EXCEPT ![s] = 0]
    /\ dirty' = [dirty EXCEPT ![s] = TRUE]
    /\ handler' = [handler EXCEPT ![s] = user[s]]
    /\ members' = members \cup {s}
    /\ open' = TRUE
    /\ called' = (called \/ ~open)
    /\ history' = [history EXCEPT ![s] = "none"]
    /\ UNCHANGED <<armed, user, leaving, returned, inbox, extends, unheard>>

(* A leave routine begins; it awaits the deletion of the room, with the    *)
(* user of the render it was made in.  Bound: MaxLeaves at a time.         *)
BeginLeaving(s) ==
    \/ \E i \in 1..MaxLeaves :
         /\ leaving[s][i] = Idle
         /\ \A k \in 1..(i - 1) : leaving[s][k] # Idle
         /\ leaving' = [leaving EXCEPT ![s][i] = [stage |-> "sent", knows |-> user[s]]]
    \/ /\ \A i \in 1..MaxLeaves : leaving[s][i] # Idle
       /\ UNCHANGED leaving

(* Mutant: the effect goes on after the end of the call.                   *)
RenderGoesOn(s) ==
    /\ dirty[s]
    /\ dirty' = [dirty EXCEPT ![s] = FALSE]
    /\ armed' = [armed EXCEPT ![s] = TRUE]
    /\ \/ time[s] <= 0 /\ BeginLeaving(s)
       \/ time[s] > 0 /\ UNCHANGED leaving
    /\ UNCHANGED <<page, time, elapsed, user, handler, returned, room, history, extends, unheard>>

(* A render and its timer effect: the end of the call, or a new timeout.   *)
Render(s) ==
    /\ dirty[s]
    /\ dirty' = [dirty EXCEPT ![s] = FALSE]
    /\ armed' = [armed EXCEPT ![s] = time[s] > 0]
    /\ \/ time[s] <= 0 /\ BeginLeaving(s)
       \/ time[s] > 0 /\ UNCHANGED leaving
    /\ UNCHANGED <<page, time, elapsed, user, handler, returned, room, history, extends, unheard>>

Tick(s) ==
    /\ armed[s]
    /\ armed' = [armed EXCEPT ![s] = FALSE]
    /\ time' = [time EXCEPT ![s] = @ - 1]
    /\ elapsed' = [elapsed EXCEPT ![s] = @ + 1]
    /\ dirty' = [dirty EXCEPT ![s] = TRUE]
    /\ UNCHANGED <<page, user, handler, leaving, returned, room, history, extends, unheard>>

HandleLeave(s) ==
    /\ page[s] = "ui"
    /\ BeginLeaving(s)
    /\ UNCHANGED <<page, time, armed, dirty, elapsed, user, handler, returned,
                   room, history, extends, unheard>>

(* The extension is counted here and published to who is in the room.      *)
HandleExtend(s) ==
    /\ page[s] = "ui"
    /\ extends < MaxExtends
    /\ extends' = extends + 1
    /\ time' = [time EXCEPT ![s] = @ + Extension]
    /\ dirty' = [dirty EXCEPT ![s] = TRUE]
    /\ inbox' = [t \in Sides |-> IF s \in members /\ t \in members \ {s}
                                 THEN Append(inbox[t], "extend") ELSE inbox[t]]
    /\ unheard' = (unheard \/ Present # Sides)
    /\ UNCHANGED <<page, armed, elapsed, user, handler, leaving, returned,
                   members, open, called, history>>

(* Mutant: the time of the first render is extended, a stale closure's.    *)
HandleDataStale(s) ==
    /\ inbox[s] # <<>>
    /\ Head(inbox[s]) = "extend"
    /\ inbox' = [inbox EXCEPT ![s] = Tail(@)]
    /\ time' = [time EXCEPT ![s] = CallTime + Extension]
    /\ dirty' = [dirty EXCEPT ![s] = TRUE]
    /\ UNCHANGED <<page, armed, elapsed, user, handler, leaving, returned,
                   members, open, called, history, extends, unheard>>

HandleData(s) ==
    /\ inbox[s] # <<>>
    /\ Head(inbox[s]) = "extend"
    /\ inbox' = [inbox EXCEPT ![s] = Tail(@)]
    /\ time' = [time EXCEPT ![s] = @ + Extension]
    /\ dirty' = [dirty EXCEPT ![s] = TRUE]
    /\ UNCHANGED <<page, armed, elapsed, user, handler, leaving, returned,
                   members, open, called, history, extends, unheard>>

(* saveHistory: it needs the user and the partner.                         *)
SaveHistory(s, knows) ==
    \/ /\ knows /\ s \notin Strangers
       /\ RecordCall(s)
    \/ /\ ~(knows /\ s \notin Strangers)
       /\ history' = [history EXCEPT ![s] = Missed(@)]

(* The page's component is gone: its state, its timeout, its room.         *)
Unmount(s) ==
    /\ Departs(s)
    /\ time' = [time EXCEPT ![s] = 0]
    /\ elapsed' = [elapsed EXCEPT ![s] = 0]
    /\ armed' = [armed EXCEPT ![s] = FALSE]
    /\ dirty' = [dirty EXCEPT ![s] = FALSE]
    /\ handler' = [handler EXCEPT ![s] = FALSE]

(* room.disconnect() and navigate("/home").                                *)
GoHome(s) ==
    /\ Unmount(s)
    /\ page' = [page EXCEPT ![s] = "home"]

Saves(s) == \E i \in 1..MaxLeaves : leaving[s][i] # Idle

(* A user whose call nothing will save any more, unless it was saved.      *)
Abandon(s) ==
    history' = [history EXCEPT ![s] = IF @ = "none" THEN "walked" ELSE @]

(* The logo, the navigation bar or the browser's history takes the user to *)
(* another page.  Nothing saves the history but a leave routine that is    *)
(* under way, which goes on.                                               *)
WalkAway(s) ==
    /\ page[s] # "home"
    /\ GoHome(s)
    /\ IF Saves(s) THEN UNCHANGED history ELSE Abandon(s)
    /\ UNCHANGED <<user, leaving, returned, extends, unheard>>

(* participantDisconnected, of anybody, once or for all that one update    *)
(* tells of: the handler is that of the mount.                             *)
HandleParticipantDisconnected(s) ==
    /\ inbox[s] # <<>>
    /\ Head(inbox[s]) = "left"
    /\ SaveHistory(s, handler[s])
    /\ GoHome(s)
    /\ UNCHANGED <<user, leaving, returned, extends, unheard>>

(* Mutant: the error of a failed deletion is not caught.                   *)
DeleteAnsweredUncaught(s, i) ==
    /\ leaving[s][i].stage = "sent"
    /\ \/ /\ open
          /\ DeleteRoom
          /\ leaving' = [leaving EXCEPT ![s][i].stage = "answered"]
       \/ /\ leaving' = [leaving EXCEPT ![s][i] = Idle]
          /\ UNCHANGED room
    /\ UNCHANGED <<page, time, armed, dirty, elapsed, user, handler, returned,
                   history, extends, unheard>>

(* DELETE /call/room/{name}: a request that fails, or is for a room that   *)
(* is gone, is answered with an error, which the page ignores.             *)
DeleteAnswered(s, i) ==
    /\ leaving[s][i].stage = "sent"
    /\ leaving' = [leaving EXCEPT ![s][i].stage = "answered"]
    /\ \/ open /\ DeleteRoom
       \/ UNCHANGED room
    /\ UNCHANGED <<page, time, armed, dirty, elapsed, user, handler, returned,
                   history, extends, unheard>>

(* Mutant: a routine whose page is gone saves nothing.                     *)
LeaveFinallyMounted(s, i) ==
    /\ leaving[s][i].stage = "answered"
    /\ \/ page[s] # "home" /\ SaveHistory(s, leaving[s][i].knows)
       \/ page[s] = "home" /\ UNCHANGED history
    /\ leaving' = [leaving EXCEPT ![s][i] = Idle]
    /\ GoHome(s)
    /\ UNCHANGED <<user, returned, extends, unheard>>

(* The rest of a leave routine, wherever its page is by now.               *)
LeaveFinally(s, i) ==
    /\ leaving[s][i].stage = "answered"
    /\ SaveHistory(s, leaving[s][i].knows)
    /\ leaving' = [leaving EXCEPT ![s][i] = Idle]
    /\ GoHome(s)
    /\ UNCHANGED <<user, returned, extends, unheard>>

(* The browser reloads the application: leave routines are lost, and the   *)
(* user has to be fetched again.  The call page keeps the token and the    *)
(* partner's profile in its history entry.                                 *)
Reload(s) ==
    /\ s \in Returners \ returned
    /\ returned' = returned \cup {s}
    /\ Unmount(s)
    /\ page' = [page EXCEPT ![s] = IF @ = "home" THEN "home" ELSE "entering"]
    /\ user' = [user EXCEPT ![s] = FALSE]
    /\ leaving' = [leaving EXCEPT ![s] = [i \in 1..MaxLeaves |-> Idle]]
    /\ IF page[s] = "home" /\ Saves(s) THEN Abandon(s) ELSE UNCHANGED history
    /\ unheard' = (unheard \/ extends > 0)
    /\ UNCHANGED extends

(* The browser's history takes the user back to the call page.             *)
Return(s) ==
    /\ page[s] = "home"
    /\ s \in Returners \ returned
    /\ returned' = returned \cup {s}
    /\ page' = [page EXCEPT ![s] = "entering"]
    /\ unheard' = (unheard \/ extends > 0)
    /\ UNCHANGED <<time, armed, dirty, elapsed, user, handler, leaving, room, history, extends>>

UserLoads(s) ==
    /\ ~user[s]
    /\ user' = [user EXCEPT ![s] = TRUE]
    /\ UNCHANGED <<page, time, armed, dirty, elapsed, handler, leaving, returned,
                   room, history, extends, unheard>>

-----------------------------------------------------------------------------
PageStep(s) ==
    \/ Join(s) \/ Render(s) \/ Tick(s) \/ HandleLeave(s) \/ HandleExtend(s) \/ HandleData(s)
    \/ HandleParticipantDisconnected(s) \/ WalkAway(s) \/ Reload(s) \/ Return(s) \/ UserLoads(s)
    \/ \E i \in 1..MaxLeaves : DeleteAnswered(s, i) \/ LeaveFinally(s, i)

Next ==
    \/ \E s \in Sides : PageStep(s)
    \/ AgentJoins \/ AgentLeaves \/ RoomEmpties

Spec == Init /\ [][Next]_vars

(* Browsers render, fire timeouts and get an answer or an error for each   *)
(* request.                                                              *)
FairSpec ==
    /\ Spec
    /\ \A s \in Sides :
         /\ WF_vars(Render(s) \/ Tick(s))
         /\ \A i \in 1..MaxLeaves : WF_vars(DeleteAnswered(s, i) \/ LeaveFinally(s, i))

-----------------------------------------------------------------------------
(* Who ended his visit to a call by the button or the countdown, or was    *)
(* left behind in it, has it in his history, however the two ends, the     *)
(* countdowns, the deletion of the room and a walk to another page         *)
(* meanwhile interleave: unless a request was lost or refused, or his or   *)
(* the partner's profile was not there.  The exceptions have names: only   *)
(* "missed", and "walked" for who did nothing but go to another page.      *)
CallIsRecorded ==
    \A s \in Sides :
        page[s] = "home" /\ ~Saves(s) /\ history[s] \notin {"missed", "walked"}
        => history[s] = "recorded"

(* Extensions from both ends, in any order, leave the two countdowns with  *)
(* the same total, once those under way are counted and as long as both    *)
(* users were in the room for every one of them.                           *)
Total(s) ==
    time[s] + elapsed[s] + Extension * Cardinality({i \in DOMAIN inbox[s] : inbox[s][i] = "extend"})
ExtensionsAgree ==
    Present = Sides /\ ~unheard => \A s, t \in Sides : Total(s) = Total(t)

(* Nobody stays in a call: the countdown ends it, even when the room was   *)
(* deleted unnoticed, the deletion fails or an extension comes meanwhile.  *)
CallEnds == \A s \in Sides : page[s] = "ui" ~> page[s] # "ui"

=============================================================================
