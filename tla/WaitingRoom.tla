------------------------------ MODULE WaitingRoom ------------------------------
(***************************************************************************)
(* One visit to the waiting page of the web client                         *)
(* (front/src/features/voiceChat/pages/WaitingRoom.tsx) with its websocket *)
(* hook (front/src/hooks/useCallWebSocket.ts), against the messages that   *)
(* the call server may send it.                                            *)
(*                                                                         *)
(* The browser runs one callback at a time: a message, a timer, a promise, *)
(* a click.  A callback that changes React state asks for a render; Render *)
(* is the commit and the effects that follow it, and other callbacks may   *)
(* come between.  What closures and the screen have is the state of the    *)
(* last render, shown.  The message effect depends on connect, which the   *)
(* hook makes anew on every render, and so runs on every one.              *)
(***************************************************************************)
EXTENDS Integers, Sequences, FiniteSets

CONSTANTS
    Rooms,       \* names of proposed rooms
    Socks,       \* websockets that can be alive at once
    None,        \* no room, no socket, undefined, null
    CountFrom,   \* the countdown of a proposal (5 in the code)
    Backlog      \* bound on the messages in flight to one socket

ASSUME CountAssumption == CountFrom \in Nat \ {0}

VARIABLES
    readyState,  \* the browser's end of each websocket
    inbox,       \* messages on their way to a websocket
    offered,     \* the room the server has proposed on a websocket
    used,        \* rooms proposed so far
    socketRef,   \* the hook's current websocket
    connected, message,                      \* state of the hook
    matchInfo, countdown, partnerData,       \* state of the page
    shown,       \* matchInfo and countdown of the last render
    dirty,       \* a render is due
    timer,       \* the countdown's timeout is armed
    counted,     \* timeouts since the proposal was taken up
    fetching,    \* partner profiles requested, by room
    tokens,      \* call tokens requested, with the data of their closures
    sent,        \* events that left on an open websocket
    refused,     \* rooms the user has turned down
    page,        \* "waiting", "away" or, in the voice room, "call"
    call         \* the room the page navigated to

hook == <<socketRef, connected, message>>
view == <<matchInfo, countdown, partnerData, shown, dirty, timer, counted>>
vars == <<readyState, inbox, offered, used, socketRef, connected, message,
          matchInfo, countdown, partnerData, shown, dirty, timer, counted,
          fetching, tokens, sent, refused, page, call>>

Proposal(r) == [event |-> "match_proposal", room |-> r]
Withdrawals == [event : {"rejected", "disconnected"}, room : {None}]
Messages    == {Proposal(r) : r \in Rooms} \cup Withdrawals
Events      == [event : {"rejected", "entered"}, room : Rooms]

ASSUME NoneAssumption == None \notin Rooms \cup Socks \cup Messages

Closed == {s \in Socks : readyState[s] = "closed"}
Alive  == {s \in Socks : readyState[s] \in {"connecting", "open"}}

(* The types; a countdown that has come to its end goes on by one at most, *)
(* when a withdrawal sets it to zero before its last timeout.              *)
TypeOK ==
    /\ readyState \in [Socks -> {"connecting", "open", "closing", "closed"}]
    /\ inbox \in [Socks -> Seq(Messages)]
    /\ offered \in [Socks -> Rooms \cup {None}]
    /\ used \subseteq Rooms
    /\ socketRef \in Socks \cup {None}
    /\ connected \in BOOLEAN
    /\ message \in Messages \cup {None}
    /\ matchInfo \in Rooms \cup {None}
    /\ countdown \in -1..CountFrom
    /\ partnerData \in Rooms \cup {None}
    /\ shown \in [room : Rooms \cup {None}, count : -1..CountFrom]
    /\ dirty \in BOOLEAN
    /\ timer \in BOOLEAN
    /\ counted \in 0..CountFrom
    /\ fetching \subseteq Rooms
    /\ tokens \subseteq [room : Rooms, data : Rooms \cup {None}]
    /\ sent \subseteq Events
    /\ refused \subseteq Rooms
    /\ page \in {"waiting", "away", "call"}
    /\ call \in Rooms \cup {None}

(* The page is mounted and its first effect has connected.  The initial    *)
(* countdown of 10 is never shown.                                         *)
Init ==
    /\ \E s \in Socks :
         /\ readyState = [t \in Socks |-> IF t = s THEN "connecting" ELSE "closed"]
         /\ socketRef = s
    /\ inbox = [s \in Socks |-> <<>>]
    /\ offered = [s \in Socks |-> None]
    /\ used = {}
    /\ connected = TRUE
    /\ message = None
    /\ matchInfo = None
    /\ countdown = CountFrom
    /\ partnerData = None
    /\ shown = [room |-> None, count |-> CountFrom]
    /\ dirty = TRUE
    /\ timer = FALSE
    /\ counted = 0
    /\ fetching = {}
    /\ tokens = {}
    /\ sent = {}
    /\ refused = {}
    /\ page = "waiting"
    /\ call = None

-----------------------------------------------------------------------------
(* The server: it proposes a room on a connection, and withdraws it.       *)

ServerSends(s, m) ==
    /\ readyState[s] = "open"
    /\ Len(inbox[s]) < Backlog
    /\ inbox' = [inbox EXCEPT ![s] = Append(@, m)]
    /\ UNCHANGED <<readyState, hook, view, fetching, tokens, sent, refused, page, call>>

Propose(s) ==
    /\ offered[s] = None
    /\ \E r \in Rooms \ used :
         /\ ServerSends(s, Proposal(r))
         /\ offered' = [offered EXCEPT ![s] = r]
         /\ used' = used \cup {r}

Withdraw(s) ==
    /\ offered[s] # None
    /\ \E m \in Withdrawals : ServerSends(s, m)
    /\ offered' = [offered EXCEPT ![s] = None]
    /\ UNCHANGED used

-----------------------------------------------------------------------------
(* The websockets' events.                                                 *)

(* A state update asks for a render only while the page is mounted.        *)
Touch(changed) == dirty' = (dirty \/ (page = "waiting" /\ changed))

OnOpen(s) ==
    /\ readyState[s] = "connecting"
    /\ readyState' = [readyState EXCEPT ![s] = "open"]
    /\ UNCHANGED <<inbox, offered, used, hook, view, fetching, tokens,
                   sent, refused, page, call>>

OnMessage(s) ==
    /\ readyState[s] = "open"
    /\ inbox[s] # <<>>
    /\ inbox' = [inbox EXCEPT ![s] = Tail(@)]
    /\ message' = IF page = "waiting" THEN Head(inbox[s]) ELSE message
    /\ Touch(TRUE)
    /\ UNCHANGED <<readyState, offered, used, socketRef, connected, matchInfo,
                   countdown, partnerData, shown, timer, counted, fetching,
                   tokens, sent, refused, page, call>>

(* Mutant: the closed websocket stays the current one.                     *)
OnCloseKeeps(s) ==
    /\ readyState[s] # "closed"
    /\ readyState' = [readyState EXCEPT ![s] = "closed"]
    /\ inbox' = [inbox EXCEPT ![s] = <<>>]
    /\ offered' = [offered EXCEPT ![s] = None]
    /\ connected' = FALSE
    /\ Touch(connected)
    /\ UNCHANGED <<used, socketRef, message, matchInfo, countdown, partnerData,
                   shown, timer, counted, fetching, tokens, sent, refused,
                   page, call>>

(* A websocket has closed, by either end or because it failed to open: the *)
(* handler of any of them clears the reference.                            *)
OnClose(s) ==
    /\ readyState[s] # "closed"
    /\ readyState' = [readyState EXCEPT ![s] = "closed"]
    /\ inbox' = [inbox EXCEPT ![s] = <<>>]
    /\ offered' = [offered EXCEPT ![s] = None]
    /\ socketRef' = None
    /\ connected' = FALSE
    /\ Touch(connected)
    /\ UNCHANGED <<used, message, matchInfo, countdown, partnerData, shown,
                   timer, counted, fetching, tokens, sent, refused, page, call>>

-----------------------------------------------------------------------------
(* The hook's functions; ref and ready are the current websocket and the   *)
(* websockets' states when they are called.                                *)

Send(ref, ready, event, r) ==
    sent' = IF ref # None /\ ready[ref] = "open"
            THEN sent \cup {[event |-> event, room |-> r]}
            ELSE sent

(* close() begins the closing handshake; onclose comes later.              *)
Disconnected(ready) ==
    IF socketRef # None /\ ready[socketRef] \in {"connecting", "open"}
    THEN [ready EXCEPT ![socketRef] = "closing"]
    ELSE ready

(* A new websocket becomes the current one and the old one stays as it is. *)
(* Bound: when all of Socks are in use no further one is opened.           *)
Connect ==
    /\ connected' = TRUE
    /\ \/ \E s \in Closed :
            /\ readyState' = [readyState EXCEPT ![s] = "connecting"]
            /\ socketRef' = s
       \/ Closed = {} /\ UNCHANGED <<readyState, socketRef>>

-----------------------------------------------------------------------------
(* The page's effects and callbacks.                                       *)

(* Mutant: the countdown is not set for a new proposal.                    *)
TakeUpOnly(r) ==
    /\ matchInfo' = r
    /\ countdown' = countdown
    /\ counted' = 0
    /\ fetching' = fetching \cup {r}
    /\ dirty' = TRUE
    /\ UNCHANGED <<readyState, socketRef, connected>>

(* A proposal is taken up and the partner's profile requested.             *)
TakeUp(r) ==
    /\ matchInfo' = r
    /\ countdown' = CountFrom
    /\ counted' = 0
    /\ fetching' = fetching \cup {r}
    /\ dirty' = TRUE
    /\ UNCHANGED <<readyState, socketRef, connected>>

(* The proposal is gone: the page connects again.                          *)
StartOver ==
    /\ Connect
    /\ matchInfo' = None
    /\ countdown' = 0
    /\ counted' = 0
    /\ fetching' = fetching
    /\ dirty' = (matchInfo # None \/ countdown # 0 \/ ~connected)

(* Mutant: a proposal is taken up again on every render.                   *)
MessageEffectAgain ==
    IF message = None THEN
        /\ dirty' = FALSE
        /\ UNCHANGED <<readyState, socketRef, connected, matchInfo, countdown,
                       counted, fetching>>
    ELSE IF message.room = None THEN StartOver
    ELSE TakeUp(message.room)

(* Mutant: the effect does not depend on connect, and runs only for a      *)
(* message it has not handled; here, while a proposal is still shown.      *)
MessageEffectOnce ==
    \/ /\ message # None
       /\ \/ message.room \notin {None, matchInfo} /\ TakeUp(message.room)
          \/ message.room = None /\ matchInfo # None /\ StartOver
    \/ /\ \/ message = None
          \/ message # None /\ message.room = matchInfo
       /\ dirty' = FALSE
       /\ UNCHANGED <<readyState, socketRef, connected, matchInfo, countdown,
                      counted, fetching>>

(* The first effect with [message, connect, location].                     *)
MessageEffect ==
    \/ /\ message = None \/ message = Proposal(matchInfo)
       /\ dirty' = FALSE
       /\ UNCHANGED <<readyState, socketRef, connected, matchInfo, countdown,
                      counted, fetching>>
    \/ /\ message # Proposal(matchInfo)
       /\ \E r \in Rooms : message = Proposal(r) /\ TakeUp(r)
    \/ message \in Withdrawals /\ StartOver

(* enterVoiceRoom, up to its await, in the closure of this render.         *)
EnterVoiceRoom ==
    /\ Send(socketRef', readyState', "entered", matchInfo)
    /\ tokens' = tokens \cup {[room |-> matchInfo, data |-> partnerData]}

(* Mutant: the return after enterVoiceRoom is missing.                     *)
CountdownEffectGoesOn ==
    \/ /\ shown = [room |-> matchInfo, count |-> countdown]
       /\ UNCHANGED <<timer, tokens, sent>>
    \/ /\ shown # [room |-> matchInfo, count |-> countdown]
       /\ \/ matchInfo # None /\ countdown <= 0 /\ EnterVoiceRoom
          \/ ~(matchInfo # None /\ countdown <= 0) /\ UNCHANGED <<tokens, sent>>
       /\ timer' = (matchInfo # None)

(* The effect with [countdown, matchInfo]; the old timeout is cleared.     *)
CountdownEffect ==
    \/ /\ shown = [room |-> matchInfo, count |-> countdown]
       /\ UNCHANGED <<timer, tokens, sent>>
    \/ /\ shown # [room |-> matchInfo, count |-> countdown]
       /\ \/ /\ matchInfo # None
             /\ countdown <= 0
             /\ EnterVoiceRoom
          \/ /\ ~(matchInfo # None /\ countdown <= 0)
             /\ UNCHANGED <<tokens, sent>>
       /\ timer' = (matchInfo # None /\ countdown > 0)

Render ==
    /\ page = "waiting"
    /\ dirty
    /\ MessageEffect
    /\ CountdownEffect
    /\ shown' = [room |-> matchInfo, count |-> countdown]
    /\ UNCHANGED <<inbox, offered, used, message, partnerData, refused, page, call>>

Tick ==
    /\ timer
    /\ timer' = FALSE
    /\ countdown' = countdown - 1
    /\ counted' = IF counted < CountFrom THEN counted + 1 ELSE counted
    /\ Touch(TRUE)
    /\ UNCHANGED <<readyState, inbox, offered, used, hook, matchInfo, partnerData,
                   shown, fetching, tokens, sent, refused, page, call>>

(* The partner's profile arrives, or its request fails.                    *)
PartnerArrives(r) ==
    /\ r \in fetching
    /\ fetching' = fetching \ {r}
    /\ \/ partnerData' = r /\ dirty' = TRUE
       \/ UNCHANGED <<partnerData, dirty>>
    /\ UNCHANGED <<readyState, inbox, offered, used, hook, matchInfo, countdown,
                   shown, timer, counted, tokens, sent, refused, page, call>>

(* The page goes: its state is dropped, its timeout cleared, its websocket *)
(* closed; a profile that arrives later changes nothing.  The cleanup's    *)
(* matchInfo is that of the first render, undefined: nothing is sent.      *)
Unmount ==
    /\ readyState' = Disconnected(readyState)
    /\ message' = None
    /\ matchInfo' = None
    /\ countdown' = 0
    /\ partnerData' = None
    /\ shown' = [room |-> None, count |-> 0]
    /\ dirty' = FALSE
    /\ timer' = FALSE
    /\ counted' = 0
    /\ fetching' = {}

(* The rest of enterVoiceRoom: the navigation works for an unmounted page  *)
(* too.  A failed request leaves the page as it is.                        *)
TokenArrives(t) ==
    /\ t \in tokens
    /\ tokens' = tokens \ {t}
    /\ \/ Unmount /\ page' = "call" /\ call' = t.room
       \/ UNCHANGED <<readyState, message, view, fetching, page, call>>
    /\ UNCHANGED <<inbox, offered, used, socketRef, connected, sent, refused>>

(* The button "find somebody else".                                        *)
HandleReject ==
    /\ page = "waiting"
    /\ shown.room # None
    /\ Send(socketRef, readyState, "rejected", shown.room)
    /\ refused' = refused \cup {shown.room}
    /\ matchInfo' = None
    /\ countdown' = 0
    /\ dirty' = TRUE
    /\ UNCHANGED <<readyState, inbox, offered, used, hook, partnerData, shown,
                   timer, counted, fetching, tokens, page, call>>

(* The user goes to another page of the application.                       *)
Leave ==
    /\ page = "waiting"
    /\ page' = "away"
    /\ Unmount
    /\ UNCHANGED <<inbox, offered, used, socketRef, connected, tokens, sent,
                   refused, call>>

-----------------------------------------------------------------------------
Next ==
    \/ \E s \in Socks : Propose(s) \/ Withdraw(s) \/ OnOpen(s) \/ OnMessage(s) \/ OnClose(s)
    \/ Render
    \/ Tick
    \/ \E r \in Rooms : PartnerArrives(r)
    \/ \E t \in tokens : TokenArrives(t)
    \/ HandleReject
    \/ Leave

Spec == Init /\ [][Next]_vars

(* The browser renders what is due and fires timeouts.                     *)
FairSpec == Spec /\ WF_vars(Render) /\ WF_vars(Tick)

-----------------------------------------------------------------------------
(* The hook never holds on to a websocket that is closed: send and         *)
(* disconnect, which test only for null, do not act on a dead one, however *)
(* the closings of several websockets interleave.                          *)
RefIsLive == socketRef # None => readyState[socketRef] # "closed"

(* A room is entered only after its full countdown: the zero that a reject *)
(* or a withdrawal leaves, and the timeouts of an earlier proposal, never  *)
(* make the page enter a room it has only just been offered.               *)
FullCountdown ==
    [][\A t \in tokens' \ tokens : counted = CountFrom]_vars

(* After a withdrawal the page goes on searching: whatever websockets fail *)
(* afterwards, once it has rendered it has one that is opening or open.    *)
SearchGoesOn ==
    page = "waiting" /\ message \in Withdrawals /\ ~dirty => Alive # {}

(* A countdown on screen comes to its end, when the room is entered,       *)
(* unless the proposal is turned down, replaced or withdrawn: renders for  *)
(* other reasons, such as late partner profiles, do not restart it for     *)
(* ever.                                                                   *)
ProposalResolved ==
    \A r \in Rooms :
        page = "waiting" /\ shown.room = r /\ shown.count > 0
            ~> page # "waiting" \/ shown.room # r \/ \E t \in tokens : t.room = r
=============================================================================
