------------------------- MODULE WaitingRoomProofs -------------------------
(* Proofs about WaitingRoom, for any rooms, websockets and countdown.      *)
EXTENDS WaitingRoom, SequenceTheorems, TLAPS

(* The type invariant in two parts: the page with its hook, and the server.*)
PageOK ==
    /\ readyState \in [Socks -> {"connecting", "open", "closing", "closed"}]
    /\ socketRef \in Socks \cup {None}
    /\ connected \in BOOLEAN
    /\ message \in Messages \cup {None}
    /\ matchInfo \in Rooms \cup {None}
    /\ countdown \in -1..CountFrom
    /\ partnerData \in Rooms \cup {None}
    /\ shown \in [room : Rooms \cup {None}, count : -1..CountFrom]
    /\ dirty \in BOOLEAN
    /\ timer \in BOOLEAN
    /\ counted \in 0..CountFrom
    /\ fetching \subseteq Rooms
    /\ tokens \subseteq [room : Rooms, data : Rooms \cup {None}]
    /\ sent \subseteq Events
    /\ refused \subseteq Rooms
    /\ page \in {"waiting", "away", "call"}
    /\ call \in Rooms \cup {None}

ServerOK ==
    /\ inbox \in [Socks -> Seq(Messages)]
    /\ offered \in [Socks -> Rooms \cup {None}]
    /\ used \subseteq Rooms

(***************************************************************************)
(* The inductive invariant, in three parts.                                *)
(***************************************************************************)

(* The timeouts of a proposal that is shown count it down; a timeout that  *)
(* outlives its proposal finds a countdown of zero at least.               *)
Counting ==
    /\ timer => countdown >= 0
    /\ matchInfo # None =>
          /\ counted + countdown = CountFrom
          /\ countdown >= 0
          /\ timer => countdown > 0

(* While the page waits nothing closes a websocket from this side.         *)
NoneClosing ==
    /\ Socks # {}
    /\ page = "waiting" => \A s \in Socks : readyState[s] # "closing"

(* The hook's connected is what tells a rendered page of a closing: after  *)
(* a withdrawal a page without a connection has a render due.              *)
Searching ==
    page = "waiting" /\ message \in Withdrawals /\ ~dirty => connected /\ Alive # {}

IInv == PageOK /\ ServerOK /\ RefIsLive /\ Counting /\ NoneClosing /\ Searching

(* A message is a proposal of a room or a withdrawal.                      *)
LEMMA MessageKinds ==
    /\ None \notin Rooms /\ None \notin Socks /\ None \notin Withdrawals
    /\ CountFrom \in Nat /\ CountFrom > 0
    /\ \A r \in Rooms : Proposal(r) \in Messages /\ Proposal(r) \notin Withdrawals
    /\ \A m \in Withdrawals : m \in Messages /\ m.room = None
  BY NoneAssumption, CountAssumption DEF Messages, Withdrawals, Proposal

LEMMA InitIInv == Init => IInv
<1> SUFFICES ASSUME Init PROVE IInv
  OBVIOUS
<1>1. PICK s \in Socks :
         /\ readyState = [t \in Socks |-> IF t = s THEN "connecting" ELSE "closed"]
         /\ socketRef = s
  BY DEF Init
<1>2. <<>> \in Seq(Messages)
  BY EmptySeq
<1>3. CountFrom \in Nat \ {0}
  BY CountAssumption
<1>4. PageOK /\ ServerOK
  <2>1. /\ readyState \in [Socks -> {"connecting", "open", "closing", "closed"}]
        /\ socketRef \in Socks \cup {None}
    BY <1>1
  <2>2. connected \in BOOLEAN /\ dirty \in BOOLEAN /\ timer \in BOOLEAN
    BY Zenon DEF Init
  <2>3. /\ countdown \in -1..CountFrom /\ counted \in 0..CountFrom
        /\ shown \in [room : Rooms \cup {None}, count : -1..CountFrom]
    BY <1>3 DEF Init
  <2> QED
    BY <1>2, <2>1, <2>2, <2>3 DEF Init, PageOK, ServerOK
<1>5. None # socketRef
  BY <1>1, NoneAssumption
<1>6. RefIsLive /\ NoneClosing
  BY <1>1 DEF RefIsLive, NoneClosing
<1>7. Counting /\ Searching
  BY <1>3 DEF Init, Counting, Searching
<1> QED
  BY <1>4, <1>6, <1>7 DEF IInv

-----------------------------------------------------------------------------
(* The server and the websockets.                                          *)

LEMMA ServerStep ==
    ASSUME IInv, NEW s \in Socks, Propose(s) \/ Withdraw(s)
    PROVE  IInv'
<1>1. /\ PageOK /\ ServerOK /\ RefIsLive /\ Counting /\ NoneClosing /\ Searching
      /\ UNCHANGED <<readyState, hook, view, fetching, tokens, sent, refused, page, call>>
  BY DEF IInv, Propose, Withdraw, ServerSends
<1>2. UNCHANGED <<readyState, socketRef, connected, message, matchInfo, countdown, partnerData,
                  shown, dirty, timer, counted, fetching, tokens, sent, refused, page, call>>
  BY <1>1 DEF hook, view
<1>3. \E m \in Messages : inbox' = [inbox EXCEPT ![s] = Append(@, m)]
  BY MessageKinds DEF Propose, Withdraw, ServerSends
<1>4. inbox' \in [Socks -> Seq(Messages)]
  BY <1>1, <1>3, AppendProperties DEF ServerOK
<1>5. ServerOK'
  BY <1>1, <1>4 DEF Propose, Withdraw, ServerOK
<1>6. PageOK' /\ RefIsLive' /\ Counting' /\ NoneClosing' /\ Searching'
  BY <1>1, <1>2 DEF PageOK, RefIsLive, Counting, NoneClosing, Searching, Alive
<1> QED
  BY <1>5, <1>6 DEF IInv

LEMMA OnOpenStep ==
    ASSUME IInv, NEW s \in Socks, OnOpen(s)
    PROVE  IInv'
<1>1. /\ PageOK /\ ServerOK /\ RefIsLive /\ Counting /\ NoneClosing /\ Searching
      /\ readyState[s] = "connecting" /\ readyState' = [readyState EXCEPT ![s] = "open"]
      /\ UNCHANGED <<socketRef, connected, message, matchInfo, countdown, partnerData,
                     shown, dirty, timer, counted, fetching, tokens, sent, refused, page, call>>
      /\ UNCHANGED <<inbox, offered, used>>
  BY DEF IInv, OnOpen, hook, view
<1>2. PageOK' /\ ServerOK'
  BY <1>1 DEF PageOK, ServerOK
<1>3. RefIsLive' /\ Counting' /\ NoneClosing'
  BY <1>1 DEF PageOK, RefIsLive, Counting, NoneClosing
<1>4. Alive' = Alive
  BY <1>1 DEF PageOK, Alive
<1>5. Searching'
  BY <1>1, <1>4 DEF Searching
<1> QED
  BY <1>2, <1>3, <1>5 DEF IInv

LEMMA OnMessageStep ==
    ASSUME IInv, NEW s \in Socks, OnMessage(s)
    PROVE  IInv'
<1>1. /\ PageOK /\ ServerOK /\ RefIsLive /\ Counting /\ NoneClosing /\ Searching
      /\ inbox[s] # <<>> /\ inbox' = [inbox EXCEPT ![s] = Tail(@)]
      /\ message' = IF page = "waiting" THEN Head(inbox[s]) ELSE message
      /\ dirty' = (dirty \/ page = "waiting")
      /\ UNCHANGED <<readyState, offered, used, socketRef, connected, matchInfo,
                     countdown, partnerData, shown, timer, counted, fetching,
                     tokens, sent, refused, page, call>>
  BY DEF IInv, OnMessage, Touch
<1>2. inbox[s] \in Seq(Messages)
  BY <1>1 DEF ServerOK
<1>3. Head(inbox[s]) \in Messages /\ Tail(inbox[s]) \in Seq(Messages)
  BY <1>1, <1>2, HeadTailProperties
<1>4. ServerOK'
  BY <1>1, <1>3 DEF ServerOK
<1>5. message' \in Messages \cup {None} /\ dirty' \in BOOLEAN
  BY <1>1, <1>3 DEF PageOK
<1>6. PageOK'
  BY <1>1, <1>5 DEF PageOK
<1>7. RefIsLive' /\ Counting' /\ NoneClosing'
  BY <1>1 DEF RefIsLive, Counting, NoneClosing
<1>8. Searching'
  BY <1>1 DEF Searching
<1> QED
  BY <1>4, <1>6, <1>7, <1>8 DEF IInv

LEMMA OnCloseStep ==
    ASSUME IInv, NEW s \in Socks, OnClose(s)
    PROVE  IInv'
<1>1. /\ PageOK /\ ServerOK /\ Counting /\ NoneClosing /\ Searching
      /\ readyState' = [readyState EXCEPT ![s] = "closed"]
      /\ inbox' = [inbox EXCEPT ![s] = <<>>]
      /\ offered' = [offered EXCEPT ![s] = None]
      /\ socketRef' = None /\ connected' = FALSE
      /\ dirty' = (dirty \/ (page = "waiting" /\ connected))
      /\ UNCHANGED <<used, message, matchInfo, countdown, partnerData, shown,
                     timer, counted, fetching, tokens, sent, refused, page, call>>
  BY DEF IInv, OnClose, Touch
<1>2. <<>> \in Seq(Messages)
  BY EmptySeq
<1>3. ServerOK'
  BY <1>1, <1>2 DEF ServerOK
<1>4. dirty' \in BOOLEAN
  BY <1>1
<1>5. PageOK'
  BY <1>1, <1>4 DEF PageOK
<1>6. RefIsLive' /\ Counting' /\ NoneClosing'
  BY <1>1 DEF PageOK, RefIsLive, Counting, NoneClosing
<1>7. Searching'
  BY <1>1 DEF Searching
<1> QED
  BY <1>3, <1>5, <1>6, <1>7 DEF IInv

-----------------------------------------------------------------------------
(* The page.                                                               *)

(* What the message effect leaves.                                         *)
LEMMA MessageEffectStep ==
    ASSUME IInv, page = "waiting", MessageEffect, UNCHANGED <<message, page>>
    PROVE  /\ readyState' \in [Socks -> {"connecting", "open", "closing", "closed"}]
           /\ socketRef' \in Socks \cup {None}
           /\ connected' \in BOOLEAN /\ dirty' \in BOOLEAN
           /\ matchInfo' \in Rooms \cup {None}
           /\ countdown' \in -1..CountFrom /\ counted' \in 0..CountFrom
           /\ fetching' \subseteq Rooms
           /\ RefIsLive' /\ NoneClosing' /\ Searching'
           /\ \/ UNCHANGED <<matchInfo, countdown, counted>>
              \/ matchInfo' \in Rooms /\ countdown' = CountFrom /\ counted' = 0
              \/ matchInfo' = None /\ countdown' = 0
<1>1. PageOK /\ RefIsLive /\ NoneClosing /\ Searching
  BY DEF IInv
<1>2. CASE /\ message = None \/ message = Proposal(matchInfo)
           /\ dirty' = FALSE
           /\ UNCHANGED <<readyState, socketRef, connected, matchInfo, countdown, counted, fetching>>
  <2>1. message \notin Withdrawals
    BY <1>2, MessageKinds DEF Withdrawals, Proposal
  <2>2. RefIsLive' /\ NoneClosing' /\ Searching'
    BY <1>1, <1>2, <2>1 DEF RefIsLive, NoneClosing, Searching
  <2>3. connected' \in BOOLEAN /\ dirty' \in BOOLEAN
    BY <1>1, <1>2, Zenon DEF PageOK
  <2> QED
    BY <1>1, <1>2, <2>2, <2>3 DEF PageOK
<1>3. ASSUME NEW r \in Rooms, message = Proposal(r), TakeUp(r)
      PROVE  /\ readyState' \in [Socks -> {"connecting", "open", "closing", "closed"}]
             /\ socketRef' \in Socks \cup {None}
             /\ connected' \in BOOLEAN /\ dirty' \in BOOLEAN
             /\ matchInfo' \in Rooms \cup {None}
             /\ countdown' \in -1..CountFrom /\ counted' \in 0..CountFrom
             /\ fetching' \subseteq Rooms
             /\ RefIsLive' /\ NoneClosing' /\ Searching'
             /\ matchInfo' \in Rooms /\ countdown' = CountFrom /\ counted' = 0
  <2>1. /\ matchInfo' = r /\ countdown' = CountFrom /\ counted' = 0
        /\ fetching' = fetching \cup {r} /\ dirty' = TRUE
        /\ UNCHANGED <<readyState, socketRef, connected>>
    BY <1>3 DEF TakeUp
  <2>2. RefIsLive' /\ NoneClosing' /\ Searching'
    BY <1>1, <2>1 DEF RefIsLive, NoneClosing, Searching
  <2>3. connected' \in BOOLEAN /\ dirty' \in BOOLEAN
    BY <1>1, <2>1, Zenon DEF PageOK
  <2>4. countdown' \in -1..CountFrom /\ counted' \in 0..CountFrom
    BY <2>1, MessageKinds
  <2> QED
    BY <1>1, <2>1, <2>2, <2>3, <2>4 DEF PageOK
<1>4. CASE message \in Withdrawals /\ StartOver
  <2>1. /\ connected' = TRUE /\ matchInfo' = None /\ countdown' = 0 /\ counted' = 0
        /\ fetching' = fetching
        /\ dirty' = (matchInfo # None \/ countdown # 0 \/ ~connected)
    BY <1>4 DEF StartOver, Connect
  <2>2. /\ readyState' \in [Socks -> {"connecting", "open", "closing", "closed"}]
        /\ socketRef' \in Socks \cup {None}
        /\ RefIsLive' /\ NoneClosing' /\ Alive' # {}
    <3>1. ASSUME NEW s \in Closed, readyState' = [readyState EXCEPT ![s] = "connecting"],
                 socketRef' = s
          PROVE  /\ readyState' \in [Socks -> {"connecting", "open", "closing", "closed"}]
                 /\ socketRef' \in Socks \cup {None}
                 /\ RefIsLive' /\ NoneClosing' /\ Alive' # {}
      <4>1. s \in Socks
        BY DEF Closed
      <4> QED
        BY <1>1, <3>1, <4>1 DEF PageOK, RefIsLive, NoneClosing, Alive
    <3>2. CASE Closed = {} /\ UNCHANGED <<readyState, socketRef>>
      <4>1. PICK s \in Socks : TRUE
        BY <1>1 DEF NoneClosing
      <4>2. s \in Alive
        BY <1>1, <3>2, <4>1 DEF NoneClosing, PageOK, Closed, Alive
      <4>3. Alive' = Alive
        BY <3>2 DEF Alive
      <4> QED
        BY <1>1, <3>2, <4>2, <4>3 DEF PageOK, RefIsLive, NoneClosing
    <3> QED
      BY <1>4, <3>1, <3>2 DEF StartOver, Connect
  <2>3. connected' \in BOOLEAN /\ dirty' \in BOOLEAN
    BY <2>1, Zenon
  <2>4. countdown' \in -1..CountFrom /\ counted' \in 0..CountFrom
    BY <2>1, MessageKinds
  <2>5. Searching'
    BY <2>1, <2>2 DEF Searching
  <2> QED
    BY <1>1, <2>1, <2>2, <2>3, <2>4, <2>5 DEF PageOK
<1> QED
  BY <1>2, <1>3, <1>4 DEF MessageEffect

(* The page enters a room when its proposal has been counted down.         *)
LEMMA CountdownEffectStep ==
    ASSUME IInv, CountdownEffect
    PROVE  /\ timer' \in BOOLEAN
           /\ timer' => timer \/ (matchInfo # None /\ countdown > 0)
           /\ timer' /\ matchInfo # None => countdown > 0
           /\ timer' => countdown >= 0
           /\ tokens' \subseteq [room : Rooms, data : Rooms \cup {None}]
           /\ sent' \subseteq Events
           /\ \A t \in tokens' \ tokens : counted = CountFrom
<1>1. PageOK /\ Counting
  BY DEF IInv
<1>2. CASE UNCHANGED <<timer, tokens, sent>>
  BY <1>1, <1>2 DEF PageOK, Counting
<1>3. CASE /\ \/ /\ matchInfo # None
                 /\ countdown <= 0
                 /\ EnterVoiceRoom
              \/ /\ ~(matchInfo # None /\ countdown <= 0)
                 /\ UNCHANGED <<tokens, sent>>
           /\ timer' = (matchInfo # None /\ countdown > 0)
  <2>1. timer' \in BOOLEAN /\ (timer' => matchInfo # None /\ countdown > 0)
    BY <1>3, Zenon
  <2>c. countdown > 0 => countdown >= 0
    BY <1>1 DEF PageOK
  <2>2. CASE matchInfo # None /\ countdown <= 0 /\ EnterVoiceRoom
    <3>1. matchInfo \in Rooms /\ partnerData \in Rooms \cup {None}
      BY <1>1, <2>2 DEF PageOK
    <3>2. counted = CountFrom
      BY <1>1, <2>2, MessageKinds DEF Counting, PageOK
    <3>3. tokens' = tokens \cup {[room |-> matchInfo, data |-> partnerData]}
      BY <2>2 DEF EnterVoiceRoom
    <3>4. sent' = sent \/ sent' = sent \cup {[event |-> "entered", room |-> matchInfo]}
      BY <2>2 DEF EnterVoiceRoom, Send
    <3>5. sent' \subseteq Events
      BY <1>1, <3>1, <3>4 DEF PageOK, Events
    <3>6. tokens' \subseteq [room : Rooms, data : Rooms \cup {None}]
      BY <1>1, <3>1, <3>3 DEF PageOK
    <3> QED
      BY <2>1, <2>c, <3>2, <3>5, <3>6
  <2>3. CASE UNCHANGED <<tokens, sent>>
    BY <1>1, <2>1, <2>c, <2>3 DEF PageOK
  <2> QED
    BY <1>3, <2>2, <2>3
<1> QED
  BY <1>2, <1>3 DEF CountdownEffect

LEMMA RenderStep == ASSUME IInv, Render PROVE IInv'
<1>1. /\ PageOK /\ ServerOK /\ Counting
      /\ page = "waiting" /\ MessageEffect /\ CountdownEffect
      /\ shown' = [room |-> matchInfo, count |-> countdown]
      /\ UNCHANGED <<inbox, offered, used, message, partnerData, refused, page, call>>
  BY DEF IInv, Render
<1>2. /\ readyState' \in [Socks -> {"connecting", "open", "closing", "closed"}]
      /\ socketRef' \in Socks \cup {None}
      /\ connected' \in BOOLEAN /\ dirty' \in BOOLEAN
      /\ matchInfo' \in Rooms \cup {None}
      /\ countdown' \in -1..CountFrom /\ counted' \in 0..CountFrom
      /\ fetching' \subseteq Rooms
      /\ RefIsLive' /\ NoneClosing' /\ Searching'
      /\ \/ UNCHANGED <<matchInfo, countdown, counted>>
         \/ matchInfo' \in Rooms /\ countdown' = CountFrom /\ counted' = 0
         \/ matchInfo' = None /\ countdown' = 0
  BY <1>1, MessageEffectStep
<1>3. /\ timer' \in BOOLEAN
      /\ timer' /\ matchInfo # None => countdown > 0
      /\ timer' => countdown >= 0
      /\ tokens' \subseteq [room : Rooms, data : Rooms \cup {None}]
      /\ sent' \subseteq Events
  BY <1>1, CountdownEffectStep
<1>4. ServerOK'
  BY <1>1 DEF ServerOK
<1>5. PageOK'
  BY <1>1, <1>2, <1>3 DEF PageOK
<1>6. Counting'
  BY <1>1, <1>2, <1>3, MessageKinds DEF Counting
<1> QED
  BY <1>2, <1>4, <1>5, <1>6 DEF IInv

LEMMA TickStep == ASSUME IInv, Tick PROVE IInv'
<1>1. /\ PageOK /\ ServerOK /\ RefIsLive /\ Counting /\ NoneClosing /\ Searching
      /\ timer /\ timer' = FALSE
      /\ countdown' = countdown - 1
      /\ counted' = IF counted < CountFrom THEN counted + 1 ELSE counted
      /\ dirty' = (dirty \/ page = "waiting")
      /\ UNCHANGED <<readyState, inbox, offered, used, socketRef, connected, message, matchInfo,
                     partnerData, shown, fetching, tokens, sent, refused, page, call>>
  BY DEF IInv, Tick, Touch, hook
<1>2. countdown \in -1..CountFrom /\ counted \in 0..CountFrom /\ countdown >= 0
  BY <1>1 DEF PageOK, Counting
<1>3. countdown' \in -1..CountFrom /\ counted' \in 0..CountFrom
  BY <1>1, <1>2, MessageKinds
<1>4. timer' \in BOOLEAN /\ dirty' \in BOOLEAN
  BY <1>1, Zenon
<1>5. PageOK' /\ ServerOK'
  BY <1>1, <1>3, <1>4 DEF PageOK, ServerOK
<1>6. Counting'
  BY <1>1, <1>2, MessageKinds DEF Counting
<1>7. RefIsLive' /\ NoneClosing'
  BY <1>1 DEF RefIsLive, NoneClosing
<1>8. Searching'
  BY <1>1 DEF Searching, Alive
<1> QED
  BY <1>5, <1>6, <1>7, <1>8 DEF IInv

LEMMA PartnerArrivesStep ==
    ASSUME IInv, NEW r \in Rooms, PartnerArrives(r)
    PROVE  IInv'
<1>1. /\ PageOK /\ ServerOK /\ RefIsLive /\ Counting /\ NoneClosing /\ Searching
      /\ fetching' = fetching \ {r}
      /\ partnerData' \in {partnerData, r} /\ (dirty' = TRUE \/ dirty' = dirty)
      /\ UNCHANGED <<readyState, inbox, offered, used, socketRef, connected, message, matchInfo,
                     countdown, shown, timer, counted, tokens, sent, refused, page, call>>
  BY DEF IInv, PartnerArrives, hook
<1>2. dirty' \in BOOLEAN
  BY <1>1, Zenon DEF PageOK
<1>3. PageOK' /\ ServerOK'
  BY <1>1, <1>2 DEF PageOK, ServerOK
<1>4. RefIsLive' /\ NoneClosing' /\ Counting'
  BY <1>1 DEF RefIsLive, NoneClosing, Counting
<1>5. Searching'
  BY <1>1 DEF Searching, Alive
<1> QED
  BY <1>3, <1>4, <1>5 DEF IInv

LEMMA HandleRejectStep == ASSUME IInv, HandleReject PROVE IInv'
<1>1. /\ PageOK /\ ServerOK /\ RefIsLive /\ Counting /\ NoneClosing
      /\ shown.room # None
      /\ sent' = sent \/ sent' = sent \cup {[event |-> "rejected", room |-> shown.room]}
      /\ refused' = refused \cup {shown.room}
      /\ matchInfo' = None /\ countdown' = 0 /\ dirty' = TRUE
      /\ UNCHANGED <<readyState, inbox, offered, used, socketRef, connected, message, partnerData,
                     shown, timer, counted, fetching, tokens, page, call>>
  BY DEF IInv, HandleReject, Send, hook
<1>2. shown.room \in Rooms
  BY <1>1 DEF PageOK
<1>3. refused' \subseteq Rooms /\ sent' \subseteq Events
  BY <1>1, <1>2 DEF PageOK, Events
<1>4. countdown' \in -1..CountFrom
  BY <1>1, MessageKinds
<1>5. dirty' \in BOOLEAN
  BY <1>1, Zenon
<1>6. PageOK' /\ ServerOK'
  BY <1>1, <1>3, <1>4, <1>5 DEF PageOK, ServerOK
<1>7. RefIsLive' /\ NoneClosing' /\ Counting' /\ Searching'
  BY <1>1 DEF RefIsLive, NoneClosing, Counting, Searching
<1> QED
  BY <1>6, <1>7 DEF IInv

(* The page goes, for another page or into the room.                       *)
LEMMA UnmountStep ==
    ASSUME IInv, Unmount, page' \in {"away", "call"}, call' \in Rooms \cup {None},
           tokens' \subseteq tokens,
           UNCHANGED <<inbox, offered, used, socketRef, connected, sent, refused>>
    PROVE  IInv'
<1>1. /\ PageOK /\ ServerOK /\ RefIsLive /\ NoneClosing
      /\ readyState' = Disconnected(readyState)
      /\ message' = None /\ matchInfo' = None /\ countdown' = 0 /\ partnerData' = None
      /\ shown' = [room |-> None, count |-> 0]
      /\ dirty' = FALSE /\ timer' = FALSE /\ counted' = 0 /\ fetching' = {}
  BY DEF IInv, Unmount
<1>2. \/ readyState' = readyState
      \/ /\ socketRef \in Socks
         /\ readyState' = [readyState EXCEPT ![socketRef] = "closing"]
  BY <1>1 DEF Disconnected, PageOK
<1>3. /\ readyState' \in [Socks -> {"connecting", "open", "closing", "closed"}]
      /\ RefIsLive'
  BY <1>1, <1>2 DEF PageOK, RefIsLive
<1>4. dirty' \in BOOLEAN /\ timer' \in BOOLEAN
  BY <1>1, Zenon
<1>5. /\ countdown' \in -1..CountFrom /\ counted' \in 0..CountFrom
      /\ shown' \in [room : Rooms \cup {None}, count : -1..CountFrom]
  BY <1>1, MessageKinds
<1>6. PageOK' /\ ServerOK'
  BY <1>1, <1>3, <1>4, <1>5 DEF PageOK, ServerOK
<1>7. NoneClosing' /\ Counting' /\ Searching'
  BY <1>1 DEF NoneClosing, Counting, Searching
<1> QED
  BY <1>3, <1>6, <1>7 DEF IInv

LEMMA TokenArrivesStep ==
    ASSUME IInv, NEW t \in tokens, TokenArrives(t)
    PROVE  IInv'
<1>1. CASE Unmount /\ page' = "call" /\ call' = t.room
  <2>1. t.room \in Rooms
    BY DEF IInv, PageOK
  <2> QED
    BY <1>1, <2>1, UnmountStep DEF TokenArrives
<1>2. CASE UNCHANGED <<readyState, message, view, fetching, page, call>>
  <2>1. /\ PageOK /\ ServerOK /\ RefIsLive /\ Counting /\ NoneClosing /\ Searching
        /\ tokens' \subseteq tokens
        /\ UNCHANGED <<readyState, inbox, offered, used, socketRef, connected, message, matchInfo,
                       countdown, partnerData, shown, dirty, timer, counted, fetching, sent,
                       refused, page, call>>
    BY <1>2 DEF IInv, TokenArrives, view
  <2>2. PageOK' /\ ServerOK'
    BY <2>1 DEF PageOK, ServerOK
  <2>3. RefIsLive' /\ NoneClosing' /\ Counting'
    BY <2>1 DEF RefIsLive, NoneClosing, Counting
  <2>4. Searching'
    BY <2>1 DEF Searching, Alive
  <2> QED
    BY <2>2, <2>3, <2>4 DEF IInv
<1> QED
  BY <1>1, <1>2 DEF TokenArrives

LEMMA LeaveStep == ASSUME IInv, Leave PROVE IInv'
<1>1. call \in Rooms \cup {None}
  BY DEF IInv, PageOK
<1> QED
  BY <1>1, UnmountStep DEF Leave

-----------------------------------------------------------------------------
(* The theorems.                                                           *)

LEMMA NextIInv == IInv /\ [Next]_vars => IInv'
<1> SUFFICES ASSUME IInv, [Next]_vars PROVE IInv'
  OBVIOUS
<1>1. CASE UNCHANGED vars
  <2>1. /\ PageOK /\ ServerOK /\ RefIsLive /\ Counting /\ NoneClosing /\ Searching
        /\ UNCHANGED <<readyState, inbox, offered, used, socketRef, connected, message, matchInfo,
                       countdown, partnerData, shown, dirty, timer, counted, fetching, tokens,
                       sent, refused, page, call>>
    BY <1>1 DEF IInv, vars
  <2>2. PageOK' /\ ServerOK'
    BY <2>1 DEF PageOK, ServerOK
  <2>3. RefIsLive' /\ NoneClosing' /\ Counting'
    BY <2>1 DEF RefIsLive, NoneClosing, Counting
  <2>4. Searching'
    BY <2>1 DEF Searching, Alive
  <2> QED
    BY <2>2, <2>3, <2>4 DEF IInv
<1> QED
  BY <1>1, ServerStep, OnOpenStep, OnMessageStep, OnCloseStep, RenderStep, TickStep,
     PartnerArrivesStep, TokenArrivesStep, HandleRejectStep, LeaveStep DEF Next

LEMMA SpecIInv == Spec => []IInv
  BY InitIInv, NextIInv, PTL DEF Spec

(* Every reachable state is well-typed: the countdown is off by one at     *)
(* most, after a withdrawal.                                               *)
THEOREM TypeCorrect == Spec => []TypeOK
<1>1. IInv => TypeOK
  BY DEF IInv, PageOK, ServerOK, TypeOK
<1> QED
  BY <1>1, SpecIInv, PTL

(* The hook never holds on to a closed websocket.                          *)
THEOREM RefStaysLive == Spec => []RefIsLive
<1>1. IInv => RefIsLive
  BY DEF IInv
<1> QED
  BY <1>1, SpecIInv, PTL

(* A page that has rendered a withdrawal has a websocket to search on.     *)
THEOREM SearchAlwaysGoesOn == Spec => []SearchGoesOn
<1>1. IInv => SearchGoesOn
  BY DEF IInv, Searching, SearchGoesOn
<1> QED
  BY <1>1, SpecIInv, PTL

(* A room is entered only after its full countdown.                        *)
LEMMA EnteredInTime ==
    ASSUME IInv, [Next]_vars
    PROVE  \A t \in tokens' \ tokens : counted = CountFrom
<1>1. CASE Render
  BY <1>1, CountdownEffectStep DEF Render
<1>2. CASE ~Render
  <2>1. tokens' \subseteq tokens
    BY <1>2 DEF Next, vars, Propose, Withdraw, ServerSends, OnOpen, OnMessage, OnClose, Tick,
       PartnerArrives, TokenArrives, HandleReject, Leave
  <2> QED
    BY <2>1
<1> QED
  BY <1>1, <1>2

THEOREM CountdownIsFull == Spec => FullCountdown
<1>1. IInv /\ [Next]_vars => [\A t \in tokens' \ tokens : counted = CountFrom]_vars
  BY EnteredInTime
<1> QED
  BY <1>1, SpecIInv, PTL DEF Spec, FullCountdown
=============================================================================
