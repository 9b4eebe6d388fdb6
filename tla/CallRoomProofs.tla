-------------------------- MODULE CallRoomProofs --------------------------
(* Proofs about CallRoom, for any two users, times and bounds.             *)
EXTENDS CallRoom, SequenceTheorems, FiniteSetTheorems, TLAPS

(***************************************************************************)
(* The inductive invariant.                                                *)
(***************************************************************************)

(* What holds of one side: only a mounted page is in the room and hears of *)
(* it, a timeout is armed for a time that is left, and what a countdown    *)
(* has had, has and will get is what the extensions granted, all of it     *)
(* unless some were not heard.                                             *)
Side(s) ==
    /\ s \in members => page[s] = "ui"
    /\ page[s] # "ui" => inbox[s] = <<>> /\ time[s] = 0 /\ elapsed[s] = 0 /\ ~armed[s]
    /\ armed[s] => time[s] > 0
    /\ page[s] = "ui" => Total(s) <= CallTime + Extension * extends
    /\ page[s] = "ui" /\ ~unheard => Total(s) = CallTime + Extension * extends
    /\ page[s] = "entering" /\ ~unheard => extends = 0

(* Of who is home and has nothing under way that saves his visit, it is    *)
(* settled what became of it.                                              *)
Recorded == \A s \in Sides : page[s] = "home" /\ ~Saves(s) => history[s] # "none"

(* The types but for the bounds of the countdown, which Side implies.      *)
Types ==
    /\ page \in [Sides -> {"entering", "ui", "home"}]
    /\ time \in [Sides -> Nat]
    /\ armed \in [Sides -> BOOLEAN]
    /\ dirty \in [Sides -> BOOLEAN]
    /\ elapsed \in [Sides -> Nat]
    /\ user \in [Sides -> BOOLEAN]
    /\ handler \in [Sides -> BOOLEAN]
    /\ leaving \in [Sides -> [1..MaxLeaves -> Routine]]
    /\ inbox \in [Sides -> Seq(Events)]
    /\ members \subseteq Sides \cup {Agent}
    /\ open \in BOOLEAN
    /\ called \in BOOLEAN
    /\ history \in [Sides -> Histories]
    /\ extends \in 0..MaxExtends
    /\ unheard \in BOOLEAN
    /\ returned \subseteq Sides

IInv == Types /\ Recorded /\ \A s \in Sides : Side(s)

-----------------------------------------------------------------------------
(* Extensions in an inbox.                                                 *)

Extends(q) == {i \in DOMAIN q : q[i] = "extend"}

LEMMA ExtendsFinite ==
    ASSUME NEW q \in Seq(Events)
    PROVE  IsFiniteSet(Extends(q)) /\ Cardinality(Extends(q)) \in Nat
<1>1. DOMAIN q = 1..Len(q) /\ Len(q) \in Nat
  BY LenProperties
<1>2. IsFiniteSet(1..Len(q))
  BY <1>1, FS_Interval
<1>3. Extends(q) \in SUBSET (1..Len(q))
  BY <1>1 DEF Extends
<1> QED
  BY <1>2, <1>3, FS_Subset, FS_CardinalityType

LEMMA ExtendsNone == Extends(<<>>) = {} /\ Cardinality({}) = 0
  BY FS_EmptySet DEF Extends

LEMMA ExtendsAppend ==
    ASSUME NEW q \in Seq(Events), NEW e \in Events
    PROVE  Cardinality(Extends(Append(q, e))) =
             IF e = "extend" THEN Cardinality(Extends(q)) + 1 ELSE Cardinality(Extends(q))
<1> DEFINE t == Append(q, e)
           n == Len(q) + 1
<1>1. /\ DOMAIN q = 1..Len(q) /\ Len(q) \in Nat /\ DOMAIN t = 1..n
      /\ \A i \in 1..Len(q) : t[i] = q[i]
      /\ t[n] = e
  BY AppendProperties, LenProperties
<1> HIDE DEF t
<1>2. n \notin Extends(q)
  BY <1>1 DEF Extends
<1>3. CASE e = "extend"
  <2>1. Extends(t) = Extends(q) \cup {n}
    BY <1>1, <1>3 DEF Extends
  <2> QED
    BY <1>2, <1>3, <2>1, ExtendsFinite, FS_AddElement DEF t
<1>4. CASE e # "extend"
  <2>1. Extends(t) = Extends(q)
    BY <1>1, <1>4 DEF Extends
  <2> QED
    BY <1>4, <2>1 DEF t
<1> QED
  BY <1>3, <1>4

LEMMA ExtendsTail ==
    ASSUME NEW q \in Seq(Events), q # <<>>, Head(q) = "extend"
    PROVE  Cardinality(Extends(q)) = Cardinality(Extends(Tail(q))) + 1
<1> DEFINE t == Tail(q)
<1>1. /\ t \in Seq(Events)
      /\ DOMAIN q = 1..Len(q) /\ Len(q) \in Nat /\ Len(q) >= 1
      /\ DOMAIN t = 1..(Len(q) - 1)
      /\ \A i \in 1..(Len(q) - 1) : t[i] = q[i + 1]
      /\ q[1] = "extend"
  BY HeadTailProperties, LenProperties, EmptySeq
<1> HIDE DEF t
<1> DEFINE S == Extends(q) \ {1}
           f == [i \in Extends(t) |-> i + 1]
<1>2. f \in Bijection(Extends(t), S)
  <2>1. \A i \in Extends(t) : i \in Nat /\ i + 1 \in S
    BY <1>1 DEF Extends
  <2>2. \A k \in S : k - 1 \in Extends(t) /\ (k - 1) + 1 = k
    BY <1>1 DEF Extends
  <2>3. f \in [Extends(t) -> S]
    BY <2>1
  <2>4. \A k \in S : \E i \in Extends(t) : f[i] = k
    BY <2>2
  <2>5. \A i, k \in Extends(t) : f[i] = f[k] => i = k
    BY <2>1
  <2> QED
    BY <2>3, <2>4, <2>5 DEF Bijection, Injection, Surjection, IsInjective
<1>3. Cardinality(S) = Cardinality(Extends(t))
  BY <1>1, <1>2, ExtendsFinite, FS_Bijection DEF ExistsBijection
<1>4. 1 \in Extends(q)
  BY <1>1 DEF Extends
<1>5. Cardinality(S) = Cardinality(Extends(q)) - 1
  BY <1>4, ExtendsFinite, FS_RemoveElement
<1> QED
  BY <1>1, <1>3, <1>5, ExtendsFinite DEF t

(* What n extensions grant.                                                *)
LEMMA Times ==
    /\ \A n \in Nat : /\ Extension * n \in Nat
                      /\ Extension * (n + 1) = Extension * n + Extension
    /\ \A n \in 0..MaxExtends : CallTime + Extension * n <= Granted
    /\ CallTime \in Nat \ {0} /\ Extension \in Nat /\ Granted \in Nat
    /\ Extension * 0 = 0
<1>1. /\ CallTime \in Nat \ {0} /\ Extension \in Nat /\ MaxExtends \in Nat
  BY TimeAssumption, BoundAssumption
<1>2. \A n \in Nat : /\ Extension * n \in Nat
                     /\ Extension * (n + 1) = Extension * n + Extension
  BY <1>1
<1>3. ASSUME NEW n \in 0..MaxExtends
      PROVE  Extension * n <= MaxExtends * Extension
  <2>1. \A a, b, c \in Nat : a <= b => c * a <= b * c
    OBVIOUS
  <2> QED
    BY <1>1, <2>1
<1>4. MaxExtends * Extension \in Nat
  BY <1>1
<1> QED
  BY <1>1, <1>2, <1>3, <1>4 DEF Granted

(* Total, by the extensions in the inbox.                                  *)
LEMMA TotalIs ==
    \A s : Total(s) = time[s] + elapsed[s] + Extension * Cardinality(Extends(inbox[s]))
  BY DEF Total, Extends

LEMMA TotalIsNext ==
    \A s : Total(s)' = time'[s] + elapsed'[s] + Extension * Cardinality(Extends(inbox'[s]))
  BY DEF Total, Extends

LEMMA InitIInv == Init => IInv
<1> SUFFICES ASSUME Init PROVE IInv
  OBVIOUS
<1>1. /\ Types
  <2>1. <<>> \in Seq(Events)
    BY EmptySeq
  <2>2. [i \in 1..MaxLeaves |-> Idle] \in [1..MaxLeaves -> Routine]
    BY DEF Idle, Routine
  <2>3. 0 \in 0..MaxExtends
    BY BoundAssumption
  <2>4. /\ armed \in [Sides -> BOOLEAN] /\ dirty \in [Sides -> BOOLEAN]
        /\ user \in [Sides -> BOOLEAN] /\ handler \in [Sides -> BOOLEAN]
        /\ open \in BOOLEAN /\ called \in BOOLEAN /\ unheard \in BOOLEAN
    BY Zenon DEF Init
  <2> QED
    BY <2>1, <2>2, <2>3, <2>4 DEF Init, Types, Histories
<1>2. Recorded
  BY DEF Init, Recorded
<1>3. \A s \in Sides : Side(s)
  BY DEF Init, Side
<1> QED
  BY <1>1, <1>2, <1>3 DEF IInv

-----------------------------------------------------------------------------
(* What a step leaves of the other sides.                                  *)

(* What a side that nothing happens to may be told.                        *)
Hears(t) ==
    \/ inbox'[t] = inbox[t]
    \/ t \in members /\ inbox'[t] = Append(inbox[t], "left")

(* A side at which nothing happens keeps its part.                         *)
LEMMA OtherSide ==
    ASSUME Types, NEW t \in Sides, Side(t), Hears(t),
           page'[t] = page[t], time'[t] = time[t], elapsed'[t] = elapsed[t],
           armed'[t] => armed[t],
           t \in members' => t \in members, extends' = extends, ~unheard' => ~unheard
    PROVE  Side(t)'
<1>1. Cardinality(Extends(inbox'[t])) = Cardinality(Extends(inbox[t]))
  <2>1. inbox[t] \in Seq(Events)
    BY DEF Types
  <2>2. "left" \in Events /\ "left" # "extend"
    BY DEF Events
  <2> QED
    BY <2>1, <2>2, ExtendsAppend DEF Hears
<1>2. Total(t)' = Total(t)
  BY <1>1, TotalIs, TotalIsNext
<1>3. page[t] # "ui" => inbox'[t] = <<>>
  BY DEF Side, Hears
<1> QED
  BY <1>2, <1>3 DEF Side

(* Who has gone from the page.                                             *)
LEMMA GoneSide ==
    ASSUME NEW s \in Sides, s \notin members', page'[s] # "ui", inbox'[s] = <<>>,
           time'[s] = 0, elapsed'[s] = 0, ~armed'[s],
           page'[s] = "entering" /\ ~unheard' => extends' = 0
    PROVE  Side(s)'
  BY DEF Side

LEMMA ToldFacts ==
    ASSUME Types, NEW S, S \subseteq members, NEW p, inbox' = Told(S, p, "left")
    PROVE  /\ inbox' \in [Sides -> Seq(Events)]
           /\ \A t \in Sides \ {p} : Hears(t)
           /\ p \in Sides => inbox'[p] = <<>>
<1>1. \A t \in Sides : inbox[t] \in Seq(Events) /\ Append(inbox[t], "left") \in Seq(Events)
  BY AppendProperties DEF Types, Events
<1>2. <<>> \in Seq(Events)
  BY EmptySeq
<1> QED
  BY <1>1, <1>2 DEF Told, Hears

LEMMA DepartsFacts ==
    ASSUME Types, NEW p \in Sides \cup {Agent}, Departs(p)
    PROVE  /\ inbox' \in [Sides -> Seq(Events)]
           /\ \A t \in Sides \ {p} : Hears(t)
           /\ p \in Sides => inbox'[p] = <<>>
           /\ members' = members \ {p} /\ members' \subseteq Sides \cup {Agent}
           /\ UNCHANGED <<open, called>>
<1>1. \E S : S \subseteq members /\ inbox' = Told(S, p, "left")
  BY DEF Departs
<1>2. members' = members \ {p} /\ UNCHANGED <<open, called>>
  BY DEF Departs
<1> QED
  BY <1>1, <1>2, ToldFacts DEF Types

LEMMA DeleteRoomFacts ==
    ASSUME Types, DeleteRoom
    PROVE  /\ inbox' \in [Sides -> Seq(Events)]
           /\ \A t \in Sides : Hears(t)
           /\ members' = {} /\ open' = FALSE /\ called' = FALSE
<1>1. PICK S \in SUBSET {s \in Present : members # {s}} : inbox' = Told(S, Agent, "left")
  BY DEF DeleteRoom
<1>2. S \subseteq members
  BY <1>1 DEF Present
<1> QED
  BY <1>1, <1>2, ToldFacts, SidesAssumption DEF DeleteRoom

(* What saveHistory does, for whom it knows or not.                        *)
LEMMA SaveHistoryFacts ==
    ASSUME Types, NEW s \in Sides, NEW knows, SaveHistory(s, knows)
    PROVE  /\ history' \in [Sides -> Histories]
           /\ \A t \in Sides \ {s} : history'[t] = history[t]
           /\ history'[s] # "none"
<1>1. history \in [Sides -> Histories]
  BY DEF Types
<1>2. PICK h \in {"recorded", Missed(history[s])} : history' = [history EXCEPT ![s] = h]
  BY <1>1 DEF SaveHistory, RecordCall
<1>3. h \in Histories \ {"none"}
  BY DEF Missed, Histories
<1> QED
  BY <1>1, <1>2, <1>3

(* A user's visit that nothing saves any more.                             *)
LEMMA AbandonFacts ==
    ASSUME Types, NEW s \in Sides, Abandon(s)
    PROVE  /\ history' \in [Sides -> Histories]
           /\ \A t \in Sides \ {s} : history'[t] = history[t]
           /\ history'[s] # "none"
  BY DEF Types, Abandon, Histories

(* Leave routines that are under way go on.                                *)
GoOn(t) == Saves(t) => Saves(t)'

LEMMA GoOnFrame ==
    ASSUME NEW t \in Sides, leaving'[t] = leaving[t]
    PROVE  GoOn(t)
  BY DEF GoOn, Saves

LEMMA RecordedFrame ==
    ASSUME Recorded, UNCHANGED history,
           \A t \in Sides : GoOn(t) /\ (page'[t] = "home" => page[t] = "home")
    PROVE  Recorded'
  BY DEF Recorded, GoOn

(* The page is gone, its state with it.                                    *)
LEMMA UnmountFacts ==
    ASSUME IInv, NEW s \in Sides, Unmount(s), NEW where \in {"entering", "home"},
           page' = [page EXCEPT ![s] = where], UNCHANGED extends, ~unheard' => ~unheard,
           where = "entering" /\ ~unheard' => extends = 0
    PROVE  /\ page' \in [Sides -> {"entering", "ui", "home"}]
           /\ time' \in [Sides -> Nat] /\ elapsed' \in [Sides -> Nat]
           /\ armed' \in [Sides -> BOOLEAN] /\ dirty' \in [Sides -> BOOLEAN]
           /\ handler' \in [Sides -> BOOLEAN]
           /\ inbox' \in [Sides -> Seq(Events)]
           /\ members' \subseteq Sides \cup {Agent}
           /\ UNCHANGED <<open, called>>
           /\ \A t \in Sides : Side(t)'
<1>1. Types /\ \A t \in Sides : Side(t)
  BY DEF IInv
<1>2. /\ Departs(s)
      /\ time' = [time EXCEPT ![s] = 0] /\ elapsed' = [elapsed EXCEPT ![s] = 0]
      /\ armed' = [armed EXCEPT ![s] = FALSE] /\ dirty' = [dirty EXCEPT ![s] = FALSE]
      /\ handler' = [handler EXCEPT ![s] = FALSE]
  BY DEF Unmount
<1>3. /\ inbox' \in [Sides -> Seq(Events)]
      /\ \A t \in Sides \ {s} : Hears(t)
      /\ inbox'[s] = <<>>
      /\ members' = members \ {s} /\ members' \subseteq Sides \cup {Agent}
      /\ UNCHANGED <<open, called>>
  BY <1>1, <1>2, DepartsFacts
<1>4. /\ page' \in [Sides -> {"entering", "ui", "home"}]
      /\ time' \in [Sides -> Nat] /\ elapsed' \in [Sides -> Nat]
      /\ armed' \in [Sides -> BOOLEAN] /\ dirty' \in [Sides -> BOOLEAN]
      /\ handler' \in [Sides -> BOOLEAN]
  BY <1>1, <1>2 DEF Types
<1>5. Side(s)'
  BY <1>1, <1>2, <1>3, GoneSide DEF Types
<1>6. ASSUME NEW t \in Sides, t # s PROVE Side(t)'
  BY <1>1, <1>2, <1>3, <1>6, OtherSide DEF Types
<1> QED
  BY <1>3, <1>4, <1>5, <1>6

-----------------------------------------------------------------------------
(* Steps of the room.                                                      *)

(* The frame: the pages are left alone, the members hear of something.     *)
LEMMA RoomFrame ==
    ASSUME IInv, inbox' \in [Sides -> Seq(Events)], members' \subseteq members \cup {Agent},
           open' \in BOOLEAN, called' \in BOOLEAN, leaving' \in [Sides -> [1..MaxLeaves -> Routine]],
           user' \in [Sides -> BOOLEAN], \A t \in Sides : Hears(t) /\ GoOn(t),
           UNCHANGED <<page, time, armed, dirty, elapsed, handler, returned, history, extends, unheard>>
    PROVE  IInv'
<1>1. Types /\ Recorded /\ \A t \in Sides : Side(t)
  BY DEF IInv
<1>3. Types'
  BY <1>1 DEF Types
<1>4. Recorded'
  BY <1>1, RecordedFrame
<1>5. \A t \in Sides : Side(t)'
  <2> SUFFICES ASSUME NEW t \in Sides PROVE Side(t)'
    OBVIOUS
  <2>1. t \in members' => t \in members
    BY SidesAssumption
  <2> QED
    BY <1>1, <2>1, OtherSide
<1> QED
  BY <1>3, <1>4, <1>5 DEF IInv

LEMMA RoomStep ==
    ASSUME IInv, AgentJoins \/ AgentLeaves \/ RoomEmpties
    PROVE  IInv'
<1>1. Types
  BY DEF IInv
<1>2. CASE AgentJoins
  <2>1. /\ members' = members \cup {Agent}
        /\ called' \in BOOLEAN /\ open' = open
        /\ UNCHANGED <<inbox, user, leaving>>
        /\ UNCHANGED <<page, time, armed, dirty, elapsed, handler, returned, history, extends, unheard>>
    BY <1>2 DEF AgentJoins, screen
  <2>2. /\ open' \in BOOLEAN
    BY <1>1, <2>1, Zenon DEF Types
  <2>3. \A t \in Sides : Hears(t) /\ GoOn(t)
    BY <2>1, GoOnFrame DEF Hears
  <2> QED
    BY <1>1, <2>1, <2>2, <2>3, RoomFrame DEF Types
<1>3. CASE AgentLeaves
  <2>1. /\ Departs(Agent)
        /\ UNCHANGED <<user, leaving>>
        /\ UNCHANGED <<page, time, armed, dirty, elapsed, handler, returned, history, extends, unheard>>
    BY <1>3 DEF AgentLeaves, screen
  <2>2. /\ inbox' \in [Sides -> Seq(Events)]
        /\ \A t \in Sides : Hears(t)
        /\ members' \subseteq members
        /\ UNCHANGED <<open, called>>
    BY <1>1, <2>1, DepartsFacts, SidesAssumption
  <2>3. open' \in BOOLEAN /\ called' \in BOOLEAN
    BY <1>1, <2>2, Zenon DEF Types
  <2> QED
    BY <1>1, <2>1, <2>2, <2>3, GoOnFrame, RoomFrame DEF Types
<1>4. CASE RoomEmpties
  <2>1. /\ members' = {} /\ open' = FALSE /\ called' = FALSE
        /\ UNCHANGED <<inbox, user, leaving>>
        /\ UNCHANGED <<page, time, armed, dirty, elapsed, handler, returned, history, extends, unheard>>
    BY <1>4 DEF RoomEmpties, screen
  <2>2. \A t \in Sides : Hears(t) /\ GoOn(t)
    BY <2>1, GoOnFrame DEF Hears
  <2> QED
    BY <1>1, <2>1, <2>2, RoomFrame DEF Types
<1> QED
  BY <1>2, <1>3, <1>4

-----------------------------------------------------------------------------
(* Steps of a page.                                                        *)

LEMMA JoinStep ==
    ASSUME IInv, NEW s \in Sides, Join(s)
    PROVE  IInv'
<1>1. Types /\ Recorded /\ \A t \in Sides : Side(t)
  BY DEF IInv
<1>2. /\ page[s] = "entering" /\ page' = [page EXCEPT ![s] = "ui"]
      /\ time' = [time EXCEPT ![s] = CallTime]
      /\ elapsed' = [elapsed EXCEPT ![s] = 0]
      /\ members' = members \cup {s}
      /\ dirty' = [dirty EXCEPT ![s] = TRUE]
      /\ handler' = [handler EXCEPT ![s] = user[s]]
      /\ open' = TRUE /\ called' = (called \/ ~open)
      /\ history' = [history EXCEPT ![s] = "none"]
      /\ UNCHANGED <<armed, user, leaving, returned, inbox, extends, unheard>>
  BY DEF Join
<1>3. /\ page' \in [Sides -> {"entering", "ui", "home"}]
      /\ time' \in [Sides -> Nat] /\ elapsed' \in [Sides -> Nat]
      /\ members' \subseteq Sides \cup {Agent}
  BY <1>1, <1>2, Times DEF Types
<1>4. /\ dirty' \in [Sides -> BOOLEAN] /\ handler' \in [Sides -> BOOLEAN]
      /\ open' \in BOOLEAN /\ called' \in BOOLEAN
  BY <1>1, <1>2, Zenon DEF Types
<1>5. Types'
  BY <1>1, <1>2, <1>3, <1>4 DEF Types, Histories
<1>6. Recorded'
  <2>1. page'[s] = "ui" /\ \A t \in Sides \ {s} : page'[t] = page[t] /\ history'[t] = history[t]
    BY <1>1, <1>2 DEF Types
  <2>2. \A t \in Sides : GoOn(t)
    BY <1>2, GoOnFrame
  <2> QED
    BY <1>1, <2>1, <2>2 DEF Recorded, GoOn
<1>7. Side(s)'
  <2>1. /\ time'[s] = CallTime /\ elapsed'[s] = 0 /\ inbox'[s] = <<>>
        /\ page'[s] = "ui" /\ ~armed'[s]
        /\ ~unheard' => extends' = 0
    BY <1>1, <1>2 DEF Types, Side
  <2>2. Total(s)' = CallTime
    <3>1. Total(s)' = CallTime + 0 + Extension * Cardinality(Extends(inbox'[s]))
      BY <2>1, TotalIsNext
    <3>2. Extension * Cardinality(Extends(inbox'[s])) = 0
      BY <2>1, ExtendsNone, Times
    <3>3. CallTime \in Nat
      BY Times
    <3> QED
      BY <3>1, <3>2, <3>3
  <2> DEFINE more == Extension * extends'
  <2>3. more \in Nat /\ CallTime \in Nat
    <3>1. extends' \in Nat
      BY <1>1, <1>2, BoundAssumption DEF Types
    <3> QED
      BY <3>1, Times
  <2>4. extends' = 0 => more = 0
    BY Times
  <2> HIDE DEF more
  <2>5. Total(s)' <= CallTime + more /\ (~unheard' => Total(s)' = CallTime + more)
    BY <2>1, <2>2, <2>3, <2>4
  <2> USE DEF more
  <2> QED
    BY <2>1, <2>5 DEF Side
<1>8. ASSUME NEW t \in Sides, t # s PROVE Side(t)'
  BY <1>1, <1>2, <1>8, OtherSide DEF Types, Hears
<1> QED
  BY <1>5, <1>6, <1>7, <1>8 DEF IInv

(* A routine's step that is not its last.                                  *)
LEMMA RoutineFacts ==
    ASSUME Types, NEW s \in Sides, NEW i \in 1..MaxLeaves, NEW r \in Routine, r # Idle,
           leaving' = [leaving EXCEPT ![s][i] = r]
    PROVE  /\ leaving' \in [Sides -> [1..MaxLeaves -> Routine]]
           /\ \A t \in Sides : GoOn(t)
<1>1. leaving \in [Sides -> [1..MaxLeaves -> Routine]]
  BY DEF Types
<1>2. leaving' \in [Sides -> [1..MaxLeaves -> Routine]]
  BY <1>1
<1>3. leaving'[s][i] # Idle /\ \A t \in Sides \ {s} : leaving'[t] = leaving[t]
  BY <1>1
<1> QED
  BY <1>2, <1>3 DEF GoOn, Saves

(* The first free place of the leave routines is taken.                    *)
LEMMA BeginLeavingFacts ==
    ASSUME Types, NEW s \in Sides, BeginLeaving(s)
    PROVE  /\ leaving' \in [Sides -> [1..MaxLeaves -> Routine]]
           /\ \A t \in Sides : GoOn(t)
<1>1. CASE UNCHANGED leaving
  BY <1>1, GoOnFrame DEF Types
<1>2. ASSUME NEW i \in 1..MaxLeaves,
             leaving' = [leaving EXCEPT ![s][i] = [stage |-> "sent", knows |-> user[s]]]
      PROVE  /\ leaving' \in [Sides -> [1..MaxLeaves -> Routine]]
             /\ \A t \in Sides : GoOn(t)
  <2> DEFINE r == [stage |-> "sent", knows |-> user[s]]
  <2>1. r \in Routine /\ r # Idle
    BY DEF Types, Routine, Idle
  <2> HIDE DEF r
  <2> QED
    BY <1>2, <2>1, RoutineFacts DEF r
<1> QED
  BY <1>1, <1>2 DEF BeginLeaving

LEMMA RenderStep ==
    ASSUME IInv, NEW s \in Sides, Render(s)
    PROVE  IInv'
<1>1. Types /\ Recorded /\ \A t \in Sides : Side(t)
  BY DEF IInv
<1>2. /\ dirty' = [dirty EXCEPT ![s] = FALSE]
      /\ armed' = [armed EXCEPT ![s] = time[s] > 0]
      /\ BeginLeaving(s) \/ UNCHANGED leaving
      /\ UNCHANGED <<page, time, elapsed, user, handler, returned, inbox, members, open, called,
                     history, extends, unheard>>
  BY DEF Render, room
<1>3. leaving' \in [Sides -> [1..MaxLeaves -> Routine]] /\ \A t \in Sides : GoOn(t)
  BY <1>1, <1>2, BeginLeavingFacts, GoOnFrame DEF Types
<1>4. /\ dirty' \in [Sides -> BOOLEAN] /\ armed' \in [Sides -> BOOLEAN]
      /\ armed'[s] => time[s] > 0
      /\ \A t \in Sides : t # s => (armed'[t] => armed[t])
  <2>1. (time[s] > 0) \in BOOLEAN
    OBVIOUS
  <2> QED
    BY <1>1, <1>2, <2>1, Zenon DEF Types
<1>5. Types'
  BY <1>1, <1>2, <1>3, <1>4 DEF Types
<1>6. Recorded'
  BY <1>1, <1>2, <1>3, RecordedFrame
<1>7. Side(s)'
  <2>1. Side(s) /\ Total(s)' = Total(s)
    BY <1>1, <1>2, TotalIs, TotalIsNext
  <2>2. page[s] # "ui" => ~armed'[s]
    <3>1. page[s] # "ui" => ~(time[s] > 0)
      BY <2>1 DEF Side
    <3> QED
      BY <1>4, <3>1
  <2> QED
    BY <1>2, <1>4, <2>1, <2>2 DEF Side
<1>8. ASSUME NEW t \in Sides, t # s PROVE Side(t)'
  BY <1>1, <1>2, <1>4, <1>8, OtherSide DEF Hears
<1> QED
  BY <1>5, <1>6, <1>7, <1>8 DEF IInv

LEMMA TickStep ==
    ASSUME IInv, NEW s \in Sides, Tick(s)
    PROVE  IInv'
<1>1. Types /\ Recorded /\ \A t \in Sides : Side(t)
  BY DEF IInv
<1>2. /\ armed[s] /\ armed' = [armed EXCEPT ![s] = FALSE]
      /\ time' = [time EXCEPT ![s] = @ - 1]
      /\ elapsed' = [elapsed EXCEPT ![s] = @ + 1]
      /\ dirty' = [dirty EXCEPT ![s] = TRUE]
      /\ UNCHANGED <<page, user, handler, leaving, returned, inbox, members, open, called,
                     history, extends, unheard>>
  BY DEF Tick, room
<1>3. time[s] \in Nat /\ time[s] > 0 /\ elapsed[s] \in Nat /\ page[s] = "ui"
  BY <1>1, <1>2 DEF Types, Side
<1>4. /\ time' \in [Sides -> Nat] /\ elapsed' \in [Sides -> Nat]
      /\ time'[s] = time[s] - 1 /\ elapsed'[s] = elapsed[s] + 1
  BY <1>1, <1>2, <1>3 DEF Types
<1>5. /\ dirty' \in [Sides -> BOOLEAN] /\ armed' \in [Sides -> BOOLEAN] /\ ~armed'[s]
  BY <1>1, <1>2, Zenon DEF Types
<1>6. Types'
  BY <1>1, <1>2, <1>4, <1>5 DEF Types
<1>7. Recorded'
  BY <1>1, <1>2, GoOnFrame, RecordedFrame
<1>8. Side(s)'
  <2>1. /\ Total(s)' = time'[s] + elapsed'[s] + Extension * Cardinality(Extends(inbox[s]))
        /\ Total(s) = time[s] + elapsed[s] + Extension * Cardinality(Extends(inbox[s]))
    BY <1>2, TotalIs, TotalIsNext
  <2>2. Extension * Cardinality(Extends(inbox[s])) \in Nat
    BY <1>1, ExtendsFinite, Times DEF Types
  <2>3. Total(s)' = Total(s)
    BY <1>3, <1>4, <2>1, <2>2
  <2> QED
    BY <1>1, <1>2, <1>3, <1>5, <2>3 DEF Side
<1>9. ASSUME NEW t \in Sides, t # s PROVE Side(t)'
  BY <1>1, <1>2, <1>9, OtherSide DEF Types, Hears
<1> QED
  BY <1>6, <1>7, <1>8, <1>9 DEF IInv

LEMMA HandleLeaveStep ==
    ASSUME IInv, NEW s \in Sides, HandleLeave(s)
    PROVE  IInv'
<1>1. Types
  BY DEF IInv
<1>2. /\ BeginLeaving(s)
      /\ UNCHANGED <<inbox, members, open, called, user>>
      /\ UNCHANGED <<page, time, armed, dirty, elapsed, handler, returned, history, extends, unheard>>
  BY DEF HandleLeave, room
<1>3. leaving' \in [Sides -> [1..MaxLeaves -> Routine]] /\ \A t \in Sides : GoOn(t)
  BY <1>1, <1>2, BeginLeavingFacts
<1>4. open' \in BOOLEAN /\ called' \in BOOLEAN
  BY <1>1, <1>2, Zenon DEF Types
<1>5. \A t \in Sides : Hears(t)
  BY <1>2 DEF Hears
<1> QED
  BY <1>1, <1>2, <1>3, <1>4, <1>5, RoomFrame DEF Types

LEMMA UserLoadsStep ==
    ASSUME IInv, NEW s \in Sides, UserLoads(s)
    PROVE  IInv'
<1>1. Types
  BY DEF IInv
<1>2. /\ user' = [user EXCEPT ![s] = TRUE]
      /\ UNCHANGED <<inbox, members, open, called, leaving>>
      /\ UNCHANGED <<page, time, armed, dirty, elapsed, handler, returned, history, extends, unheard>>
  BY DEF UserLoads, room
<1>3. user' \in [Sides -> BOOLEAN] /\ open' \in BOOLEAN /\ called' \in BOOLEAN
  BY <1>1, <1>2, Zenon DEF Types
<1>4. \A t \in Sides : Hears(t) /\ GoOn(t)
  BY <1>2, GoOnFrame DEF Hears
<1> QED
  BY <1>1, <1>2, <1>3, <1>4, RoomFrame DEF Types

LEMMA DeleteAnsweredStep ==
    ASSUME IInv, NEW s \in Sides, NEW i \in 1..MaxLeaves, DeleteAnswered(s, i)
    PROVE  IInv'
<1>1. Types
  BY DEF IInv
<1>2. /\ leaving' = [leaving EXCEPT ![s][i].stage = "answered"]
      /\ UNCHANGED user
      /\ UNCHANGED <<page, time, armed, dirty, elapsed, handler, returned, history, extends, unheard>>
  BY DEF DeleteAnswered
<1>3. leaving' \in [Sides -> [1..MaxLeaves -> Routine]] /\ \A t \in Sides : GoOn(t)
  <2> DEFINE r == [leaving[s][i] EXCEPT !.stage = "answered"]
  <2>1. r \in Routine /\ r # Idle
    <3>1. leaving \in [Sides -> [1..MaxLeaves -> Routine]]
      BY <1>1 DEF Types
    <3>2. leaving[s][i] \in Routine
      BY <3>1
    <3> QED
      BY <3>2 DEF Routine, Idle
  <2>2. leaving' = [leaving EXCEPT ![s][i] = r]
    BY <1>2, Zenon
  <2> HIDE DEF r
  <2> QED
    BY <1>1, <2>1, <2>2, RoutineFacts
<1>4. CASE DeleteRoom
  <2>1. /\ inbox' \in [Sides -> Seq(Events)]
        /\ \A t \in Sides : Hears(t)
        /\ members' = {} /\ open' = FALSE /\ called' = FALSE
    BY <1>1, <1>4, DeleteRoomFacts
  <2> QED
    BY <1>1, <1>2, <1>3, <2>1, RoomFrame DEF Types
<1>5. CASE UNCHANGED room
  <2>1. UNCHANGED <<inbox, members, open, called>>
    BY <1>5 DEF room
  <2>2. open' \in BOOLEAN /\ called' \in BOOLEAN
    BY <1>1, <2>1, Zenon DEF Types
  <2>3. \A t \in Sides : Hears(t)
    BY <2>1 DEF Hears
  <2> QED
    BY <1>1, <1>2, <1>3, <2>1, <2>2, <2>3, RoomFrame DEF Types
<1> QED
  BY <1>4, <1>5 DEF DeleteAnswered

(* A side goes home: it is settled what became of its visit, or something  *)
(* is under way that saves it.                                             *)
LEMMA HomeStep ==
    ASSUME IInv, NEW s \in Sides, GoHome(s),
           leaving' \in [Sides -> [1..MaxLeaves -> Routine]],
           history' \in [Sides -> Histories],
           \A t \in Sides \ {s} : leaving'[t] = leaving[t] /\ history'[t] = history[t],
           Saves(s)' \/ history'[s] # "none",
           UNCHANGED <<user, returned, extends, unheard>>
    PROVE  IInv'
<1>1. Types /\ Recorded /\ \A t \in Sides : Side(t)
  BY DEF IInv
<1>2. Unmount(s) /\ page' = [page EXCEPT ![s] = "home"]
  BY DEF GoHome
<1>3. /\ page' \in [Sides -> {"entering", "ui", "home"}]
      /\ time' \in [Sides -> Nat] /\ elapsed' \in [Sides -> Nat]
      /\ armed' \in [Sides -> BOOLEAN] /\ dirty' \in [Sides -> BOOLEAN]
      /\ handler' \in [Sides -> BOOLEAN]
      /\ inbox' \in [Sides -> Seq(Events)]
      /\ members' \subseteq Sides \cup {Agent}
      /\ UNCHANGED <<open, called>>
      /\ \A t \in Sides : Side(t)'
  BY <1>2, UnmountFacts
<1>4. Recorded'
  <2>1. \A t \in Sides \ {s} : GoOn(t) /\ page'[t] = page[t] /\ history'[t] = history[t]
    BY <1>1, <1>2, GoOnFrame DEF Types
  <2> QED
    BY <1>1, <2>1 DEF Recorded, GoOn
<1>5. open' \in BOOLEAN /\ called' \in BOOLEAN /\ unheard' \in BOOLEAN
  BY <1>1, <1>3, Zenon DEF Types
<1>6. Types'
  BY <1>1, <1>3, <1>5 DEF Types
<1> QED
  BY <1>3, <1>4, <1>6 DEF IInv

LEMMA HandleParticipantDisconnectedStep ==
    ASSUME IInv, NEW s \in Sides, HandleParticipantDisconnected(s)
    PROVE  IInv'
<1>1. Types /\ SaveHistory(s, handler[s])
  BY DEF IInv, HandleParticipantDisconnected
<1>2. GoHome(s) /\ UNCHANGED <<user, leaving, returned, extends, unheard>>
  BY DEF HandleParticipantDisconnected
<1> QED
  BY <1>1, <1>2, SaveHistoryFacts, HomeStep DEF Types

LEMMA LeaveFinallyStep ==
    ASSUME IInv, NEW s \in Sides, NEW i \in 1..MaxLeaves, LeaveFinally(s, i)
    PROVE  IInv'
<1>1. Types /\ SaveHistory(s, leaving[s][i].knows) /\ leaving' = [leaving EXCEPT ![s][i] = Idle]
  BY DEF IInv, LeaveFinally
<1>2. GoHome(s) /\ UNCHANGED <<user, returned, extends, unheard>>
  BY DEF LeaveFinally
<1>3. /\ leaving' \in [Sides -> [1..MaxLeaves -> Routine]]
      /\ \A t \in Sides \ {s} : leaving'[t] = leaving[t]
  BY <1>1 DEF Types, Routine, Idle
<1> QED
  BY <1>1, <1>2, <1>3, SaveHistoryFacts, HomeStep

LEMMA WalkAwayStep ==
    ASSUME IInv, NEW s \in Sides, WalkAway(s)
    PROVE  IInv'
<1>1. Types
  BY DEF IInv
<1>2. GoHome(s) /\ UNCHANGED <<user, leaving, returned, extends, unheard>>
  BY DEF WalkAway
<1>3. CASE Saves(s) /\ UNCHANGED history
  <2>1. Saves(s)'
    BY <1>2, <1>3, GoOnFrame DEF GoOn
  <2> QED
    BY <1>1, <1>2, <1>3, <2>1, HomeStep DEF Types
<1>4. CASE Abandon(s)
  BY <1>1, <1>2, <1>4, AbandonFacts, HomeStep DEF Types
<1> QED
  BY <1>3, <1>4 DEF WalkAway

(* Only at home is there a visit to settle when the routines are lost.     *)
LEMMA ReloadStep ==
    ASSUME IInv, NEW s \in Sides, Reload(s)
    PROVE  IInv'
<1>1. Types /\ Recorded /\ \A t \in Sides : Side(t)
  BY DEF IInv
<1> DEFINE where == IF page[s] = "home" THEN "home" ELSE "entering"
<1>2. /\ Unmount(s) /\ page' = [page EXCEPT ![s] = where]
      /\ returned' = returned \cup {s}
      /\ user' = [user EXCEPT ![s] = FALSE]
      /\ leaving' = [leaving EXCEPT ![s] = [i \in 1..MaxLeaves |-> Idle]]
      /\ unheard' = (unheard \/ extends > 0)
      /\ UNCHANGED extends
  BY DEF Reload
<1>3. (~unheard' => ~unheard) /\ (~unheard' => extends = 0) /\ unheard' \in BOOLEAN
  <2>1. ~unheard' => ~unheard /\ ~(extends > 0)
    BY <1>2, Zenon
  <2>2. unheard' \in BOOLEAN
    BY <1>2, Zenon
  <2>3. extends \in Nat
    BY <1>1, BoundAssumption DEF Types
  <2> QED
    BY <2>1, <2>2, <2>3
<1>4. where \in {"entering", "home"} /\ (where = "home" <=> page[s] = "home")
  OBVIOUS
<1> HIDE DEF where
<1>5. /\ page' \in [Sides -> {"entering", "ui", "home"}]
      /\ time' \in [Sides -> Nat] /\ elapsed' \in [Sides -> Nat]
      /\ armed' \in [Sides -> BOOLEAN] /\ dirty' \in [Sides -> BOOLEAN]
      /\ handler' \in [Sides -> BOOLEAN]
      /\ inbox' \in [Sides -> Seq(Events)]
      /\ members' \subseteq Sides \cup {Agent}
      /\ UNCHANGED <<open, called>>
      /\ \A t \in Sides : Side(t)'
  BY <1>2, <1>3, <1>4, UnmountFacts
<1>6. /\ history' \in [Sides -> Histories]
      /\ \A t \in Sides \ {s} : history'[t] = history[t]
      /\ page[s] = "home" => history'[s] # "none"
  <2>1. CASE page[s] = "home" /\ Saves(s)
    BY <1>1, <2>1, AbandonFacts DEF Reload
  <2>2. CASE ~(page[s] = "home" /\ Saves(s))
    <3>1. UNCHANGED history
      BY <2>2 DEF Reload
    <3> QED
      BY <1>1, <2>2, <3>1 DEF Types, Recorded
  <2> QED
    BY <2>1, <2>2
<1>7. Recorded'
  <2>1. \A t \in Sides \ {s} : GoOn(t) /\ page'[t] = page[t]
    BY <1>1, <1>2, GoOnFrame DEF Types
  <2>2. page'[s] = where
    BY <1>1, <1>2 DEF Types
  <2> QED
    BY <1>1, <1>4, <1>6, <2>1, <2>2 DEF Recorded, GoOn
<1>8. /\ user' \in [Sides -> BOOLEAN]
      /\ open' \in BOOLEAN /\ called' \in BOOLEAN
  BY <1>1, <1>2, <1>5, Zenon DEF Types
<1>9. leaving' \in [Sides -> [1..MaxLeaves -> Routine]]
  BY <1>1, <1>2 DEF Types, Routine, Idle
<1>10. Types'
  BY <1>1, <1>2, <1>3, <1>5, <1>6, <1>8, <1>9 DEF Types
<1> QED
  BY <1>5, <1>7, <1>10 DEF IInv

(* Who returns finds the countdown of a call that may have been extended.  *)
LEMMA ReturnStep ==
    ASSUME IInv, NEW s \in Sides, Return(s)
    PROVE  IInv'
<1>1. Types /\ Recorded /\ \A t \in Sides : Side(t)
  BY DEF IInv
<1>2. /\ page[s] = "home" /\ page' = [page EXCEPT ![s] = "entering"]
      /\ returned' = returned \cup {s}
      /\ unheard' = (unheard \/ extends > 0)
      /\ UNCHANGED <<time, armed, dirty, elapsed, user, handler, leaving, history, extends>>
      /\ UNCHANGED <<inbox, members, open, called>>
  BY DEF Return, room
<1>3. (~unheard' => ~unheard) /\ (~unheard' => extends = 0) /\ unheard' \in BOOLEAN
  <2>1. ~unheard' => ~unheard /\ ~(extends > 0)
    BY <1>2, Zenon
  <2>2. unheard' \in BOOLEAN
    BY <1>2, Zenon
  <2>3. extends \in Nat
    BY <1>1, BoundAssumption DEF Types
  <2> QED
    BY <2>1, <2>2, <2>3
<1>4. Types'
  <2>1. /\ armed' \in [Sides -> BOOLEAN] /\ dirty' \in [Sides -> BOOLEAN]
        /\ user' \in [Sides -> BOOLEAN] /\ handler' \in [Sides -> BOOLEAN]
        /\ open' \in BOOLEAN /\ called' \in BOOLEAN
    BY <1>1, <1>2, Zenon DEF Types
  <2> QED
    BY <1>1, <1>2, <1>3, <2>1 DEF Types
<1>5. Recorded'
  BY <1>1, <1>2, GoOnFrame, RecordedFrame DEF Types
<1>6. Side(s)'
  BY <1>1, <1>2, <1>3, GoneSide DEF Types, Side
<1>7. ASSUME NEW t \in Sides, t # s PROVE Side(t)'
  BY <1>1, <1>2, <1>3, <1>7, OtherSide DEF Types, Hears
<1> QED
  BY <1>4, <1>5, <1>6, <1>7 DEF IInv

-----------------------------------------------------------------------------
(* Extensions.                                                             *)

(* The extension is counted where it is made and heard by who is there.    *)
LEMMA HandleExtendStep ==
    ASSUME IInv, NEW s \in Sides, HandleExtend(s)
    PROVE  IInv'
<1>1. Types /\ Recorded /\ \A t \in Sides : Side(t)
  BY DEF IInv
<1>2. /\ page[s] = "ui" /\ extends < MaxExtends /\ extends' = extends + 1
      /\ time' = [time EXCEPT ![s] = @ + Extension]
      /\ dirty' = [dirty EXCEPT ![s] = TRUE]
      /\ inbox' = [t \in Sides |-> IF s \in members /\ t \in members \ {s}
                                   THEN Append(inbox[t], "extend") ELSE inbox[t]]
      /\ unheard' = (unheard \/ Present # Sides)
      /\ UNCHANGED <<page, armed, elapsed, user, handler, leaving, returned,
                     members, open, called, history>>
  BY DEF HandleExtend
<1>3. extends \in Nat /\ extends' \in 0..MaxExtends
  BY <1>1, <1>2, BoundAssumption DEF Types
<1>4. time' \in [Sides -> Nat] /\ time'[s] = time[s] + Extension
  BY <1>1, <1>2, Times DEF Types
<1>5. \A t \in Sides : inbox[t] \in Seq(Events) /\ Append(inbox[t], "extend") \in Seq(Events)
  BY <1>1, AppendProperties DEF Types, Events
<1>6. inbox' \in [Sides -> Seq(Events)]
  BY <1>2, <1>5
<1>7. /\ dirty' \in [Sides -> BOOLEAN] /\ unheard' \in BOOLEAN
      /\ ~unheard' => ~unheard /\ Present = Sides
  BY <1>1, <1>2, Zenon DEF Types
<1>8. Types'
  BY <1>1, <1>2, <1>3, <1>4, <1>6, <1>7 DEF Types
<1>9. Recorded'
  BY <1>1, <1>2, GoOnFrame, RecordedFrame
<1> DEFINE granted == CallTime + Extension * extends
           pend(t) == Extension * Cardinality(Extends(inbox[t]))
<1>10. /\ granted \in Nat
       /\ CallTime + Extension * extends' = granted + Extension
       /\ \A t \in Sides : pend(t) \in Nat
  <2>1. Extension * extends \in Nat /\ Extension * (extends + 1) = Extension * extends + Extension
    BY <1>3, Times
  <2>2. Extension * extends' = Extension * extends + Extension
    BY <1>2, <2>1
  <2> DEFINE product == Extension * extends
  <2>3. CallTime + Extension * extends' = CallTime + product + Extension
    <3>1. Extension * extends' = product + Extension
      BY <2>2
    <3>2. product \in Nat /\ CallTime \in Nat /\ Extension \in Nat
      BY <2>1, Times
    <3> HIDE DEF product
    <3> QED
      BY <3>1, <3>2
  <2>4. granted \in Nat
    <3>1. product \in Nat /\ CallTime \in Nat
      BY <2>1, Times
    <3> HIDE DEF product
    <3>2. CallTime + product \in Nat
      BY <3>1
    <3> QED
      BY <3>2 DEF product
  <2>5. ASSUME NEW t \in Sides PROVE pend(t) \in Nat
    <3>1. Cardinality(Extends(inbox[t])) \in Nat
      BY <1>5, ExtendsFinite
    <3> QED
      BY <3>1, Times
  <2> QED
    BY <2>3, <2>4, <2>5
<1>11. Extension \in Nat
  BY Times
<1>12. Side(s)'
  <2>1. inbox'[s] = inbox[s]
    BY <1>2
  <2>2. /\ Total(s)' = time'[s] + elapsed[s] + pend(s)
        /\ Total(s) = time[s] + elapsed[s] + pend(s)
    BY <1>2, <2>1, TotalIs, TotalIsNext
  <2>3. time[s] \in Nat /\ elapsed[s] \in Nat
    BY <1>1 DEF Types
  <2> HIDE DEF pend, granted
  <2>4. Total(s)' = Total(s) + Extension /\ Total(s) \in Nat
    BY <1>4, <1>10, <1>11, <2>2, <2>3
  <2>5. /\ Total(s) <= granted
        /\ ~unheard => Total(s) = granted
        /\ s \in members => page[s] = "ui"
        /\ armed[s] => time[s] > 0
    BY <1>1, <1>2 DEF Side, granted
  <2>6. /\ Total(s)' <= granted + Extension
        /\ ~unheard' => Total(s)' = granted + Extension
        /\ armed'[s] => time'[s] > 0
    BY <1>2, <1>4, <1>7, <1>10, <1>11, <2>3, <2>4, <2>5
  <2> QED
    BY <1>2, <1>10, <2>5, <2>6 DEF Side
<1>13. ASSUME NEW t \in Sides, t # s PROVE Side(t)'
  <2>0. /\ time'[t] = time[t] /\ time[t] \in Nat /\ elapsed[t] \in Nat
        /\ Side(t)
    BY <1>1, <1>2, <1>13 DEF Types
  <2>1. Total(t) = time[t] + elapsed[t] + pend(t)
    BY TotalIs
  <2>2. CASE s \in members /\ t \in members
    <3>1. inbox'[t] = Append(inbox[t], "extend")
      BY <1>2, <1>13, <2>2
    <3>2. Cardinality(Extends(inbox'[t])) = Cardinality(Extends(inbox[t])) + 1
      BY <1>5, <3>1, ExtendsAppend DEF Events
    <3>3. Extension * Cardinality(Extends(inbox'[t])) = pend(t) + Extension
      BY <1>5, <3>2, ExtendsFinite, Times
    <3>4. Total(t)' = time[t] + elapsed[t] + (pend(t) + Extension)
      BY <1>2, <2>0, <3>3, TotalIsNext
    <3>5. page[t] = "ui"
      BY <2>0, <2>2 DEF Side
    <3>6. Total(t) <= granted /\ (~unheard => Total(t) = granted)
      BY <2>0, <3>5 DEF Side
    <3> HIDE DEF pend, granted
    <3>7. /\ Total(t)' <= granted + Extension
          /\ ~unheard' => Total(t)' = granted + Extension
      BY <1>7, <1>10, <1>11, <2>0, <2>1, <3>4, <3>6
    <3> QED
      BY <1>2, <1>10, <2>0, <3>5, <3>7 DEF Side
  <2>3. CASE ~(s \in members /\ t \in members)
    <3>1. inbox'[t] = inbox[t] /\ Total(t)' = Total(t)
      BY <1>2, <1>13, <2>0, <2>3, TotalIs, TotalIsNext
    <3>2. unheard'
      BY <1>7, <2>3 DEF Present
    <3>3. page[t] = "ui" => Total(t) <= granted
      BY <2>0 DEF Side
    <3>4. Total(t) \in Nat
      BY <1>10, <2>0, <2>1
    <3> HIDE DEF pend, granted
    <3>5. page[t] = "ui" => Total(t)' <= granted + Extension
      BY <1>10, <1>11, <3>1, <3>3, <3>4
    <3> QED
      BY <1>2, <1>10, <2>0, <3>1, <3>2, <3>5 DEF Side
  <2> QED
    BY <2>2, <2>3
<1> QED
  BY <1>8, <1>9, <1>12, <1>13 DEF IInv

LEMMA HandleDataStep ==
    ASSUME IInv, NEW s \in Sides, HandleData(s)
    PROVE  IInv'
<1>1. Types /\ Recorded /\ \A t \in Sides : Side(t)
  BY DEF IInv
<1>2. /\ inbox[s] # <<>> /\ Head(inbox[s]) = "extend"
      /\ inbox' = [inbox EXCEPT ![s] = Tail(@)]
      /\ time' = [time EXCEPT ![s] = @ + Extension]
      /\ dirty' = [dirty EXCEPT ![s] = TRUE]
      /\ UNCHANGED <<page, armed, elapsed, user, handler, leaving, returned,
                     members, open, called, history, extends, unheard>>
  BY DEF HandleData
<1>3. time' \in [Sides -> Nat] /\ time'[s] = time[s] + Extension
  BY <1>1, <1>2, Times DEF Types
<1>4. inbox[s] \in Seq(Events)
  BY <1>1 DEF Types
<1>5. Tail(inbox[s]) \in Seq(Events)
  BY <1>2, <1>4, HeadTailProperties
<1>6. inbox' \in [Sides -> Seq(Events)] /\ inbox'[s] = Tail(inbox[s])
  BY <1>1, <1>2, <1>5 DEF Types
<1>7. dirty' \in [Sides -> BOOLEAN]
  BY <1>1, <1>2, Zenon DEF Types
<1>8. Types'
  BY <1>1, <1>2, <1>3, <1>6, <1>7 DEF Types
<1>9. Recorded'
  BY <1>1, <1>2, GoOnFrame, RecordedFrame
<1>10. Side(s)'
  <2> DEFINE pend == Extension * Cardinality(Extends(inbox'[s]))
  <2>1. /\ Cardinality(Extends(inbox[s])) = Cardinality(Extends(inbox'[s])) + 1
        /\ Cardinality(Extends(inbox'[s])) \in Nat
    BY <1>2, <1>4, <1>5, <1>6, ExtendsTail, ExtendsFinite
  <2>2. Extension * Cardinality(Extends(inbox[s])) = pend + Extension /\ pend \in Nat
    BY <2>1, Times
  <2>3. /\ Total(s)' = time'[s] + elapsed[s] + pend
        /\ Total(s) = time[s] + elapsed[s] + (pend + Extension)
    BY <1>2, <2>2, TotalIs, TotalIsNext
  <2>4. time[s] \in Nat /\ elapsed[s] \in Nat /\ Extension \in Nat
    BY <1>1, Times DEF Types
  <2> HIDE DEF pend
  <2>5. Total(s)' = Total(s)
    BY <1>3, <2>2, <2>3, <2>4
  <2>6. page[s] = "ui" /\ (armed[s] => time[s] > 0)
    BY <1>1, <1>2 DEF Side
  <2>7. armed[s] => time'[s] > 0
    BY <1>3, <2>4, <2>6
  <2> QED
    BY <1>1, <1>2, <2>5, <2>6, <2>7 DEF Side
<1>11. ASSUME NEW t \in Sides, t # s PROVE Side(t)'
  BY <1>1, <1>2, <1>11, OtherSide DEF Types, Hears
<1> QED
  BY <1>8, <1>9, <1>10, <1>11 DEF IInv

-----------------------------------------------------------------------------
(* The theorems.                                                           *)

LEMMA NextIInv == IInv /\ [Next]_vars => IInv'
<1> SUFFICES ASSUME IInv, [Next]_vars PROVE IInv'
  OBVIOUS
<1>1. CASE UNCHANGED vars
  <2>1. /\ Types
        /\ UNCHANGED <<inbox, members, open, called, leaving, user>>
        /\ UNCHANGED <<page, time, armed, dirty, elapsed, handler, returned, history, extends, unheard>>
    BY <1>1 DEF IInv, vars, screen, room
  <2>2. open' \in BOOLEAN /\ called' \in BOOLEAN
    BY <2>1, Zenon DEF Types
  <2>3. \A t \in Sides : Hears(t) /\ GoOn(t)
    BY <2>1, GoOnFrame DEF Hears
  <2> QED
    BY <2>1, <2>2, <2>3, RoomFrame DEF Types
<1>2. ASSUME NEW s \in Sides, PageStep(s) PROVE IInv'
  BY <1>2, JoinStep, RenderStep, TickStep, HandleLeaveStep, HandleExtendStep, HandleDataStep,
     HandleParticipantDisconnectedStep, WalkAwayStep, ReloadStep, ReturnStep, UserLoadsStep,
     DeleteAnsweredStep, LeaveFinallyStep DEF PageStep
<1> QED
  BY <1>1, <1>2, RoomStep DEF Next

LEMMA SpecIInv == Spec => []IInv
  BY InitIInv, NextIInv, PTL DEF Spec

(* Every reachable state is well-typed: no countdown is below zero or      *)
(* above what was granted.                                                 *)
THEOREM TypeCorrect == Spec => []TypeOK
<1>1. ASSUME IInv PROVE TypeOK
  <2>1. ASSUME NEW s \in Sides PROVE time[s] \in 0..Granted /\ elapsed[s] \in 0..Granted
    <3>1. time[s] \in Nat /\ elapsed[s] \in Nat /\ inbox[s] \in Seq(Events) /\ extends \in 0..MaxExtends
      BY <1>1 DEF IInv, Types
    <3>2. CASE page[s] # "ui"
      <4>1. time[s] = 0 /\ elapsed[s] = 0
        BY <1>1, <3>2 DEF IInv, Side
      <4> QED
        BY <4>1, Times
    <3>3. CASE page[s] = "ui"
      <4>1. Total(s) <= CallTime + Extension * extends
        BY <1>1, <3>3 DEF IInv, Side
      <4>2. /\ CallTime + Extension * extends <= Granted
            /\ CallTime + Extension * extends \in Nat /\ Granted \in Nat
        <5>1. extends \in Nat
          BY <3>1, BoundAssumption
        <5> QED
          BY <3>1, <5>1, Times
      <4>3. Extension * Cardinality(Extends(inbox[s])) \in Nat
        BY <3>1, ExtendsFinite, Times
      <4>4. time[s] + elapsed[s] <= Granted
        BY <3>1, <4>1, <4>2, <4>3, TotalIs
      <4> QED
        BY <3>1, <4>2, <4>4
    <3> QED
      BY <3>2, <3>3
  <2>2. Types
    BY <1>1 DEF IInv
  <2> QED
    BY <2>1, <2>2 DEF Types, TypeOK
<1> QED
  BY <1>1, SpecIInv, PTL

(* Who ended his visit to a call or was left behind in it has it in his    *)
(* history, whatever else he did meanwhile, unless a request was missed:   *)
(* only who did nothing but walk away from the page has not.               *)
THEOREM EndedCallIsRecorded == Spec => []CallIsRecorded
<1>1. IInv => CallIsRecorded
  BY DEF IInv, Types, Histories, Recorded, CallIsRecorded
<1> QED
  BY <1>1, SpecIInv, PTL

(* Extensions leave both countdowns with the same total.                   *)
THEOREM ExtensionsAlwaysAgree == Spec => []ExtensionsAgree
<1>1. IInv => ExtensionsAgree
  <2> SUFFICES ASSUME IInv, Present = Sides, ~unheard, NEW s \in Sides, NEW t \in Sides
               PROVE  Total(s) = Total(t)
    BY DEF ExtensionsAgree
  <2>1. page[s] = "ui" /\ page[t] = "ui"
    BY DEF IInv, Side, Present
  <2> QED
    BY <2>1 DEF IInv, Side
<1> QED
  BY <1>1, SpecIInv, PTL
=============================================================================
