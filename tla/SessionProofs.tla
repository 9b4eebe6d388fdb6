------------------------------ MODULE SessionProofs ------------------------------
(* Proofs about Session, for any users, tabs and number of tokens.         *)
EXTENDS Session, SequenceTheorems, TLAPS

(***************************************************************************)
(* The inductive invariant: a refresh that was granted holds an access     *)
(* token, which is what the tab then stores.                               *)
(***************************************************************************)
Granted == \A t \in Tabs : request[t].stage = "granted" => request[t].token \in Access

IInv == TypeOK /\ Granted /\ RefreshHasAccess

(* Values are distinct from None.                                          *)
LEMMA NoneIsNone ==
    /\ None \notin Access
    /\ None \notin Ids
    /\ None \notin Users
  BY NoneAssumption DEF Access, Ids

(* What the server issues is an access token of the user.                  *)
LEMMA IssuedIsAccess ==
    ASSUME NEW u \in Users
    PROVE  \A a \in Issued(u) : a \in Access
<1> SUFFICES ASSUME NEW a \in Issued(u) PROVE a \in Access
  OBVIOUS
<1>1. (IF BornDead THEN BOOLEAN ELSE {FALSE}) \subseteq BOOLEAN
  OBVIOUS
<1>2. PICK d \in (IF BornDead THEN BOOLEAN ELSE {FALSE}) : a = [user |-> u, dead |-> d]
  BY Zenon DEF Issued
<1>3. d \in BOOLEAN
  BY <1>1, <1>2, Zenon
<1> QED
  BY <1>2, <1>3, Zenon DEF Access

(* The refresh tokens issued, each to a registered user.                   *)
LEMMA OwnersAreUsers ==
    ASSUME TypeOK
    PROVE  /\ DOMAIN owner = 1..Len(owner)
           /\ Len(owner) \in 0..MaxTokens
           /\ \A id \in DOMAIN owner : owner[id] \in Users
<1>1. PICK n \in 0..MaxTokens : owner \in [1..n -> accounts]
  BY DEF TypeOK
<1>2. owner \in Seq(accounts)
  BY <1>1, SeqDef, MaxTokensAssumption
<1>3. Len(owner) = n /\ DOMAIN owner = 1..n
  BY <1>1, <1>2, LenProperties
<1> QED
  BY <1>1, <1>3 DEF TypeOK

(* Another token may be issued to a user of A.                             *)
LEMMA Issues ==
    ASSUME TypeOK, NEW A, accounts \subseteq A, NEW u \in A, Len(owner) < MaxTokens
    PROVE  /\ Append(owner, u) \in UNION {[1..n -> A] : n \in 0..MaxTokens}
           /\ DOMAIN Append(owner, u) = 1..(Len(owner) + 1)
<1>1. PICK n \in 0..MaxTokens : owner \in [1..n -> accounts]
  BY DEF TypeOK
<1>2. owner \in Seq(accounts) /\ owner \in Seq(A)
  BY <1>1, SeqDef, MaxTokensAssumption
<1>3. Len(owner) = n /\ n \in Nat
  BY <1>1, <1>2, LenProperties, MaxTokensAssumption
<1>4. /\ Append(owner, u) \in Seq(A)
      /\ Len(Append(owner, u)) = n + 1
  BY <1>2, <1>3, AppendProperties
<1>5. Append(owner, u) \in [1..(n + 1) -> A]
  BY <1>4, LenProperties
<1>6. n + 1 \in 0..MaxTokens
  BY <1>3, MaxTokensAssumption
<1> QED
  BY <1>3, <1>5, <1>6

LEMMA InitIInv == Init => IInv
<1> SUFFICES ASSUME Init PROVE IInv
  OBVIOUS
<1>1. owner \in [1..0 -> accounts]
  BY DEF Init
<1>2. owner \in UNION {[1..n -> accounts] : n \in 0..MaxTokens}
  BY <1>1, MaxTokensAssumption
<1>3. DOMAIN owner = {} 
  BY DEF Init
<1> QED
  BY <1>2, <1>3, NoneIsNone
     DEF Init, IInv, TypeOK, Granted, RefreshHasAccess, NoRequest, Request, NoLogout, Logout

-----------------------------------------------------------------------------
(* The parts of the type invariant that a tab's own state makes up.        *)
TabOK ==
    /\ page \in [Tabs -> {"login", "app"}]
    /\ header \in [Tabs -> Users \cup {None}]
    /\ request \in [Tabs -> Request]
    /\ logout \in [Tabs -> Logout]

(* A page load leaves the tab well-typed and nothing granted to it.        *)
LEMMA ReloadedOK ==
    ASSUME TabOK, Granted, NEW t \in Tabs, Reloaded(t)
    PROVE  TabOK' /\ Granted'
  BY DEF TabOK, Granted, Reloaded, NoRequest, Request, NoLogout, Logout, Access

(* The authorization of a request is an access token or none.              *)
LEMMA AuthorizationOK ==
    ASSUME TypeOK, NEW t \in Tabs
    PROVE  \A a \in Authorization(t) : a \in Access \cup {None}
  BY DEF TypeOK, Authorization, Access

(* One step of a tab's request.                                            *)
LEMMA RequestStep ==
    ASSUME IInv, NEW t \in Tabs,
           SendRequest(t) \/ Answer(t) \/ RefreshAccessToken(t) \/ Refreshed(t) \/ RefreshFailed(t)
    PROVE  IInv'
<1>0. TabOK /\ Granted /\ TypeOK /\ RefreshHasAccess
  BY DEF IInv, TypeOK, TabOK
<1>d. DOMAIN owner \subseteq Ids
  BY MaxTokensAssumption, <1>0, OwnersAreUsers DEF Ids
<1>1. CASE SendRequest(t)
  <2>1. PICK a \in Access \cup {None} :
          request' = [request EXCEPT ![t] = [NoRequest EXCEPT !.stage = "sent", !.token = a]]
    BY <1>0, <1>1, AuthorizationOK DEF SendRequest
  <2>2. request' \in [Tabs -> Request] /\ Granted'
    BY <1>0, <2>1 DEF TabOK, Request, NoRequest, Granted
  <2> QED
    BY <1>0, <1>1, <2>2 DEF SendRequest, IInv, TypeOK, RefreshHasAccess, server, storage
<1>2. CASE Answer(t)
  <2>1. refresh \in Ids \cup {None}
    BY <1>0, <1>d DEF TypeOK
  <2>2. TabOK' /\ Granted'
    <3>1. CASE Reloaded(t)
      BY <1>0, <3>1, ReloadedOK
    <3>2. CASE request' = [request EXCEPT ![t] = NoRequest] /\ UNCHANGED <<page, header, logout>>
      BY <1>0, <3>2 DEF TabOK, Request, NoRequest, Granted
    <3>3. CASE /\ request' = [request EXCEPT ![t] =
                    [NoRequest EXCEPT !.stage = "refreshing", !.id = refresh, !.retry = TRUE]]
               /\ UNCHANGED <<page, header, logout>>
      BY <1>0, <2>1, <3>3 DEF TabOK, Request, NoRequest, Granted
    <3> QED
      BY <1>2, <3>1, <3>2, <3>3 DEF Answer
  <2> QED
    BY <1>0, <1>2, <2>2 DEF Answer, IInv, TypeOK, TabOK, RefreshHasAccess, server, storage
<1>3. CASE RefreshAccessToken(t)
  <2>1. owner[request[t].id] \in Users
    BY <1>0, <1>3, OwnersAreUsers DEF RefreshAccessToken, TypeOK
  <2>2. PICK a \in Access :
          request' = [request EXCEPT ![t].stage = "granted", ![t].token = a]
    BY <1>3, <2>1, IssuedIsAccess DEF RefreshAccessToken
  <2>3. request' \in [Tabs -> Request] /\ Granted'
    BY <1>0, <2>2 DEF TabOK, Request, Granted
  <2>4. UNCHANGED <<server, storage, page, header, logout>>
    BY <1>3 DEF RefreshAccessToken
  <2> QED
    BY <1>0, <2>3, <2>4 DEF IInv, TypeOK, RefreshHasAccess, server, storage
<1>4. CASE Refreshed(t)
  <2>1. request[t].token \in Access
    BY <1>0, <1>4 DEF Refreshed, Granted
  <2>2. request[t].token.user \in Users
    BY <2>1 DEF Access
  <2>3. TabOK' /\ Granted'
    BY <1>0, <1>4, <2>2 DEF Refreshed, TabOK, Request, Granted
  <2>4. RefreshHasAccess'
    BY <1>4, <2>1, NoneIsNone DEF Refreshed, RefreshHasAccess
  <2> QED
    <3>1. access' \in Access /\ UNCHANGED <<accounts, owner, redis, refresh>>
      BY <1>4, <2>1 DEF Refreshed, server
    <3> QED
      BY <1>0, <2>3, <2>4, <3>1 DEF IInv, TypeOK, TabOK
<1>5. CASE RefreshFailed(t)
  <2>1. TabOK' /\ Granted'
    BY <1>0, <1>5, ReloadedOK DEF RefreshFailed
  <2> QED
    BY <1>0, <1>5, <2>1 DEF RefreshFailed, IInv, TypeOK, TabOK, RefreshHasAccess, server
<1> QED
  BY <1>1, <1>2, <1>3, <1>4, <1>5

(* A login stores the tokens it was issued.                                *)
LEMMA LoginStep ==
    ASSUME IInv, NEW t \in Tabs, NEW u \in Users,
           LoginUser(t, u) \/ RegisterUser(t, u) \/ SocialLogin(t, u)
    PROVE  IInv'
<1>0. TabOK /\ Granted /\ TypeOK
  BY DEF IInv, TypeOK, TabOK
<1>1. Tokens(t, u)
  BY DEF LoginUser, RegisterUser, SocialLogin
<1>2. u \in accounts' /\ accounts \subseteq accounts' /\ accounts' \subseteq Users
  BY <1>0 DEF LoginUser, RegisterUser, SocialLogin, TypeOK
<1>3. /\ owner' \in UNION {[1..n -> accounts'] : n \in 0..MaxTokens}
      /\ DOMAIN owner' = 1..(Len(owner) + 1)
      /\ DOMAIN owner = 1..Len(owner)
      /\ Len(owner) \in Nat
  <2>1. owner' = Append(owner, u) /\ Len(owner) < MaxTokens
    BY <1>1 DEF Tokens, Issue
  <2>2. /\ Append(owner, u) \in UNION {[1..n -> accounts'] : n \in 0..MaxTokens}
        /\ DOMAIN Append(owner, u) = 1..(Len(owner) + 1)
    BY <1>0, <1>2, <2>1, Issues
  <2> QED
    BY <1>0, <2>1, <2>2, MaxTokensAssumption, OwnersAreUsers
<1>4. redis' \subseteq DOMAIN owner' /\ refresh' \in DOMAIN owner'
  <2>1. redis' \subseteq redis \cup {Len(owner) + 1}
    BY DEF LoginUser, RegisterUser, SocialLogin
  <2>2. refresh' = Len(owner) + 1
    BY <1>1 DEF Tokens
  <2> QED
    BY <1>0, <1>3, <2>1, <2>2 DEF TypeOK
<1>5. access' \in Access /\ access' # None
  BY <1>1, IssuedIsAccess, NoneIsNone DEF Tokens
<1>6. TabOK' /\ Granted'
  <2>1. page' \in [Tabs -> {"login", "app"}]
    BY <1>0, <1>1 DEF Tokens, TabOK
  <2>2. \/ UNCHANGED <<header, request, logout>>
        \/ /\ header' = [header EXCEPT ![t] = None]
           /\ request' = [request EXCEPT ![t] = NoRequest]
           /\ logout' = [logout EXCEPT ![t] = NoLogout]
    BY DEF LoginUser, RegisterUser, SocialLogin
  <2>3. CASE UNCHANGED <<header, request, logout>>
    BY <1>0, <2>1, <2>3 DEF TabOK, Granted
  <2>4. CASE /\ header' = [header EXCEPT ![t] = None]
             /\ request' = [request EXCEPT ![t] = NoRequest]
             /\ logout' = [logout EXCEPT ![t] = NoLogout]
    <3>1. NoRequest \in Request /\ NoRequest.stage # "granted" /\ NoLogout \in Logout
      BY DEF NoRequest, Request, NoLogout, Logout
    <3> QED
      BY <1>0, <2>1, <2>4, <3>1 DEF TabOK, Granted
  <2> QED
    BY <2>2, <2>3, <2>4
<1> QED
  BY <1>2, <1>3, <1>4, <1>5, <1>6 DEF IInv, TypeOK, TabOK, RefreshHasAccess

(* A step of a logout, a navigation, or time.                              *)
LEMMA OtherStep ==
    ASSUME IInv,
           \/ \E t \in Tabs : BeginLogout(t) \/ LogoutUser(t) \/ LoggedOut(t) \/ LogoutFailed(t) \/ Navigate(t)
           \/ AccessExpires \/ RefreshExpires
    PROVE  IInv'
<1>0. TabOK /\ Granted /\ TypeOK /\ RefreshHasAccess
  BY DEF IInv, TypeOK, TabOK
<1>d. DOMAIN owner \subseteq Ids
  BY MaxTokensAssumption, <1>0, OwnersAreUsers DEF Ids
<1>1. ASSUME NEW t \in Tabs, BeginLogout(t) PROVE IInv'
  <2>1. refresh \in Ids \cup {None}
    BY <1>0, <1>d DEF TypeOK
  <2>2. logout' \in [Tabs -> Logout] /\ page' \in [Tabs -> {"login", "app"}]
    BY <1>0, <1>1, <2>1 DEF BeginLogout, TabOK, Logout
  <2> QED
    BY <1>0, <1>1, <2>2 DEF BeginLogout, IInv, TypeOK, Granted, RefreshHasAccess, server, storage
<1>2. ASSUME NEW t \in Tabs, LogoutUser(t) \/ LogoutFailed(t) PROVE IInv'
  <2>1. logout' \in [Tabs -> Logout]
    BY <1>0, <1>2 DEF LogoutUser, LogoutFailed, TabOK, Logout, NoLogout
  <2> QED
    BY <1>0, <1>2, <2>1 DEF LogoutUser, LogoutFailed, IInv, TypeOK, Granted, RefreshHasAccess, server, storage
<1>3. ASSUME NEW t \in Tabs, LoggedOut(t) PROVE IInv'
  <2>1. logout' \in [Tabs -> Logout]
    BY <1>0, <1>3 DEF LoggedOut, TabOK, Logout, NoLogout
  <2> QED
    BY <1>0, <1>3, <2>1 DEF LoggedOut, IInv, TypeOK, Granted, RefreshHasAccess, server
<1>4. ASSUME NEW t \in Tabs, Navigate(t) PROVE IInv'
  <2>1. page' \in [Tabs -> {"login", "app"}]
    BY <1>0, <1>4 DEF Navigate, TabOK
  <2> QED
    BY <1>0, <1>4, <2>1 DEF Navigate, IInv, TypeOK, Granted, RefreshHasAccess, server, storage
<1>5. CASE AccessExpires
  <2>1. access' \in Access
    BY <1>0, <1>5 DEF AccessExpires, TypeOK, Access
  <2> QED
    BY <1>0, <1>5, <2>1, NoneIsNone
       DEF AccessExpires, IInv, TypeOK, Granted, RefreshHasAccess, server, tab
<1>6. CASE RefreshExpires
  BY <1>0, <1>6 DEF RefreshExpires, IInv, TypeOK, Granted, RefreshHasAccess, storage, tab
<1> QED
  BY <1>1, <1>2, <1>3, <1>4, <1>5, <1>6

LEMMA NextIInv == IInv /\ [Next]_vars => IInv'
<1> SUFFICES ASSUME IInv, [Next]_vars PROVE IInv'
  OBVIOUS
<1>1. CASE Next
  BY <1>1, RequestStep, LoginStep, OtherStep DEF Next
<1>2. CASE UNCHANGED vars
  BY <1>2 DEF vars, server, storage, tab, IInv, TypeOK, Granted, RefreshHasAccess
<1> QED
  BY <1>1, <1>2

(* The types, and that Redis, the storage and the tabs hold only refresh   *)
(* tokens that were issued, each to a registered user.                     *)
THEOREM TypeCorrect == Spec => []TypeOK
<1>1. Spec => []IInv
  BY InitIInv, NextIInv, PTL DEF Spec
<1>2. IInv => TypeOK
  BY DEF IInv
<1> QED
  BY <1>1, <1>2, PTL

(* The storage never has a refresh token alone, for any number of tabs     *)
(* that log in, log out, refresh and fail to at the same time.             *)
THEOREM RefreshNeverAlone == Spec => []RefreshHasAccess
<1>1. Spec => []IInv
  BY InitIInv, NextIInv, PTL DEF Spec
<1>2. IInv => RefreshHasAccess
  BY DEF IInv
<1> QED
  BY <1>1, <1>2, PTL
=============================================================================
