--------------------------------- MODULE Session ---------------------------------
(***************************************************************************)
(* The session of one browser: the tokens in its localStorage, which its   *)
(* tabs share (front/src/utils/axiosInstance.ts, features/auth), and the   *)
(* server's half (server/app/domains/auth): users, access tokens that      *)
(* expire and refresh tokens that are good while Redis has them.           *)
(*                                                                         *)
(* A tab has at most one API request and one logout under way; each goes   *)
(* on at its answer, whatever the tab shows by then, unless the page was   *)
(* reloaded, which drops them.                                             *)
(***************************************************************************)
EXTENDS Naturals, Sequences

CONSTANTS
    Users, Tabs,
    None,        \* no token
    MaxTokens,   \* bound on the refresh tokens issued
    BornDead     \* an access token may be expired when it is issued

ASSUME MaxTokensAssumption == MaxTokens \in Nat \ {0}
ASSUME BornDeadAssumption  == BornDead \in BOOLEAN
ASSUME NoneAssumption ==
    /\ None \notin Users
    /\ None \notin 1..MaxTokens
    /\ None \notin [user : Users, dead : BOOLEAN]

VARIABLES
    accounts,    \* registered users
    owner,       \* the user of each refresh token, in the order of issue
    redis,       \* refresh tokens that are stored
    access,      \* localStorage's access_token: its user, and if it has expired
    refresh,     \* localStorage's refresh_token
    page,        \* "login", or "app" for a page behind RequireAuth
    header,      \* whose token a tab sends when none is stored: that of its
                 \* last refresh (axiosInstance.defaults)
    request,     \* a tab's API request
    logout       \* a tab's logout

storage == <<access, refresh>>
server  == <<accounts, owner, redis>>
tab     == <<page, header, request, logout>>
vars    == <<server, storage, tab>>

Ids    == 1..MaxTokens
Access == [user : Users, dead : BOOLEAN]

NoRequest == [stage |-> "none", token |-> None, id |-> None, retry |-> FALSE]
Request   == [stage : {"none", "sent", "refreshing", "granted"},
              token : Access \cup {None},   \* Authorization of the request
              id    : Ids \cup {None},      \* refresh token of the refresh
              retry : BOOLEAN]              \* _retry

NoLogout == [stage |-> "none", id |-> None]
Logout   == [stage : {"none", "sent", "done"}, id : Ids \cup {None}]

(* The types, and that what Redis and the tabs hold has been issued.       *)
TypeOK ==
    /\ accounts \subseteq Users
    /\ owner \in UNION {[1..n -> accounts] : n \in 0..MaxTokens}
    /\ redis \subseteq DOMAIN owner
    /\ access \in Access \cup {None}
    /\ refresh \in DOMAIN owner \cup {None}
    /\ page \in [Tabs -> {"login", "app"}]
    /\ header \in [Tabs -> Users \cup {None}]
    /\ request \in [Tabs -> Request]
    /\ logout \in [Tabs -> Logout]

Init ==
    /\ accounts = {}
    /\ owner = <<>>
    /\ redis = {}
    /\ access = None
    /\ refresh = None
    /\ page = [t \in Tabs |-> "login"]
    /\ header = [t \in Tabs |-> None]
    /\ request = [t \in Tabs |-> NoRequest]
    /\ logout = [t \in Tabs |-> NoLogout]

-----------------------------------------------------------------------------
(* The server.                                                             *)

(* create_access_token: the expiry is the server's local time, encoded as  *)
(* if it were UTC, so behind UTC the token may be expired at once.         *)
Issued(u) == {[user |-> u, dead |-> d] : d \in IF BornDead THEN BOOLEAN ELSE {FALSE}}

(* get_current_user.  Bound: accounts are never deleted.                   *)
Unauthorized(token) == token \notin [user : Users, dead : {FALSE}]

(* create_refresh_token: the next id.                                      *)
Issue(u) == owner' = Append(owner, u)

-----------------------------------------------------------------------------
(* Requests of the API, and the interceptor of their answers.              *)

(* The stored token, or else the one the tab's defaults keep.              *)
Authorization(t) ==
    IF access # None THEN {access}
    ELSE IF header[t] # None THEN [user : {header[t]}, dead : BOOLEAN]
    ELSE {None}

SendRequest(t) ==
    /\ page[t] = "app"
    /\ request[t].stage = "none"
    /\ \E a \in Authorization(t) :
         request' = [request EXCEPT ![t] = [NoRequest EXCEPT !.stage = "sent", !.token = a]]
    /\ UNCHANGED <<server, storage, page, header, logout>>

(* window.location.href = "/login": the page is loaded anew.               *)
Reloaded(t) ==
    /\ page' = [page EXCEPT ![t] = "login"]
    /\ header' = [header EXCEPT ![t] = None]
    /\ request' = [request EXCEPT ![t] = NoRequest]
    /\ logout' = [logout EXCEPT ![t] = NoLogout]

(* Mutant: the retried request is not marked.                              *)
AnswerUnmarked(t) ==
    LET r == request[t] IN
    /\ r.stage = "sent"
    /\ \/ /\ ~Unauthorized(r.token)
          /\ request' = [request EXCEPT ![t] = NoRequest]
          /\ UNCHANGED <<page, header, logout>>
       \/ /\ Unauthorized(r.token)
          /\ refresh # None
          /\ request' = [request EXCEPT ![t] = [NoRequest EXCEPT !.stage = "refreshing", !.id = refresh]]
          /\ UNCHANGED <<page, header, logout>>
       \/ /\ Unauthorized(r.token)
          /\ refresh = None
          /\ Reloaded(t)
    /\ UNCHANGED <<server, storage>>

(* An answer that is not 401 ends the request, as does a second 401.       *)
Answer(t) ==
    LET r == request[t] IN
    /\ r.stage = "sent"
    /\ \/ /\ ~Unauthorized(r.token) \/ r.retry
          /\ request' = [request EXCEPT ![t] = NoRequest]
          /\ UNCHANGED <<page, header, logout>>
       \/ /\ Unauthorized(r.token) /\ ~r.retry
          /\ refresh # None
          /\ request' = [request EXCEPT ![t] =
                [NoRequest EXCEPT !.stage = "refreshing", !.id = refresh, !.retry = TRUE]]
          /\ UNCHANGED <<page, header, logout>>
       \/ /\ Unauthorized(r.token) /\ ~r.retry
          /\ refresh = None
          /\ Reloaded(t)
    /\ UNCHANGED <<server, storage>>

(* refresh_access_token grants a new access token.                         *)
RefreshAccessToken(t) ==
    LET r == request[t] IN
    /\ r.stage = "refreshing"
    /\ r.id \in redis
    /\ \E a \in Issued(owner[r.id]) :
         request' = [request EXCEPT ![t].stage = "granted", ![t].token = a]
    /\ UNCHANGED <<server, storage, page, header, logout>>

(* The new token is stored, whatever the storage holds by now, and the     *)
(* request is sent again.                                                  *)
Refreshed(t) ==
    LET r == request[t] IN
    /\ r.stage = "granted"
    /\ access' = r.token
    /\ header' = [header EXCEPT ![t] = r.token.user]
    /\ request' = [request EXCEPT ![t].stage = "sent", ![t].id = None]
    /\ UNCHANGED <<server, refresh, page, logout>>

(* Mutant: the refresh token is kept.                                      *)
RefreshFailedKeeps(t) ==
    /\ request[t].stage = "refreshing"
    /\ access' = None
    /\ refresh' = refresh
    /\ Reloaded(t)
    /\ UNCHANGED server

(* The refresh is refused or fails.                                        *)
RefreshFailed(t) ==
    /\ request[t].stage = "refreshing"
    /\ access' = None
    /\ refresh' = None
    /\ Reloaded(t)
    /\ UNCHANGED server

-----------------------------------------------------------------------------
(* Logging in and out.                                                     *)

(* The tokens of an answer are stored, and the form goes to a page behind  *)
(* RequireAuth.  A login takes nothing from the time it began, so that its *)
(* request and its answer are one step.                                    *)
Tokens(t, u) ==
    /\ page[t] = "login"
    /\ Len(owner) < MaxTokens
    /\ Issue(u)
    /\ access' \in Issued(u)
    /\ refresh' = Len(owner) + 1
    /\ page' = [page EXCEPT ![t] = "app"]

(* login_user stores the refresh token in Redis.                           *)
LoginUser(t, u) ==
    /\ u \in accounts
    /\ Tokens(t, u)
    /\ redis' = redis \cup {Len(owner) + 1}
    /\ UNCHANGED <<accounts, header, request, logout>>

(* register_user does not.                                                 *)
RegisterUser(t, u) ==
    /\ u \notin accounts
    /\ Tokens(t, u)
    /\ accounts' = accounts \cup {u}
    /\ UNCHANGED <<redis, header, request, logout>>

(* Mutant: the new user is not created.                                    *)
SocialLoginOnly(t, u) ==
    /\ Tokens(t, u)
    /\ redis' = redis \cup {Len(owner) + 1}
    /\ header' = [header EXCEPT ![t] = None]
    /\ request' = [request EXCEPT ![t] = NoRequest]
    /\ logout' = [logout EXCEPT ![t] = NoLogout]
    /\ UNCHANGED accounts

(* The callback of a provider: the user is created if he is new, the       *)
(* tokens come with a page load.                                           *)
SocialLogin(t, u) ==
    /\ Tokens(t, u)
    /\ accounts' = accounts \cup {u}
    /\ redis' = redis \cup {Len(owner) + 1}
    /\ header' = [header EXCEPT ![t] = None]
    /\ request' = [request EXCEPT ![t] = NoRequest]
    /\ logout' = [logout EXCEPT ![t] = NoLogout]

(* The logout button: the tab shows the login page at once.                *)
BeginLogout(t) ==
    /\ page[t] = "app"
    /\ logout[t].stage = "none"
    /\ page' = [page EXCEPT ![t] = "login"]
    /\ logout' = [logout EXCEPT ![t] = [stage |-> IF refresh = None THEN "done" ELSE "sent", id |-> refresh]]
    /\ UNCHANGED <<server, storage, header, request>>

(* logout_user.                                                            *)
LogoutUser(t) ==
    /\ logout[t].stage = "sent"
    /\ redis' = redis \ {logout[t].id}
    /\ logout' = [logout EXCEPT ![t].stage = "done"]
    /\ UNCHANGED <<accounts, owner, storage, page, header, request>>

LoggedOut(t) ==
    /\ logout[t].stage = "done"
    /\ access' = None
    /\ refresh' = None
    /\ logout' = [logout EXCEPT ![t] = NoLogout]
    /\ UNCHANGED <<server, page, header, request>>

(* A failed logout leaves the tokens where they are.                       *)
LogoutFailed(t) ==
    /\ logout[t].stage = "sent"
    /\ logout' = [logout EXCEPT ![t] = NoLogout]
    /\ UNCHANGED <<server, storage, page, header, request>>

(* The user goes to a page of the application, or the form does after a    *)
(* refused login; RequireAuth looks at the access token only.              *)
Navigate(t) ==
    /\ access # None
    /\ page[t] = "login"
    /\ page' = [page EXCEPT ![t] = "app"]
    /\ UNCHANGED <<server, storage, header, request, logout>>

-----------------------------------------------------------------------------
(* Time: the access token in the storage, and a token in Redis, expire.    *)
AccessExpires ==
    /\ access # None
    /\ ~access.dead
    /\ access' = [access EXCEPT !.dead = TRUE]
    /\ UNCHANGED <<server, refresh, tab>>

RefreshExpires ==
    /\ \E id \in redis : redis' = redis \ {id}
    /\ UNCHANGED <<accounts, owner, storage, tab>>

-----------------------------------------------------------------------------
Next ==
    \/ \E t \in Tabs :
         \/ SendRequest(t) \/ Answer(t) \/ RefreshAccessToken(t) \/ Refreshed(t) \/ RefreshFailed(t)
         \/ BeginLogout(t) \/ LogoutUser(t) \/ LoggedOut(t) \/ LogoutFailed(t) \/ Navigate(t)
         \/ \E u \in Users : LoginUser(t, u) \/ RegisterUser(t, u) \/ SocialLogin(t, u)
    \/ AccessExpires \/ RefreshExpires

Spec == Init /\ [][Next]_vars

(* Every request comes to an answer or an error.                           *)
FairSpec ==
    Spec /\ \A t \in Tabs : WF_vars(Answer(t) \/ RefreshAccessToken(t) \/ Refreshed(t) \/ RefreshFailed(t))

-----------------------------------------------------------------------------
(* A stored refresh token never stands without an access token: with two   *)
(* tabs logging in and out, refreshing and failing to, RequireAuth, which  *)
(* looks at the access token only, never sends a user to the login page    *)
(* whom a refresh could have kept.                                         *)
RefreshHasAccess == refresh # None => access # None

(* A request ends: an answer of 401 leads to one refresh and one retry,    *)
(* not to a loop of them, even when new access tokens are expired too.     *)
RequestsSettle == \A t \in Tabs : request[t].stage # "none" ~> request[t].stage = "none"

=============================================================================
