# NaLang: specifications and proofs

NaLang pairs strangers for voice calls. A React client (`front/`) searches for a
partner over a websocket, the FastAPI server (`server/`) matches the waiting
users, and the call itself runs in a LiveKit room that a recording agent
(`agent/`) joins. This directory holds TLA+ models of the parts where several
actors interleave, the TLC configurations that check them on small instances,
and TLAPS proofs of what holds for every instance.

| module | what it is |
| --- | --- |
| `Matchmaking` | the server's queue and match proposals, one asyncio task per websocket |
| `MatchFilter` | `is_match` and the filters a client sends |
| `Pairing` | what the matchmaking promises: an abstract specification that `Matchmaking` implements |
| `WaitingRoom` | one visit to the client's waiting page and its websocket hook |
| `CallRoom` | one call: the pages of its two users, the LiveKit room, the history |
| `Session` | one browser's tokens, shared by its tabs, and the server's authentication |
| `Recording` | the recording agent as a job of its process, the egress and the recording's URL |
| `ProcPool`, `Worker` | the agents runtime: pool of job processes; the worker built on it |
| `Speech` | the agents runtime: speeches, user turns, handoff and close of a voice session |
| `MC*` | values for the constants, symmetry and a view, for TLC |
| `MatchmakingProofs`, `MatchmakingRefinementProofs`, `WaitingRoomProofs`, `CallRoomProofs`, `SessionProofs`, `RecordingProofs`, `WorkerProofs`, `SpeechProofs` | the TLAPS proofs |

## 1. Inventory of the system

### Call server: matchmaking (`server/app/domains/call/services/ws_service.py`, `routes_ws.py`)

*State.* Three module-level objects: `waiting_users` (user id to websocket, in
insertion order), `matching_candidates` (room to its two users, two sockets and
the set of users who accepted), `entered_users` (user ids). In Redis a key
`call:user:{id}` with the user's data and filters, for 600 s.

*Operations.* `handle_connect` writes the key, scans a snapshot of the queue,
and either proposes a room to both users or queues the newcomer.
`handle_receive_event` serves `entered`, `accept` and `rejected`.
`handle_disconnect` withdraws a user from queue and rooms. `websocket_waiting`
runs them in one task per connection.

*Hard.* The tasks share the dictionaries without a lock and interleave at every
Redis call and every send. An exception anywhere ends the task through
`handle_disconnect`, which itself iterates over a dictionary that others change,
may raise, and may run twice. Two connections of one user share one entry and
one key. A deployment restarts the process and loses the dictionaries but not
the keys.

*Correct when* a socket is in one place (queued, or in one candidate room), a
room joins two different users who asked for each other, a proposal a client
sees is of a room that still exists, marks in `entered_users` do not stay
behind, every task of a closed connection ends, and the whole looks like atomic
pairings.

### Client: waiting page (`front/.../pages/WaitingRoom.tsx`, `front/src/hooks/useCallWebSocket.ts`)

*State.* The hook's current websocket, `connected` and last `message`; the
page's `matchInfo`, `countdown`, `partnerData`; websockets, timeouts and requests
in flight that live outside React's state.

*Operations.* Connect on mount, take up a proposal, count down, request the
partner's profile, enter the room (announce, fetch a token, disconnect,
navigate), reject, start over after a withdrawal, leave.

*Hard.* Callbacks see the state of the render that created them; effects run
again whenever a dependency changes, and `connect` changes on every render; old
websockets go on delivering events to handlers that act on the new one's state.

*Correct when* the hook never keeps a dead websocket, only a full countdown
enters a room, a countdown comes to an end and a withdrawal leads to a new
search.

### Client: call room (`front/.../components/CustomRoomUI.tsx`, `VoiceCallRoom.tsx`, `callApi.ts`)

*State.* The remaining seconds, the connection to the LiveKit room, the start
time. *Operations.* Tick, extend (locally and by a data message), leave, react
to a participant who left, save the history; the layout around the page
(`layout/Landing.tsx`, `FooterNavigationBar.tsx`) and the browser lead away from
it and back. *Hard.* The two countdowns are kept
apart and synchronised only by messages; the end of the call is an await during
which LiveKit's events go on; `participantDisconnected` also fires for the
recording agent; a page that is left at any moment saves nothing by itself, while
a leaving routine goes on without its page. *Correct when* both sides end the call,
each who ended it has it in his history, and their countdowns agree.

### Call services (`livekit_service.py`, `routes.py`, `crud.py`, `models/call_history.py`)

*State.* LiveKit's rooms, the table `call_histories`. *Operations.* Token,
delete room, create history (a duration of at least one second), list history,
set the recording's URL. *Hard.* The URL is set by one UPDATE over the rows that
exist when the agent sends it, for every room of that name. *Correct when* a URL
in the history is of a recording that exists. The other list, key
`call:waiting:{id}` (`routes_ws.py:33-52`, `livekit_service.py:34-42`), is
written and deleted but no match reads it.

### Authentication and session (`server/app/domains/auth/**`, `front/.../authSlice.ts`, `axiosInstance.ts`, `App.tsx`)

*State.* Users, refresh tokens in Redis, the two tokens in `localStorage`, the
store's user. *Operations.* Register, log in (password, Google, Kakao, LINE,
Naver), refresh, log out, retry of a request after a refresh. *Hard.* Tabs share
the storage: their refreshes, logins and logouts overlap, each an await apart
from the storage it read. *Correct when* a request settles after at most one
refresh, and the storage is not left in a state in which the page sends a user
to the login whom a refresh could have kept.

### Users (`server/app/domains/user/**`, `front/.../user/**`)

Profiles, interests, languages and genders with translations; one update in one
database transaction. Home page, filter sheet and history page are forms over
these.

### Recording agent (`agent/agent.py`)

*State.* A job's shutdown callbacks, the egress, the object in S3. *Operations.*
Join the room, wait for a participant, start the egress with retries, and on
shutdown wait for the object and put its URL. *Hard.* The room may end, and the
worker may end the process, at any await; the callback is registered last.
*Correct when* a URL that is put is of a file that exists, and the job ends.

### Agents runtime (`agent/livekit/agents/**`, LiveKit's framework kept in the repository, 27 000 lines)

*Worker and processes* (`worker.py`, `ipc/`). *State.* The list of executors,
the queue of warmed processes and those who wait for one, jobs offered and
assigned, messages to be sent. *Hard.* A spawn task, a monitor per process, the
main task, `launch_job` and `aclose` change these between their awaits;
processes fail to start, crash or are killed; the connection drops. *Correct
when* no process is lost from the list or handed out twice, a close leaves
nothing behind, statuses reach the server in order, and a waiting job gets a
process.

*Voice* (`voice/agent_activity.py`, `agent_session.py`, `speech_handle.py`).
*State.* Speech handles with two events each, an activity's priority queue,
current speech, preemptive generation and scheduling task, the session's two
activities. *Hard.* Any speech may be interrupted at any stage; a handoff and a
close each drain an activity, under different locks, while replies beget tool
replies and users go on speaking. *Correct when* one speech plays at a time, none
is forgotten, and a drain waits for all of them and ends.

*The rest* (llm, stt, tts, tokenize, utils) is not used by `agent.py`.

### How the parts interact

    waiting page  <-- match_proposal, rejected, disconnected --  matchmaking
    waiting page  --  entered, rejected, close              -->  matchmaking
    waiting page  --  POST /call/token, then navigation     -->  call room
    call room     --  data messages, DELETE /call/room      -->  LiveKit  --> call room, agent
    call room     --  POST /call/record --> call_histories <-- PUT /call/record -- agent
    LiveKit       --  availability, assignment              -->  worker --> process --> agent
    every page    --  bearer token, refresh on 401          -->  authentication

`PROJECT.json` lists the components with their state of modelling, and under
`hazards` each place where this code can go wrong in a way tests hardly reach.

## 2. Matchmaking

`Matchmaking` has one action per stretch of code between two awaits of
`ws_service.py`; the effect of the call that is awaited (a Redis write, a send)
is in the same action as the code before it. `pc[c]` names the await at which
the task of connection `c` is suspended.

| state | code |
| --- | --- |
| `queue` | `waiting_users`, a sequence of connections with at most one per user |
| `live`, `partner`, `accepted` | `matching_candidates`; a room is named by the connection whose task created it, since a task creates one at most |
| `entered` | `entered_users` |
| `keys` | Redis: for each user the connection whose data and filters his key holds, if it is there |
| `link`, `seen` | the client's end of a connection; the rooms it was offered |
| `pc`, `todo`, `room`, `size`, `gone`, `passes` | the local variables of a task: rest of the snapshot, room at hand, size of the dictionary when the walk began, `to_remove`, runs of `handle_disconnect` left |

| actions | code (`ws_service.py`, `routes_ws.py`) |
| --- | --- |
| `Open`, `Disconnect`, `Fail` | `websocket_waiting` 14-30 |
| `SetKey`, `Snapshot`, `Scan`, `Enqueue` | `handle_connect` 57-98, 124-126 |
| `ClaimGone`, `Claim`, `Propose`, `Forget` | 100-122; `ClaimGone` is the KeyError of `pop` |
| `ReceiveEntered`, `ReceiveAccept`, `TellMatched`, `Settle` | 136-148 |
| `ReceiveReject`, `Requeue` | 150-164; the KeyError of `del` is in `DeleteOwn` |
| `Unkey`, `BeginWalk`, `Notice`, `WalkOn`, `WalkChanged`, `DeleteRooms` | `handle_disconnect` 167-195; `WalkChanged` is the RuntimeError of a dictionary that changed size |
| `Close`, `Expire`, `Restart` | the client, Redis, `systemctl restart fastapi` in the deployment |

Decisions a reader should know of:

* **Sends.** A send to an open connection arrives. When the client has closed and
  the server has not noticed, it is lost or raises; when the task of the
  connection has ended it raises. A `WebSocketDisconnect` runs
  `handle_disconnect` twice (`except`, then `finally`), any other exception once.
* **Filters.** `Data` and `Filters` give each connection the user's data at the
  time and what it asks for, so that two tabs of a user may ask for different
  partners. `MatchFilter!IsMatch` is `is_match` with its conversions: a filter
  of 0 is not sent (`useCallWebSocket.ts`), and `birth_date` is `str()` of a
  DateTime, which `strptime` refuses, so that whoever has a birth date fails any
  age filter and whoever has none passes. `Wants` is what the filters ask for.
* **Messages.** A client sends events only about rooms it was offered. The client
  in this repository never sends `accept`; the server serves it, so the model does.
* **Database and token.** `get_current_user_ws` runs before the task has state
  and only reads; a refused connection is one that is never opened.
* **Over-approximations.** `Sweep` has an interleaving point before the walk when
  there is no queue entry to delete, where the code has none. Deletions that fail
  half-way (`DeleteRooms`) may have deleted any of the rooms, not a prefix of the
  list. Both only add behaviours, so what is shown holds of the code.

`Pairing` is the abstract specification: sets `queued` and `pairs`, and the steps
join, leave, pair, dissolve, turn down, restart, each atomic. Under the mapping
`queued <- Queued`, `pairs <- {Sockets(r) : r \in live}` every step of
`Matchmaking` is one of these or a stutter (`PairingSpec`): the awaits do not
show. A join, a pairing or a dissolution may come together with the withdrawal of
one queue entry, which is what an exception does before the task's next await.

| run | instance | checks |
| --- | --- | --- |
| `solo` | three users, one connection each; all events, keys expire, server restarts | `TypeOK`, `OnePlace`, `EnteredSwept`, `ProposalIsLive`, `PairingSpec` |
| `tabs` | two users, one with two connections that ask for different partners; all events | `OnePlace`, `PairsTwoUsers`, `MatchesSuit`, `EnteredSwept`, `PairingSpec` |
| `closing` | as `tabs`, with `rejected` only and filters that ask for anybody; `FairSpec` | `ClosedEnds` |
| `requeue` | violated: `QueuedIsMatchable` | "registered in the queue again" (line 160) is not matchable again: the key was deleted |

`ProposalIsLive` names the one way to be shown a room that is gone: one of its users
has disconnected. With one connection per user it can still happen to a client that
is there: the second of two accepts is answered by a send to the partner, who
accepted, rejected and closed; the exception ends the accepting user's task, while
the partner's reject queues his socket again; a third user, who read his key while
he waited, claims it; the task's own `handle_disconnect` deletes that new room, and
the proposal of it goes out. It takes three users and `accept`, which `solo` has.

*Bounds.* Every connection lives once, so the instances are finite without any
cut of the state space. Three connections are the least at which the races exist:
two newcomers that claim the same waiting user, a third party that changes the
dictionary during a walk, and a second tab of a user who is being paired; a
fourth would need a property that speaks of two disjoint pairs interacting, and
rooms interact only through a shared user. In `tabs` the user with two tabs
asks for a language that the other speaks in one of them and for an age in the
other; the other user has a birth date, of another age. A scan therefore meets a
match, and from either side a refusal by the conversion of the birth date: the
same constants with an `IsMatch` that ignores birth dates violate `MatchesSuit`.
That the conversion also refuses users of a fitting age is in `IsMatch` and breaks
no property. `MatchesSuit` is deliberately about some connections of the
two users and not the proposed ones: a key that another tab has overwritten, and
an entry another tab has replaced after the scan, make the code propose a socket
with the filters of a different one. In `closing` the events are cut to
`rejected` to keep the liveness check small; `entered` and `accept` add no
suspended position that `rejected` does not have (a send, then a deletion).

*Fairness.* `FairSpec` is weak fairness of every task's `Handle`: the event loop
runs each ready task, and Redis and the transport answer. Nothing is assumed of
clients, which need not send, close or answer. `Disconnect` is part of `Handle`,
for the loop delivers a close that has happened.

## 3. Waiting page

`WaitingRoom` is one visit to the page. The browser runs one callback at a time;
a callback that sets React state asks for a render (`dirty`), and `Render` is the
commit with the effects of lines 41-92 and 94-106, in that order. `shown` is what
the last commit displayed and what the closures made by it know. The effect of
line 41 has `connect` in its dependencies, which `useCallWebSocket` creates on
each render, and therefore runs on each render, whether `message` is new or not.

| state | code |
| --- | --- |
| `readyState`, `inbox` | the websockets, the hook's current one and those it has replaced |
| `socketRef`, `connected`, `message` | state and reference of the hook |
| `matchInfo`, `countdown`, `partnerData` | state of the page (a room stands for its proposal, a profile for its room) |
| `timer`, `fetching`, `tokens` | the armed timeout, profile requests, token requests with their closure |
| `sent`, `refused`, `counted`, `page`, `call` | history of events that left, rooms turned down, timeouts since the proposal; where the user is |

| actions | code |
| --- | --- |
| `OnOpen`, `OnMessage`, `OnClose`, `Connect`, `Send`, `Disconnected` | `useCallWebSocket.ts` 27-83 |
| `Render` = `MessageEffect`, `CountdownEffect` | `WaitingRoom.tsx` 41-92, 94-106 |
| `Tick`, `PartnerArrives`, `TokenArrives`, `HandleReject`, `Leave` | 102-105, 49-54, 114-122, 125-129, 32-38 |
| `Propose`, `Withdraw` | the messages of `ws_service.py` 112-117, 158, 184 |

The server here is any server that proposes new rooms on a connection without a
proposal and withdraws proposals, which `Matchmaking` allows. Two messages may
be overwritten before a render, sockets may fail at any time, and requests are
answered late, out of order or with an error. The initial countdown of ten is
never shown. Closed websockets may be used again for a later `new WebSocket`;
the bound `Socks` is on those alive at once.

| run | checks |
| --- | --- |
| `waiting_safety` | `TypeOK`, `RefIsLive`, `SearchGoesOn`, `FullCountdown` |
| `waiting_live` | `ProposalResolved`, under `FairSpec` |

*Bounds.* Two rooms: a second proposal is what an earlier timeout, profile or
reject can disturb. Two websockets: one replaced, one current. A countdown of two
instead of five has a first, a middle and a last timeout. `Backlog` bounds the
messages in flight to one socket; two are the least that can overtake a render.
`CHECK_DEADLOCK FALSE`: after the user has left and the sockets are closed
nothing happens any more. In `waiting_live` there is one websocket at a time, so
a new search starts only when the old connection has closed; what a second one
adds is in the safety run.

*Fairness.* Weak fairness of `Render` and `Tick`: the browser commits what is due
and fires timeouts of a visible page. Nothing is assumed of server, network,
requests or user. That suffices because late events may ask for renders but, as
`ProposalResolved` shows, do not restart the countdown.

*What the model shows and no property states*, since no text of the repository
says otherwise: a rejected proposal is taken up again by the next render, because
its message is still there; a call can be joined without `entered` having been
sent; a replaced websocket may stay open into the call; a partner's profile that
arrives late is shown with the next proposal; before any withdrawal nothing
reopens a websocket that drops.

## 4. Call room

`CallRoom` has both users' pages over one LiveKit room, which is external: it
keeps members and delivers to each its room events in order (`inbox`). The
recording agent is a member that comes and goes.

| state | code |
| --- | --- |
| `page`, `time`, `armed`, `dirty`, `elapsed` | the route, `remainingTime`, the timer effect's timeout, a render that is due, timeouts so far |
| `user`, `handler` | whether the store has the profile, and whether the handler made at mount does |
| `leaving` | each call of the leaving routine (timer at zero, or button): its DELETE request and what its closure knows |
| `inbox`, `members`, `open`, `called` | LiveKit's room, and an agent job that has not joined yet |
| `history` | what became of a user's present or last visit to the call: nothing yet, `recorded` (one row or more), `missed` (a request was not made, refused or lost), `walked` (he only went to another page) |
| `unheard`, `extends`, `returned` | an extension published with the partner absent; bounds |

| actions | code |
| --- | --- |
| `Join`, `Reload`, `Return`, `UserLoads` | `VoiceCallRoom.tsx` 6-41, `App.tsx` 12-17 |
| `WalkAway` | the logo and the navigation bar of `Landing.tsx` (9, 24; `FooterNavigationBar.tsx` 30-44) around every page of `App.tsx` 26-53, and the browser's history |
| `Render`, `Tick`, `HandleLeave`, `HandleExtend`, `HandleData` | `CustomRoomUI.tsx` 83-144 |
| `HandleParticipantDisconnected`, `DeleteAnswered`, `LeaveFinally` | 54-65, 85-95 with `saveHistory` 31-51 and `record_call`, `delete_room` of `livekit_service.py` |
| `AgentJoins`, `AgentLeaves`, `RoomEmpties` | LiveKit |

`callroom` checks `TypeOK`, `CallIsRecorded`, `ExtensionsAgree` and, under
`FairSpec`, `CallEnds`. One update of LiveKit may report several participants
gone, for each of which the handler runs (and saves) before the page goes away.

*Leaving by navigation.* `VoiceCallRoom` is rendered inside the layout, whose logo
and navigation bar lead to other pages, as the browser's history does. The page is
then unmounted and LiveKit disconnected, and no effect of `CustomRoomUI` saves the
history: a user who does nothing else has no row. `WalkAway` is that step, possible
whenever the page is shown. If a leaving routine is under way its closure goes on,
saves, and navigates home; a reload of whatever page the user is on loses it. The
browser's history also leads back (`Return`): the token and the partner are in its
entry, and the visit begins anew. `CallIsRecorded` therefore says that a user who
is home with no routine under way has a row, unless the visit is marked `missed` or
`walked`, and `walked` is set only where a page is left, or its routines are lost
by a reload, with nothing saved. Its mutant is a routine that saves only while its
page is mounted.

*Bounds.* A call time of one and an extension of two: a countdown that is over,
one that is extended in time and one extended while its deletion is awaited. One
extension can already cross the partner's end and his arrival. One leaving
routine per page; one user reloads or returns once, after which his start time
and handler are new. Either user may walk away at any moment. That two extensions cross is beyond the bound of the run and
inside the theorem. `CHECK_DEADLOCK FALSE`: both users get home.

*Fairness.* Weak fairness of each page's renders and timeouts and of the answers
to its requests: a browser's request ends with an answer or an error. LiveKit
need not deliver anything: the countdown alone must end the call.

## 5. Session

`Session` is one browser. `access` and `refresh` are `localStorage`, shared by
the tabs; each tab has a page, one request with the interceptor's refresh and
retry (`request`, with the token in its header and its `_retry` mark), and one
logout. The server has accounts, the refresh tokens it issued (`owner`) and those
Redis has (`redis`). An access token is its user and whether it has expired.

| actions | code |
| --- | --- |
| `SendRequest`, `Answer`, `Refreshed`, `RefreshFailed` | `axiosInstance.ts` 8-60 |
| `RefreshAccessToken`, `LoginUser`, `LogoutUser`, `RegisterUser`, `SocialLogin` | `auth/services/__init__.py`, `auth/routes.py`, `services/google.py` (the other three providers store and issue the same) |
| `BeginLogout`, `LoggedOut`, `LogoutFailed` | `authSlice.ts` 49-63 |
| `Navigate` | `AuthRequire.tsx` |
| `AccessExpires`, `RefreshExpires` | time |

`session` checks `TypeOK`, `RefreshHasAccess` and, under `FairSpec`,
`RequestsSettle`, with one user, two tabs and two refresh tokens, and with new
access tokens that may be expired at once (`security.py:8` encodes local time).
Two tokens are a login and the one that replaces or outlives it. *Fairness*: every
request comes to an answer or an error. `CHECK_DEADLOCK FALSE`: when all refresh
tokens are used up and nobody is logged in nothing need happen.

*What the model shows and no property states*: the refresh token that
registration issues is not in Redis, so the first refresh after a registration
fails and logs the user out (`auth/routes.py:55`); a refresh in flight stores an
access token after the logout; a failed refresh of one tab removes the tokens
that another tab's login has just stored.

## 6. Recording agent

`Recording` has one job per LiveKit room of a name: `ipc` is what the worker sent
to its process, `proc` the process with its shutdown (`running`, `closing`,
`waiting` for S3, `putting` the URL), `entry` the entrypoint, `tries` its
attempts at the egress, `hooks` its registered callbacks, `egress` the rooms that
egresses of the job record, `file` the jobs whose object is in S3, `rows` each
user's history row with the job whose URL it has. The egress is asked for by the
room's name (`agent.py` 122): an attempt made after the job's room is gone and was
created again records the room of the next job, under the key of the first
(`Records`). Keys differ by the second in which a job's user was there; the model
takes them to be different.

| actions | code |
| --- | --- |
| `LaunchJob`, `ReadStartJob`, `ReadShutdown`, `RoomDisconnected`, `RunShutdownCallbacks`, `CloseProcess`, `ProcessDies` | the job process: `ipc/job_proc_lazy_main.py`, `job_proc_executor.py`, `supervised_proc.py`, `proc_client.py` |
| `Connect`, `WaitForParticipant`, `StartEgress` | `job.py`, `utils/participant.py`, `agent.py` 111-199 |
| `WaitS3Object`, `PutRecord` | `agent.py` 73-85, 181-197 |
| `UserJoins`, `UserLeaves`, `RoomCloses`, `Records`, `EgressEnds`, `RecordCall` | LiveKit, S3, the clients |

`recording` checks `TypeOK`, `LinkedFileExists` and, under `FairSpec` (the
process's event loop runs its tasks and their waits end), `JobEnds`. Two rooms:
a late URL of the first meets the rows of the second. Two attempts: a first that
fails or times out with the egress started, and a last. `CHECK_DEADLOCK FALSE`:
after the rooms of the bound nothing more happens. History rows inserted after
the UPDATE never get a URL; the model has that, and nothing promises otherwise.

## 7. Worker and process pool

`ProcPool` is the pool: each executor has a `stage` (`created`, `starting`,
`started`, `initializing`, `up` or `stuck`, `closed`) that its spawn task and then
its monitor advance,
an operating system process (`child`) and a job. `warmed`, `waiting` and `woken`
are the asyncio queue of warmed processes with the getters that wait and those
that were woken and have not run. `pool` and `awaited` are how far `aclose` has
come and what its present gather waits for. `Worker` extends it by the server's
view of each job, the job's request task, assignments in flight, the channel of
messages, the drain and the close.

| actions | code |
| --- | --- |
| `Refill`, `BeginStart`, `Start`, `SendInitialize`, `Initialized`, `InitializeFails`, `PutWarmed` | `proc_pool.py` 124-205, `supervised_proc.py` 97-200 |
| `LaunchNow`, `LaunchLater`, `TakeProcess` (`Take`, `WaitAgain`, `Hand`) | `launch_job` 99-114; a woken getter may find the queue empty again |
| `Crash`, `Exit`, `Shutdown`, `CloseTimeout`, `ProcessClosed` | `supervised_proc.py`, `proc_client.py`, `job_proc_executor.py` |
| `ClosePool`, `Gather` (processes, spawn tasks, monitors) | 92-97, 206-209 |
| `AnswerAvailability`, `AssignmentTimeout`, `HandleAssignment`, `Send`, `Reconnect`, `HandleTermination`, `LoadTask` | `worker.py` 427-460, 608-726, 815-976 |
| `Stop`, `DrainOn`, `WorkerClosed` | `cli/_run.py` 92-101, `worker.py` 487-606 |

| run | checks |
| --- | --- |
| `worker` | `TypeOK`, `NoOrphans`, `HandedOnce`, `ClosedLeavesNothing`, `EndIsFinal`; under `FairSpec` `WaitingJobGetsProcess`, `CloseEnds` |
| `worker_drain` | violated: `DrainWaitsForJobs`. `drain` iterates over the list of executors from which monitors remove those that have ended, so it passes over one that runs a job, and the close ends that job |

*What holds a close.* `CloseEnds` says that a close ends unless its gather waits
for an executor in one of two situations, both reachable in the run (`HeldBy`).
`initialize` sends its request outside of its `try` (`supervised_proc.py` 154-163):
when the process has ended by then the send may raise, `_initialize_fut` is never
completed, and `_supervise_task` (259), `join` and `aclose` (226) wait for ever; the
executor is `stuck`. And a process that is started after `aclose` went through the
list (`proc_pool.py` 207) was told nothing, so that the gather of the monitors (209)
waits for a process that has no reason to end. Everything else ends the close:
failed and timed-out initializations, crashes, jobs that run on, processes that
ignore the shutdown. Whenever the close has ended, `ClosedLeavesNothing` holds
without exception.

*The channel of messages* holds 128 (`worker.py` 302), beyond which `_queue_msg`
waits; `Queue` appends without a bound. Those who wait put in their order, so that
the sequence is the channel followed by them.

*Bounds.* Three executors, two jobs, one initialization at a time, one idle
process wanted, one crash or failed start, one lost connection. A second job is
what a process could be handed to twice; a third executor is what a failed one
and a handed one leave to be spawned, and what the drain can pass over. The
executors of the bound may all be used up, hence `CHECK_DEADLOCK FALSE`.

*Fairness.* Weak fairness of each executor's tasks, of the getters and of the
gathers: the event loop runs its tasks, processes start and answer or time out,
and kills work. A job need not end, nor a connection or a stop come.
`WaitingJobGetsProcess` excepts the time in which no idle process is wanted
(development, or a loaded worker), when nobody spawns for a job whose process
failed to initialize.

## 8. Voice sessions

`Speech` has the speech handles with the task that makes each (`speech`), the
two activities of a handoff (`act`: queue, current speech, preemptive generation,
scheduling task, hooks of the agent, lock), the tasks of the user turns (`turn`)
and the session with its handoff and its close (`sess`).

| actions | code |
| --- | --- |
| `Ask`, `Created`, `ScheduleSpeech`, `Wake`, `Authorize`, `GenerationDone` | `say`, `generate_reply`, `_schedule_speech`, `_scheduling_task` (`agent_activity.py` 649-916) |
| `GetScheduled`, `GetAuthorized`, `PlayoutEnds`, `ToolsEnd`, `ToolReply` | `_pipeline_reply_task` 1485-1716 |
| `HandleInterrupt`, `UserInterrupts`, `VadInterrupts`, `Preemptive`, `TurnSkipped`, `EndOfTurn`, `TurnStarts` ... `TurnEnds` | 785-825, 1016-1257, `speech_handle.py` |
| `UpdateAgent`, `UpdateActivity`, `BeginClose`, `CloseDrains`, `CloseCloses`, `DrainBegin`, `DrainPause`, `Drained`, `AClose`, `HookEnds` | `agent_session.py` 585-863, `agent_activity.py` 344-395, 491-622 |

`speech` checks `TypeOK`, `OneSpeaks`, `NoneForgotten`, `DrainedIsQuiet`,
`StuckByInterruption`, `SpeechEnds` and `StopsEnd`. The last two are about the
states in which no task of the runtime can go on (`AtRest`, which lists for each
task what it waits for; it is `~ENABLED Runs`, on which the prover cannot reason, and
TLC finds the two equal in every state of this instance): no task repeats a
step and the bounds are on what the environment calls for, so a fair runtime comes to
rest, and what must have ended by then has. They name the exceptions the code has:
a scheduler stuck on a speech that was interrupted while it was queued (its task
is done and never marks the generation that the scheduler then opens and waits
for); a speech whose scheduling raised (its task waits for ever and holds a
drain), as happens to a call during a handoff, which goes to the next activity
before that is started; a preemptive generation begun while `on_exit` runs.

*Simplifications.* The agent allows interruptions, the default: with one that does
not, the `interrupt()` of an outdated turn (`agent_activity.py` 1257) raises and ends
that turn's task, and the next turn's `await old_task` (1154) raises in its place.
`AClose` makes the end of an activity, the session's assignment of the next and its
start one step; the code awaits in `_close_session` and `_start_session` between
them, where the session's activity is one that is closed or not started, whose
calls raise as those of the closed one do in the model.

*Bounds.* Two speeches and two turns, three in all, one tool step, one handoff and one close. `MCSpeech!View` keeps of a speech that is done only
whether it may be interrupted, was authorized or interrupted, and its
generation: no action and no property reads another field of such a speech, so
that states with one view have the same steps and the same verdicts. Of the
properties only `TypeOK` looks at the hidden fields, which keep the values they
had while the speech was live and they were in the view.
`CHECK_DEADLOCK FALSE`: a closed session rests.

## 9. Proofs

| theorem | module | statement |
| --- | --- | --- |
| `TypeCorrect` | `MatchmakingProofs` | `Spec => []TypeOK` |
| `RoomsPairTwoUsers` | | `Spec => []PairsTwoUsers` |
| `MarksAreSwept` | | `Spec => []EnteredSwept` |
| `ProposedAreSuited` | | `Spec => []MatchesSuit` |
| `SocketsInOnePlace` | `MatchmakingRefinementProofs` | `Spec => []OnePlace` |
| `ProposalsStand` | | `Spec => ProposalIsLive` |
| `ImplementsPairing` | | `Spec => PairingSpec` |
| `TypeCorrect`, `RefStaysLive`, `SearchAlwaysGoesOn`, `CountdownIsFull` | `WaitingRoomProofs` | `TypeOK`, `RefIsLive`, `SearchGoesOn`, `FullCountdown` |
| `TypeCorrect`, `EndedCallIsRecorded`, `ExtensionsAlwaysAgree` | `CallRoomProofs` | `TypeOK`, `CallIsRecorded`, `ExtensionsAgree` |
| `TypeCorrect`, `RefreshNeverAlone` | `SessionProofs` | `TypeOK`, `RefreshHasAccess` |
| `TypeCorrect`, `LinkedFilesExist` | `RecordingProofs` | `TypeOK`, `LinkedFileExists` |
| `TypeCorrect`, `NoneOrphaned`, `HandedOutOnce`, `NothingLeft`, `EndStaysFinal` | `WorkerProofs` | `TypeOK`, `NoOrphans`, `HandedOnce`, `ClosedLeavesNothing`, `EndIsFinal` |
| `TypeCorrect`, `OneAtATime`, `NoSpeechForgotten`, `DrainIsQuiet`, `OnlyInterruptedStick`, `SpeechesEnd`, `StopsAreOver` | `SpeechProofs` | `TypeOK`, `OneSpeaks`, `NoneForgotten`, `DrainedIsQuiet`, `StuckByInterruption`, `SpeechEnds`, `StopsEnd` |

*Assumptions* are the named ones of the modules, which TLC evaluates in every run:
constants are naturals and not zero where they count something, the value that
stands for "none" is not a member, `Owner` maps connections to users and `Conns`
is finite (used for `Cardinality(live)`, the size of the dictionary), `Agent` is
not a user.

**Matchmaking: types, marks, pairs.** The inductive invariant `IInv` has three parts.

* `TInv`: `TypeOK` strengthened by what the positions need. The queue has one
  entry per user (Python's dictionary); `todo` is not empty while a task scans or
  claims; a room that exists or is being worked on has a second socket; a task in
  `handle_disconnect` has a pass left. `TypeOK` alone is not inductive: `passes`
  could go below zero, and `Tail` and `partner[room[c]]` leave their types.
* `EnteredHeld`: every mark has a task of its user that has not yet begun its walk
  over the candidates. `EnteredSwept` follows. A walk that finds its user marked
  runs to its end without an await and discards the mark; a walk that found him
  unmarked may raise and discard nothing, so it must not be relied on, and a mark
  set during it is held by the task that set it, which still has its own walk to
  begin. `EnteredSwept` alone is not inductive because it counts the former.
* `PairsTwoUsers`, by the scan's exclusion of the connecting user: an element of
  `todo[c]` never belongs to `Owner[c]`.

`SInv` adds what `MatchesSuit` needs: a key holds data of a connection of its
user that was opened (`KeysMade`), and from the scan's success to the pop two
connections of the two users asked for each other (`ClaimSuits`), whatever
becomes of the key meanwhile. A lemma shows that `IsMatch` implies `Wants`.

**One place.** `OnePlace` is not inductive: a task suspended in a reject holds the
socket it will queue, and a task still in `handle_connect` is about to queue or
pair its own. `PInv` says what these tasks may rely on:

* `RoomsMade`: a room was made of two sockets that had left `handle_connect`
  (were not `Fresh`), belongs to two users, and only its own sockets were shown it;
  a task that handles a reject is one of them, so its `Peer` is the other
  (`PeerFacts`) and a fresh socket is in no room (`FreshUnpaired`).
* `FreshUnqueued`: a fresh socket is not queued. `Unopened` ties the first label of
  a task to the client's opening.
* `OwedNowhere`: while a reject awaits its send, another task may delete its room
  (`Owes`). The peer is then owed its entry: it is neither queued nor in a room, and
  owed by one task only; with two such tasks, the second could queue it again after
  the entry of the first had been paired.

Every step but `Claim` is `Quiet(X)`: it makes no room and adds to the queue at most
the sockets of `X`. `QuietKeeps` shows such a step preserves `PInv` when those
sockets are `Homeless` afterwards; `JoinKeeps` and `RequeueKeeps` show that for the
two kinds of step that queue a socket. `ClaimKeeps` is the one step that makes a
room.

**Proposals.** `ProposalIsLive` is an action property; `LInv` says what the task that
made a room relies on until it sends the second proposal. `ProposedUnseen`: nobody
else was shown the room, so no reject and no accept can be about it, since the task
of an answer works on a room its client was shown (`HandledSeen`). `OwnWalk`: what a
suspended walk of `handle_disconnect` will delete are rooms of its own user.
`ProposedStands` follows: the room is still a candidate, or one of its two users has
disconnected. Every step but `Claim` `Answers`: it deletes rooms it was shown, or its
user's.

**Refinement.** `ImplementsPairing` rests on `IInv /\ PInv`. `DropMembers` and
`PutMembers` turn the dictionary into the set of its sockets, which needs one
entry per user. A step that `Recedes` (makes no room, withdraws one entry at most)
is a dissolution, a leaving or a stutter, and all steps do but four: a
registration joins a socket that `FreshUnqueued` and `FreshUnpaired` place
nowhere; `Claim` pairs; `Requeue` turns down when its room is still there, for
which rooms must be disjoint, and joins its peer when it is not, for which
`OwedNowhere` is needed; `Restart` is itself.

**Waiting page.** `IInv` is the types in two parts (`PageOK`, `ServerOK`),
`RefIsLive`, and three facts. `Counting`: timeouts counted and countdown shown add
up to `CountFrom` while there is a proposal, and a timeout that outlives its
proposal finds zero at least. `NoneClosing`: while the page waits nothing
closes a websocket from this side. `Searching` strengthens `SearchGoesOn` by
`connected`: the hook's flag is how a rendered page learns of a closing, so that a
page that lost its last websocket has a render due, which connects again.

**Call room.** `IInv` is the types without the bounds of the countdowns, `Recorded`
(of who is home with no leaving routine under way it is settled what became of his
visit) and `Side(s)`, which ties each user's
countdown, timeouts, page, membership and inbox to the extensions so far; `GoOn` says of each step that routines under way stay so, which with the steps that
end one or lose one gives `Recorded`; the
bound of the countdown and `ExtensionsAgree` follow from it, since both totals equal
`CallTime` plus the same multiple of `Extension`.

**Session.** `RefreshHasAccess` needs that a request whose refresh was granted has
a token to store (`Granted`); each of the ways to remove tokens removes both.

**Recording.** `RoomCounted`: a room that exists has a number, so an egress records
one of the rooms. `FileSeen`: a process that puts a URL saw the file, which stays.
`Attempts` bounds the retries and the registrations.

**Worker.** `Getters`: who waits for a process is in one of two places once.
`Listed`: the list holds each executor once, from its spawn task to the end of its
monitor. `Handed`: the queue holds each process once and without a job, and a job
on a process was handed out, to no other. `Closing`: what each gather of the close
leaves behind it, so that at the end every executor is closed. `Asked`: a job the
server has not offered has no task. `EndIsFinal` needs `Ordered` besides: behind a
final status in the channel no other of that job follows, and its process has
ended.

**Speech.** `IInv` has three parts besides the types; each action preserves each part
by one of a few lemmas on kinds of step.

* `SpeechInv`. `HandleOK`: a speech that plays, or is authorized and will, is the
  current one of its activity's scheduler, which waits for it, and its generation is
  open; hence one plays per activity. `OwnsOK`: queue, current and preemptive speech
  of an activity are its own, and a queued speech is there once and not authorized.
  `SchedulerOK`: what a scheduler that waits has before it, which with
  `StuckByInterruption` tells a wait that ends from one that does not.
  `NoneForgotten` is inductive with these.
* `TaskInv`. `WokenOK`: no wake-up is lost. An idle scheduler whose event is not set
  has an empty queue, and, when it is paused, a task whose end will set the event.
  `DrainedIsQuiet` needs it, `EndedOK` (an ended scheduler stays paused, so that
  nothing is scheduled after it) and `TurnOK`.
* `SessionInv`. `HandoffOK` orders the two activities: the second is started by the
  handoff when the first one's scheduler has ended, which makes `OneSpeaks` hold across
  a handoff. `CloseOK` says which activity a close drains and closes at each of its
  steps. `DrainOK`: who holds an activity's lock is the handoff or the close that
  drains it, and what the close waits for was interrupted or is served.

`SpeechesEnd` and `StopsAreOver` use `IInv` in the states at rest: `RestingScheduler`
and `RestingSpeech` show that such a scheduler is idle with an empty queue, ended,
cancelled or `Stuck`, and that a speech which waits then is one of the exceptions.
They are safety theorems: that the tasks come to rest is the argument of section 8,
not a theorem.

*Only model-checked:* `DrainWaitsForJobs` and `QueuedIsMatchable` (violated), and
liveness, which is beyond the prover: `ClosedEnds`, `ProposalResolved`, `CallEnds`,
`RequestsSettle`, `JobEnds`, `WaitingJobGetsProcess`, `CloseEnds`.

## 10. What is not modelled

The map of `PROJECT.json` names the lines each definition stands for. Most of the
repository's lines are the vendored agents framework, and of it only what the
recording agent depends on (processes, jobs) and the part with the most
interleaving (speech scheduling) is modelled.

* *Agents runtime*: realtime models and `AgentTask`'s pause and resume, which need a
  model provider's protocol; run results, recognition, synthesis, transcription,
  llm, stt, tts and their fallback adapters, streams, audio and tokenizers, which
  move data through one task each and which `agent.py` does not use; the thread
  executor, the inference process, reloading and simulated jobs, which the
  deployment does not use; command line, logging, telemetry, plugins.
* *Call services*: tokens for LiveKit and listings keep no state; the second
  waiting list is written and never read.
* *Authentication*: what the providers answer; two registrations of one address
  that race to the database's unique index.
* *Users*: database reads, and one update in one transaction.
* *Pages without behaviour*: home, filter sheet, history, profile setup.
* *Deployment and migrations*: scripts; the restart they cause is in `Matchmaking`.

## 11. What is left

1. `WaitingRoom` composed with `Matchmaking`: the environment of the page is the
   server, so that what one user's page does is seen on the other's.
2. The fallback adapters of llm, stt and tts: a retry after a chunk was sent, and
   the frames lost to a main stream that recovers.
3. `AgentTask`'s pause and resume in `Speech`.

## 12. Running the checks

    tlasany Matchmaking.tla
    tlc -workers 2 -config MatchmakingSolo.cfg MCMatchmaking
    tlc -workers 2 -config Speech.cfg MCSpeech
    tlapm MatchmakingRefinementProofs.tla

Each run takes from a few seconds to four minutes, each proof module from
seconds to ten minutes (`SpeechProofs`). The operators marked "Mutant" in the modules are plausible bugs;
substituted for the definition they stand beside, each makes a property of a
passing run fail.
