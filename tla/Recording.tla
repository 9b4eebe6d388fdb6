---------------------------- MODULE Recording ----------------------------
(***************************************************************************)
(* The recording agent: agent/agent.py as the job of a LiveKit agents job  *)
(* process (agents/ipc/job_proc_lazy_main.py, proc_client.py), one job for *)
(* each LiveKit room of a room name, and the history rows of that name on  *)
(* the server.  A room that was deleted is created again, with a new job,  *)
(* by a user who still joins it.  The worker, LiveKit's rooms and egress,  *)
(* S3 and the clients' history requests are the environment.               *)
(***************************************************************************)
EXTENDS Naturals, Sequences

CONSTANTS
    Sides,       \* who may have a history row
    MaxRooms,    \* bound: LiveKit rooms of the name
    Tries        \* retries of start_egress_with_retry

ASSUME MaxRoomsAssumption == MaxRooms \in Nat \ {0}
ASSUME TriesAssumption    == Tries \in Nat \ {0}

VARIABLES
    gen,         \* rooms so far
    open,        \* the last of them exists
    user,        \* a user is in it
    ipc,         \* what the worker sent to the process of each room's job
    proc,        \* the process: "idle", or how far its job has come
    entry,       \* the job's entrypoint
    tries,       \* its attempts to start the egress
    hooks,       \* _shutdown_callbacks registered
    egress,      \* the rooms that egresses of the job record
    file,        \* the jobs whose recording is in the bucket
    rows         \* history rows: none, or the job whose URL it has, 0 at first

room == <<gen, open, user>>
s3   == <<egress, file>>
job  == <<ipc, proc, entry, tries, hooks, s3>>
vars == <<room, job, rows>>

Gens    == 1..MaxRooms
Gone(g) == g # gen \/ ~open
NoRow   == MaxRooms + 1

Running == {"running", "closing", "waiting", "putting"}

(* The types; an entrypoint registers on_shutdown once.                    *)
TypeOK ==
    /\ gen \in 0..MaxRooms
    /\ open \in BOOLEAN
    /\ user \in BOOLEAN
    /\ ipc \in [Gens -> Seq({"start", "shutdown"})]
    /\ proc \in [Gens -> {"idle", "exited"} \cup Running]
    /\ entry \in [Gens -> {"none", "connecting", "failed", "joined", "starting", "returned"}]
    /\ tries \in [Gens -> 0..Tries]
    /\ hooks \in [Gens -> 0..1]
    /\ egress \in [Gens -> SUBSET Gens]
    /\ file \subseteq Gens
    /\ rows \in [Sides -> 0..NoRow]

Init ==
    /\ gen = 0
    /\ open = FALSE
    /\ user = FALSE
    /\ ipc = [g \in Gens |-> <<>>]
    /\ proc = [g \in Gens |-> "idle"]
    /\ entry = [g \in Gens |-> "none"]
    /\ tries = [g \in Gens |-> 0]
    /\ hooks = [g \in Gens |-> 0]
    /\ egress = [g \in Gens |-> {}]
    /\ file = {}
    /\ rows = [s \in Sides |-> NoRow]

-----------------------------------------------------------------------------
(* The environment.                                                        *)

(* A user joins, which creates the room if there is none.                  *)
UserJoins ==
    /\ ~user
    /\ open \/ gen < MaxRooms
    /\ user' = TRUE
    /\ open' = TRUE
    /\ gen' = IF open THEN gen ELSE gen + 1
    /\ UNCHANGED <<job, rows>>

UserLeaves ==
    /\ user
    /\ user' = FALSE
    /\ UNCHANGED <<gen, open, job, rows>>

(* The room was deleted, or nobody is in it.                               *)
RoomCloses ==
    /\ open
    /\ open' = FALSE
    /\ user' = FALSE
    /\ UNCHANGED <<gen, job, rows>>

Sent(g, m) == \E i \in DOMAIN ipc[g] : ipc[g][i] = m

(* The worker launches the job on the process, or closes the process; the  *)
(* two in either order.  Bound: one message of each kind.                  *)
LaunchJob(g) ==
    /\ g <= gen
    /\ proc[g] = "idle" /\ entry[g] = "none"
    /\ ~Sent(g, "start")
    /\ ipc' = [ipc EXCEPT ![g] = Append(@, "start")]
    /\ UNCHANGED <<room, proc, entry, tries, hooks, s3, rows>>

CloseProcess(g) ==
    /\ g <= gen
    /\ proc[g] \in {"idle", "running"}
    /\ ~Sent(g, "shutdown")
    /\ ipc' = [ipc EXCEPT ![g] = Append(@, "shutdown")]
    /\ UNCHANGED <<room, proc, entry, tries, hooks, s3, rows>>

(* POST /call/record.                                                      *)
RecordCall(s) ==
    /\ gen > 0
    /\ rows[s] = NoRow
    /\ rows' = [rows EXCEPT ![s] = 0]
    /\ UNCHANGED <<room, job>>

(* An egress ends with the room it records; its file is uploaded, or not.  *)
EgressEnds(g) ==
    \E r \in egress[g] :
        /\ Gone(r)
        /\ egress' = [egress EXCEPT ![g] = @ \ {r}]
        /\ file' \in {file, file \cup {g}}
        /\ UNCHANGED <<room, ipc, proc, entry, tries, hooks, rows>>

-----------------------------------------------------------------------------
(* The job process.                                                        *)

Exits(g) ==
    /\ proc' = [proc EXCEPT ![g] = "exited"]
    /\ ipc' = [ipc EXCEPT ![g] = <<>>]

(* _start_job: the entrypoint runs as a task of its own.                   *)
ReadStartJob(g) ==
    /\ ipc[g] # <<>> /\ Head(ipc[g]) = "start"
    /\ proc[g] = "idle"
    /\ ipc' = [ipc EXCEPT ![g] = Tail(@)]
    /\ proc' = [proc EXCEPT ![g] = "running"]
    /\ entry' = [entry EXCEPT ![g] = "connecting"]
    /\ UNCHANGED <<room, tries, hooks, s3, rows>>

(* A process without a job exits at once; otherwise the first of several   *)
(* reasons to shut down counts.                                            *)
ReadShutdown(g) ==
    /\ ipc[g] # <<>> /\ Head(ipc[g]) = "shutdown"
    /\ \/ /\ proc[g] = "idle"
          /\ Exits(g)
       \/ /\ proc[g] \in Running
          /\ ipc' = [ipc EXCEPT ![g] = Tail(@)]
          /\ proc' = [proc EXCEPT ![g] = IF @ = "running" THEN "closing" ELSE @]
    /\ UNCHANGED <<room, entry, tries, hooks, s3, rows>>

HasJoined(g) == entry[g] \in {"joined", "starting", "returned"}

(* The room tells the agent in it that it is gone.                         *)
RoomDisconnected(g) ==
    /\ proc[g] = "running"
    /\ HasJoined(g)
    /\ Gone(g)
    /\ proc' = [proc EXCEPT ![g] = "closing"]
    /\ UNCHANGED <<room, ipc, entry, tries, hooks, s3, rows>>

(* Mutant: the job waits for its entrypoint before the callbacks.          *)
RunShutdownCallbacksAfterEntry(g) ==
    /\ proc[g] = "closing"
    /\ entry[g] = "returned"
    /\ \/ /\ hooks[g] = 0
          /\ Exits(g)
       \/ /\ hooks[g] > 0
          /\ proc' = [proc EXCEPT ![g] = "waiting"]
          /\ UNCHANGED ipc
    /\ UNCHANGED <<room, entry, tries, hooks, s3, rows>>

(* _run_job_task: the room is left and the callbacks registered by now are *)
(* run; the entrypoint is neither awaited nor cancelled.                   *)
RunShutdownCallbacks(g) ==
    /\ proc[g] = "closing"
    /\ \/ /\ hooks[g] = 0
          /\ Exits(g)
       \/ /\ hooks[g] > 0
          /\ proc' = [proc EXCEPT ![g] = "waiting"]
          /\ UNCHANGED ipc
    /\ UNCHANGED <<room, entry, tries, hooks, s3, rows>>

(* The process is killed, or finds the worker gone: no callback runs.      *)
ProcessDies(g) ==
    /\ proc[g] \in Running
    /\ Exits(g)
    /\ UNCHANGED <<room, entry, tries, hooks, s3, rows>>

-----------------------------------------------------------------------------
(* The entrypoint.                                                         *)

InRoom(g) == proc[g] = "running" /\ ~Gone(g)

(* ctx.connect, which may fail, and does when the room is gone or the job  *)
(* is closing; nothing but the worker ends the job then.                   *)
Connect(g) ==
    /\ proc[g] \in Running
    /\ entry[g] = "connecting"
    /\ \E e \in {"joined", "failed"} :
         /\ e = "joined" => InRoom(g)
         /\ entry' = [entry EXCEPT ![g] = e]
    /\ UNCHANGED <<room, ipc, proc, tries, hooks, s3, rows>>

(* ctx.wait_for_participant, which does not see the room's end.            *)
WaitForParticipant(g) ==
    /\ InRoom(g)
    /\ entry[g] = "joined"
    /\ user
    /\ entry' = [entry EXCEPT ![g] = "starting"]
    /\ UNCHANGED <<room, ipc, proc, tries, hooks, s3, rows>>

(* An egress is asked for by the room's name: once the job's own room is   *)
(* gone and a user has come back, it records the room that is there then.  *)
Records(g) == open /\ egress' = [egress EXCEPT ![g] = @ \cup {gen}]

(* Mutant: the callback is registered with every attempt.                  *)
StartEgressHooked(g) ==
    /\ proc[g] \in Running
    /\ entry[g] = "starting"
    /\ tries' = [tries EXCEPT ![g] = @ + 1]
    /\ hooks' = [hooks EXCEPT ![g] = @ + 1]
    /\ \/ /\ Records(g)
          /\ entry' = [entry EXCEPT ![g] = "returned"]
       \/ /\ Records(g) \/ UNCHANGED egress
          /\ entry' = [entry EXCEPT ![g] = IF tries'[g] = Tries THEN "returned" ELSE @]
    /\ UNCHANGED <<room, ipc, proc, file, rows>>

(* One attempt of start_egress_with_retry, to which on_shutdown is         *)
(* registered when it succeeds.  One that times out may have started an    *)
(* egress; an error that is not one to retry is the last.                  *)
StartEgress(g) ==
    /\ proc[g] \in Running
    /\ entry[g] = "starting"
    /\ tries' = [tries EXCEPT ![g] = @ + 1]
    /\ \/ /\ Records(g)
          /\ entry' = [entry EXCEPT ![g] = "returned"]
          /\ hooks' = [hooks EXCEPT ![g] = @ + 1]
       \/ /\ Records(g) \/ UNCHANGED egress
          /\ \/ tries'[g] < Tries /\ UNCHANGED entry
             \/ entry' = [entry EXCEPT ![g] = "returned"]
          /\ UNCHANGED hooks
    /\ UNCHANGED <<room, ipc, proc, file, rows>>

(* Mutant: the result of the wait is not looked at.                        *)
WaitS3ObjectIgnored(g) ==
    /\ proc[g] = "waiting"
    /\ proc' = [proc EXCEPT ![g] = "putting"]
    /\ UNCHANGED <<room, ipc, entry, tries, hooks, s3, rows>>

(* on_shutdown up to its request: the file is there, or the time is up or  *)
(* S3 answers with an error.                                               *)
WaitS3Object(g) ==
    /\ proc[g] = "waiting"
    /\ \/ /\ g \in file
          /\ proc' = [proc EXCEPT ![g] = "putting"]
          /\ UNCHANGED ipc
       \/ Exits(g)
    /\ UNCHANGED <<room, entry, tries, hooks, s3, rows>>

(* PUT /call/record and its handler: every row of the room's name that     *)
(* there is gets the URL; or the request fails.                            *)
PutRecord(g) ==
    /\ proc[g] = "putting"
    /\ rows' \in {rows, [s \in Sides |-> IF rows[s] = NoRow THEN NoRow ELSE g]}
    /\ Exits(g)
    /\ UNCHANGED <<room, entry, tries, hooks, s3>>

-----------------------------------------------------------------------------
Process(g) ==
    \/ ReadStartJob(g) \/ ReadShutdown(g) \/ RoomDisconnected(g)
    \/ RunShutdownCallbacks(g) \/ WaitS3Object(g) \/ PutRecord(g)

Entrypoint(g) == Connect(g) \/ WaitForParticipant(g) \/ StartEgress(g)

Next ==
    \/ UserJoins \/ UserLeaves \/ RoomCloses
    \/ \E s \in Sides : RecordCall(s)
    \/ \E g \in Gens :
          \/ LaunchJob(g) \/ CloseProcess(g) \/ EgressEnds(g) \/ ProcessDies(g)
          \/ Process(g) \/ Entrypoint(g)

Spec == Init /\ [][Next]_vars

(* The process's event loop runs its tasks, and their waits end.           *)
FairSpec == Spec /\ \A g \in Gens : WF_vars(Process(g)) /\ WF_vars(Entrypoint(g))

-----------------------------------------------------------------------------
(* The URL in the history is of a file that is in the bucket: retries of   *)
(* the egress, rooms that end early and uploads that never come included.  *)
LinkedFileExists ==
    \A s \in Sides : rows[s] \in Gens => rows[s] \in file

(* A process ends once the worker says so, with or without a job, and a    *)
(* job in its room once the room ends, wherever its entrypoint is by then. *)
JobEnds ==
    \A g \in Gens :
        Sent(g, "shutdown") \/ (proc[g] = "running" /\ Gone(g) /\ HasJoined(g))
          ~> proc[g] = "exited"
=============================================================================
