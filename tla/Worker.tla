---------------------------- MODULE Worker ----------------------------
(***************************************************************************)
(* A worker of the LiveKit agents framework (agents/worker.py): it answers *)
(* the server's availability requests, launches the jobs it is assigned on *)
(* the process pool, reports their status, and when it is stopped drains   *)
(* its jobs and closes the pool.  The server is its environment.           *)
(***************************************************************************)
EXTENDS ProcPool

CONSTANT MaxDrops    \* bound: connections lost

ASSUME MaxDropsAssumption == MaxDrops \in Nat

VARIABLES
    server,      \* what the server knows of each job
    phase,       \* a job's request task
    inFlight,    \* assignments, or the answers to them, on their way
    msgChan,     \* _msg_chan
    drops,
    worker,      \* "running", "draining", "closing" or "closed"
    drainJoins,  \* the process drain waits for
    drainAt      \* how many of the executors its iterator has passed

jobVars   == <<server, phase, inFlight, msgChan, drops>>
drainVars == <<drainJoins, drainAt>>
vars      == <<poolVars, jobVars, worker, drainVars>>

Update(j, s) == [job |-> j, what |-> s]

(* The types, and that launch_job waits for the pool's queue exactly for   *)
(* the jobs counted as waiting.                                            *)
TypeOK ==
    /\ PoolTypeOK
    /\ Getting = {j \in Jobs : phase[j] = "launching"}
    /\ server \in [Jobs -> {"new", "assigned", "running", "success", "failed"}]
    /\ phase \in [Jobs -> {"none", "answered", "timedout", "launching", "handed", "raised"}]
    /\ inFlight \subseteq Jobs
    /\ msgChan \in Seq([job : Jobs, what : {"running", "success", "failed"}])
    /\ drops \in 0..MaxDrops
    /\ worker \in {"running", "draining", "closing", "closed"}
    /\ drainJoins \in Procs \cup {None}
    /\ drainAt \in Nat

Init ==
    /\ PoolInit
    /\ server = [j \in Jobs |-> "new"]
    /\ phase = [j \in Jobs |-> "none"]
    /\ inFlight = {}
    /\ msgChan = <<>>
    /\ drops = 0
    /\ worker = "running"
    /\ drainJoins = None
    /\ drainAt = 0

(* The connection task runs until aclose cancels it; what is queued from   *)
(* then on is never sent, and the model drops it.                          *)
Connected == worker \in {"running", "draining"}

-----------------------------------------------------------------------------
(* Jobs.                                                                   *)

(* Mutant: the last message is sent first.                                 *)
QueueFirst(m) == msgChan' = IF Connected THEN <<m>> \o msgChan ELSE <<>>

(* _queue_msg.  The channel has room for 128 messages, beyond which its    *)
(* senders wait in their order: the sequence has theirs at its end.        *)
Queue(m) == msgChan' = IF Connected THEN Append(msgChan, m) ELSE <<>>

(* The server asks for a new job, request_fnc accepts (the default), the   *)
(* future of the assignment is registered and the server assigns the job.  *)
AnswerAvailability(j) ==
    /\ idleReady
    /\ worker = "running"
    /\ server[j] = "new"
    /\ j = CHOOSE k \in Jobs : server[k] = "new"
    /\ server' = [server EXCEPT ![j] = "assigned"]
    /\ phase' = [phase EXCEPT ![j] = "answered"]
    /\ inFlight' = inFlight \cup {j}
    /\ UNCHANGED <<poolVars, msgChan, drops, worker, drainVars>>

(* _send_task: the server takes note of a status.                          *)
Send ==
    /\ Connected
    /\ msgChan # <<>>
    /\ LET m == Head(msgChan) IN server' = [server EXCEPT ![m.job] = m.what]
    /\ msgChan' = Tail(msgChan)
    /\ UNCHANGED <<poolVars, phase, inFlight, drops, worker, drainVars>>

(* The connection is lost and made anew: answers and assignments on their  *)
(* way are lost, and perhaps the message _send_task held.                  *)
Reconnect ==
    /\ Connected
    /\ drops < MaxDrops
    /\ drops' = drops + 1
    /\ inFlight' = {}
    /\ msgChan' \in {msgChan} \cup (IF msgChan = <<>> THEN {} ELSE {Tail(msgChan)})
    /\ UNCHANGED <<poolVars, server, phase, worker, drainVars>>

AssignmentTimeout(j) ==
    /\ phase[j] = "answered"
    /\ phase' = [phase EXCEPT ![j] = "timedout"]
    /\ UNCHANGED <<poolVars, server, inFlight, msgChan, drops, worker, drainVars>>

(* The end of launch_job: it raised, or emits process_job_launched.        *)
Launched(j, raises) ==
    /\ phase' = [phase EXCEPT ![j] = IF raises THEN "raised" ELSE "handed"]
    /\ IF raises THEN UNCHANGED msgChan ELSE Queue(Update(j, "running"))

(* An assignment for a job whose future timed out is dropped.              *)
HandleAssignment(j) ==
    /\ Connected
    /\ j \in inFlight
    /\ inFlight' = inFlight \ {j}
    /\ \/ /\ phase[j] = "answered"
          /\ \E raises \in BOOLEAN : LaunchNow(j, raises) /\ Launched(j, raises)
       \/ /\ phase[j] = "answered"
          /\ LaunchLater(j)
          /\ phase' = [phase EXCEPT ![j] = "launching"]
          /\ UNCHANGED msgChan
       \/ /\ phase[j] = "timedout"
          /\ UNCHANGED <<poolVars, phase, msgChan>>
    /\ UNCHANGED <<server, drops, worker, drainVars>>

TakeProcess(j) ==
    /\ \/ \E raises \in BOOLEAN : Take(j, raises) /\ Launched(j, raises)
       \/ WaitAgain(j) /\ UNCHANGED <<phase, msgChan>>
    /\ UNCHANGED <<server, inFlight, drops, worker, drainVars>>

(* process_closed: the status of the job, if the executor had one.         *)
JobClosed(p) ==
    /\ ProcessClosed(p)
    /\ IF job[p] = None THEN UNCHANGED msgChan ELSE Queue(Update(job[p], status'[p]))
    /\ UNCHANGED <<server, phase, inFlight, drops, worker, drainVars>>

(* get_by_job_id and aclose of the executor.                               *)
HandleTermination(p) ==
    /\ Connected
    /\ p \in ToSet(executors)
    /\ job[p] # None
    /\ p \notin told
    /\ server[job[p]] = "running"
    /\ Shutdown({p})
    /\ UNCHANGED <<stage, child, job, status, executors, queue, numIdle, target, idleReady, closing,
                   failures, jobVars, worker, drainVars>>

-----------------------------------------------------------------------------
(* Stopping.                                                               *)

HasJob(p) == job[p] # None

(* aclose ends the connection and closes the pool.                         *)
BeginClose ==
    /\ worker' = "closing"
    /\ drainJoins' = None
    /\ drainAt' = 0
    /\ inFlight' = {}
    /\ msgChan' = <<>>
    /\ ClosePool
    /\ UNCHANGED <<server, phase, drops>>

(* drain waits for the first executor with a job from its iterator's place *)
(* on; when there is none left aclose begins.                              *)
NextDrained ==
    LET Later == {i \in DOMAIN executors : i > drainAt /\ HasJob(executors[i])} IN
    \/ /\ Later = {}
       /\ BeginClose
    \/ \E i \in Later :
       /\ \A k \in Later : i <= k
       /\ worker' = "draining"
       /\ drainJoins' = executors[i]
       /\ drainAt' = i
       /\ UNCHANGED <<poolVars, jobVars>>

(* run_worker: a signal, or a connection that could not be made again.     *)
(* Only in production (with idle processes by default) drain comes first.  *)
Stop ==
    /\ idleReady
    /\ worker = "running"
    /\ IF numIdle = 0 THEN BeginClose ELSE NextDrained

(* The process it waited for has ended: drain goes on.                     *)
DrainOn ==
    /\ worker = "draining"
    /\ stage[drainJoins] = "closed"
    /\ NextDrained

(* aclose has closed the pool, and the request tasks have ended.           *)
WorkerClosed ==
    /\ worker = "closing"
    /\ pool = "closed"
    /\ Getting = {}
    /\ \A j \in Jobs : phase[j] # "answered"
    /\ worker' = "closed"
    /\ UNCHANGED <<poolVars, jobVars, drainVars>>

(* What the tasks of an executor do of themselves.                         *)
Executor(p) ==
    \/ /\ \/ Refill(p) \/ BeginStart(p) \/ Start(p) \/ SendInitialize(p)
          \/ Initialized(p) \/ InitializeFails(p) \/ CloseTimeout(p)
       /\ UNCHANGED <<jobVars, worker, drainVars>>
    \/ JobClosed(p)

ProcessEnds(p) == (Crash(p) \/ Exit(p)) /\ UNCHANGED <<jobVars, worker, drainVars>>

Gather ==
    /\ GatheredProcs \/ GatheredSpawns \/ GatheredMonitors
    /\ UNCHANGED <<jobVars, worker, drainVars>>

(* _load_task: fewer idle processes are wanted while jobs load the worker. *)
LoadTask ==
    /\ \/ SetTarget(numIdle)
       \/ (\E p \in ToSet(executors) : HasJob(p)) /\ SetTarget(0)
    /\ UNCHANGED <<jobVars, worker, drainVars>>

Next ==
    \/ \E p \in Procs : Executor(p) \/ ProcessEnds(p) \/ HandleTermination(p)
    \/ \E j \in Jobs :
          AnswerAvailability(j) \/ AssignmentTimeout(j) \/ HandleAssignment(j) \/ TakeProcess(j)
    \/ Send \/ Reconnect \/ LoadTask
    \/ Gather \/ Stop \/ DrainOn \/ WorkerClosed

Spec == Init /\ [][Next]_vars

(* The event loop runs its tasks, processes start and answer or time out,  *)
(* and kills work; a job need not end, nor a connection or a stop come.    *)
FairSpec ==
    /\ Spec
    /\ \A p \in Procs : WF_vars(Executor(p))
    /\ \A j \in Jobs : WF_vars(TakeProcess(j))
    /\ WF_vars(Gather)

-----------------------------------------------------------------------------
(* Properties.                                                             *)

(* Every process that runs is in the list that aclose and the worker go    *)
(* through, whatever its spawn task and its monitor have done.             *)
NoOrphans == \A p \in Procs : child[p] = "alive" => p \in ToSet(executors)

(* A process is handed out once: none is queued twice, or again after it   *)
(* got a job, and no job is on two processes.                              *)
HandedOnce ==
    /\ IsInjective(warmed)
    /\ \A p \in ToSet(warmed) : job[p] = None
    /\ \A p, q \in Procs : job[p] = job[q] => p = q \/ job[p] = None

(* When aclose of the pool returns no process runs and none is coming.     *)
ClosedLeavesNothing ==
    pool = "closed" => \A p \in Procs : stage[p] \in {"none", "closed"} /\ child[p] # "alive"

(* The server never hears that a job runs after it heard that it ended.    *)
EndIsFinal ==
    [][\A j \in Jobs : server[j] \in {"success", "failed"} => server'[j] = server[j]]_vars

(* While idle processes are wanted a job that waits for a process gets one *)
WaitingJobGetsProcess ==
    \A j \in Jobs : (j \in Getting) ~> (j \notin Getting \/ target = 0 \/ pool # "open")

(* A pool that is closing closes, unless a gather of aclose waits for an   *)
(* executor it cannot end: the supervision hangs, because the process      *)
(* ended before its first request (supervised_proc.py:154), or the process *)
(* was started after aclose's pass over the list, which therefore told it  *)
(* nothing (proc_pool.py:207-209).                                         *)
HeldBy(p) ==
    /\ p \in awaited
    /\ \/ stage[p] = "stuck"
       \/ pool = "monitors" /\ child[p] = "alive" /\ p \notin told
CloseEnds == pool # "open" ~> (pool = "closed" \/ \E p \in Procs : HeldBy(p))

(* What drain is for (worker.py:176, 488): jobs that run are waited for.   *)
DrainWaitsForJobs ==
    [][worker = "draining" /\ worker' = "closing" => \A p \in Procs : child[p] = "alive" => job[p] = None]_vars
=============================================================================
