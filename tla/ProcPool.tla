---------------------------- MODULE ProcPool ----------------------------
(***************************************************************************)
(* The pool of job processes of a LiveKit agents worker                    *)
(* (agents/ipc/proc_pool.py) with the supervision of each process          *)
(* (supervised_proc.py, job_proc_executor.py).                             *)
(*                                                                         *)
(* An executor is created by a spawn task, which starts and initializes    *)
(* its process and puts it into the queue of warmed processes; launch_job  *)
(* takes one from there, and a monitor task strikes the executor off when  *)
(* its process has ended.  Tasks of one event loop: a step runs from one   *)
(* await to the next.                                                      *)
(***************************************************************************)
EXTENDS Naturals, Sequences, FiniteSets, SequencesExt

CONSTANTS
    Procs,       \* bound: the executors ever created
    Jobs,
    None,
    NumIdle,     \* prod_default of num_idle_processes; the dev_default is 0
    MaxInit,     \* MAX_CONCURRENT_INITIALIZATIONS
    MaxFailures  \* bound: processes that fail to start or die by themselves

ASSUME NumIdleAssumption == NumIdle \in Nat
ASSUME MaxInitAssumption == MaxInit \in Nat \ {0}
ASSUME MaxFailuresAssumption == MaxFailures \in Nat
ASSUME NoneAssumption == None \notin Jobs \cup Procs

VARIABLES
    stage,       \* of each executor, by its spawn task and then its monitor
    child,       \* its operating system process
    told,        \* executors that aclose waits for, after its ShutdownRequest
    job,         \* _running_job
    status,      \* _job_status
    executors,   \* _executors
    warmed,      \* _warmed_proc_queue
    waiting,     \* getters of the queue, in their order
    woken,       \* getters that were woken and have not run yet
    numIdle,     \* _default_num_idle_processes
    target,      \* _target_idle_processes
    idleReady,   \* _idle_ready
    pool,        \* "open", then how far aclose has come
    awaited,     \* what the present gather of aclose waits for
    failures

procVars == <<stage, child, told, job, status>>
queue    == <<warmed, waiting, woken>>
closing  == <<pool, awaited>>
poolVars == <<procVars, executors, queue, numIdle, target, idleReady, closing, failures>>

Spawning == {"created", "starting", "started", "initializing"}

SpawnTasks   == {p \in Procs : stage[p] \in Spawning}
MonitorTasks == {p \in Procs : stage[p] \in {"up", "stuck"}}
Started(p)   == stage[p] \in {"started", "initializing", "up", "stuck"}
Ended(p)     == child[p] \in {"exited", "killed"}
Getting      == ToSet(waiting) \cup woken

PoolTypeOK ==
    /\ stage \in [Procs -> {"none", "up", "stuck", "closed"} \cup Spawning]
    /\ child \in [Procs -> {"none", "alive", "exited", "killed"}]
    /\ told \subseteq Procs
    /\ job \in [Procs -> Jobs \cup {None}]
    /\ status \in [Procs -> {"none", "running", "success", "failed"}]
    /\ executors \in Seq(Procs)
    /\ warmed \in Seq(Procs)
    /\ waiting \in Seq(Jobs)
    /\ woken \subseteq Jobs
    /\ numIdle \in {0, NumIdle}
    /\ target \in 0..numIdle
    /\ idleReady \in BOOLEAN
    /\ pool \in {"open", "procs", "spawns", "monitors", "closed"}
    /\ awaited \subseteq Procs
    /\ failures \in 0..MaxFailures

PoolInit ==
    /\ stage = [p \in Procs |-> "none"]
    /\ child = [p \in Procs |-> "none"]
    /\ told = {}
    /\ job = [p \in Procs |-> None]
    /\ status = [p \in Procs |-> "none"]
    /\ executors = <<>>
    /\ warmed = <<>>
    /\ waiting = <<>>
    /\ woken = {}
    /\ numIdle \in {0, NumIdle}
    /\ target = numIdle
    /\ idleReady = (numIdle = 0)
    /\ pool = "open"
    /\ awaited = {}
    /\ failures = 0

(* The list without the executor, which is in it once.                     *)
StruckOff(p) == RemoveAt(executors, CHOOSE i \in DOMAIN executors : executors[i] = p)

-----------------------------------------------------------------------------
(* Spawning.                                                               *)

(* A new spawn task; its first step appends the executor, which has the    *)
(* next unused name.                                                       *)
Spawn(p) ==
    /\ stage[p] = "none"
    /\ p = CHOOSE q \in Procs : stage[q] = "none"
    /\ stage' = [stage EXCEPT ![p] = "created"]
    /\ executors' = Append(executors, p)

(* Mutant: processes that run a job are counted as idle ones.              *)
RefillAll(p) ==
    /\ pool = "open"
    /\ Len(executors) < target
    /\ Spawn(p)
    /\ UNCHANGED <<child, told, job, status, queue, numIdle, target, idleReady, closing, failures>>

(* One process of a round of the main task; the check is repeated for each *)
(* process of the round.                                                   *)
Refill(p) ==
    /\ pool = "open"
    /\ Len(warmed) + Cardinality(SpawnTasks) < target
    /\ Spawn(p)
    /\ UNCHANGED <<child, told, job, status, queue, numIdle, target, idleReady, closing, failures>>

(* Mutant: a closed pool strikes the executor off and starts it all the    *)
(* same.                                                                   *)
BeginStartGoesOn(p) ==
    /\ stage[p] = "created"
    /\ Cardinality({q \in SpawnTasks : stage[q] # "created"}) < MaxInit
    /\ stage' = [stage EXCEPT ![p] = "starting"]
    /\ executors' = IF pool = "open" THEN executors ELSE StruckOff(p)
    /\ UNCHANGED <<child, told, job, status, queue, numIdle, target, idleReady, closing, failures>>

(* The spawn task has the semaphore.                                       *)
BeginStart(p) ==
    /\ stage[p] = "created"
    /\ Cardinality({q \in SpawnTasks : stage[q] # "created"}) < MaxInit
    /\ IF pool = "open"
       THEN /\ stage' = [stage EXCEPT ![p] = "starting"]
            /\ UNCHANGED executors
       ELSE /\ stage' = [stage EXCEPT ![p] = "closed"]
            /\ executors' = StruckOff(p)
    /\ UNCHANGED <<child, told, job, status, queue, numIdle, target, idleReady, closing, failures>>

(* SupervisedProc._start: the process runs and its supervision begins.     *)
Start(p) ==
    /\ stage[p] = "starting"
    /\ stage' = [stage EXCEPT ![p] = "started"]
    /\ child' = [child EXCEPT ![p] = "alive"]
    /\ UNCHANGED <<told, job, status, executors, queue, numIdle, target, idleReady, closing, failures>>

(* initialize sends its request outside of its try.  To a process that has *)
(* ended the send may raise: _initialize_fut is then never completed, and  *)
(* the supervision, which waits for it first, never sees the end.          *)
SendInitialize(p) ==
    /\ stage[p] = "started"
    /\ \/ stage' = [stage EXCEPT ![p] = "initializing"]
       \/ Ended(p) /\ stage' = [stage EXCEPT ![p] = "stuck"]
    /\ UNCHANGED <<child, told, job, status, executors, queue, numIdle, target, idleReady, closing, failures>>

(* put_nowait, which wakes the first getter.                               *)
PutWarmed(p) ==
    /\ warmed' = Append(warmed, p)
    /\ IF waiting = <<>>
       THEN UNCHANGED <<waiting, woken>>
       ELSE /\ woken' = woken \cup {Head(waiting)}
            /\ waiting' = Tail(waiting)

(* The InitializeResponse has come: the process is warmed.                 *)
Initialized(p) ==
    /\ stage[p] = "initializing"
    /\ child[p] = "alive"
    /\ stage' = [stage EXCEPT ![p] = "up"]
    /\ PutWarmed(p)
    /\ idleReady' = (idleReady \/ Len(warmed') >= numIdle)
    /\ UNCHANGED <<numIdle, child, told, job, status, executors, target, closing, failures>>

(* The wait for the response raises: the process ended, answered with an   *)
(* error and ends, or was killed when the time was up.                     *)
InitializeFails(p) ==
    /\ stage[p] = "initializing"
    /\ IF Ended(p)
       THEN UNCHANGED <<child, failures>>
       ELSE /\ failures < MaxFailures
            /\ failures' = failures + 1
            /\ child' = [child EXCEPT ![p] = "killed"]
    /\ stage' = [stage EXCEPT ![p] = "up"]
    /\ UNCHANGED <<told, job, status, executors, queue, numIdle, target, idleReady, closing>>

-----------------------------------------------------------------------------
(* Processes.                                                              *)

Dies(p, how) ==
    /\ child[p] = "alive"
    /\ child' = [child EXCEPT ![p] = how]
    /\ UNCHANGED <<stage, told, job, status, executors, queue, numIdle, target, idleReady, closing>>

(* A crash, or a kill for its memory or for a missing pong.                *)
Crash(p) ==
    /\ failures < MaxFailures
    /\ failures' = failures + 1
    /\ Dies(p, "killed")

(* The job's room was closed, or the shutdown it was told of is complete:  *)
(* the process exits with code 0.                                          *)
Exit(p) ==
    /\ stage[p] = "up"
    /\ job[p] # None \/ p \in told
    /\ Dies(p, "exited")
    /\ UNCHANGED failures

(* The supervision saw the process end, sets the status of its job, and    *)
(* the monitor strikes the executor off.                                   *)
ProcessClosed(p) ==
    /\ stage[p] = "up"
    /\ Ended(p)
    /\ stage' = [stage EXCEPT ![p] = "closed"]
    /\ executors' = StruckOff(p)
    /\ status' = [status EXCEPT ![p] =
          CASE job[p] = None        -> @
            [] child[p] = "exited"  -> "success"
            [] child[p] = "killed"  -> "failed"]
    /\ told' = told \ {p}
    /\ UNCHANGED <<child, job, queue, numIdle, target, idleReady, closing, failures>>

(* SupervisedProc.aclose of a set of executors.                            *)
Shutdown(S) == told' = told \cup {p \in S : Started(p)}

(* Mutant: only an idle process is killed.                                 *)
CloseTimeoutIdle(p) ==
    /\ p \in told
    /\ job[p] = None
    /\ Dies(p, "killed")
    /\ UNCHANGED failures

(* aclose kills a process that has not ended within close_timeout; one     *)
(* that is asked to shut down before it is initialized ends at once.       *)
CloseTimeout(p) ==
    /\ p \in told
    /\ Dies(p, "killed")
    /\ UNCHANGED failures

-----------------------------------------------------------------------------
(* Launching.                                                              *)

(* Mutant: the process stays in the queue.                                 *)
HandPeeks(p, j, raises) ==
    /\ raises => Ended(p)
    /\ stage[p] = "closed" => raises
    /\ job' = [job EXCEPT ![p] = j]
    /\ status' = [status EXCEPT ![p] = "running"]
    /\ UNCHANGED warmed

(* launch_job of the executor p.  It raises when the channel is closed;    *)
(* the channel of a process that has just died may take the message.       *)
Hand(p, j, raises) ==
    /\ raises => Ended(p)
    /\ stage[p] = "closed" => raises
    /\ job' = [job EXCEPT ![p] = j]
    /\ status' = [status EXCEPT ![p] = "running"]
    /\ warmed' = Tail(warmed)

(* launch_job finds a warmed process.                                      *)
LaunchNow(j, raises) ==
    /\ warmed # <<>>
    /\ Hand(Head(warmed), j, raises)
    /\ UNCHANGED <<numIdle, stage, child, told, executors, waiting, woken, target, idleReady, closing, failures>>

(* launch_job waits, having spawned a process if too few are being spawned *)
LaunchLater(j) ==
    /\ warmed = <<>>
    /\ IF Cardinality(SpawnTasks) < Cardinality(Getting) + 1
       THEN \E p \in Procs : Spawn(p)
       ELSE UNCHANGED <<stage, executors>>
    /\ waiting' = Append(waiting, j)
    /\ UNCHANGED <<numIdle, child, told, job, status, warmed, woken, target, idleReady, closing, failures>>

(* A woken getter takes a process ...                                      *)
Take(j, raises) ==
    /\ j \in woken
    /\ warmed # <<>>
    /\ woken' = woken \ {j}
    /\ Hand(Head(warmed), j, raises)
    /\ UNCHANGED <<numIdle, stage, child, told, executors, waiting, target, idleReady, closing, failures>>

(* Mutant: it gives up its place in the queue.                             *)
WaitAgainForgets(j) ==
    /\ j \in woken
    /\ warmed = <<>>
    /\ woken' = woken \ {j}
    /\ UNCHANGED <<numIdle, procVars, executors, warmed, waiting, target, idleReady, closing, failures>>

(* ... or finds that another job took it, and waits again.                 *)
WaitAgain(j) ==
    /\ j \in woken
    /\ warmed = <<>>
    /\ woken' = woken \ {j}
    /\ waiting' = Append(waiting, j)
    /\ UNCHANGED <<numIdle, procVars, executors, warmed, target, idleReady, closing, failures>>

-----------------------------------------------------------------------------
(* The target and the closing.                                             *)

(* set_target_idle_processes, of the worker's load.  Bound: all or none.   *)
SetTarget(n) ==
    /\ pool = "open"
    /\ n # target
    /\ target' = n
    /\ UNCHANGED <<numIdle, procVars, executors, queue, idleReady, closing, failures>>

(* aclose: the main task is cancelled and closes every executor.           *)
ClosePool ==
    /\ pool = "open"
    /\ pool' = "procs"
    /\ awaited' = {p \in ToSet(executors) : Started(p)}
    /\ Shutdown(ToSet(executors))
    /\ UNCHANGED <<stage, child, job, status, executors, queue, numIdle, target, idleReady, failures>>

(* Mutant: the spawn tasks are not waited for.                             *)
GatheredProcsOnly ==
    /\ pool = "procs"
    /\ \A p \in awaited : stage[p] = "closed"
    /\ pool' = "monitors"
    /\ awaited' = MonitorTasks
    /\ UNCHANGED <<procVars, executors, queue, numIdle, target, idleReady, failures>>

(* The three gathers of the cancelled main task.                           *)
GatheredProcs ==
    /\ pool = "procs"
    /\ \A p \in awaited : stage[p] = "closed"
    /\ pool' = "spawns"
    /\ awaited' = SpawnTasks
    /\ UNCHANGED <<procVars, executors, queue, numIdle, target, idleReady, failures>>

GatheredSpawns ==
    /\ pool = "spawns"
    /\ awaited \cap SpawnTasks = {}
    /\ pool' = "monitors"
    /\ awaited' = MonitorTasks
    /\ UNCHANGED <<procVars, executors, queue, numIdle, target, idleReady, failures>>

GatheredMonitors ==
    /\ pool = "monitors"
    /\ \A p \in awaited : stage[p] = "closed"
    /\ pool' = "closed"
    /\ awaited' = {}
    /\ UNCHANGED <<procVars, executors, queue, numIdle, target, idleReady, failures>>
=============================================================================
