---------------------------- MODULE RecordingProofs ----------------------------
(* Proofs about Recording, for any rows, rooms and number of retries.      *)
EXTENDS Recording, SequenceTheorems, TLAPS

(***************************************************************************)
(* The inductive invariant.  A room that exists has been counted, so that  *)
(* an egress is of a room; a process that is putting its URL has seen the  *)
(* file, and a file stays in the bucket.                                   *)
(***************************************************************************)
RoomCounted == open => gen > 0

FileSeen == \A g \in Gens : proc[g] = "putting" => g \in file

(* The entrypoint's attempts and its one registration are counted; it runs *)
(* once the process has its job.                                           *)
Attempts ==
    \A g \in Gens :
        /\ entry[g] \in {"none", "connecting", "failed", "joined"} => tries[g] = 0 /\ hooks[g] = 0
        /\ entry[g] = "starting" => tries[g] < Tries /\ hooks[g] = 0
        /\ proc[g] = "idle" => entry[g] = "none"

IInv == TypeOK /\ RoomCounted /\ FileSeen /\ Attempts /\ LinkedFileExists

USE MaxRoomsAssumption, TriesAssumption

LEMMA InitIInv == Init => IInv
<1> SUFFICES ASSUME Init PROVE IInv
  OBVIOUS
<1>1. TypeOK
  <2>1. ipc \in [Gens -> Seq({"start", "shutdown"})]
    BY EmptySeq DEF Init
  <2>2. rows \in [Sides -> 0..NoRow] /\ gen \in 0..MaxRooms
    BY DEF Init, NoRow
  <2>3. tries \in [Gens -> 0..Tries] /\ hooks \in [Gens -> 0..1]
    BY DEF Init
  <2> QED
    BY <2>1, <2>2, <2>3 DEF Init, TypeOK
<1>2. RoomCounted /\ FileSeen /\ Attempts /\ LinkedFileExists
  BY DEF Init, RoomCounted, FileSeen, Attempts, LinkedFileExists, Gens, NoRow
<1> QED
  BY <1>1, <1>2 DEF IInv

-----------------------------------------------------------------------------
(* The rooms.                                                              *)
LEMMA UserJoinsIInv ==
    ASSUME IInv, UserJoins
    PROVE  IInv'
<1>1. UNCHANGED <<ipc, proc, entry, tries, hooks, egress, file, rows>>
  BY DEF UserJoins, job, s3
<1>2. gen' \in 0..MaxRooms /\ RoomCounted'
  BY DEF UserJoins, IInv, TypeOK, RoomCounted
<1>3. TypeOK'
  BY <1>1, <1>2 DEF UserJoins, IInv, TypeOK
<1>4. FileSeen' /\ Attempts' /\ LinkedFileExists'
  BY <1>1 DEF IInv, FileSeen, Attempts, LinkedFileExists
<1> QED
  BY <1>2, <1>3, <1>4 DEF IInv

LEMMA RoomIInv ==
    ASSUME IInv, UserLeaves \/ RoomCloses
    PROVE  IInv'
<1>1. /\ UNCHANGED <<gen, job, rows>>
      /\ open' \in BOOLEAN /\ user' \in BOOLEAN
      /\ open' => open
  <2>1. open \in BOOLEAN
    BY DEF IInv, TypeOK
  <2>2. CASE UserLeaves
    BY <2>1, <2>2, Zenon DEF UserLeaves
  <2>3. CASE RoomCloses
    BY <2>3, Zenon DEF RoomCloses
  <2> QED
    BY <2>2, <2>3, Zenon
<1> QED
  BY <1>1 DEF IInv, TypeOK, RoomCounted, FileSeen, Attempts, LinkedFileExists, job, s3

(* A row is added without a URL.                                           *)
LEMMA RecordCallIInv ==
    ASSUME IInv, NEW s \in Sides, RecordCall(s)
    PROVE  IInv'
<1>1. rows' \in [Sides -> 0..NoRow]
  BY DEF IInv, TypeOK, RecordCall, NoRow
<1>2. LinkedFileExists'
  BY DEF IInv, TypeOK, LinkedFileExists, RecordCall, job, s3, Gens
<1> QED
  BY <1>1, <1>2 DEF IInv, TypeOK, RoomCounted, FileSeen, Attempts, RecordCall, room, job, s3

(* No end of an egress takes a file away.                                  *)
LEMMA EgressEndsIInv ==
    ASSUME IInv, NEW g \in Gens, EgressEnds(g)
    PROVE  IInv'
<1>1. PICK r \in egress[g] :
        /\ egress' = [egress EXCEPT ![g] = @ \ {r}]
        /\ file' \in {file, file \cup {g}}
        /\ UNCHANGED <<room, ipc, proc, entry, tries, hooks, rows>>
  BY DEF EgressEnds
<1>2. egress' \in [Gens -> SUBSET Gens] /\ file' \subseteq Gens /\ file \subseteq file'
  BY <1>1 DEF IInv, TypeOK
<1> QED
  BY <1>1, <1>2 DEF IInv, TypeOK, RoomCounted, FileSeen, Attempts, LinkedFileExists, room

-----------------------------------------------------------------------------
(* The messages of a process.                                              *)
LEMMA MessagesOK ==
    ASSUME TypeOK, NEW g \in Gens
    PROVE  /\ \A m \in {"start", "shutdown"} :
                [ipc EXCEPT ![g] = Append(@, m)] \in [Gens -> Seq({"start", "shutdown"})]
           /\ [ipc EXCEPT ![g] = <<>>] \in [Gens -> Seq({"start", "shutdown"})]
           /\ ipc[g] # <<>> => [ipc EXCEPT ![g] = Tail(@)] \in [Gens -> Seq({"start", "shutdown"})]
<1>1. ipc[g] \in Seq({"start", "shutdown"})
  BY DEF TypeOK
<1>2. /\ \A m \in {"start", "shutdown"} : Append(ipc[g], m) \in Seq({"start", "shutdown"})
      /\ <<>> \in Seq({"start", "shutdown"})
      /\ ipc[g] # <<>> => Tail(ipc[g]) \in Seq({"start", "shutdown"})
  BY <1>1, AppendProperties, EmptySeq, HeadTailProperties
<1> QED
  BY <1>2 DEF TypeOK

(* Steps that only send, read or exit.                                     *)
LEMMA ProcessIInv ==
    ASSUME IInv, NEW g \in Gens,
           \/ LaunchJob(g) \/ CloseProcess(g) \/ ReadShutdown(g) \/ RoomDisconnected(g)
           \/ RunShutdownCallbacks(g) \/ ProcessDies(g) \/ WaitS3Object(g)
    PROVE  IInv'
<1>1. UNCHANGED <<gen, open, user, entry, tries, hooks, egress, file, rows>>
  BY DEF LaunchJob, CloseProcess, ReadShutdown, RoomDisconnected, RunShutdownCallbacks, ProcessDies,
         WaitS3Object, room, s3
<1>2. ipc' \in [Gens -> Seq({"start", "shutdown"})]
  <2>1. \/ ipc' = ipc
        \/ ipc' = [ipc EXCEPT ![g] = Append(@, "start")]
        \/ ipc' = [ipc EXCEPT ![g] = Append(@, "shutdown")]
        \/ ipc' = [ipc EXCEPT ![g] = <<>>]
        \/ ipc[g] # <<>> /\ ipc' = [ipc EXCEPT ![g] = Tail(@)]
    BY DEF LaunchJob, CloseProcess, ReadShutdown, RoomDisconnected, RunShutdownCallbacks,
           ProcessDies, WaitS3Object, Exits
  <2>2. TypeOK /\ ipc \in [Gens -> Seq({"start", "shutdown"})]
    BY DEF IInv, TypeOK
  <2> QED
    BY <2>1, <2>2, MessagesOK
<1>3. /\ proc' \in [Gens -> {"idle", "exited"} \cup Running]
      /\ \A h \in Gens : proc'[h] = "putting" => proc[h] = "putting" \/ h \in file
      /\ \A h \in Gens : proc'[h] = "idle" => proc[h] = "idle"
  BY DEF IInv, TypeOK, Running, LaunchJob, CloseProcess, ReadShutdown, RoomDisconnected,
         RunShutdownCallbacks, ProcessDies, WaitS3Object, Exits
<1>4. FileSeen'
  BY <1>1, <1>3 DEF IInv, FileSeen
<1>5. RoomCounted' /\ Attempts' /\ LinkedFileExists'
  BY <1>1, <1>3 DEF IInv, RoomCounted, Attempts, LinkedFileExists
<1> QED
  BY <1>1, <1>2, <1>3, <1>4, <1>5 DEF IInv, TypeOK

LEMMA ReadStartJobIInv ==
    ASSUME IInv, NEW g \in Gens, ReadStartJob(g)
    PROVE  IInv'
<1>1. ipc' \in [Gens -> Seq({"start", "shutdown"})]
  BY MessagesOK DEF IInv, ReadStartJob
<1>2. proc' \in [Gens -> {"idle", "exited"} \cup Running] /\ FileSeen'
  BY DEF IInv, TypeOK, FileSeen, Running, ReadStartJob, s3
<1>3. entry' \in [Gens -> {"none", "connecting", "failed", "joined", "starting", "returned"}]
  BY DEF IInv, TypeOK, ReadStartJob
<1>4. UNCHANGED <<gen, open, user, tries, hooks, egress, file, rows>>
  BY DEF ReadStartJob, room, s3
<1>5. Attempts'
  BY <1>4 DEF IInv, TypeOK, Attempts, ReadStartJob
<1>6. RoomCounted' /\ LinkedFileExists'
  BY <1>4 DEF IInv, RoomCounted, LinkedFileExists
<1> QED
  BY <1>1, <1>2, <1>3, <1>4, <1>5, <1>6 DEF IInv, TypeOK

-----------------------------------------------------------------------------
(* The entrypoint.                                                         *)
LEMMA ConnectIInv ==
    ASSUME IInv, NEW g \in Gens, Connect(g) \/ WaitForParticipant(g)
    PROVE  IInv'
<1>1. PICK e \in {"failed", "joined", "starting"} :
        /\ proc[g] # "idle"
        /\ entry' = [entry EXCEPT ![g] = e]
        /\ entry[g] \in {"connecting", "joined"}
        /\ UNCHANGED <<gen, open, user, ipc, proc, tries, hooks, egress, file, rows>>
  BY DEF Connect, WaitForParticipant, InRoom, Running, room, s3
<1>2. entry' \in [Gens -> {"none", "connecting", "failed", "joined", "starting", "returned"}]
  BY <1>1 DEF IInv, TypeOK
<1>3. Attempts'
  BY <1>1 DEF IInv, TypeOK, Attempts
<1> QED
  BY <1>1, <1>2, <1>3 DEF IInv, TypeOK, RoomCounted, FileSeen, LinkedFileExists

(* An egress starts in a room that is there.                               *)
LEMMA StartEgressIInv ==
    ASSUME IInv, NEW g \in Gens, StartEgress(g)
    PROVE  IInv'
<1>1. Records(g) \/ UNCHANGED egress
  BY DEF StartEgress
<1>2. egress' \in [Gens -> SUBSET Gens]
  <2>1. open => gen \in Gens
    BY DEF IInv, TypeOK, RoomCounted, Gens
  <2>2. CASE Records(g)
    <3>1. egress \in [Gens -> SUBSET Gens] /\ egress[g] \cup {gen} \in SUBSET Gens
      BY <2>1, <2>2 DEF IInv, TypeOK, Records
    <3> QED
      BY <2>2, <3>1 DEF Records
  <2>3. CASE UNCHANGED egress
    BY <2>3 DEF IInv, TypeOK
  <2> QED
    BY <1>1, <2>2, <2>3
<1>3. UNCHANGED <<gen, open, user, ipc, proc, file, rows>>
  BY DEF StartEgress, room
<1>4. /\ tries[g] < Tries /\ tries[g] \in Nat /\ hooks[g] = 0
      /\ tries' = [tries EXCEPT ![g] = @ + 1]
      /\ \/ entry' = [entry EXCEPT ![g] = "returned"] /\ hooks' = [hooks EXCEPT ![g] = @ + 1]
         \/ entry' = [entry EXCEPT ![g] = "returned"] /\ hooks' = hooks
         \/ entry' = entry /\ hooks' = hooks /\ tries'[g] < Tries
  BY DEF IInv, TypeOK, Attempts, StartEgress
<1>5. /\ entry' \in [Gens -> {"none", "connecting", "failed", "joined", "starting", "returned"}]
      /\ hooks' \in [Gens -> 0..1]
      /\ tries' \in [Gens -> 0..Tries]
  <2>1. entry' \in [Gens -> {"none", "connecting", "failed", "joined", "starting", "returned"}]
    BY <1>4 DEF IInv, TypeOK
  <2>2. hooks' \in [Gens -> 0..1]
    <3>1. hooks[g] + 1 \in 0..1
      BY <1>4
    <3> QED
      BY <1>4, <3>1 DEF IInv, TypeOK
  <2>3. tries' \in [Gens -> 0..Tries]
    <3>1. tries[g] + 1 \in 0..Tries
      BY <1>4
    <3> QED
      BY <1>4, <3>1 DEF IInv, TypeOK
  <2> QED
    BY <2>1, <2>2, <2>3
<1>6. entry[g] = "starting" /\ proc[g] # "idle"
  BY DEF StartEgress, Running
<1>7. Attempts'
  BY <1>3, <1>4, <1>5, <1>6 DEF IInv, TypeOK, Attempts
<1> QED
  BY <1>2, <1>3, <1>5, <1>7 DEF IInv, TypeOK, RoomCounted, FileSeen, LinkedFileExists

(* The rows get the URL of a file that was seen.                           *)
LEMMA PutRecordIInv ==
    ASSUME IInv, NEW g \in Gens, PutRecord(g)
    PROVE  IInv'
<1>1. g \in file
  BY DEF IInv, FileSeen, PutRecord
<1>2. /\ rows' \in [Sides -> 0..NoRow]
      /\ \A s \in Sides : rows'[s] \in {rows[s], g}
  BY DEF IInv, TypeOK, PutRecord, NoRow, Gens
<1>3. LinkedFileExists'
  BY <1>1, <1>2 DEF IInv, LinkedFileExists, PutRecord, s3
<1>4. /\ ipc' \in [Gens -> Seq({"start", "shutdown"})]
      /\ proc' \in [Gens -> {"idle", "exited"} \cup Running]
      /\ FileSeen'
  BY MessagesOK DEF IInv, TypeOK, FileSeen, Exits, PutRecord, s3
<1>5. Attempts'
  BY DEF IInv, TypeOK, Attempts, Exits, PutRecord
<1> QED
  BY <1>2, <1>3, <1>4, <1>5 DEF IInv, TypeOK, RoomCounted, room, s3, PutRecord

LEMMA NextIInv == IInv /\ [Next]_vars => IInv'
<1> SUFFICES ASSUME IInv, [Next]_vars PROVE IInv'
  OBVIOUS
<1>1. CASE Next
  BY <1>1, UserJoinsIInv, RoomIInv, RecordCallIInv, EgressEndsIInv, ProcessIInv, ReadStartJobIInv,
     ConnectIInv, StartEgressIInv, PutRecordIInv DEF Next, Process, Entrypoint
<1>2. CASE UNCHANGED vars
  BY <1>2 DEF vars, room, job, s3, IInv, TypeOK, RoomCounted, FileSeen, Attempts, LinkedFileExists
<1> QED
  BY <1>1, <1>2

(* The types: an entrypoint registers its callback once, however often it  *)
(* tries to start the egress.                                              *)
THEOREM TypeCorrect == Spec => []TypeOK
<1>1. Spec => []IInv
  BY InitIInv, NextIInv, PTL DEF Spec
<1>2. IInv => TypeOK
  BY DEF IInv
<1> QED
  BY <1>1, <1>2, PTL

(* A URL in the history is of a file in the bucket, for any number of      *)
(* rooms, jobs and retries.                                                *)
THEOREM LinkedFilesExist == Spec => []LinkedFileExists
<1>1. Spec => []IInv
  BY InitIInv, NextIInv, PTL DEF Spec
<1>2. IInv => LinkedFileExists
  BY DEF IInv
<1> QED
  BY <1>1, <1>2, PTL
=============================================================================
