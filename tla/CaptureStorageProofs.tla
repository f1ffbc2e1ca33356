------------------------ MODULE CaptureStorageProofs ------------------------
(***************************************************************************)
(* Type correctness and the safety of READY and of mission ownership, for  *)
(* any number of missions, requests, runs, records, failed writes and      *)
(* crashes.                                                                *)
(***************************************************************************)
EXTENDS CaptureStorage, TLAPS

(* Every step is one of the actions below; proofs split on this. *)
LEMMA NextCases ==
  ASSUME [Next]_vars
  PROVE  \/ \E m \in Mission : StartResumes(m) \/ StartCreates(m)
         \/ \E m \in Mission, r \in Run, q \in Request :
              CaptureRetry(r, m, q) \/ CaptureClaim(r, m, q)
         \/ \E m \in Mission, r \in Run :
              \/ FinishMission(r, m) \/ FinishRetry(r, m)
              \/ AbortMission(r, m) \/ AbortRetry(r, m)
         \/ LegacyStart \/ LegacyFinish \/ LegacyTrigger
         \/ WriteFirstMetadata \/ WriteReady \/ Rollback \/ EnsureRun
         \/ \E t \in Thread : Allocate(t)
         \/ \E t \in Thread : Record(t)
         \/ \E t \in Thread, d \in Side : Shoot(t, d)
         \/ Crash
         \/ UNCHANGED vars
  BY DEF Next, Service, Legacy, Progress, StartMission, CapturePair

(* Nothing is stored and nothing is open at first. *)
LEMMA InitType == Init => TypeOK
  BY ConstantsAssumption DEF Init, TypeOK, Memory, NoActive, Transaction, NoTx,
     Job, NoJob, Thread, Metadata, NoMeta, Run, Slot, Status, Capture

(* The records of memory and disk stay well formed whichever action runs.  *)
LEMMA TypeStep == TypeOK /\ [Next]_vars => TypeOK'
<1> SUFFICES ASSUME TypeOK, [Next]_vars PROVE TypeOK'
  OBVIOUS
<1> USE ConstantsAssumption
<1>t. /\ NoTx \in Transaction /\ NoJob \in Job /\ NoActive \in Memory
      /\ NoTx.step = "idle" /\ NoJob.phase = "idle" /\ NoActive.run = 0
  BY DEF NoTx, Transaction, NoJob, Job, NoActive, Memory, Capture, Slot, Run, Thread
<1>r. ASSUME NEW r \in Run, NEW m \in Mission, OnDisk(r, m)
      PROVE  /\ Resumed(r) \in Memory /\ meta[r] \in Metadata
             /\ Resumed(r).run # 0 /\ Resumed(r).status \in Status
  BY <1>r DEF TypeOK, OnDisk, Resumed, Memory, Metadata, Run
<1>c. ASSUME NEW a \in Memory, a.run # 0, a.status \in Status, NEW s \in Status
      PROVE  /\ a.run \in Run
             /\ [mission |-> a.mission, status |-> s, captures |-> a.captures] \in Metadata
  BY <1>c DEF Memory, Metadata
<1>d. ASSUME NEW m \in Mission \cup {NoMission}, NEW by \in {"start", "worker", "finish"},
             MakeRunDirectory(m, by)
      PROVE  /\ dirs' \in 0..MaxRun /\ mem' \in Memory /\ tx' \in Transaction
             /\ mem'.status \in Status /\ mem'.run # 0
  BY <1>d DEF MakeRunDirectory, TypeOK, Memory, Transaction, Run, Status, Capture, Slot
<1>1. ASSUME NEW m \in Mission, StartResumes(m) PROVE TypeOK'
  BY <1>1, <1>r DEF StartResumes, TypeOK, disk
<1>2. ASSUME NEW m \in Mission, StartCreates(m) PROVE TypeOK'
  <2>1. CASE MakeRunDirectory(m, "start")
    <3>1. /\ dirs' \in 0..MaxRun /\ mem' \in Memory /\ tx' \in Transaction
          /\ mem'.status \in Status /\ mem'.run # 0
      BY <2>1, <1>d
    <3>2. QED
      BY <1>2, <2>1, <3>1 DEF StartCreates, MakeRunDirectory, TypeOK
  <2>2. CASE MkdirFails
    BY <1>2, <2>2 DEF StartCreates, MkdirFails, TypeOK
  <2>3. QED
    BY <1>2, <2>1, <2>2 DEF StartCreates
<1>3. ASSUME NEW m \in Mission, NEW r \in Run, NEW q \in Request,
             CaptureRetry(r, m, q) \/ CaptureClaim(r, m, q)
      PROVE  TypeOK'
  <2>1. CASE CaptureRetry(r, m, q)
    BY <2>1 DEF CaptureRetry, TypeOK, Answer, Ack, disk, process
  <2>2. CASE CaptureClaim(r, m, q)
    <3>1. [NoJob EXCEPT !.phase = "allocate", !.req = q] \in Job
      BY DEF NoJob, Job
    <3>2. job' \in [Thread -> Job]
      BY <2>2, <3>1 DEF CaptureClaim, TypeOK, Thread
    <3>3. QED
      BY <2>2, <3>2 DEF CaptureClaim, TypeOK, disk
  <2>3. QED
    BY <1>3, <2>1, <2>2
<1>w. ASSUME NEW a \in Memory, a.run # 0, a.status \in Status, WriteCompleted(a)
      PROVE  /\ meta' \in [Run -> Metadata \cup {NoMeta}]
             /\ mem' \in Memory /\ mem'.status \in Status /\ mem'.run # 0
             /\ tx' \in Transaction /\ faults' \in 0..MaxFault /\ ready' = ready
  <2>1. /\ [a EXCEPT !.status = "completed"] \in Memory
        /\ [a EXCEPT !.status = "running"] \in Memory
        /\ [a EXCEPT !.status = "completed"].status \in Status
        /\ [a EXCEPT !.status = "running"].status \in Status
        /\ [a EXCEPT !.status = "completed"].run = a.run
        /\ [a EXCEPT !.status = "running"].run = a.run
    BY DEF Memory, Status
  <2>2. /\ [step |-> "ready", by |-> "finish"] \in Transaction
        /\ [step |-> "rollback", by |-> "finish"] \in Transaction
    BY DEF Transaction
  <2>3. /\ a.run \in Run
        /\ [mission |-> a.mission, status |-> "completed", captures |-> a.captures] \in Metadata
    BY <1>w, <1>c DEF Status
  <2>4. CASE /\ WriteFails
             /\ mem' = [a EXCEPT !.status = "running"]
             /\ tx' = [step |-> "rollback", by |-> "finish"]
    BY <1>w, <2>1, <2>2, <2>4 DEF WriteFails, TypeOK
  <2>5. CASE /\ WriteMetadata(a.run, [mission |-> a.mission, status |-> "completed",
                                     captures |-> a.captures])
             /\ mem' = [a EXCEPT !.status = "completed"]
             /\ tx' = [step |-> "ready", by |-> "finish"]
             /\ UNCHANGED <<ready, faults>>
    BY <1>w, <2>1, <2>2, <2>3, <2>5 DEF WriteMetadata, TypeOK
  <2>6. QED
    BY <1>w, <2>4, <2>5 DEF WriteCompleted
<1>m. ASSUME NEW r \in Run, NEW m \in Mission, MayClose(r, m)
      PROVE  LET a == IF Active THEN mem ELSE Resumed(r)
             IN  a \in Memory /\ a.run # 0 /\ a.status \in Status
  <2>1. CASE Active
    BY <2>1 DEF Active, TypeOK
  <2>2. CASE ~Active
    BY <1>m, <2>2, <1>r DEF MayClose, Found, InMemory
  <2>3. QED
    BY <2>1, <2>2
<1>4. ASSUME NEW m \in Mission, NEW r \in Run,
             \/ FinishMission(r, m) \/ FinishRetry(r, m)
             \/ AbortMission(r, m) \/ AbortRetry(r, m)
      PROVE  TypeOK'
  <2>1. CASE FinishMission(r, m)
    BY <2>1, <1>m, <1>w DEF FinishMission, TypeOK
  <2>2. CASE FinishRetry(r, m)
    BY <2>2 DEF FinishRetry, TypeOK, Answer, Ack, process, WriteFails
  <2>3. CASE AbortMission(r, m)
    <3> DEFINE a == IF Active THEN mem ELSE Resumed(r)
    <3>1. /\ a \in Memory /\ [a EXCEPT !.status = "aborted"] \in Memory
          /\ [mission |-> m, status |-> "aborted", captures |-> a.captures] \in Metadata
      BY <2>3, <1>m DEF AbortMission, Memory, Status, Metadata
    <3>2. [a EXCEPT !.status = "aborted"].status \in Status
      BY <3>1 DEF Memory, Status
    <3>3. tx.step = "idle" /\ UNCHANGED <<dirs, photos, tx, job>>
      BY <2>3 DEF AbortMission, MayClose, ExecutorFree
    <3>4. CASE /\ WriteMetadata(r, [mission |-> m, status |-> "aborted",
                                    captures |-> a.captures])
               /\ ready' = ready \ {r} /\ mem' = NoActive
               /\ Answer("abort", r, NoRequest) /\ UNCHANGED faults
      BY <3>1, <3>3, <3>4, <1>t DEF TypeOK, Answer, Ack, WriteMetadata
    <3>5. CASE WriteFails /\ mem' = [a EXCEPT !.status = "aborted"] /\ UNCHANGED acked
      BY <3>1, <3>2, <3>3, <3>5 DEF TypeOK, WriteFails
    <3>6. QED
      BY <2>3, <3>4, <3>5 DEF AbortMission
  <2>4. CASE AbortRetry(r, m)
    BY <2>4 DEF AbortRetry, TypeOK, Answer, Ack, process
  <2>5. QED
    BY <1>4, <2>1, <2>2, <2>3, <2>4
<1>5. ASSUME LegacyStart \/ LegacyFinish \/ LegacyTrigger
      PROVE  TypeOK'
  <2>1. CASE LegacyStart /\ MakeRunDirectory(NoMission, "start")
    <3>1. /\ dirs' \in 0..MaxRun /\ mem' \in Memory /\ tx' \in Transaction
          /\ mem'.status \in Status /\ mem'.run # 0
      BY <2>1, <1>d
    <3>2. QED
      BY <2>1, <3>1 DEF LegacyStart, MakeRunDirectory, TypeOK
  <2>2. CASE LegacyStart /\ MkdirFails
    BY <2>2 DEF LegacyStart, MkdirFails, TypeOK
  <2>3. CASE LegacyFinish
    <3>1. mem \in Memory /\ mem.run # 0 /\ mem.status \in Status
      BY <2>3 DEF LegacyFinish, Active, TypeOK
    <3>2. QED
      BY <2>3, <3>1, <1>w DEF LegacyFinish, TypeOK
  <2>4. CASE LegacyTrigger
    BY <2>4 DEF LegacyTrigger, TypeOK, disk, Job, Thread
  <2>5. QED
    BY <1>5, <2>1, <2>2, <2>3, <2>4 DEF LegacyStart
<1>a. ASSUME Active PROVE mem.run \in Run /\ ActiveMetadata("running") \in Metadata
  BY <1>a, <1>c DEF Active, TypeOK, ActiveMetadata, Status
<1>6. CASE WriteFirstMetadata
  <2>1. Active /\ UNCHANGED <<dirs, photos, acked>> /\ tx' = NoTx
    BY <1>6 DEF WriteFirstMetadata, TypeOK, Active
  <2>2. /\ job' \in [Thread -> Job]
        /\ \A t \in Thread : job'[t].phase \in {"shoot", "record"} =>
             job'[t].run # 0 /\ job'[t].slot # 0
    BY <1>6, <1>t DEF WriteFirstMetadata, TypeOK, Thread, Job
  <2>3. CASE WriteMetadata(mem.run, ActiveMetadata("running"))
             /\ UNCHANGED <<mem, ready, faults>>
    BY <2>1, <2>2, <2>3, <1>a, <1>t DEF TypeOK, WriteMetadata
  <2>4. CASE WriteFails /\ mem' = NoActive
    BY <2>1, <2>2, <2>4, <1>t DEF TypeOK, WriteFails
  <2>5. QED
    BY <1>6, <2>3, <2>4 DEF WriteFirstMetadata
<1>7. CASE WriteReady
  <2>1. /\ mem.run \in Run /\ mem.status \in Status /\ UNCHANGED <<dirs, photos, job>>
    BY <1>7 DEF WriteReady, TypeOK, Memory
  <2>2. CASE /\ ready' = ready \cup {mem.run}
             /\ acked' = acked \/ Answer("finish", mem.run, NoRequest)
             /\ mem' = NoActive /\ tx' = NoTx /\ UNCHANGED <<meta, faults>>
    BY <2>1, <2>2, <1>t DEF TypeOK, Answer, Ack
  <2>3. CASE /\ WriteFails
             /\ mem' = [mem EXCEPT !.status = "running"]
             /\ tx' = [tx EXCEPT !.step = "rollback"] /\ UNCHANGED acked
    <3>1. mem' \in Memory /\ mem'.status \in Status /\ mem'.run = mem.run
      BY <2>3 DEF TypeOK, Memory, Status
    <3>2. tx' \in Transaction
      BY <2>3 DEF TypeOK, Transaction
    <3>3. mem.run # 0
      BY <1>7 DEF WriteReady, TypeOK
    <3>4. QED
      BY <2>1, <2>3, <3>1, <3>2, <3>3 DEF TypeOK, WriteFails
  <2>4. QED
    BY <1>7, <2>2, <2>3 DEF WriteReady
<1>8. CASE Rollback
  <2>1. Active /\ tx' = NoTx /\ UNCHANGED <<dirs, photos, mem, job, acked>>
    BY <1>8 DEF Rollback, TypeOK, Active
  <2>2. CASE WriteMetadata(mem.run, ActiveMetadata("running")) /\ UNCHANGED <<ready, faults>>
    BY <2>1, <2>2, <1>a, <1>t DEF TypeOK, WriteMetadata
  <2>3. CASE WriteFails
    BY <2>1, <2>3, <1>t DEF TypeOK, WriteFails
  <2>4. QED
    BY <1>8, <2>2, <2>3 DEF Rollback
<1>9. CASE EnsureRun
  <2>1. CASE Active
    BY <1>9, <2>1 DEF EnsureRun, TypeOK, Job, Thread
  <2>2. CASE MakeRunDirectory(NoMission, "worker") /\ UNCHANGED job
    <3>1. /\ dirs' \in 0..MaxRun /\ mem' \in Memory /\ tx' \in Transaction
          /\ mem'.status \in Status /\ mem'.run # 0
      BY <2>2, <1>d
    <3>2. QED
      BY <1>9, <2>2, <3>1 DEF EnsureRun, MakeRunDirectory, TypeOK
  <2>3. CASE MkdirFails /\ job' = [job EXCEPT !["worker"] = NoJob]
    BY <1>9, <2>3, <1>t DEF EnsureRun, MkdirFails, TypeOK, Thread
  <2>4. QED
    BY <1>9, <2>1, <2>2, <2>3 DEF EnsureRun
<1>10. ASSUME NEW t \in Thread, Allocate(t) PROVE TypeOK'
  <2>1. PICK s \in Slot : /\ mem' = [mem EXCEPT !.reserved = @ \cup {s}]
                          /\ job' = [job EXCEPT ![t].phase = "shoot", ![t].run = mem.run,
                                               ![t].slot = s, ![t].pending = Side]
    BY <1>10 DEF Allocate
  <2>2. mem' \in Memory /\ mem'.run = mem.run /\ mem'.status = mem.status
    BY <2>1 DEF TypeOK, Memory
  <2>3. mem.run \in Run /\ s # 0
    BY <1>10 DEF Allocate, Active, TypeOK, Memory, Slot
  <2>4. [job[t] EXCEPT !.phase = "shoot", !.run = mem.run, !.slot = s, !.pending = Side] \in Job
    BY <2>3 DEF TypeOK, Job
  <2>5. /\ job' \in [Thread -> Job]
        /\ \A u \in Thread : job'[u].phase \in {"shoot", "record"} =>
             job'[u].run # 0 /\ job'[u].slot # 0
    BY <2>1, <2>3, <2>4 DEF TypeOK, Job, Run
  <2>6. QED
    BY <1>10, <2>2, <2>5 DEF Allocate, TypeOK, disk
<1>11. ASSUME NEW t \in Thread, Record(t) PROVE TypeOK'
  <2> DEFINE c == [req |-> job[t].req, slot |-> job[t].slot, sides |-> job[t].sides]
  <2>1. /\ c \in Capture /\ mem.run \in Run /\ mem.status \in Status
        /\ tx.step = "idle" /\ UNCHANGED <<dirs, photos, tx>>
    BY <1>11 DEF Record, Active, TypeOK, Job, Capture, Memory
  <2>2. /\ job' \in [Thread -> Job]
        /\ \A u \in Thread : job'[u].phase \in {"shoot", "record"} =>
             job'[u].run # 0 /\ job'[u].slot # 0
    BY <1>11, <1>t DEF Record, Release, TypeOK
  <2>3. Append(mem.captures, c) \in Seq(Capture)
    BY <2>1 DEF TypeOK, Memory
  <2>4. /\ [mem EXCEPT !.captures = Append(@, c)] \in Memory
        /\ [mem EXCEPT !.captures = Append(@, c)].status = mem.status
        /\ [ActiveMetadata(mem.status) EXCEPT !.captures = Append(@, c)] \in Metadata
    BY <2>1, <2>3 DEF TypeOK, Memory, ActiveMetadata, Metadata
  <2>5. acked' \subseteq Ack
    BY <1>11, <2>1 DEF Record, TypeOK, Answer, Ack, Job
  <2>6. CASE UNCHANGED <<mem, meta, ready, faults>>
    BY <2>1, <2>2, <2>5, <2>6 DEF TypeOK
  <2>7. CASE /\ mem' = [mem EXCEPT !.captures = Append(@, c)]
             /\ WriteMetadata(mem.run, [ActiveMetadata(mem.status) EXCEPT
                                          !.captures = Append(@, c)])
             /\ UNCHANGED <<ready, faults>>
    BY <2>1, <2>2, <2>4, <2>5, <2>7 DEF TypeOK, WriteMetadata
  <2>8. CASE mem' = [mem EXCEPT !.captures = Append(@, c)] /\ WriteFails
    BY <2>1, <2>2, <2>4, <2>5, <2>8 DEF TypeOK, WriteFails
  <2>9. QED
    BY <1>11, <2>6, <2>7, <2>8 DEF Record
<1>12. ASSUME NEW t \in Thread, NEW d \in Side, Shoot(t, d) PROVE TypeOK'
  <2>1. job[t].run \in Run /\ job[t].slot \in Slot
    BY <1>12 DEF Shoot, TypeOK, Job
  <2>p. <<job[t].run, d, job[t].slot>> \in Run \X Side \X Slot
    BY <2>1
  <2>2. photos' \subseteq Run \X Side \X Slot
    <3>1. photos' = photos \cup {<<job[t].run, d, job[t].slot>>} \/ photos' = photos
      BY <1>12 DEF Shoot
    <3>2. QED
      BY <3>1, <2>p DEF TypeOK
  <2>3. /\ job' \in [Thread -> Job]
        /\ \A u \in Thread : job'[u].phase \in {"shoot", "record"} =>
             job'[u].run # 0 /\ job'[u].slot # 0
    <3> DEFINE rest == job[t].pending \ {d}
               next == IF rest = {} THEN "record" ELSE "shoot"
               hit  == [job[t] EXCEPT !.pending = rest, !.phase = next, !.sides = @ \cup {d}]
               miss == [job[t] EXCEPT !.pending = rest, !.phase = next]
    <3>1. job' = [job EXCEPT ![t] = hit] \/ job' = [job EXCEPT ![t] = miss]
      BY <1>12 DEF Shoot, TypeOK
    <3>2. /\ hit \in Job /\ hit.run = job[t].run /\ hit.slot = job[t].slot
          /\ miss \in Job /\ miss.run = job[t].run /\ miss.slot = job[t].slot
      BY DEF TypeOK, Job
    <3>3. job[t].run # 0 /\ job[t].slot # 0
      BY <1>12 DEF Shoot, TypeOK
    <3> HIDE DEF hit, miss
    <3>4. QED
      BY <3>1, <3>2, <3>3 DEF TypeOK
  <2>4. QED
    BY <1>12, <2>2, <2>3 DEF Shoot, TypeOK
<1>13. CASE Crash
  BY <1>13, <1>t DEF Crash, TypeOK, disk
<1>14. CASE UNCHANGED vars
  BY <1>14 DEF vars, TypeOK
<1>15. QED
  BY NextCases, <1>1, <1>2, <1>3, <1>4, <1>5, <1>6, <1>7, <1>8, <1>9, <1>10, <1>11,
     <1>12, <1>13, <1>14

(* Memory and disk of the capture node always have their types.            *)
THEOREM TypeCorrect == Spec => []TypeOK
  BY InitType, TypeStep, PTL DEF Spec

-----------------------------------------------------------------------------
(* The inductive invariant *)

(* Numbers above the last directory are unused, on disk and in memory. *)
Numbering ==
  /\ \A r \in Run : r > dirs => meta[r] = NoMeta
  /\ mem.run <= dirs

(* Except while it is being created, the open run is the one on disk. *)
OpenRunOnDisk ==
  Active /\ tx.step # "create" => OnDisk(mem.run, mem.mission)

(* How far the write sequence under the storage lock has come. *)
TxProgress ==
  /\ tx.step = "create" => /\ meta[mem.run] = NoMeta
                           /\ mem.mission \in Mission => ~HasRun(mem.mission)
  /\ tx.step = "ready" => meta[mem.run].status = "completed"
  /\ tx.step # "ready" => mem.status # "completed"

(* No capture is under way while a run is being opened or closed, but the  *)
(* worker's whose run is being created.                                    *)
TxExcludesJobs ==
  tx.step # "idle" =>
    \A t \in Thread : \/ job[t].phase = "idle"
                     \/ /\ t = "worker" /\ job[t].phase = "ensure"
                        /\ tx.step = "create" /\ tx.by = "worker"

IInv == /\ TypeOK /\ Numbering /\ OpenRunOnDisk /\ TxProgress /\ TxExcludesJobs
        /\ CaptureKeepsItsRun /\ ReadyMeansCompleted /\ OneRunPerMission

(* The initial disk is empty and no run is open. *)
LEMMA InitInv == Init => IInv
  BY InitType, ConstantsAssumption DEF Init, IInv, Numbering, OpenRunOnDisk, TxProgress,
     TxExcludesJobs, CaptureKeepsItsRun, ReadyMeansCompleted, OneRunPerMission,
     Active, OnDisk, NoActive, NoTx, NoJob, Thread, Run

(* With the lock free, the run a completed status was read from is on disk *)
(* and is not the open one: what FinishRetry relies on.                    *)
LEMMA CompletedIsClosed ==
  ASSUME IInv, tx.step = "idle", NEW r \in Run, NEW m \in Mission,
         Found(r, m), StatusOf(r, m) = "completed"
  PROVE  meta[r].status = "completed" /\ mem.run # r
<1>1. ~InMemory(r, m) /\ OnDisk(r, m)
  BY DEF IInv, TxProgress, Found, StatusOf, InMemory
<1>2. ASSUME mem.run = r PROVE FALSE
  <2>1. OnDisk(r, mem.mission)
    BY <1>2 DEF IInv, OpenRunOnDisk, Active, Run
  <2>2. QED
    BY <1>1, <1>2, <2>1 DEF OnDisk, InMemory, Active, Run
<1>3. QED
  BY <1>1, <1>2 DEF StatusOf

(* With no capture under way, the run a call may close has no READY, and   *)
(* it is the mission's on disk: what FinishMission and AbortMission use.   *)
LEMMA ClosableIsOpen ==
  ASSUME IInv, NEW r \in Run, NEW m \in Mission, MayClose(r, m)
  PROVE  /\ r \notin ready /\ OnDisk(r, m)
         /\ LET a == IF Active THEN mem ELSE Resumed(r)
            IN  a.run = r /\ a.mission = m /\ a.status \in Status /\ a.status # "completed"
<1>1. tx.step = "idle" /\ Found(r, m) /\ StatusOf(r, m) = "running"
  BY DEF MayClose, ExecutorFree
<1>2. CASE Active
  <2>1. mem.run = r /\ OnDisk(r, mem.mission)
    BY <1>1, <1>2 DEF IInv, OpenRunOnDisk, MayClose
  <2>2. mem.mission = m
    BY <1>1, <2>1 DEF Found, InMemory, OnDisk
  <2>3. QED
    BY <1>1, <1>2, <2>1, <2>2 DEF IInv, ReadyMeansCompleted, StatusOf, InMemory, Status
<1>3. CASE ~Active
  BY <1>1, <1>3 DEF Found, InMemory, StatusOf, IInv, ReadyMeansCompleted, Resumed,
     OnDisk, Status
<1>4. QED
  BY <1>2, <1>3

(* Writing the metadata of a run under the mission it has, or under one    *)
(* without a run, keeps a mission's runs apart.                            *)
LEMMA OwnersKept ==
  ASSUME TypeOK, OneRunPerMission, NEW r \in Run, NEW x \in Metadata,
         WriteMetadata(r, x), OnDisk(r, x.mission) \/ (x.mission \in Mission => ~HasRun(x.mission))
  PROVE  OneRunPerMission'
<1>1. \A s \in Run, m \in Mission : OnDisk(s, m)' =>
        OnDisk(s, m) \/ (s = r /\ m = x.mission /\ ~HasRun(m))
  BY DEF TypeOK, WriteMetadata, OnDisk
<1>2. QED
  BY <1>1 DEF OneRunPerMission, HasRun

(* Every action keeps the inductive invariant. *)
LEMMA InvStep == IInv /\ [Next]_vars => IInv'
<1> SUFFICES ASSUME IInv, [Next]_vars PROVE IInv'
  OBVIOUS
<1>0. TypeOK /\ TypeOK'
  BY TypeStep DEF IInv
<1> USE ConstantsAssumption
<1>n. NoActive.run = 0 /\ NoTx.step = "idle" /\ NoJob.phase = "idle"
      /\ NoActive.status # "completed" /\ NoMeta.status # "completed"
  BY DEF NoActive, NoTx, NoJob, NoMeta
<1>m. ASSUME NEW a \in Memory, a.run # 0, NEW s \in Status
      PROVE  [mission |-> a.mission, status |-> s, captures |-> a.captures] \in Metadata
             /\ a.run \in Run
  BY <1>m DEF Memory, Metadata
(* A directory just made: its number is new, and nothing is on disk yet. *)
<1>d. ASSUME NEW m \in Mission \cup {NoMission}, NEW by \in {"start", "worker"},
             MakeRunDirectory(m, by), ~Active, tx.step = "idle", m \in Mission => ~HasRun(m),
             UNCHANGED <<meta, ready, job>>
      PROVE  Numbering' /\ OpenRunOnDisk' /\ TxProgress' /\ ReadyMeansCompleted'
             /\ OneRunPerMission' /\ Active' /\ tx' = [step |-> "create", by |-> by]
  <2>1. /\ dirs + 1 \in Run /\ meta[dirs + 1] = NoMeta /\ dirs' = dirs + 1
        /\ mem'.run = dirs + 1 /\ mem'.mission = m /\ mem'.status = "running"
        /\ tx' = [step |-> "create", by |-> by]
    BY <1>0, <1>d DEF IInv, Numbering, MakeRunDirectory, TypeOK, Run
  <2>2. dirs + 1 \notin ready
    BY <1>n, <2>1 DEF IInv, ReadyMeansCompleted
  <2>3. QED
    BY <1>0, <1>d, <2>1, <2>2 DEF IInv, Numbering, OpenRunOnDisk, TxProgress, HasRun, OnDisk,
       ReadyMeansCompleted, OneRunPerMission, Active, TypeOK, Run
(* An open run is completed on disk and in memory: READY comes next. *)
<1>w. ASSUME NEW a \in Memory, a.run # 0, a.run \notin ready, OnDisk(a.run, a.mission),
             WriteCompleted(a), ~CaptureInProgress, UNCHANGED <<dirs, job>>
      PROVE  IInv'
  <2>1. /\ a.run \in Run /\ a.run <= dirs /\ UNCHANGED ready
        /\ mem'.run = a.run /\ mem'.mission = a.mission
    BY <1>0, <1>w DEF IInv, Numbering, OnDisk, WriteCompleted, WriteFails, Memory, Run, TypeOK
  <2>2. CASE /\ WriteMetadata(a.run, [mission |-> a.mission, status |-> "completed",
                                      captures |-> a.captures])
             /\ mem' = [a EXCEPT !.status = "completed"]
             /\ tx' = [step |-> "ready", by |-> "finish"]
    <3>1. [mission |-> a.mission, status |-> "completed", captures |-> a.captures] \in Metadata
      BY <1>m, <1>w DEF Status
    <3>2. OneRunPerMission'
      BY <1>0, <1>w, <2>1, <2>2, <3>1, OwnersKept DEF IInv
    <3>3. /\ meta'[a.run].mission = a.mission /\ meta'[a.run].status = "completed"
          /\ meta'[a.run] # NoMeta /\ \A s \in Run \ {a.run} : meta'[s] = meta[s]
      BY <1>0, <1>n, <2>1, <2>2 DEF WriteMetadata, TypeOK
    <3>4. Numbering' /\ OpenRunOnDisk' /\ TxProgress' /\ ReadyMeansCompleted'
      BY <1>0, <1>w, <2>1, <2>2, <3>3 DEF IInv, Numbering, OpenRunOnDisk, TxProgress, OnDisk,
         ReadyMeansCompleted, TypeOK, Run
    <3>5. TxExcludesJobs' /\ CaptureKeepsItsRun'
      BY <1>w, <2>1, <2>2 DEF TxExcludesJobs, CaptureKeepsItsRun, CaptureInProgress, Active, Thread
    <3>6. QED
      BY <1>0, <3>2, <3>4, <3>5 DEF IInv
  <2>3. CASE /\ WriteFails
             /\ mem' = [a EXCEPT !.status = "running"]
             /\ tx' = [step |-> "rollback", by |-> "finish"]
    <3>1. UNCHANGED meta /\ mem'.status = "running"
      BY <1>w, <2>3 DEF WriteFails, Memory
    <3>2. Numbering' /\ OpenRunOnDisk' /\ TxProgress' /\ ReadyMeansCompleted' /\ OneRunPerMission'
      BY <1>0, <1>w, <2>1, <2>3, <3>1 DEF IInv, Numbering, OpenRunOnDisk, TxProgress, OnDisk,
         ReadyMeansCompleted, OneRunPerMission, TypeOK, Run
    <3>3. TxExcludesJobs' /\ CaptureKeepsItsRun'
      BY <1>w, <2>1, <2>3 DEF TxExcludesJobs, CaptureKeepsItsRun, CaptureInProgress, Active, Thread
    <3>4. QED
      BY <1>0, <3>2, <3>3 DEF IInv
  <2>4. QED
    BY <1>w, <2>2, <2>3 DEF WriteCompleted
<1>1. ASSUME NEW m \in Mission, StartResumes(m) PROVE IInv'
  <2>1. PICK r \in Run : OnDisk(r, m) /\ meta[r].status = "running" /\ mem' = Resumed(r)
    BY <1>1 DEF StartResumes
  <2>2. /\ r <= dirs /\ r \notin ready /\ OnDisk(r, mem'.mission)
        /\ mem'.run = r /\ mem'.status = "running"
    BY <1>0, <2>1 DEF IInv, Numbering, ReadyMeansCompleted, OnDisk, Resumed, Run, TypeOK
  <2>3. tx.step = "idle" /\ ~CaptureInProgress /\ UNCHANGED <<dirs, meta, ready, tx, job>>
    BY <1>1 DEF StartResumes, ExecutorFree, disk
  <2>4. Numbering' /\ OpenRunOnDisk' /\ TxProgress' /\ ReadyMeansCompleted' /\ OneRunPerMission'
    BY <2>2, <2>3 DEF IInv, Numbering, OpenRunOnDisk, TxProgress, ReadyMeansCompleted,
       OneRunPerMission, OnDisk
  <2>5. TxExcludesJobs' /\ CaptureKeepsItsRun'
    BY <2>3 DEF TxExcludesJobs, CaptureKeepsItsRun, CaptureInProgress, Thread
  <2>6. QED
    BY <1>0, <2>4, <2>5 DEF IInv
<1>2. ASSUME \/ \E m \in Mission : StartCreates(m)
             \/ LegacyStart
      PROVE  IInv'
  <2>1. /\ tx.step = "idle" /\ ~CaptureInProgress /\ ~Active
        /\ UNCHANGED <<meta, ready, photos, job, acked>>
    BY <1>2 DEF StartCreates, LegacyStart, ExecutorFree
  <2>2. CASE MkdirFails
    <3>1. UNCHANGED <<mem, tx>> /\ dirs' \in {dirs, dirs + 1}
      BY <2>2 DEF MkdirFails
    <3>2. QED
      BY <1>0, <2>1, <3>1 DEF IInv, Numbering, OpenRunOnDisk, TxProgress, TxExcludesJobs, HasRun,
         CaptureKeepsItsRun, ReadyMeansCompleted, OneRunPerMission, Active, OnDisk, TypeOK, Run,
         Memory
  <2>3. CASE \E m \in Mission \cup {NoMission} :
               MakeRunDirectory(m, "start") /\ (m \in Mission => ~HasRun(m))
    <3>1. PICK m \in Mission \cup {NoMission} :
            MakeRunDirectory(m, "start") /\ (m \in Mission => ~HasRun(m))
      BY <2>3
    <3>2. /\ Numbering' /\ OpenRunOnDisk' /\ TxProgress' /\ ReadyMeansCompleted'
          /\ OneRunPerMission'
      BY <2>1, <3>1, <1>d
    <3>3. TxExcludesJobs' /\ CaptureKeepsItsRun'
      BY <2>1 DEF TxExcludesJobs, CaptureKeepsItsRun, CaptureInProgress, Thread
    <3>4. QED
      BY <1>0, <3>2, <3>3 DEF IInv
  <2>4. QED
    BY <1>2, <2>2, <2>3 DEF StartCreates, LegacyStart
<1>3. ASSUME NEW m \in Mission, NEW r \in Run, NEW q \in Request,
             CaptureRetry(r, m, q) \/ CaptureClaim(r, m, q)
      PROVE  IInv'
  <2>1. CASE CaptureRetry(r, m, q)
    <3>1. UNCHANGED <<dirs, meta, ready, mem, tx, job>>
      BY <2>1 DEF CaptureRetry, disk, process
    <3>2. QED
      BY <1>0, <3>1 DEF IInv, Numbering, OpenRunOnDisk, TxProgress, TxExcludesJobs, HasRun,
         CaptureKeepsItsRun, ReadyMeansCompleted, OneRunPerMission, Active, OnDisk
  <2>2. CASE CaptureClaim(r, m, q)
    <3>1. /\ Active /\ tx.step = "idle" /\ ~CaptureInProgress
          /\ UNCHANGED <<dirs, meta, ready, mem, tx>>
      BY <2>2 DEF CaptureClaim, InMemory, ExecutorFree, disk
    <3>2. job'["service"].phase = "allocate" /\ job'["worker"] = job["worker"]
      BY <1>0, <2>2 DEF CaptureClaim, NoJob, TypeOK, Thread
    <3>3. TxExcludesJobs' /\ CaptureKeepsItsRun'
      BY <3>1, <3>2 DEF TxExcludesJobs, CaptureKeepsItsRun, CaptureInProgress, Thread, Active
    <3>4. QED
      BY <1>0, <3>1, <3>3 DEF IInv, Numbering, OpenRunOnDisk, TxProgress, HasRun,
         ReadyMeansCompleted, OneRunPerMission, Active, OnDisk
  <2>3. QED
    BY <1>3, <2>1, <2>2
<1>4. ASSUME NEW m \in Mission, NEW r \in Run, FinishMission(r, m) PROVE IInv'
  <2> DEFINE a == IF Active THEN mem ELSE Resumed(r)
  <2>1. /\ MayClose(r, m) /\ WriteCompleted(a) /\ UNCHANGED <<dirs, job>>
    BY <1>4 DEF FinishMission
  <2>2. a.run = r /\ OnDisk(r, a.mission) /\ r \notin ready
    BY <2>1, ClosableIsOpen
  <2>3. a \in Memory
    BY <1>0, <2>1, ClosableIsOpen DEF Resumed, Memory, TypeOK, OnDisk, Metadata, Run
  <2>4. r # 0 /\ ~CaptureInProgress
    BY <2>1 DEF Run, MayClose
  <2> HIDE DEF a
  <2>5. QED
    BY <2>1, <2>2, <2>3, <2>4, <1>w
<1>5. ASSUME NEW m \in Mission, NEW r \in Run, FinishRetry(r, m) PROVE IInv'
  <2>1. /\ meta[r].status = "completed" /\ mem.run # r
    BY <1>5, CompletedIsClosed DEF FinishRetry, ExecutorFree
  <2>2. /\ UNCHANGED <<dirs, meta, mem, tx, job>> /\ ready' \subseteq ready \cup {r}
    BY <1>5 DEF FinishRetry, WriteFails, process
  <2>3. QED
    BY <1>0, <2>1, <2>2 DEF IInv, Numbering, OpenRunOnDisk, TxProgress, TxExcludesJobs, HasRun,
       CaptureKeepsItsRun, ReadyMeansCompleted, OneRunPerMission, Active, OnDisk
<1>6. ASSUME NEW m \in Mission, NEW r \in Run, AbortMission(r, m) PROVE IInv'
  <2> DEFINE a == IF Active THEN mem ELSE Resumed(r)
  <2>1. /\ MayClose(r, m) /\ tx.step = "idle" /\ ~CaptureInProgress
        /\ UNCHANGED <<dirs, tx, job>>
    BY <1>6 DEF AbortMission, MayClose, ExecutorFree
  <2>2. r \notin ready /\ OnDisk(r, m) /\ a.run = r /\ a.mission = m /\ r <= dirs
    BY <1>0, <2>1, ClosableIsOpen DEF IInv, Numbering, OnDisk, Run, TypeOK
  <2>3. TxExcludesJobs' /\ CaptureKeepsItsRun'
    BY <2>1 DEF TxExcludesJobs, CaptureKeepsItsRun, CaptureInProgress, Thread
  <2>4. CASE /\ WriteMetadata(r, [mission |-> m, status |-> "aborted", captures |-> a.captures])
             /\ ready' = ready \ {r} /\ mem' = NoActive
    <3>1. a \in Memory
      BY <1>0, <2>1, <2>2 DEF Resumed, Memory, TypeOK, OnDisk, Metadata, Run
    <3>2. [mission |-> m, status |-> "aborted", captures |-> a.captures] \in Metadata
      BY <3>1 DEF Memory, Metadata, Status
    <3>3. OneRunPerMission'
      BY <1>0, <2>2, <2>4, <3>2, OwnersKept DEF IInv
    <3>4. \A s \in Run \ {r} : meta'[s] = meta[s]
      BY <1>0, <2>4 DEF WriteMetadata, TypeOK
    <3>5. Numbering' /\ OpenRunOnDisk' /\ TxProgress' /\ ReadyMeansCompleted'
      BY <1>0, <1>n, <2>1, <2>2, <2>4, <3>4 DEF IInv, Numbering, OpenRunOnDisk, TxProgress,
         ReadyMeansCompleted, Active, TypeOK, Run
    <3>6. QED
      BY <1>0, <2>3, <3>3, <3>5 DEF IInv
  <2>5. CASE WriteFails /\ mem' = [a EXCEPT !.status = "aborted"]
    <3>1. UNCHANGED <<meta, ready>>
      BY <2>5 DEF WriteFails
    <3>2. mem'.run = r /\ mem'.mission = m /\ mem'.status = "aborted"
      BY <2>2, <2>5 DEF Resumed, TypeOK, Memory
    <3>3. Numbering' /\ OpenRunOnDisk' /\ TxProgress' /\ ReadyMeansCompleted' /\ OneRunPerMission'
      BY <1>0, <2>1, <2>2, <3>1, <3>2 DEF IInv, Numbering, OpenRunOnDisk, TxProgress,
         ReadyMeansCompleted, OneRunPerMission, OnDisk
    <3>4. QED
      BY <1>0, <2>3, <3>3 DEF IInv
  <2>6. QED
    BY <1>6, <2>4, <2>5 DEF AbortMission
<1>7. ASSUME NEW m \in Mission, NEW r \in Run, AbortRetry(r, m) PROVE IInv'
  <2>1. UNCHANGED <<dirs, meta, mem, tx, job>> /\ ready' \subseteq ready
    BY <1>7 DEF AbortRetry, process
  <2>2. QED
    BY <1>0, <2>1 DEF IInv, Numbering, OpenRunOnDisk, TxProgress, TxExcludesJobs, HasRun,
       CaptureKeepsItsRun, ReadyMeansCompleted, OneRunPerMission, Active, OnDisk
<1>8. CASE LegacyFinish
  <2>1. /\ tx.step = "idle" /\ ~CaptureInProgress /\ Active /\ WriteCompleted(mem)
        /\ UNCHANGED <<dirs, job>>
    BY <1>8 DEF LegacyFinish, ExecutorFree
  <2>2. mem \in Memory /\ mem.run # 0 /\ mem.run \notin ready /\ OnDisk(mem.run, mem.mission)
    BY <1>0, <2>1 DEF IInv, ReadyMeansCompleted, OpenRunOnDisk, Active, TypeOK
  <2>3. QED
    BY <2>1, <2>2, <1>w
<1>9. CASE LegacyTrigger
  <2>1. tx.step = "idle" /\ ~CaptureInProgress /\ UNCHANGED <<dirs, meta, ready, mem, tx>>
    BY <1>9 DEF LegacyTrigger, ExecutorFree, disk
  <2>2. job'["worker"].phase = "ensure" /\ job'["service"] = job["service"]
    BY <1>0, <1>9 DEF LegacyTrigger, TypeOK, Thread, Job
  <2>3. TxExcludesJobs' /\ CaptureKeepsItsRun'
    BY <2>1, <2>2 DEF TxExcludesJobs, CaptureKeepsItsRun, CaptureInProgress, Thread
  <2>4. QED
    BY <1>0, <2>1, <2>3 DEF IInv, Numbering, OpenRunOnDisk, TxProgress, HasRun,
       ReadyMeansCompleted, OneRunPerMission, Active, OnDisk
<1>10. CASE WriteFirstMetadata
  <2>1. /\ tx.step = "create" /\ mem.run \in Run /\ tx'.step = "idle" /\ UNCHANGED dirs
    BY <1>0, <1>n, <1>10 DEF WriteFirstMetadata, TypeOK, Memory
  <2>2. meta[mem.run] = NoMeta /\ (mem.mission \in Mission => ~HasRun(mem.mission))
    BY <2>1 DEF IInv, TxProgress
  <2>3. CASE /\ WriteMetadata(mem.run, ActiveMetadata("running"))
             /\ job' = IF tx.by = "worker"
                       THEN [job EXCEPT !["worker"].phase = "allocate"] ELSE job
             /\ UNCHANGED <<mem, ready, faults>>
    <3>1. ActiveMetadata("running") \in Metadata /\ ActiveMetadata("running").mission = mem.mission
      BY <1>0, <1>m, <2>1 DEF ActiveMetadata, TypeOK, Status, Memory, Metadata
    <3>2. OneRunPerMission'
      BY <1>0, <2>1, <2>2, <2>3, <3>1, OwnersKept DEF IInv
    <3>3. /\ meta'[mem.run].mission = mem.mission /\ meta'[mem.run] # NoMeta
          /\ \A s \in Run \ {mem.run} : meta'[s] = meta[s]
      BY <1>0, <2>1, <2>3 DEF WriteMetadata, ActiveMetadata, TypeOK, NoMeta
    <3>4. Numbering' /\ OpenRunOnDisk' /\ TxProgress' /\ ReadyMeansCompleted'
      BY <1>0, <2>1, <2>3, <3>3 DEF IInv, Numbering, OpenRunOnDisk, TxProgress, OnDisk,
         ReadyMeansCompleted, Active, TypeOK, Run
    <3>5. CaptureKeepsItsRun'
      BY <1>0, <2>1, <2>3 DEF IInv, CaptureKeepsItsRun, TxExcludesJobs, Active, TypeOK, Thread, Job
    <3>6. QED
      BY <1>0, <2>1, <3>2, <3>4, <3>5 DEF IInv, TxExcludesJobs
  <2>4. CASE /\ WriteFails /\ mem' = NoActive
             /\ job' = IF tx.by = "worker" THEN [job EXCEPT !["worker"] = NoJob] ELSE job
    <3>1. UNCHANGED <<meta, ready>>
      BY <2>4 DEF WriteFails
    <3>2. CaptureKeepsItsRun'
      BY <1>0, <1>n, <2>1, <2>4 DEF IInv, CaptureKeepsItsRun, TxExcludesJobs, TypeOK, Thread
    <3>3. QED
      BY <1>0, <1>n, <2>1, <2>4, <3>1, <3>2 DEF IInv, Numbering, OpenRunOnDisk, TxProgress,
         TxExcludesJobs, ReadyMeansCompleted, OneRunPerMission, Active, OnDisk, TypeOK, Run
  <2>5. QED
    BY <1>10, <2>3, <2>4 DEF WriteFirstMetadata
<1>11. CASE WriteReady
  <2>1. /\ tx.step = "ready" /\ mem.run \in Run /\ meta[mem.run].status = "completed"
        /\ UNCHANGED <<dirs, meta, job>>
    BY <1>0, <1>11 DEF WriteReady, WriteFails, TypeOK, Memory, IInv, TxProgress
  <2>2. \A t \in Thread : job[t].phase = "idle"
    BY <2>1 DEF IInv, TxExcludesJobs
  <2>3. TxExcludesJobs' /\ CaptureKeepsItsRun'
    BY <2>1, <2>2 DEF TxExcludesJobs, CaptureKeepsItsRun, Thread
  <2>4. CASE ready' = ready \cup {mem.run} /\ mem' = NoActive /\ tx' = NoTx
    BY <1>0, <1>n, <2>1, <2>3, <2>4 DEF IInv, Numbering, OpenRunOnDisk, TxProgress,
       ReadyMeansCompleted, OneRunPerMission, Active, OnDisk, TypeOK, Run
  <2>5. CASE /\ WriteFails /\ mem' = [mem EXCEPT !.status = "running"]
             /\ tx' = [tx EXCEPT !.step = "rollback"]
    <3>1. /\ mem'.run = mem.run /\ mem'.mission = mem.mission /\ mem'.status = "running"
          /\ tx'.step = "rollback" /\ UNCHANGED ready
      BY <1>0, <2>5 DEF WriteFails, TypeOK, Memory, Transaction
    <3>2. QED
      BY <1>0, <2>1, <2>3, <3>1 DEF IInv, Numbering, OpenRunOnDisk, TxProgress,
         ReadyMeansCompleted, OneRunPerMission, Active, OnDisk
  <2>6. QED
    BY <1>11, <2>4, <2>5 DEF WriteReady
<1>12. CASE Rollback
  <2>1. /\ tx.step = "rollback" /\ tx'.step = "idle" /\ mem.run \in Run /\ mem.status # "completed"
        /\ OnDisk(mem.run, mem.mission) /\ mem.run \notin ready
        /\ UNCHANGED <<dirs, mem, job, ready>>
    BY <1>0, <1>n, <1>12 DEF Rollback, WriteFails, TypeOK, Memory, IInv, TxProgress, OpenRunOnDisk,
       Active, ReadyMeansCompleted
  <2>2. TxExcludesJobs' /\ CaptureKeepsItsRun'
    BY <2>1 DEF IInv, TxExcludesJobs, CaptureKeepsItsRun, Active
  <2>3. CASE WriteMetadata(mem.run, ActiveMetadata("running"))
    <3>1. ActiveMetadata("running") \in Metadata /\ ActiveMetadata("running").mission = mem.mission
      BY <1>0, <1>m, <2>1 DEF ActiveMetadata, TypeOK, Status, Memory, Metadata
    <3>2. OneRunPerMission'
      BY <1>0, <2>1, <2>3, <3>1, OwnersKept DEF IInv
    <3>3. /\ meta'[mem.run].mission = mem.mission /\ meta'[mem.run] # NoMeta
          /\ \A s \in Run \ {mem.run} : meta'[s] = meta[s]
      BY <1>0, <2>1, <2>3 DEF WriteMetadata, ActiveMetadata, TypeOK, NoMeta
    <3>4. Numbering' /\ OpenRunOnDisk' /\ TxProgress' /\ ReadyMeansCompleted'
      BY <1>0, <2>1, <3>3 DEF IInv, Numbering, OpenRunOnDisk, TxProgress, OnDisk,
         ReadyMeansCompleted, Active, TypeOK, Run
    <3>5. QED
      BY <1>0, <2>2, <3>2, <3>4 DEF IInv
  <2>4. CASE UNCHANGED meta
    BY <1>0, <2>1, <2>2, <2>4 DEF IInv, Numbering, OpenRunOnDisk, TxProgress,
       ReadyMeansCompleted, OneRunPerMission, Active, OnDisk
  <2>5. QED
    BY <1>12, <2>3, <2>4 DEF Rollback, WriteFails
<1>13. CASE EnsureRun
  <2>1. /\ tx.step = "idle" /\ job["worker"].phase = "ensure" /\ job["service"].phase = "idle"
        /\ UNCHANGED <<meta, ready>>
    BY <1>13 DEF EnsureRun, IInv, CaptureKeepsItsRun, Thread
  <2>2. CASE /\ Active /\ job' = [job EXCEPT !["worker"].phase = "allocate"]
             /\ UNCHANGED <<dirs, mem, tx>>
    <3>1. job'["worker"].phase = "allocate" /\ job'["service"] = job["service"]
      BY <1>0, <2>2 DEF TypeOK, Thread, Job
    <3>2. TxExcludesJobs' /\ CaptureKeepsItsRun'
      BY <2>1, <2>2, <3>1 DEF TxExcludesJobs, CaptureKeepsItsRun, Active, Thread
    <3>3. QED
      BY <1>0, <2>1, <2>2, <3>2 DEF IInv, Numbering, OpenRunOnDisk, TxProgress,
         ReadyMeansCompleted, OneRunPerMission, Active, OnDisk
  <2>3. CASE ~Active /\ MakeRunDirectory(NoMission, "worker") /\ UNCHANGED job
    <3>1. /\ Numbering' /\ OpenRunOnDisk' /\ TxProgress' /\ ReadyMeansCompleted'
          /\ OneRunPerMission' /\ tx' = [step |-> "create", by |-> "worker"]
      BY <2>1, <2>3, <1>d
    <3>2. TxExcludesJobs' /\ CaptureKeepsItsRun'
      BY <2>1, <2>3, <3>1 DEF TxExcludesJobs, CaptureKeepsItsRun, Thread
    <3>3. QED
      BY <1>0, <3>1, <3>2 DEF IInv
  <2>4. CASE ~Active /\ MkdirFails /\ job' = [job EXCEPT !["worker"] = NoJob]
    <3>1. job'["worker"].phase = "idle" /\ job'["service"] = job["service"]
      BY <1>0, <1>n, <2>4 DEF TypeOK, Thread
    <3>2. UNCHANGED <<mem, tx>> /\ dirs' \in {dirs, dirs + 1}
      BY <2>4 DEF MkdirFails
    <3>3. QED
      BY <1>0, <2>1, <2>4, <3>1, <3>2 DEF IInv, Numbering, OpenRunOnDisk, TxProgress,
         TxExcludesJobs, CaptureKeepsItsRun, ReadyMeansCompleted, OneRunPerMission, Active,
         OnDisk, TypeOK, Run, Memory, Thread
  <2>5. QED
    BY <1>13, <2>2, <2>3, <2>4 DEF EnsureRun
<1>14. ASSUME NEW t \in Thread, Allocate(t) PROVE IInv'
  <2>1. /\ Active /\ tx.step = "idle" /\ job[t].phase = "allocate"
        /\ mem'.run = mem.run /\ mem'.mission = mem.mission /\ mem'.status = mem.status
        /\ job'[t].phase = "shoot" /\ job'[t].run = mem.run
        /\ \A u \in Thread \ {t} : job'[u] = job[u]
        /\ UNCHANGED <<dirs, meta, ready, tx>>
    BY <1>0, <1>14 DEF Allocate, disk, TypeOK, Memory, Job
  <2>2. TxExcludesJobs' /\ CaptureKeepsItsRun'
    BY <2>1 DEF IInv, TxExcludesJobs, CaptureKeepsItsRun, Active
  <2>3. QED
    BY <1>0, <2>1, <2>2 DEF IInv, Numbering, OpenRunOnDisk, TxProgress, HasRun,
       ReadyMeansCompleted, OneRunPerMission, Active, OnDisk
<1>15. ASSUME NEW t \in Thread, Record(t) PROVE IInv'
  <2> DEFINE c == [req |-> job[t].req, slot |-> job[t].slot, sides |-> job[t].sides]
  <2>1. /\ Active /\ tx.step = "idle" /\ mem.run \in Run /\ mem.status # "completed"
        /\ OnDisk(mem.run, mem.mission) /\ mem.run \notin ready
        /\ mem'.run = mem.run /\ mem'.mission = mem.mission /\ mem'.status = mem.status
        /\ job'[t].phase = "idle" /\ \A u \in Thread \ {t} : job'[u] = job[u]
        /\ UNCHANGED <<dirs, ready, tx>>
    BY <1>0, <1>n, <1>15 DEF Record, Release, WriteFails, TypeOK, Memory, IInv, TxProgress,
       OpenRunOnDisk, Active, ReadyMeansCompleted
  <2>2. TxExcludesJobs' /\ CaptureKeepsItsRun'
    BY <2>1 DEF IInv, TxExcludesJobs, CaptureKeepsItsRun, Active
  <2>3. CASE UNCHANGED meta
    BY <1>0, <2>1, <2>2, <2>3 DEF IInv, Numbering, OpenRunOnDisk, TxProgress, HasRun,
       ReadyMeansCompleted, OneRunPerMission, Active, OnDisk
  <2>4. CASE WriteMetadata(mem.run, [ActiveMetadata(mem.status) EXCEPT !.captures = Append(@, c)])
    <3> DEFINE x == [ActiveMetadata(mem.status) EXCEPT !.captures = Append(@, c)]
    <3>1. c \in Capture /\ mem.captures \in Seq(Capture)
      BY <1>0, <1>15 DEF Record, TypeOK, Job, Capture, Memory
    <3>2. Append(mem.captures, c) \in Seq(Capture)
      BY <3>1
    <3>3. x \in Metadata /\ x.mission = mem.mission
      BY <1>0, <2>1, <3>2 DEF ActiveMetadata, Metadata, TypeOK, Memory, Active
    <3>4. WriteMetadata(mem.run, x)
      BY <2>4
    <3> HIDE DEF x
    <3>5. OneRunPerMission'
      BY <1>0, <2>1, <3>3, <3>4, OwnersKept DEF IInv
    <3>6. /\ meta'[mem.run] = x /\ x # NoMeta
          /\ \A s \in Run \ {mem.run} : meta'[s] = meta[s]
      BY <1>0, <2>1, <3>3, <3>4 DEF WriteMetadata, TypeOK, NoMeta, Metadata, Status
    <3>7. OpenRunOnDisk' /\ TxProgress'
      BY <2>1, <3>3, <3>6 DEF OpenRunOnDisk, TxProgress, OnDisk
    <3>8. Numbering' /\ ReadyMeansCompleted'
      BY <1>0, <2>1, <3>6 DEF IInv, Numbering, ReadyMeansCompleted, TypeOK, Run
    <3>9. QED
      BY <1>0, <2>2, <3>5, <3>7, <3>8 DEF IInv
  <2>5. \/ UNCHANGED <<mem, meta, ready, faults>> \/ WriteFails
        \/ WriteMetadata(mem.run, [ActiveMetadata(mem.status) EXCEPT !.captures = Append(@, c)])
    <3> DEFINE q == job[t].req
               known == q # NoRequest /\ q \in Requests(mem.captures)
               written == WriteMetadata(mem.run, [ActiveMetadata(mem.status) EXCEPT
                                                    !.captures = Append(@, c)])
               other == IF t = "service" THEN Answer("capture", mem.run, q) ELSE UNCHANGED acked
    <3>1. \/ known /\ other /\ UNCHANGED <<mem, meta, ready, faults>>
          \/ /\ ~known /\ mem' = [mem EXCEPT !.captures = Append(@, c)]
             /\ \/ written /\ other /\ UNCHANGED <<ready, faults>>
                \/ WriteFails /\ UNCHANGED acked
      BY <1>15 DEF Record
    <3>2. QED
      BY <3>1
  <2>6. QED
    BY <2>3, <2>4, <2>5 DEF WriteFails
<1>16. ASSUME NEW t \in Thread, NEW d \in Side, Shoot(t, d) PROVE IInv'
  <2>1. /\ job[t].phase = "shoot" /\ UNCHANGED <<dirs, meta, ready, mem, tx>>
        /\ job'[t].phase \in {"shoot", "record"} /\ job'[t].run = job[t].run
        /\ \A u \in Thread \ {t} : job'[u] = job[u]
    <3> DEFINE rest == job[t].pending \ {d}
               next == IF rest = {} THEN "record" ELSE "shoot"
               hit  == [job[t] EXCEPT !.pending = rest, !.phase = next, !.sides = @ \cup {d}]
               miss == [job[t] EXCEPT !.pending = rest, !.phase = next]
    <3>1. job' = [job EXCEPT ![t] = hit] \/ job' = [job EXCEPT ![t] = miss]
      BY <1>0, <1>16 DEF Shoot, TypeOK
    <3>2. /\ hit.phase \in {"shoot", "record"} /\ hit.run = job[t].run
          /\ miss.phase \in {"shoot", "record"} /\ miss.run = job[t].run
      BY <1>0 DEF TypeOK, Job
    <3> HIDE DEF hit, miss
    <3>3. QED
      BY <1>0, <1>16, <3>1, <3>2 DEF Shoot, TypeOK
  <2>2. TxExcludesJobs' /\ CaptureKeepsItsRun'
    BY <2>1 DEF IInv, TxExcludesJobs, CaptureKeepsItsRun, Active
  <2>3. QED
    BY <1>0, <2>1, <2>2 DEF IInv, Numbering, OpenRunOnDisk, TxProgress, HasRun,
       ReadyMeansCompleted, OneRunPerMission, Active, OnDisk
<1>17. CASE Crash
  <2>1. /\ mem' = NoActive /\ tx' = NoTx /\ UNCHANGED <<dirs, meta, ready>>
        /\ \A t \in Thread : job'[t].phase = "idle"
    BY <1>n, <1>17 DEF Crash, disk
  <2>2. QED
    BY <1>0, <1>n, <2>1 DEF IInv, Numbering, OpenRunOnDisk, TxProgress, TxExcludesJobs,
       CaptureKeepsItsRun, ReadyMeansCompleted, OneRunPerMission, Active, OnDisk, TypeOK, Run,
       Thread
<1>18. CASE UNCHANGED vars
  BY <1>0, <1>18 DEF vars, IInv, Numbering, OpenRunOnDisk, TxProgress, TxExcludesJobs, HasRun,
     CaptureKeepsItsRun, ReadyMeansCompleted, OneRunPerMission, Active, OnDisk
<1>19. QED
  BY NextCases, <1>1, <1>2, <1>3, <1>4, <1>5, <1>6, <1>7, <1>8, <1>9, <1>10, <1>11,
     <1>12, <1>13, <1>14, <1>15, <1>16, <1>17, <1>18

(* The inductive invariant holds in every reachable state: through every   *)
(* failed write, crash and restart of the capture node.                    *)
THEOREM InvariantHolds == Spec => []IInv
  BY InitInv, InvStep, PTL DEF Spec

(* Whatever fails and wherever the node crashes, every run with a READY    *)
(* marker is completed on disk and closed in the node.                     *)
THEOREM ReadyIsCompleted == Spec => []ReadyMeansCompleted
<1>1. IInv => ReadyMeansCompleted
  BY DEF IInv
<1>2. QED
  BY <1>1, InvariantHolds, PTL

(* However often and after whichever failure a mission is started, it owns *)
(* at most one run.                                                        *)
THEOREM MissionOwnsOneRun == Spec => []OneRunPerMission
<1>1. IInv => OneRunPerMission
  BY DEF IInv
<1>2. QED
  BY <1>1, InvariantHolds, PTL

(* The run a capture was started in is open until the capture is recorded. *)
THEOREM CapturesStayInTheirRun == Spec => []CaptureKeepsItsRun
<1>1. IInv => CaptureKeepsItsRun
  BY DEF IInv
<1>2. QED
  BY <1>1, InvariantHolds, PTL

-----------------------------------------------------------------------------
(* No step removes a READY marker, rewrites the metadata of its run or adds *)
(* an image to it: finish, abort and capture may be called on it any time. *)
LEMMA FrozenStep ==
  IInv /\ [Next]_vars => \A r \in ready : /\ r \in ready'
                                         /\ meta'[r] = meta[r]
                                         /\ \A p \in photos' \ photos : p[1] # r
<1> SUFFICES ASSUME IInv, [Next]_vars, NEW x \in ready
             PROVE  /\ x \in ready' /\ meta'[x] = meta[x]
                    /\ \A p \in photos' \ photos : p[1] # x
  OBVIOUS
<1>0. /\ TypeOK /\ x \in Run /\ meta[x].status = "completed" /\ mem.run # x
      /\ meta[x] # NoMeta
  BY DEF IInv, TypeOK, ReadyMeansCompleted, NoMeta
<1>w. ASSUME NEW r, r # x, NEW m, WriteMetadata(r, m) PROVE meta'[x] = meta[x]
  BY <1>0, <1>w DEF WriteMetadata, TypeOK
<1>1. ASSUME NEW m \in Mission, StartResumes(m) \/ StartCreates(m)
      PROVE  UNCHANGED <<meta, ready, photos>>
  BY <1>1 DEF StartResumes, StartCreates, disk
<1>2. ASSUME NEW m \in Mission, NEW r \in Run, NEW q \in Request,
             CaptureRetry(r, m, q) \/ CaptureClaim(r, m, q)
      PROVE  UNCHANGED <<meta, ready, photos>>
  BY <1>2 DEF CaptureRetry, CaptureClaim, disk
<1>3. ASSUME NEW m \in Mission, NEW r \in Run, FinishMission(r, m)
      PROVE  meta'[x] = meta[x] /\ UNCHANGED <<ready, photos>>
  <2>1. r # x /\ (IF Active THEN mem ELSE Resumed(r)).run = r
    BY <1>3, ClosableIsOpen DEF FinishMission
  <2>2. QED
    BY <1>3, <1>w, <2>1 DEF FinishMission, WriteCompleted, WriteFails
<1>4. ASSUME NEW m \in Mission, NEW r \in Run, FinishRetry(r, m)
      PROVE  ready \subseteq ready' /\ UNCHANGED <<meta, photos>>
  BY <1>4 DEF FinishRetry, WriteFails
<1>5. ASSUME NEW m \in Mission, NEW r \in Run, AbortMission(r, m)
      PROVE  meta'[x] = meta[x] /\ x \in ready' /\ UNCHANGED photos
  <2>1. r # x
    BY <1>5, ClosableIsOpen DEF AbortMission
  <2>2. QED
    BY <1>5, <1>w, <2>1 DEF AbortMission, WriteFails
<1>6. ASSUME NEW m \in Mission, NEW r \in Run, AbortRetry(r, m)
      PROVE  x \in ready' /\ UNCHANGED <<meta, photos>>
  <2>1. r # x
    BY <1>0, <1>6 DEF AbortRetry, StatusOf, InMemory
  <2>2. QED
    BY <1>6, <2>1 DEF AbortRetry
<1>7. ASSUME LegacyStart \/ LegacyTrigger PROVE UNCHANGED <<meta, ready, photos>>
  BY <1>7 DEF LegacyStart, LegacyTrigger, disk
<1>8. ASSUME LegacyFinish PROVE meta'[x] = meta[x] /\ UNCHANGED <<ready, photos>>
  BY <1>0, <1>8, <1>w DEF LegacyFinish, WriteCompleted, WriteFails
<1>9. ASSUME WriteFirstMetadata \/ Rollback
      PROVE  meta'[x] = meta[x] /\ UNCHANGED <<ready, photos>>
  BY <1>0, <1>9, <1>w DEF WriteFirstMetadata, Rollback, WriteFails
<1>10. ASSUME WriteReady PROVE ready \subseteq ready' /\ UNCHANGED <<meta, photos>>
  BY <1>10 DEF WriteReady, WriteFails
<1>11. ASSUME EnsureRun \/ (\E t \in Thread : Allocate(t)) \/ Crash
       PROVE  UNCHANGED <<meta, ready, photos>>
  BY <1>11 DEF EnsureRun, Allocate, Crash, disk
<1>12. ASSUME NEW t \in Thread, Record(t)
       PROVE  meta'[x] = meta[x] /\ UNCHANGED <<ready, photos>>
  BY <1>0, <1>12, <1>w DEF Record, WriteFails
<1>13. ASSUME NEW t \in Thread, NEW d \in Side, Shoot(t, d)
       PROVE  UNCHANGED <<meta, ready>> /\ \A p \in photos' \ photos : p[1] # x
  <2>1. job[t].run = mem.run
    BY <1>13 DEF Shoot, IInv, CaptureKeepsItsRun
  <2>2. photos' \subseteq photos \cup {<<mem.run, d, job[t].slot>>}
    BY <1>13, <2>1 DEF Shoot
  <2>3. UNCHANGED <<meta, ready>>
    BY <1>13 DEF Shoot
  <2>4. ASSUME NEW p \in photos' \ photos PROVE p[1] # x
    <3>1. p = <<mem.run, d, job[t].slot>>
      BY <2>2
    <3>2. QED
      BY <1>0, <3>1
  <2>5. QED
    BY <2>3, <2>4
<1>14. ASSUME UNCHANGED vars PROVE UNCHANGED <<meta, ready, photos>>
  BY <1>14 DEF vars
<1>15. QED
  BY NextCases, <1>1, <1>2, <1>3, <1>4, <1>5, <1>6, <1>7, <1>8, <1>9, <1>10, <1>11,
     <1>12, <1>13, <1>14

(* A run that has been handed over is never touched again, whatever is     *)
(* called on it afterwards and wherever the node crashes.                  *)
THEOREM ReadyStaysFrozen == Spec => ReadyRunFrozen
<1>1. IInv /\ [Next]_vars =>
        [\A r \in ready : /\ r \in ready'
                          /\ meta'[r] = meta[r]
                          /\ \A p \in photos' \ photos : p[1] # r]_vars
  BY FrozenStep
<1>2. QED
  BY <1>1, InvariantHolds, PTL DEF Spec, ReadyRunFrozen
=============================================================================
