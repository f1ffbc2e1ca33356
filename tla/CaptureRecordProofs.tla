------------------------ MODULE CaptureRecordProofs ------------------------
(***************************************************************************)
(* What the capture node keeps of the photos it took: the records of every *)
(* run, the acknowledgements that name them, the image files they name,    *)
(* and the refinement of RunLedger, for any number of missions, requests,  *)
(* runs, records, failed writes and crashes.                               *)
(***************************************************************************)
EXTENDS CaptureStorageProofs

-----------------------------------------------------------------------------
(* The inductive invariant *)

Extends(long, short) ==
  /\ Len(short) <= Len(long)
  /\ \A i \in DOMAIN short : long[i] = short[i]

(* The open run's records in memory are those on disk, or more. *)
MemoryExtendsDisk == Active => Extends(mem.captures, meta[mem.run].captures)

Once(caps) == \A i, j \in DOMAIN caps :
                 caps[i].req = caps[j].req /\ caps[i].req # NoRequest => i = j

Backed(r, caps) ==
  /\ \A i \in DOMAIN caps : \A d \in caps[i].sides : <<r, d, caps[i].slot>> \in photos
  /\ \A i, j \in DOMAIN caps :
       caps[i].slot = caps[j].slot /\ caps[i].sides \cap caps[j].sides # {} => i = j

(* A list of records names a request once and an image once, if it exists. *)
WellFormed(r, caps) == Once(caps) /\ Backed(r, caps)

RecordLists ==
  WellFormed(mem.run, mem.captures) /\ \A r \in Run : WellFormed(r, meta[r].captures)

(* A capture holds nothing before its file names are chosen, and what it   *)
(* will be recorded under is not in the run yet.                           *)
FreshJob(t) ==
  /\ job[t].phase \in {"idle", "ensure", "allocate"} => job[t].sides = {}
  /\ job[t].phase \in {"idle", "ensure"} => job[t].req = NoRequest
  /\ job[t].phase \notin {"idle", "ensure"} /\ job[t].req # NoRequest =>
       job[t].req \notin Requests(mem.captures)

(* The names it shoots into belong to no recorded image, what it has saved *)
(* is on disk, and what it has not saved is not.                           *)
OwnSlot(t) ==
  job[t].phase \in {"shoot", "record"} =>
    /\ \A i \in DOMAIN mem.captures :
         mem.captures[i].slot = job[t].slot => mem.captures[i].sides = {}
    /\ \A d \in job[t].sides : <<job[t].run, d, job[t].slot>> \in photos

Jobs == \A t \in Thread : FreshJob(t) /\ OwnSlot(t)

(* What memory says of the open run while it is created, closed or aborted.*)
CloseProgress ==
  /\ tx.step = "create" => mem.captures = <<>>
  /\ ~Active => mem = NoActive
  /\ tx.step \in {"create", "rollback"} => mem.status = "running"
  /\ Active /\ mem.status # "aborted" => meta[mem.run].status # "aborted"
  /\ mem.status = "aborted" => mem.mission # NoMission

RecInv == /\ IInv /\ MemoryExtendsDisk /\ RecordLists /\ Jobs /\ CloseProgress
          /\ ShootsIntoFreeSlot /\ AcksAreDurable

(* The initial disk and memory hold no records. *)
LEMMA InitRec == Init => RecInv
<1> SUFFICES ASSUME Init PROVE RecInv
  OBVIOUS
<1>1. IInv /\ mem = NoActive /\ tx = NoTx /\ acked = {}
      /\ (\A t \in Thread : job[t] = NoJob) /\ (\A r \in Run : meta[r].captures = <<>>)
  BY InitInv DEF Init, NoMeta
<1>2. /\ mem.run = 0 /\ mem.captures = <<>> /\ mem.status = "none" /\ tx.step = "idle"
      /\ NoJob.phase = "idle" /\ NoJob.req = NoRequest /\ NoJob.sides = {}
  BY <1>1 DEF NoActive, NoTx, NoJob
<1>3. QED
  BY <1>1, <1>2 DEF RecInv, MemoryExtendsDisk, RecordLists, WellFormed, Once, Backed, Jobs,
     FreshJob, OwnSlot, CloseProgress, ShootsIntoFreeSlot, AcksAreDurable, Active

-----------------------------------------------------------------------------
(* What a step does to the records *)

KeepsDisk == \A s \in Run : meta'[s].captures = meta[s].captures
Writes(r, caps) ==
  /\ meta'[r].captures = caps
  /\ \A s \in Run \ {r} : meta'[s].captures = meta[s].captures

Rests == \A t \in Thread : job[t].phase \in {"idle", "ensure"}

SameMemory == mem'.run = mem.run /\ mem'.captures = mem.captures

(* Without an open run one is made or resumed, with the records it has.    *)
OpensRun ==
  /\ ~Active /\ Rests /\ KeepsDisk
  /\ mem'.run \in Run /\ mem'.captures = meta[mem'.run].captures

ForgetsRun == mem' = NoActive /\ \A t \in Thread : job'[t].phase \in {"idle", "ensure"}

WritesMemory == Active /\ Writes(mem.run, mem.captures)

(* Thread t's capture becomes the last record of the open run. *)
Appends(t) ==
  LET c == [req |-> job[t].req, slot |-> job[t].slot, sides |-> job[t].sides]
  IN  /\ Active /\ job[t].phase = "record" /\ job'[t] = NoJob
      /\ c.req = NoRequest \/ c.req \notin Requests(mem.captures)
      /\ mem'.run = mem.run /\ mem'.captures = Append(mem.captures, c)
      /\ KeepsDisk \/ Writes(mem.run, Append(mem.captures, c))

RecordStep ==
  \/ (SameMemory \/ ForgetsRun) /\ (KeepsDisk \/ WritesMemory)
  \/ OpensRun
  \/ \E t \in Thread : Appends(t)

(* A write of one run's metadata leaves every other run's alone. *)
LEMMA WriteIsLocal ==
  ASSUME TypeOK, NEW r \in Run, NEW x, WriteMetadata(r, x)
  PROVE  meta'[r] = x /\ \A s \in Run \ {r} : meta'[s] = meta[s]
  BY DEF WriteMetadata, TypeOK

(* The states without a lock holder and a capture: what most calls wait for.*)
LEMMA FreeRests ==
  ASSUME ~CaptureInProgress
  PROVE  Rests /\ \A t \in Thread : job[t].phase = "idle"
  BY DEF CaptureInProgress, Rests

(* Completing the run in memory writes the records memory holds. *)
LEMMA CompletesActive ==
  ASSUME IInv, Active, WriteCompleted(mem)
  PROVE  RecordStep
<1>1. TypeOK /\ mem.run \in Run
  BY DEF IInv, TypeOK, Memory, Active
<1>2. SameMemory
  BY <1>1 DEF WriteCompleted, SameMemory, TypeOK, Memory
<1>3. KeepsDisk \/ WritesMemory
  BY <1>1, WriteIsLocal DEF WriteCompleted, WriteFails, KeepsDisk, WritesMemory, Writes
<1>4. QED
  BY <1>2, <1>3 DEF RecordStep

(* A run made without an open one starts from the records of its number,   *)
(* and a failed mkdir changes none.                                        *)
LEMMA MakesRun ==
  ASSUME IInv, ~Active, Rests, UNCHANGED meta, NEW m, NEW by,
         MakeRunDirectory(m, by) \/ MkdirFails
  PROVE  RecordStep
<1>1. CASE MakeRunDirectory(m, by)
  <2>1. /\ dirs + 1 \in Run /\ meta[dirs + 1] = NoMeta
        /\ mem'.run = dirs + 1 /\ mem'.captures = <<>>
    BY <1>1, ConstantsAssumption DEF IInv, Numbering, MakeRunDirectory, TypeOK, Run
  <2>2. QED
    BY <2>1 DEF RecordStep, OpensRun, KeepsDisk, NoMeta
<1>2. CASE MkdirFails
  BY <1>2 DEF MkdirFails, RecordStep, SameMemory, KeepsDisk
<1>3. QED
  BY <1>1, <1>2

(* Every step changes the records in one of the ways above. *)
LEMMA RecordShape == IInv /\ [Next]_vars => RecordStep
<1> SUFFICES ASSUME IInv, [Next]_vars PROVE RecordStep
  OBVIOUS
<1>0. TypeOK
  BY DEF IInv
<1>q. ASSUME UNCHANGED <<meta, mem>> PROVE RecordStep
  BY <1>q DEF RecordStep, SameMemory, KeepsDisk
<1>1. ASSUME NEW m \in Mission, StartResumes(m) PROVE RecordStep
  <2>1. PICK r \in Run : mem' = Resumed(r)
    BY <1>1 DEF StartResumes
  <2>2. Rests /\ ~Active /\ UNCHANGED meta
    BY <1>1, FreeRests DEF StartResumes, disk
  <2>3. QED
    BY <2>1, <2>2 DEF RecordStep, OpensRun, KeepsDisk, Resumed
<1>2. ASSUME NEW m \in Mission, StartCreates(m) PROVE RecordStep
  BY <1>2, FreeRests, MakesRun DEF StartCreates
<1>3. ASSUME NEW m \in Mission, NEW r \in Run, NEW q \in Request,
             CaptureRetry(r, m, q) \/ CaptureClaim(r, m, q)
      PROVE  RecordStep
  BY <1>3, <1>q DEF CaptureRetry, CaptureClaim, disk, process
<1>4. ASSUME NEW m \in Mission, NEW r \in Run, FinishMission(r, m) PROVE RecordStep
  <2>1. MayClose(r, m) /\ Rests
    BY <1>4, FreeRests DEF FinishMission, MayClose
  <2>2. CASE Active
    BY <1>4, <2>2, CompletesActive DEF FinishMission
  <2>3. CASE ~Active
    <3>1. WriteCompleted(Resumed(r)) /\ OnDisk(r, m) /\ meta[r] \in Metadata
      BY <1>0, <1>4, <2>1, <2>3, ClosableIsOpen DEF FinishMission, OnDisk, TypeOK
    <3>2. mem'.run = r /\ mem'.captures = meta[r].captures
      BY <3>1 DEF WriteCompleted, Resumed
    <3>3. KeepsDisk
      BY <1>0, <3>1, WriteIsLocal DEF WriteCompleted, WriteFails, Resumed, KeepsDisk
    <3>4. QED
      BY <2>1, <2>3, <3>2, <3>3 DEF RecordStep, OpensRun
  <2>4. QED
    BY <2>2, <2>3
<1>5. ASSUME NEW m \in Mission, NEW r \in Run, FinishRetry(r, m) PROVE RecordStep
  BY <1>5, <1>q DEF FinishRetry, WriteFails, process
<1>6. ASSUME NEW m \in Mission, NEW r \in Run, AbortMission(r, m) PROVE RecordStep
  <2> DEFINE a == IF Active THEN mem ELSE Resumed(r)
  <2>1. MayClose(r, m) /\ Rests /\ UNCHANGED job
    BY <1>6, FreeRests DEF AbortMission, MayClose
  <2>2. a.run = r /\ a.captures = IF Active THEN mem.captures ELSE meta[r].captures
    BY <2>1, ClosableIsOpen DEF Resumed
  <2>3. CASE /\ WriteMetadata(r, [mission |-> m, status |-> "aborted", captures |-> a.captures])
             /\ mem' = NoActive
    <3>1. Writes(r, a.captures)
      BY <1>0, <2>3, WriteIsLocal DEF Writes
    <3>2. KeepsDisk \/ WritesMemory
      BY <2>2, <3>1 DEF Writes, KeepsDisk, WritesMemory
    <3>3. QED
      BY <2>1, <2>3, <3>2 DEF RecordStep, ForgetsRun, Rests
  <2>4. CASE WriteFails /\ mem' = [a EXCEPT !.status = "aborted"]
    <3>1. mem'.run = r /\ mem'.captures = a.captures /\ KeepsDisk
      BY <1>0, <2>2, <2>4 DEF WriteFails, KeepsDisk, Resumed, TypeOK, Memory
    <3>2. QED
      BY <2>1, <2>2, <3>1 DEF RecordStep, SameMemory, OpensRun
  <2>5. QED
    BY <1>6, <2>3, <2>4 DEF AbortMission
<1>7. ASSUME NEW m \in Mission, NEW r \in Run, AbortRetry(r, m) PROVE RecordStep
  BY <1>7, <1>q DEF AbortRetry, process
<1>8. CASE LegacyStart
  BY <1>8, FreeRests, MakesRun DEF LegacyStart
<1>9. CASE LegacyFinish
  BY <1>9, CompletesActive DEF LegacyFinish
<1>10. CASE LegacyTrigger
  BY <1>10, <1>q DEF LegacyTrigger, disk
<1>11. CASE WriteFirstMetadata
  <2>1. Active /\ mem.run \in Run /\ tx.step # "idle"
    BY <1>0, <1>11 DEF WriteFirstMetadata, TypeOK, Active, Memory
  <2>2. CASE WriteMetadata(mem.run, ActiveMetadata("running")) /\ UNCHANGED mem
    BY <1>0, <2>1, <2>2, WriteIsLocal DEF RecordStep, SameMemory, WritesMemory, Writes,
       ActiveMetadata
  <2>3. CASE WriteFails /\ mem' = NoActive
             /\ job' = IF tx.by = "worker" THEN [job EXCEPT !["worker"] = NoJob] ELSE job
    <3>1. \A t \in Thread : job'[t].phase \in {"idle", "ensure"}
      BY <1>0, <2>1, <2>3 DEF IInv, TxExcludesJobs, NoJob, TypeOK, Thread
    <3>2. QED
      BY <2>3, <3>1 DEF RecordStep, ForgetsRun, KeepsDisk, WriteFails
  <2>4. QED
    BY <1>11, <2>2, <2>3 DEF WriteFirstMetadata
<1>12. CASE WriteReady
  <2>1. UNCHANGED <<meta, job>> /\ tx.step = "ready"
    BY <1>12 DEF WriteReady, WriteFails
  <2>2. \A t \in Thread : job'[t].phase = "idle"
    BY <2>1 DEF IInv, TxExcludesJobs
  <2>3. mem' = NoActive \/ mem' = [mem EXCEPT !.status = "running"]
    BY <1>12 DEF WriteReady
  <2>4. QED
    BY <1>0, <2>1, <2>2, <2>3 DEF RecordStep, SameMemory, ForgetsRun, KeepsDisk, TypeOK, Memory
<1>13. CASE Rollback
  <2>1. Active /\ mem.run \in Run /\ UNCHANGED mem
    BY <1>0, <1>13 DEF Rollback, TypeOK, Active, Memory
  <2>2. KeepsDisk \/ WritesMemory
    BY <1>0, <1>13, <2>1, WriteIsLocal DEF Rollback, WriteFails, KeepsDisk, WritesMemory, Writes,
       ActiveMetadata
  <2>3. QED
    BY <2>1, <2>2 DEF RecordStep, SameMemory
<1>14. CASE EnsureRun
  <2>1. CASE Active
    BY <1>14, <1>q, <2>1 DEF EnsureRun
  <2>2. CASE ~Active
    <3>1. Rests /\ UNCHANGED meta
      BY <1>14, <2>2 DEF IInv, CaptureKeepsItsRun, EnsureRun, Rests, Thread
    <3>2. MakeRunDirectory(NoMission, "worker") \/ MkdirFails
      BY <1>14, <2>2 DEF EnsureRun
    <3>3. QED
      BY <2>2, <3>1, <3>2, MakesRun
  <2>3. QED
    BY <2>1, <2>2
<1>15. ASSUME NEW t \in Thread, Allocate(t) PROVE RecordStep
  <2>1. mem'.run = mem.run /\ mem'.captures = mem.captures /\ UNCHANGED meta
    BY <1>0, <1>15 DEF Allocate, disk, TypeOK, Memory
  <2>2. QED
    BY <2>1 DEF RecordStep, SameMemory, KeepsDisk
<1>16. ASSUME NEW t \in Thread, Record(t) PROVE RecordStep
  <2> DEFINE q == job[t].req
             c == [req |-> q, slot |-> job[t].slot, sides |-> job[t].sides]
             known == q # NoRequest /\ q \in Requests(mem.captures)
             x == [ActiveMetadata(mem.status) EXCEPT !.captures = Append(@, c)]
  <2>1. /\ Active /\ mem.run \in Run /\ job[t].phase = "record" /\ job'[t] = NoJob
    BY <1>0, <1>16 DEF Record, Release, Active, TypeOK, Memory
  <2>2. \/ known /\ UNCHANGED <<mem, meta>>
        \/ /\ ~known /\ mem' = [mem EXCEPT !.captures = Append(@, c)]
           /\ WriteMetadata(mem.run, x) \/ UNCHANGED meta
    BY <1>16 DEF Record, WriteFails
  <2>3. CASE ~known /\ mem' = [mem EXCEPT !.captures = Append(@, c)]
             /\ (WriteMetadata(mem.run, x) \/ UNCHANGED meta)
    <3>1. x.captures = Append(mem.captures, c) /\ c.req = q
      BY DEF ActiveMetadata
    <3>2. mem'.run = mem.run /\ mem'.captures = Append(mem.captures, c)
      BY <1>0, <2>3 DEF TypeOK, Memory
    <3> HIDE DEF x
    <3>3. KeepsDisk \/ Writes(mem.run, Append(mem.captures, c))
      BY <1>0, <2>1, <2>3, <3>1, WriteIsLocal DEF KeepsDisk, Writes
    <3>4. Appends(t)
      BY <2>1, <2>3, <3>1, <3>2, <3>3 DEF Appends
    <3>5. QED
      BY <3>4 DEF RecordStep
  <2>4. QED
    BY <1>q, <2>2, <2>3
<1>17. ASSUME NEW t \in Thread, NEW d \in Side, Shoot(t, d) PROVE RecordStep
  BY <1>17, <1>q DEF Shoot
<1>18. CASE Crash
  BY <1>18 DEF Crash, disk, RecordStep, ForgetsRun, KeepsDisk, NoJob
<1>19. CASE UNCHANGED vars
  BY <1>19, <1>q DEF vars
<1>20. QED
  BY NextCases, <1>1, <1>2, <1>3, <1>4, <1>5, <1>6, <1>7, <1>8, <1>9, <1>10, <1>11,
     <1>12, <1>13, <1>14, <1>15, <1>16, <1>17, <1>18, <1>19

-----------------------------------------------------------------------------
(* What that means for the lists of records *)

(* A list with one record more. *)
LEMMA AppendExtends ==
  ASSUME NEW S, NEW s \in Seq(S), NEW c \in S
  PROVE  /\ Append(s, c) \in Seq(S)
         /\ DOMAIN s = 1..Len(s) /\ Len(s) \in Nat
         /\ DOMAIN Append(s, c) = 1..(Len(s) + 1)
         /\ \A i \in 1..Len(s) : Append(s, c)[i] = s[i]
         /\ Append(s, c)[Len(s) + 1] = c
         /\ Extends(Append(s, c), s)
  BY DEF Extends

(* The records of a run on disk. *)
LEMMA DiskTypes ==
  ASSUME NEW files \in [Run -> Metadata \cup {NoMeta}], NEW r \in Run
  PROVE  files[r].captures \in Seq(Capture)
<1>1. NoMeta.captures = <<>> /\ <<>> \in Seq(Capture)
  BY DEF NoMeta
<1>2. files[r] \in Metadata \/ files[r] = NoMeta
  OBVIOUS
<1>3. ASSUME files[r] \in Metadata PROVE files[r].captures \in Seq(Capture)
  BY <1>3 DEF Metadata
<1>4. QED
  BY <1>1, <1>2, <1>3

(* The records of every run and of memory, and the one a capture becomes.  *)
LEMMA RecordTypes ==
  ASSUME TypeOK
  PROVE  /\ \A r \in Run : meta[r].captures \in Seq(Capture)
         /\ mem.captures \in Seq(Capture) /\ mem.run \in Run \cup {0}
         /\ \A t \in Thread : job[t].phase = "record" =>
              [req |-> job[t].req, slot |-> job[t].slot, sides |-> job[t].sides] \in Capture
<1>1. ASSUME NEW r \in Run PROVE meta[r].captures \in Seq(Capture)
  BY DiskTypes DEF TypeOK
<1>2. QED
  BY <1>1 DEF TypeOK, Memory, Job, Capture

(* Extending is a preorder on lists of records. *)
LEMMA ExtendsOrder ==
  /\ \A s \in Seq(Capture) : Extends(s, s)
  /\ \A s, t, u \in Seq(Capture) : Extends(u, t) /\ Extends(t, s) => Extends(u, s)
<1>1. ASSUME NEW s \in Seq(Capture), NEW t \in Seq(Capture), NEW u \in Seq(Capture),
             Extends(u, t), Extends(t, s)
      PROVE  Extends(u, s)
  <2>1. /\ Len(s) \in Nat /\ Len(t) \in Nat /\ Len(u) \in Nat
        /\ DOMAIN s = 1..Len(s) /\ DOMAIN t = 1..Len(t)
    OBVIOUS
  <2>2. DOMAIN s \subseteq DOMAIN t /\ Len(s) <= Len(u)
    BY <1>1, <2>1 DEF Extends
  <2>3. QED
    BY <1>1, <2>2 DEF Extends
<1>2. ASSUME NEW s \in Seq(Capture) PROVE Extends(s, s)
  <2>1. Len(s) \in Nat
    OBVIOUS
  <2>2. QED
    BY <2>1 DEF Extends
<1>3. QED
  BY <1>1, <1>2

(* On disk a run's list of records is only ever extended. *)
DiskGrows == \A r \in Run : Extends(meta'[r].captures, meta[r].captures)

LEMMA GrowStep == RecInv /\ RecordStep => DiskGrows
<1> SUFFICES ASSUME RecInv, RecordStep PROVE DiskGrows
  OBVIOUS
<1>0. TypeOK
  BY DEF RecInv, IInv
<1>1. ASSUME KeepsDisk PROVE DiskGrows
  BY <1>0, <1>1, RecordTypes, ExtendsOrder DEF KeepsDisk, DiskGrows
<1>2. ASSUME Active, NEW caps, Writes(mem.run, caps), Extends(caps, meta[mem.run].captures)
      PROVE  DiskGrows
  BY <1>0, <1>2, RecordTypes, ExtendsOrder DEF Writes, DiskGrows
<1>3. ASSUME WritesMemory PROVE DiskGrows
  BY <1>2, <1>3 DEF WritesMemory, RecInv, MemoryExtendsDisk
<1>4. ASSUME NEW t \in Thread, Appends(t) PROVE DiskGrows
  <2> DEFINE c == [req |-> job[t].req, slot |-> job[t].slot, sides |-> job[t].sides]
             longer == Append(mem.captures, c)
  <2>1. /\ c \in Capture /\ mem.captures \in Seq(Capture) /\ mem.run \in Run
        /\ meta[mem.run].captures \in Seq(Capture) /\ Active
    BY <1>0, <1>4, RecordTypes DEF Appends, Active
  <2>2. longer \in Seq(Capture) /\ Extends(longer, mem.captures)
    BY <2>1, AppendExtends
  <2>3. Extends(longer, meta[mem.run].captures)
    BY <2>1, <2>2, ExtendsOrder DEF RecInv, MemoryExtendsDisk
  <2>4. KeepsDisk \/ Writes(mem.run, longer)
    BY <1>4 DEF Appends
  <2>5. QED
    BY <1>1, <1>2, <2>1, <2>3, <2>4
<1>5. QED
  BY <1>1, <1>3, <1>4 DEF RecordStep, OpensRun

(* Memory still extends the disk afterwards. *)
LEMMA MemoryStep == RecInv /\ RecordStep => MemoryExtendsDisk'
<1> SUFFICES ASSUME RecInv, RecordStep PROVE MemoryExtendsDisk'
  OBVIOUS
<1>0. TypeOK
  BY DEF RecInv, IInv
<1>r. Active => mem.run \in Run
  BY <1>0, RecordTypes DEF Active
<1>1. CASE SameMemory /\ KeepsDisk
  BY <1>1, <1>r DEF SameMemory, KeepsDisk, RecInv, MemoryExtendsDisk, Active
<1>2. CASE SameMemory /\ WritesMemory
  BY <1>0, <1>2, RecordTypes, ExtendsOrder DEF SameMemory, WritesMemory, Writes,
     MemoryExtendsDisk, Active
<1>3. CASE ForgetsRun
  BY <1>3 DEF ForgetsRun, NoActive, MemoryExtendsDisk, Active
<1>4. CASE OpensRun
  BY <1>0, <1>4, RecordTypes, ExtendsOrder DEF OpensRun, KeepsDisk, MemoryExtendsDisk
<1>5. ASSUME NEW t \in Thread, Appends(t) PROVE MemoryExtendsDisk'
  <2> DEFINE c == [req |-> job[t].req, slot |-> job[t].slot, sides |-> job[t].sides]
             longer == Append(mem.captures, c)
  <2>1. /\ c \in Capture /\ mem.captures \in Seq(Capture) /\ mem.run \in Run
        /\ meta[mem.run].captures \in Seq(Capture) /\ Active
    BY <1>0, <1>5, RecordTypes DEF Appends, Active
  <2>2. longer \in Seq(Capture) /\ Extends(longer, mem.captures)
    BY <2>1, AppendExtends
  <2>3. Extends(longer, meta[mem.run].captures)
    BY <2>1, <2>2, ExtendsOrder DEF RecInv, MemoryExtendsDisk
  <2>4. mem'.run = mem.run /\ mem'.captures = longer /\ (KeepsDisk \/ Writes(mem.run, longer))
    BY <1>5 DEF Appends
  <2>5. meta'[mem.run].captures = meta[mem.run].captures \/ meta'[mem.run].captures = longer
    BY <2>1, <2>4 DEF KeepsDisk, Writes
  <2>6. Extends(longer, longer)
    BY <2>2, ExtendsOrder
  <2> HIDE DEF longer
  <2>7. QED
    BY <2>3, <2>4, <2>5, <2>6 DEF MemoryExtendsDisk
<1>6. QED
  BY <1>1, <1>2, <1>3, <1>4, <1>5 DEF RecordStep

(* More photos take nothing from a list of records. *)
LEMMA MorePhotos ==
  ASSUME NEW r, NEW caps, WellFormed(r, caps), photos \subseteq photos'
  PROVE  WellFormed(r, caps)'
  BY DEF WellFormed, Once, Backed

(* The capture's record fits after those of the run: its request is new    *)
(* and its images exist under names no other record has.                   *)
LEMMA AppendedFits ==
  ASSUME RecInv, NEW t \in Thread, Appends(t)
  PROVE  WellFormed(mem.run, mem'.captures)
<1> DEFINE c == [req |-> job[t].req, slot |-> job[t].slot, sides |-> job[t].sides]
           longer == Append(mem.captures, c)
<1>0. TypeOK
  BY DEF RecInv, IInv
<1>1. /\ c \in Capture /\ mem.captures \in Seq(Capture) /\ job[t].phase = "record"
      /\ mem'.captures = longer /\ job[t].run = mem.run
      /\ c.req = NoRequest \/ c.req \notin Requests(mem.captures)
  BY <1>0, RecordTypes DEF Appends, RecInv, IInv, CaptureKeepsItsRun
<1>2. /\ \A i \in DOMAIN mem.captures : mem.captures[i].slot = c.slot => mem.captures[i].sides = {}
      /\ \A d \in c.sides : <<mem.run, d, c.slot>> \in photos
  BY <1>1 DEF RecInv, Jobs, OwnSlot
<1>3. Once(mem.captures) /\ Backed(mem.run, mem.captures)
  BY DEF RecInv, RecordLists, WellFormed
<1> HIDE DEF c
<1>4. /\ DOMAIN mem.captures = 1..Len(mem.captures) /\ Len(mem.captures) \in Nat
      /\ DOMAIN longer = 1..(Len(mem.captures) + 1)
      /\ \A i \in 1..Len(mem.captures) : longer[i] = mem.captures[i]
      /\ longer[Len(mem.captures) + 1] = c
  BY <1>1, AppendExtends
<1> HIDE DEF longer
<1>5. \A i \in DOMAIN longer : \/ i = Len(mem.captures) + 1 /\ longer[i] = c
                               \/ i \in DOMAIN mem.captures /\ longer[i] = mem.captures[i]
  BY <1>4
<1>6. \A i \in DOMAIN mem.captures : mem.captures[i].req \in Requests(mem.captures)
  BY DEF Requests
<1>7. Once(longer)
  BY <1>1, <1>3, <1>5, <1>6 DEF Once
<1>8. Backed(mem.run, longer)
  <2>1. \A i \in DOMAIN longer : \A d \in longer[i].sides :
          <<mem.run, d, longer[i].slot>> \in photos
    BY <1>2, <1>3, <1>5 DEF Backed
  <2>2. ASSUME NEW i \in DOMAIN longer, NEW j \in DOMAIN longer,
               longer[i].slot = longer[j].slot, longer[i].sides \cap longer[j].sides # {}
        PROVE  i = j
    BY <1>2, <1>3, <1>5, <2>2 DEF Backed
  <2>3. QED
    BY <2>1, <2>2 DEF Backed
<1>9. QED
  BY <1>1, <1>7, <1>8 DEF WellFormed

(* Every list of records stays well formed. *)
LEMMA ListsStep == RecInv /\ RecordStep /\ photos \subseteq photos' => RecordLists'
<1> SUFFICES ASSUME RecInv, RecordStep, photos \subseteq photos' PROVE RecordLists'
  OBVIOUS
<1>0. TypeOK /\ (Active => mem.run \in Run)
  BY RecordTypes DEF RecInv, IInv, Active
<1>1. /\ WellFormed(mem.run, mem.captures)
      /\ \A r \in Run : WellFormed(r, meta[r].captures)
  BY DEF RecInv, RecordLists
<1>2. ASSUME \A r \in Run : WellFormed(r, meta'[r].captures), WellFormed(mem'.run, mem'.captures)
      PROVE  RecordLists'
  BY <1>2, MorePhotos DEF RecordLists, WellFormed, Once, Backed
<1>3. ASSUME KeepsDisk \/ WritesMemory
      PROVE  \A r \in Run : WellFormed(r, meta'[r].captures)
  BY <1>0, <1>1, <1>3 DEF KeepsDisk, WritesMemory, Writes
<1>4. CASE SameMemory /\ (KeepsDisk \/ WritesMemory)
  BY <1>1, <1>2, <1>3, <1>4 DEF SameMemory
<1>5. CASE ForgetsRun /\ (KeepsDisk \/ WritesMemory)
  <2>1. WellFormed(mem'.run, mem'.captures)
    BY <1>5 DEF ForgetsRun, NoActive, WellFormed, Once, Backed
  <2>2. QED
    BY <1>2, <1>3, <1>5, <2>1
<1>6. CASE OpensRun
  BY <1>1, <1>2, <1>3, <1>6 DEF OpensRun
<1>7. ASSUME NEW t \in Thread, Appends(t) PROVE RecordLists'
  <2>1. WellFormed(mem.run, mem'.captures) /\ mem'.run = mem.run
    BY <1>7, AppendedFits DEF Appends
  <2>2. KeepsDisk \/ Writes(mem.run, mem'.captures)
    BY <1>7 DEF Appends
  <2>3. \A r \in Run : WellFormed(r, meta'[r].captures)
    BY <1>1, <2>1, <2>2 DEF KeepsDisk, Writes
  <2>4. QED
    BY <1>2, <2>1, <2>3
<1>8. QED
  BY <1>4, <1>5, <1>6, <1>7 DEF RecordStep

-----------------------------------------------------------------------------
(* What a step does to the captures under way *)

(* A capture is started: the service's with its request, or the worker's.  *)
Starts(t) ==
  /\ job[t].phase \in {"idle", "ensure"} /\ job'[t].phase \in {"ensure", "allocate"}
  /\ job'[t].sides = {}
  /\ \/ job'[t].req = NoRequest
     \/ job'[t].phase = "allocate" /\ job'[t].req \notin Requests(mem.captures)
  /\ mem'.captures = mem.captures

ChoosesSlot(t) ==
  /\ job[t].phase = "allocate" /\ job'[t].phase = "shoot"
  /\ job'[t].run = mem.run /\ job'[t].slot \in Slot /\ Free(job'[t].slot)
  /\ job'[t].sides = job[t].sides /\ job'[t].pending = Side /\ job'[t].req = job[t].req
  /\ mem'.captures = mem.captures

(* A side answers: its image is saved, or there is none. *)
Answers(t, d) ==
  /\ job[t].phase = "shoot" /\ d \in job[t].pending
  /\ job'[t].phase \in {"shoot", "record"}
  /\ job'[t].run = job[t].run /\ job'[t].slot = job[t].slot /\ job'[t].req = job[t].req
  /\ job'[t].pending = job[t].pending \ {d}
  /\ \/ photos' = photos /\ job'[t].sides = job[t].sides
     \/ /\ photos' = photos \cup {<<job[t].run, d, job[t].slot>>}
        /\ job'[t].sides = job[t].sides \cup {d}
  /\ mem'.captures = mem.captures

JobStep ==
  \/ UNCHANGED <<job, photos>>
  \/ UNCHANGED photos /\ \A t \in Thread : job'[t] = NoJob
  \/ \E t \in Thread :
       /\ \A u \in Thread \ {t} : job'[u] = job[u]
       /\ \/ UNCHANGED photos /\ (job'[t] = NoJob \/ Starts(t) \/ ChoosesSlot(t))
          \/ \E d \in Side : Answers(t, d)

(* Every step handles the captures in one of these ways. *)
LEMMA JobShape == RecInv /\ [Next]_vars => JobStep
<1> SUFFICES ASSUME RecInv, [Next]_vars PROVE JobStep
  OBVIOUS
<1>0. TypeOK /\ Jobs /\ NoJob.phase = "idle"
  BY DEF RecInv, IInv, NoJob
<1>q. ASSUME UNCHANGED <<job, photos>> PROVE JobStep
  BY <1>q DEF JobStep
<1>1. ASSUME NEW m \in Mission, StartResumes(m) \/ StartCreates(m) PROVE JobStep
  BY <1>1, <1>q DEF StartResumes, StartCreates, disk
<1>2. ASSUME NEW m \in Mission, NEW r \in Run, NEW q \in Request,
             CaptureRetry(r, m, q) \/ CaptureClaim(r, m, q)
      PROVE  JobStep
  <2>1. CASE CaptureRetry(r, m, q)
    BY <1>q, <2>1 DEF CaptureRetry, disk, process
  <2>2. CASE CaptureClaim(r, m, q)
    <3> DEFINE claim == [NoJob EXCEPT !.phase = "allocate", !.req = q]
    <3>1. claim.phase = "allocate" /\ claim.req = q /\ claim.sides = {}
      BY DEF NoJob
    <3>2. /\ job["service"].phase = "idle" /\ job' = [job EXCEPT !["service"] = claim]
          /\ q \notin Requests(mem.captures) /\ UNCHANGED <<mem, photos>>
      BY <2>2 DEF CaptureClaim, CapturesOf, ExecutorFree, disk
    <3> HIDE DEF claim
    <3>3. /\ job'["service"] = claim /\ "service" \in Thread
          /\ \A u \in Thread \ {"service"} : job'[u] = job[u]
      BY <1>0, <3>2 DEF TypeOK, Thread
    <3>4. Starts("service")
      BY <3>1, <3>2, <3>3 DEF Starts
    <3>5. QED
      BY <3>2, <3>3, <3>4 DEF JobStep
  <2>3. QED
    BY <1>2, <2>1, <2>2
<1>3. ASSUME NEW m \in Mission, NEW r \in Run,
             \/ FinishMission(r, m) \/ FinishRetry(r, m)
             \/ AbortMission(r, m) \/ AbortRetry(r, m)
      PROVE  JobStep
  BY <1>3, <1>q DEF FinishMission, FinishRetry, AbortMission, AbortRetry, process
<1>4. ASSUME LegacyStart \/ LegacyFinish PROVE JobStep
  BY <1>4, <1>q DEF LegacyStart, LegacyFinish
<1>w. ASSUME NEW phase \in {"ensure", "allocate"}, job["worker"].phase \in {"idle", "ensure"},
             job' = [job EXCEPT !["worker"].phase = phase],
             UNCHANGED <<mem, photos>>
      PROVE  JobStep
  <2>1. /\ job'["worker"] = [job["worker"] EXCEPT !.phase = phase] /\ "worker" \in Thread
        /\ \A u \in Thread \ {"worker"} : job'[u] = job[u]
    BY <1>0, <1>w DEF TypeOK, Thread
  <2>2. job["worker"].sides = {} /\ job["worker"].req = NoRequest
    BY <1>0, <1>w DEF Jobs, FreshJob, Thread
  <2>3. /\ job'["worker"].phase = phase /\ job'["worker"].sides = {}
        /\ job'["worker"].req = NoRequest
    BY <1>0, <2>1, <2>2 DEF TypeOK, Thread, Job
  <2>4. Starts("worker")
    BY <1>w, <2>3 DEF Starts
  <2>5. QED
    BY <1>w, <2>1, <2>4 DEF JobStep
<1>5. CASE LegacyTrigger
  BY <1>5, <1>w DEF LegacyTrigger, CaptureInProgress, Thread, disk
<1>6. CASE WriteFirstMetadata
  <2>1. tx.step = "create" /\ UNCHANGED photos
    BY <1>6 DEF WriteFirstMetadata
  <2>2. CASE /\ UNCHANGED mem /\ tx.by = "worker"
             /\ job' = [job EXCEPT !["worker"].phase = "allocate"]
    <3>1. job["worker"].phase \in {"idle", "ensure"}
      BY <2>1 DEF RecInv, IInv, TxExcludesJobs, Thread
    <3>2. QED
      BY <1>w, <2>1, <2>2, <3>1
  <2>3. CASE job' = [job EXCEPT !["worker"] = NoJob]
    BY <1>0, <2>1, <2>3 DEF JobStep, TypeOK, Thread
  <2>4. QED
    BY <1>6, <1>q, <2>1, <2>2, <2>3 DEF WriteFirstMetadata
<1>7. ASSUME WriteReady \/ Rollback PROVE JobStep
  BY <1>7, <1>q DEF WriteReady, Rollback
<1>8. CASE EnsureRun
  <2>1. CASE job' = [job EXCEPT !["worker"].phase = "allocate"] /\ UNCHANGED mem
    BY <1>8, <1>w, <2>1 DEF EnsureRun
  <2>2. CASE UNCHANGED job
    BY <1>8, <1>q, <2>2 DEF EnsureRun
  <2>3. CASE job' = [job EXCEPT !["worker"] = NoJob]
    BY <1>0, <1>8, <2>3 DEF JobStep, TypeOK, Thread, EnsureRun
  <2>4. QED
    BY <1>8, <2>1, <2>2, <2>3 DEF EnsureRun
<1>9. ASSUME NEW t \in Thread, Allocate(t) PROVE JobStep
  <2>1. PICK s \in Slot : /\ Free(s) /\ mem' = [mem EXCEPT !.reserved = @ \cup {s}]
                          /\ job' = [job EXCEPT ![t].phase = "shoot", ![t].run = mem.run,
                                               ![t].slot = s, ![t].pending = Side]
    BY <1>9 DEF Allocate
  <2>2. /\ job'[t] = [job[t] EXCEPT !.phase = "shoot", !.run = mem.run, !.slot = s,
                                    !.pending = Side]
        /\ \A u \in Thread \ {t} : job'[u] = job[u]
    BY <1>0, <2>1 DEF TypeOK
  <2>3. /\ job'[t].phase = "shoot" /\ job'[t].run = mem.run /\ job'[t].slot = s
        /\ job'[t].pending = Side /\ job'[t].sides = job[t].sides /\ job'[t].req = job[t].req
    BY <1>0, <2>2 DEF TypeOK, Job
  <2>4. mem'.captures = mem.captures
    BY <1>0, <2>1 DEF TypeOK, Memory
  <2>5. ChoosesSlot(t)
    BY <1>9, <2>1, <2>3, <2>4 DEF ChoosesSlot, Allocate
  <2>6. QED
    BY <1>9, <2>2, <2>5 DEF JobStep, Allocate, disk
<1>10. ASSUME NEW t \in Thread, Record(t) PROVE JobStep
  <2>1. job' = [job EXCEPT ![t] = NoJob] /\ UNCHANGED photos
    BY <1>10 DEF Record, Release
  <2>2. QED
    BY <1>0, <2>1 DEF JobStep, TypeOK
<1>11. ASSUME NEW t \in Thread, NEW d \in Side, Shoot(t, d) PROVE JobStep
  <2> DEFINE rest == job[t].pending \ {d}
             next == IF rest = {} THEN "record" ELSE "shoot"
             hit  == [job[t] EXCEPT !.pending = rest, !.phase = next, !.sides = @ \cup {d}]
             miss == [job[t] EXCEPT !.pending = rest, !.phase = next]
  <2>1. \/ /\ job' = [job EXCEPT ![t] = hit]
           /\ photos' = photos \cup {<<job[t].run, d, job[t].slot>>}
        \/ job' = [job EXCEPT ![t] = miss] /\ UNCHANGED photos
    BY <1>0, <1>11 DEF Shoot, TypeOK
  <2>2. /\ hit.phase \in {"shoot", "record"} /\ hit.pending = rest
        /\ hit.sides = job[t].sides \cup {d}
        /\ hit.run = job[t].run /\ hit.slot = job[t].slot /\ hit.req = job[t].req
    BY <1>0 DEF TypeOK, Job
  <2>3. /\ miss.phase \in {"shoot", "record"} /\ miss.pending = rest
        /\ miss.sides = job[t].sides
        /\ miss.run = job[t].run /\ miss.slot = job[t].slot /\ miss.req = job[t].req
    BY <1>0 DEF TypeOK, Job
  <2>4. job[t].phase = "shoot" /\ d \in job[t].pending /\ mem'.captures = mem.captures
    BY <1>11 DEF Shoot
  <2> HIDE DEF hit, miss
  <2>5. (job'[t] = hit \/ job'[t] = miss) /\ \A u \in Thread \ {t} : job'[u] = job[u]
    BY <1>0, <2>1 DEF TypeOK
  <2>6. Answers(t, d)
    <3>1. CASE /\ job' = [job EXCEPT ![t] = hit]
               /\ photos' = photos \cup {<<job[t].run, d, job[t].slot>>}
      <4>1. job'[t] = hit
        BY <1>0, <3>1 DEF TypeOK
      <4>2. QED
        BY <2>2, <2>4, <3>1, <4>1 DEF Answers
    <3>2. CASE job' = [job EXCEPT ![t] = miss] /\ UNCHANGED photos
      <4>1. job'[t] = miss
        BY <1>0, <3>2 DEF TypeOK
      <4>2. QED
        BY <2>3, <2>4, <3>2, <4>1 DEF Answers
    <3>3. QED
      BY <2>1, <3>1, <3>2
  <2>7. QED
    BY <2>5, <2>6 DEF JobStep
<1>12. CASE Crash
  BY <1>12 DEF Crash, disk, JobStep
<1>13. CASE UNCHANGED vars
  BY <1>13, <1>q DEF vars
<1>14. QED
  BY NextCases, <1>1, <1>2, <1>3, <1>4, <1>5, <1>6, <1>7, <1>8, <1>9, <1>10, <1>11,
     <1>12, <1>13

(* Images are only added. *)
LEMMA PhotosStay == JobStep => photos \subseteq photos'
  BY DEF JobStep, Answers

(* A capture that a step leaves alone keeps the records it was made for:   *)
(* another capture is not recorded beside it, and no run opened or closed. *)
LEMMA BusyKeepsRecords ==
  ASSUME RecInv, RecordStep, NEW t \in Thread, job'[t] = job[t],
         job[t].phase \notin {"idle", "ensure"}
  PROVE  mem'.captures = mem.captures
<1>1. ASSUME NEW u \in Thread, Appends(u) PROVE FALSE
  <2>1. u # t
    BY <1>1 DEF Appends, NoJob
  <2>2. QED
    BY <1>1, <2>1 DEF Appends, RecInv, IInv, CaptureKeepsItsRun, Thread
<1>2. QED
  BY <1>1 DEF RecordStep, SameMemory, ForgetsRun, OpensRun, Rests

(* Captures stay fresh and keep to their own file names. *)
LEMMA JobsStep == RecInv /\ RecordStep /\ JobStep => Jobs' /\ ShootsIntoFreeSlot'
<1> SUFFICES ASSUME RecInv, RecordStep, JobStep, NEW t \in Thread
             PROVE  /\ FreshJob(t)' /\ OwnSlot(t)'
                    /\ job'[t].phase = "shoot" =>
                         \A d \in job'[t].pending : <<job'[t].run, d, job'[t].slot>> \notin photos'
  BY DEF Jobs, ShootsIntoFreeSlot
<1>0. /\ TypeOK /\ FreshJob(t) /\ OwnSlot(t) /\ photos \subseteq photos'
      /\ job[t].phase = "shoot" =>
           \A d \in job[t].pending : <<job[t].run, d, job[t].slot>> \notin photos
      /\ Backed(mem.run, mem.captures)
  BY PhotosStay DEF RecInv, IInv, Jobs, ShootsIntoFreeSlot, RecordLists, WellFormed
<1>1. CASE job'[t] = job[t]
  <2>1. job[t].phase \notin {"idle", "ensure"} => mem'.captures = mem.captures
    BY <1>1, BusyKeepsRecords
  <2>2. job[t].phase \in {"shoot", "record"} => photos' = photos
    <3>1. ASSUME NEW u \in Thread, NEW d \in Side, Answers(u, d), u # t,
                 job[t].phase \in {"shoot", "record"}
          PROVE  FALSE
      BY <3>1 DEF Answers, RecInv, IInv, CaptureKeepsItsRun, Thread
    <3>2. ASSUME NEW d \in Side, Answers(t, d) PROVE FALSE
      BY <1>1, <3>2 DEF Answers
    <3>3. QED
      BY <3>1, <3>2 DEF JobStep
  <2>3. QED
    BY <1>0, <1>1, <2>1, <2>2 DEF FreshJob, OwnSlot, Requests
<1>2. CASE job'[t] = NoJob
  BY <1>2 DEF NoJob, FreshJob, OwnSlot
<1>3. CASE Starts(t)
  BY <1>3 DEF Starts, FreshJob, OwnSlot, Requests
<1>4. CASE ChoosesSlot(t) /\ UNCHANGED photos
  <2>1. /\ job'[t].phase = "shoot" /\ job'[t].sides = {} /\ mem'.captures = mem.captures
        /\ job'[t].req # NoRequest => job'[t].req \notin Requests(mem'.captures)
    BY <1>0, <1>4 DEF ChoosesSlot, FreshJob, Requests
  <2>2. \A d \in Side : <<mem.run, d, job'[t].slot>> \notin photos
    BY <1>4 DEF ChoosesSlot, Free
  <2>3. ASSUME NEW i \in DOMAIN mem.captures, mem.captures[i].slot = job'[t].slot
        PROVE  mem.captures[i].sides = {}
    <3>1. mem.captures[i].sides \subseteq Side
      <4>1. mem.captures \in Seq(Capture)
        BY <1>0, RecordTypes
      <4>2. mem.captures[i] \in Capture
        BY <4>1
      <4>3. QED
        BY <4>2 DEF Capture
    <3>2. QED
      BY <1>0, <2>2, <2>3, <3>1 DEF Backed
  <2>4. FreshJob(t)'
    BY <2>1 DEF FreshJob
  <2>5. OwnSlot(t)'
    BY <2>1, <2>3 DEF OwnSlot
  <2>6. QED
    BY <1>4, <2>2, <2>4, <2>5 DEF ChoosesSlot
<1>5. ASSUME NEW d \in Side, Answers(t, d)
      PROVE  /\ FreshJob(t)' /\ OwnSlot(t)'
             /\ job'[t].phase = "shoot" =>
                  \A e \in job'[t].pending : <<job'[t].run, e, job'[t].slot>> \notin photos'
  <2>1. FreshJob(t)'
    BY <1>0, <1>5 DEF Answers, FreshJob, Requests
  <2>2. OwnSlot(t)'
    BY <1>0, <1>5 DEF Answers, OwnSlot
  <2>3. ASSUME NEW e \in job'[t].pending
        PROVE  <<job'[t].run, e, job'[t].slot>> \notin photos'
    <3>1. e # d /\ e \in job[t].pending
      BY <1>5 DEF Answers
    <3>2. <<job[t].run, e, job[t].slot>> \notin photos
      BY <1>0, <1>5, <3>1 DEF Answers
    <3>3. QED
      BY <1>5, <3>1, <3>2 DEF Answers
  <2>4. QED
    BY <2>1, <2>2, <2>3
<1>6. QED
  BY <1>1, <1>2, <1>3, <1>4, <1>5 DEF JobStep

-----------------------------------------------------------------------------
(* What a step does to the status of the open run *)

(* The run a call may close is running, in memory and on disk or only on   *)
(* disk, and nobody has aborted it.                                        *)
LEMMA ClosableIsRunning ==
  ASSUME RecInv, NEW r \in Run, NEW m \in Mission, MayClose(r, m)
  PROVE  /\ meta[r].status # "aborted"
         /\ LET a == IF Active THEN mem ELSE Resumed(r)
            IN  a.run = r /\ a.mission = m /\ a.status = "running" /\ a.run \in Run
<1>1. /\ IInv /\ StatusOf(r, m) = "running" /\ Found(r, m)
  BY DEF RecInv, MayClose
<1>2. CASE Active
  <2>1. mem.run = r /\ mem.mission = m
    BY <1>1, <1>2, ClosableIsOpen
  <2>2. mem.status = "running"
    BY <1>1, <1>2, <2>1 DEF StatusOf, InMemory
  <2>3. QED
    BY <1>2, <2>1, <2>2 DEF RecInv, CloseProgress
<1>3. CASE ~Active
  BY <1>1, <1>3, ClosableIsOpen DEF StatusOf, InMemory, Resumed
<1>4. QED
  BY <1>2, <1>3

(* Completing a run nobody aborted leaves it that way. *)
LEMMA CompletedStatus ==
  ASSUME RecInv, NEW a, a.run \in Run, a = mem \/ a = Resumed(a.run),
         meta[a.run].status # "aborted", WriteCompleted(a)
  PROVE  CloseProgress'
<1>0. TypeOK /\ a.run # 0
  BY DEF RecInv, IInv, Run
<1>1. CASE /\ WriteMetadata(a.run, [mission |-> a.mission, status |-> "completed",
                                    captures |-> a.captures])
           /\ mem' = [a EXCEPT !.status = "completed"]
           /\ tx' = [step |-> "ready", by |-> "finish"]
  <2>1. meta'[a.run].status = "completed"
    BY <1>0, <1>1, WriteIsLocal
  <2>2. mem'.run = a.run /\ mem'.status = "completed" /\ tx'.step = "ready"
    BY <1>0, <1>1 DEF Resumed, TypeOK, Memory
  <2>3. QED
    BY <1>0, <2>1, <2>2 DEF CloseProgress, Active
<1>2. CASE /\ WriteFails /\ mem' = [a EXCEPT !.status = "running"]
           /\ tx' = [step |-> "rollback", by |-> "finish"]
  <2>1. mem'.run = a.run /\ mem'.status = "running" /\ tx'.step = "rollback" /\ UNCHANGED meta
    BY <1>0, <1>2 DEF Resumed, TypeOK, Memory, WriteFails
  <2>2. QED
    BY <1>0, <2>1 DEF CloseProgress, Active
<1>3. QED
  BY <1>1, <1>2 DEF WriteCompleted

(* A run made anew is running and has no metadata yet. *)
LEMMA MadeStatus ==
  ASSUME RecInv, UNCHANGED meta, NEW m, NEW by,
         MakeRunDirectory(m, by) \/ MkdirFails
  PROVE  CloseProgress'
<1>1. CASE MakeRunDirectory(m, by)
  <2>1. /\ dirs + 1 \in Run /\ meta[dirs + 1] = NoMeta /\ mem'.run = dirs + 1 /\ dirs + 1 # 0
        /\ mem'.status = "running" /\ mem'.captures = <<>>
    BY <1>1, ConstantsAssumption DEF RecInv, IInv, Numbering, MakeRunDirectory, TypeOK, Run
  <2>2. QED
    BY <2>1 DEF CloseProgress, Active, NoMeta
<1>2. CASE MkdirFails
  BY <1>2 DEF MkdirFails, RecInv, CloseProgress, Active
<1>3. QED
  BY <1>1, <1>2

(* What memory says of the open run stays true. *)
LEMMA CloseStep == RecInv /\ [Next]_vars => CloseProgress'
<1> SUFFICES ASSUME RecInv, [Next]_vars PROVE CloseProgress'
  OBVIOUS
<1>0. /\ IInv /\ TypeOK /\ CloseProgress
      /\ NoActive.run = 0 /\ NoActive.status = "none" /\ NoTx.step = "idle"
  BY DEF RecInv, IInv, NoActive, NoTx
<1>q. ASSUME UNCHANGED <<meta, mem, tx>> PROVE CloseProgress'
  BY <1>0, <1>q DEF CloseProgress, Active
<1>n. ASSUME mem' = NoActive, tx'.step = "idle" PROVE CloseProgress'
  BY <1>0, <1>n DEF CloseProgress, Active
<1>1. ASSUME NEW m \in Mission, StartResumes(m) PROVE CloseProgress'
  <2>1. PICK r \in Run : meta[r].status = "running" /\ mem' = Resumed(r)
    BY <1>1 DEF StartResumes
  <2>2. mem'.run = r /\ mem'.status = "running" /\ tx'.step = "idle" /\ UNCHANGED meta /\ r # 0
    BY <1>1, <2>1 DEF StartResumes, ExecutorFree, Resumed, disk, Run
  <2>3. QED
    BY <2>1, <2>2 DEF CloseProgress, Active
<1>2. ASSUME NEW m \in Mission, StartCreates(m) PROVE CloseProgress'
  BY <1>2, MadeStatus DEF StartCreates
<1>3. ASSUME NEW m \in Mission, NEW r \in Run, NEW q \in Request,
             CaptureRetry(r, m, q) \/ CaptureClaim(r, m, q)
      PROVE  CloseProgress'
  BY <1>3, <1>q DEF CaptureRetry, CaptureClaim, disk, process
<1>4. ASSUME NEW m \in Mission, NEW r \in Run, FinishMission(r, m) PROVE CloseProgress'
  <2> DEFINE a == IF Active THEN mem ELSE Resumed(r)
  <2>1. MayClose(r, m) /\ WriteCompleted(a)
    BY <1>4 DEF FinishMission
  <2>2. /\ meta[r].status # "aborted" /\ a.run = r /\ (a = mem \/ a = Resumed(r))
    BY <2>1, ClosableIsRunning
  <2> HIDE DEF a
  <2>3. QED
    BY <2>1, <2>2, CompletedStatus
<1>5. ASSUME NEW m \in Mission, NEW r \in Run, FinishRetry(r, m) \/ AbortRetry(r, m)
      PROVE  CloseProgress'
  BY <1>5, <1>q DEF FinishRetry, WriteFails, AbortRetry, process
<1>6. ASSUME NEW m \in Mission, NEW r \in Run, AbortMission(r, m) PROVE CloseProgress'
  <2> DEFINE a == IF Active THEN mem ELSE Resumed(r)
  <2>1. MayClose(r, m) /\ tx.step = "idle" /\ UNCHANGED tx
    BY <1>6 DEF AbortMission, MayClose, ExecutorFree
  <2>2. CASE mem' = NoActive
    BY <1>n, <2>1, <2>2
  <2>3. CASE mem' = [a EXCEPT !.status = "aborted"]
    <3>1. a.run = r /\ a.mission = m /\ (a = mem \/ a = Resumed(r))
      BY <2>1, ClosableIsRunning
    <3>2. mem'.run = r /\ mem'.mission = m /\ mem'.status = "aborted"
      BY <1>0, <2>3, <3>1 DEF Resumed, TypeOK, Memory
    <3>3. m # NoMission /\ r # 0
      BY ConstantsAssumption DEF Run
    <3>4. QED
      BY <2>1, <3>2, <3>3 DEF CloseProgress, Active
  <2>4. QED
    BY <1>6, <2>2, <2>3 DEF AbortMission
<1>7. CASE LegacyStart
  BY <1>7, MadeStatus DEF LegacyStart
<1>8. CASE LegacyFinish
  <2>1. mem.run \in Run /\ meta[mem.run].status # "aborted"
    BY <1>0, <1>8 DEF LegacyFinish, CloseProgress, TypeOK, Memory, Active
  <2>2. QED
    BY <1>8, <2>1, CompletedStatus DEF LegacyFinish
<1>9. CASE LegacyTrigger
  BY <1>9, <1>q DEF LegacyTrigger, disk
<1>10. CASE WriteFirstMetadata
  <2>1. tx'.step = "idle" /\ mem.run \in Run
    BY <1>0, <1>10 DEF WriteFirstMetadata, TypeOK, Memory
  <2>2. CASE WriteMetadata(mem.run, ActiveMetadata("running")) /\ UNCHANGED mem
    <3>1. meta'[mem.run].status = "running"
      BY <1>0, <2>1, <2>2, WriteIsLocal DEF ActiveMetadata
    <3>2. QED
      BY <1>0, <2>1, <2>2, <3>1 DEF CloseProgress, Active
  <2>3. CASE mem' = NoActive
    BY <1>n, <2>1, <2>3
  <2>4. QED
    BY <1>10, <2>2, <2>3 DEF WriteFirstMetadata
<1>11. CASE WriteReady
  <2>1. CASE mem' = NoActive /\ tx' = NoTx
    BY <1>0, <1>n, <2>1
  <2>2. CASE /\ WriteFails /\ mem' = [mem EXCEPT !.status = "running"]
             /\ tx' = [tx EXCEPT !.step = "rollback"]
    <3>1. /\ mem'.run = mem.run /\ mem'.status = "running" /\ tx'.step = "rollback"
          /\ UNCHANGED meta
      BY <1>0, <2>2 DEF TypeOK, Memory, Transaction, WriteFails
    <3>2. meta[mem.run].status = "completed" /\ Active
      BY <1>0, <1>11 DEF WriteReady, IInv, TxProgress, TypeOK, Active
    <3>3. QED
      BY <3>1, <3>2 DEF CloseProgress, Active
  <2>3. QED
    BY <1>11, <2>1, <2>2 DEF WriteReady
<1>12. CASE Rollback
  <2>1. tx'.step = "idle" /\ mem.run \in Run /\ UNCHANGED mem
    BY <1>0, <1>12 DEF Rollback, TypeOK, Memory
  <2>2. meta'[mem.run].status = "running" \/ UNCHANGED meta
    BY <1>0, <1>12, <2>1, WriteIsLocal DEF Rollback, WriteFails, ActiveMetadata
  <2>3. QED
    BY <1>0, <2>1, <2>2 DEF CloseProgress, Active
<1>13. CASE EnsureRun
  <2>1. CASE UNCHANGED <<mem, tx>>
    BY <1>13, <1>q, <2>1 DEF EnsureRun
  <2>2. CASE MakeRunDirectory(NoMission, "worker") \/ MkdirFails
    BY <1>13, <2>2, MadeStatus DEF EnsureRun
  <2>3. QED
    BY <1>13, <2>1, <2>2 DEF EnsureRun
<1>14. ASSUME NEW t \in Thread, Allocate(t) PROVE CloseProgress'
  <2>1. /\ mem'.run = mem.run /\ mem'.status = mem.status /\ mem'.mission = mem.mission
        /\ Active /\ tx'.step = "idle" /\ UNCHANGED meta
    BY <1>0, <1>14 DEF Allocate, disk, TypeOK, Memory
  <2>2. QED
    BY <1>0, <2>1 DEF CloseProgress, Active
<1>15. ASSUME NEW t \in Thread, Record(t) PROVE CloseProgress'
  <2> DEFINE c == [req |-> job[t].req, slot |-> job[t].slot, sides |-> job[t].sides]
             x == [ActiveMetadata(mem.status) EXCEPT !.captures = Append(@, c)]
  <2>1. \/ UNCHANGED <<mem, meta>>
        \/ /\ mem' = [mem EXCEPT !.captures = Append(@, c)]
           /\ WriteMetadata(mem.run, x) \/ UNCHANGED meta
    BY <1>15 DEF Record, WriteFails
  <2>2. x.status = mem.status
    BY DEF ActiveMetadata
  <2>3. mem'.run = mem.run /\ mem'.status = mem.status /\ mem'.mission = mem.mission
    BY <1>0, <2>1 DEF TypeOK, Memory
  <2>4. tx'.step = "idle" /\ Active /\ mem.run \in Run
    BY <1>0, <1>15 DEF Record, TypeOK, Memory, Active
  <2> HIDE DEF x
  <2>5. meta'[mem.run].status \in {meta[mem.run].status, mem.status}
    BY <1>0, <2>1, <2>2, <2>4, WriteIsLocal
  <2>6. QED
    BY <1>0, <2>3, <2>4, <2>5 DEF CloseProgress, Active
<1>16. ASSUME NEW t \in Thread, NEW d \in Side, Shoot(t, d) PROVE CloseProgress'
  BY <1>16, <1>q DEF Shoot
<1>17. CASE Crash
  BY <1>0, <1>n, <1>17 DEF Crash
<1>18. CASE UNCHANGED vars
  BY <1>18, <1>q DEF vars
<1>19. QED
  BY NextCases, <1>1, <1>2, <1>3, <1>4, <1>5, <1>6, <1>7, <1>8, <1>9, <1>10, <1>11,
     <1>12, <1>13, <1>14, <1>15, <1>16, <1>17, <1>18

-----------------------------------------------------------------------------
(* What is acknowledged is kept *)

(* An answer is positive only about what the step, or an earlier one, put  *)
(* on disk.                                                                *)
NewAcksHold ==
  \A a \in acked' \ acked :
    /\ a.kind = "capture" => a.req \in Requests(meta'[a.run].captures)
    /\ a.kind = "finish" => a.run \in ready'

LEMMA AckShape == RecInv /\ [Next]_vars => NewAcksHold
<1> SUFFICES ASSUME RecInv, [Next]_vars PROVE NewAcksHold
  OBVIOUS
<1>0. TypeOK /\ TypeOK'
  BY TypeStep DEF RecInv, IInv
<1>q. ASSUME UNCHANGED acked PROVE NewAcksHold
  BY <1>q DEF NewAcksHold
<1>1. ASSUME NEW m \in Mission, StartResumes(m) \/ StartCreates(m) PROVE NewAcksHold
  BY <1>1, <1>q DEF StartResumes, StartCreates
<1>2. ASSUME NEW m \in Mission, NEW r \in Run, NEW q \in Request,
             CaptureRetry(r, m, q) \/ CaptureClaim(r, m, q)
      PROVE  NewAcksHold
  BY <1>2, <1>q DEF CaptureRetry, CaptureClaim, Answer, NewAcksHold
<1>3. ASSUME NEW m \in Mission, NEW r \in Run, FinishMission(r, m) PROVE NewAcksHold
  BY <1>3, <1>q DEF FinishMission
<1>4. ASSUME NEW m \in Mission, NEW r \in Run, FinishRetry(r, m) PROVE NewAcksHold
  BY <1>4 DEF FinishRetry, Answer, NewAcksHold
<1>5. ASSUME NEW m \in Mission, NEW r \in Run, AbortMission(r, m) \/ AbortRetry(r, m)
      PROVE  NewAcksHold
  BY <1>5 DEF AbortMission, AbortRetry, Answer, NewAcksHold
<1>6. ASSUME LegacyStart \/ LegacyFinish \/ LegacyTrigger PROVE NewAcksHold
  BY <1>6, <1>q DEF LegacyStart, LegacyFinish, LegacyTrigger
<1>7. ASSUME WriteFirstMetadata \/ Rollback \/ EnsureRun PROVE NewAcksHold
  BY <1>7, <1>q DEF WriteFirstMetadata, Rollback, EnsureRun
<1>8. CASE WriteReady
  BY <1>8 DEF WriteReady, Answer, NewAcksHold
<1>9. ASSUME NEW t \in Thread, Allocate(t) PROVE NewAcksHold
  BY <1>9, <1>q DEF Allocate
<1>10. ASSUME NEW t \in Thread, Record(t) PROVE NewAcksHold
  <2> DEFINE q == job[t].req
             c == [req |-> q, slot |-> job[t].slot, sides |-> job[t].sides]
             known == q # NoRequest /\ q \in Requests(mem.captures)
             x == [ActiveMetadata(mem.status) EXCEPT !.captures = Append(@, c)]
  <2>1. \/ known \/ UNCHANGED acked
        \/ /\ WriteMetadata(mem.run, x)
           /\ UNCHANGED acked \/ Answer("capture", mem.run, q)
    BY <1>10 DEF Record
  <2>2. ~known
    BY <1>10 DEF RecInv, Jobs, FreshJob, Record
  <2>3. CASE WriteMetadata(mem.run, x) /\ Answer("capture", mem.run, q)
    <3>1. c \in Capture /\ mem.captures \in Seq(Capture) /\ mem.run \in Run /\ c.req = q
      BY <1>0, <1>10, RecordTypes DEF Record, Active
    <3>2. x.captures = Append(mem.captures, c)
      BY DEF ActiveMetadata
    <3>3. meta'[mem.run] = x
      BY <1>0, <2>3, <3>1, WriteIsLocal
    <3> HIDE DEF c, x
    <3>4. q \in Requests(Append(mem.captures, c))
      <4>1. /\ Len(mem.captures) + 1 \in DOMAIN Append(mem.captures, c)
            /\ Append(mem.captures, c)[Len(mem.captures) + 1] = c
        BY <3>1, AppendExtends
      <4>2. QED
        BY <3>1, <4>1 DEF Requests
    <3>5. \A a \in acked' \ acked : a.kind = "capture" /\ a.run = mem.run /\ a.req = q
      BY <2>3 DEF Answer
    <3>6. QED
      BY <3>2, <3>3, <3>4, <3>5 DEF NewAcksHold
  <2>4. QED
    BY <1>q, <2>1, <2>2, <2>3
<1>11. ASSUME NEW t \in Thread, NEW d \in Side, Shoot(t, d) PROVE NewAcksHold
  BY <1>11, <1>q DEF Shoot
<1>12. CASE Crash
  BY <1>12, <1>q DEF Crash
<1>13. CASE UNCHANGED vars
  BY <1>13, <1>q DEF vars
<1>14. QED
  BY NextCases, <1>1, <1>2, <1>3, <1>4, <1>5, <1>6, <1>7, <1>8, <1>9, <1>10, <1>11,
     <1>12, <1>13

(* An answer, once given, is of a run. *)
LEMMA AcksStep == RecInv /\ [Next]_vars => AcksAreDurable'
<1> SUFFICES ASSUME RecInv, [Next]_vars, NEW a \in acked'
             PROVE  /\ a.kind = "capture" => a.req \in Requests(meta'[a.run].captures)
                    /\ a.kind = "finish" => a.run \in ready'
  BY DEF AcksAreDurable, Requests
<1>1. CASE a \notin acked
  BY <1>1, AckShape DEF NewAcksHold
<1>2. CASE a \in acked
  <2>1. /\ TypeOK /\ TypeOK' /\ DiskGrows /\ a.run \in Run
        /\ \A r \in ready : r \in ready'
    BY <1>2, TypeStep, RecordShape, GrowStep, FrozenStep DEF RecInv, IInv, TypeOK, Ack
  <2>2. /\ meta[a.run].captures \in Seq(Capture) /\ meta'[a.run].captures \in Seq(Capture)
        /\ Extends(meta'[a.run].captures, meta[a.run].captures)
    BY <2>1, DiskTypes DEF DiskGrows, TypeOK
  <2>3. Requests(meta[a.run].captures) \subseteq Requests(meta'[a.run].captures)
    <3> DEFINE s == meta[a.run].captures
               t == meta'[a.run].captures
    <3>1. DOMAIN s \subseteq DOMAIN t /\ \A i \in DOMAIN s : t[i] = s[i]
      BY <2>2 DEF Extends
    <3>2. QED
      BY <3>1 DEF Requests
  <2>4. QED
    BY <1>2, <2>1, <2>3 DEF RecInv, AcksAreDurable
<1>3. QED
  BY <1>1, <1>2

-----------------------------------------------------------------------------
(* The invariant and what it says *)

(* The records, the images, the captures under way and the answers keep    *)
(* fitting together through every step, failed write and crash.            *)
THEOREM RecordsHold == Spec => []RecInv
<1>1. RecInv /\ [Next]_vars => RecInv'
  <2> SUFFICES ASSUME RecInv, [Next]_vars PROVE RecInv'
    OBVIOUS
  <2>1. RecordStep /\ JobStep /\ IInv'
    BY RecordShape, JobShape, InvStep DEF RecInv
  <2>2. photos \subseteq photos'
    BY <2>1, PhotosStay
  <2>3. QED
    BY <2>1, <2>2, MemoryStep, ListsStep, JobsStep, CloseStep, AcksStep DEF RecInv
<1>2. QED
  BY <1>1, InitRec, PTL DEF Spec

(* What the client was told is on disk stays on disk: the record of every  *)
(* answered capture and the READY marker of every answered finish.         *)
THEOREM AcknowledgedIsKept == Spec => []AcksAreDurable
<1>1. RecInv => AcksAreDurable
  BY DEF RecInv
<1>2. QED
  BY <1>1, RecordsHold, PTL

(* However often a request is repeated it has one record in its run.       *)
THEOREM RequestsAreUnique == Spec => []NoDuplicateRequest
<1>1. RecInv => NoDuplicateRequest
  BY DEF RecInv, RecordLists, WellFormed, Once, NoDuplicateRequest
<1>2. QED
  BY <1>1, RecordsHold, PTL

(* No camera is ever told to write over an existing image. *)
THEOREM ShotsOverwriteNothing == Spec => []ShootsIntoFreeSlot
<1>1. RecInv => ShootsIntoFreeSlot
  BY DEF RecInv
<1>2. QED
  BY <1>1, RecordsHold, PTL

(* Every image named on disk exists and belongs to one record. *)
THEOREM NamedImagesExist == Spec => []RecordsHavePhotos
<1>1. RecInv => RecordsHavePhotos
  BY DEF RecInv, RecordLists, WellFormed, Backed, RecordsHavePhotos
<1>2. QED
  BY <1>1, RecordsHold, PTL

-----------------------------------------------------------------------------
(* The node implements RunLedger *)

(* What a step is to a reader of the disk: a run is opened, gains records  *)
(* or its last status, or is shipped.                                      *)
OpensLedger(r) ==
  /\ meta[r] = NoMeta /\ ready' = ready
  /\ \E x \in Metadata : /\ WriteMetadata(r, x)
                         /\ x.captures = <<>> /\ x.status = "running"
                         /\ x.mission \in Mission => ~HasRun(x.mission)
PersistsLedger(r) ==
  /\ meta[r] # NoMeta /\ r \notin ready /\ ready' = ready
  /\ \E x \in Metadata : /\ WriteMetadata(r, x) /\ x.mission = meta[r].mission
                         /\ meta[r].status = "aborted" => x.status = "aborted"
ShipsLedger(r) ==
  meta[r].status = "completed" /\ ready' = ready \cup {r} /\ meta' = meta

LedgerStep ==
  \/ UNCHANGED <<meta, ready>>
  \/ \E r \in Run : OpensLedger(r) \/ PersistsLedger(r) \/ ShipsLedger(r)

(* Completing a run nobody aborted is a write to the ledger. *)
LEMMA CompletesLedger ==
  ASSUME TypeOK, NEW a \in Memory, a.run \in Run, OnDisk(a.run, a.mission), a.run \notin ready,
         meta[a.run].status # "aborted", WriteCompleted(a)
  PROVE  LedgerStep
<1> DEFINE x == [mission |-> a.mission, status |-> "completed", captures |-> a.captures]
<1>1. x \in Metadata /\ x.mission = a.mission
  BY DEF Memory, Metadata, Status
<1>2. CASE WriteMetadata(a.run, x) /\ UNCHANGED ready
  BY <1>1, <1>2 DEF LedgerStep, PersistsLedger, OnDisk
<1>3. CASE WriteFails
  BY <1>3 DEF LedgerStep, WriteFails
<1>4. QED
  BY <1>2, <1>3 DEF WriteCompleted

(* Every step is one of those to a reader of the disk. *)
LEMMA LedgerShape == RecInv /\ [Next]_vars => LedgerStep
<1> SUFFICES ASSUME RecInv, [Next]_vars PROVE LedgerStep
  OBVIOUS
<1>0. /\ IInv /\ TypeOK /\ CloseProgress
  BY DEF RecInv, IInv
<1>q. ASSUME UNCHANGED <<meta, ready>> PROVE LedgerStep
  BY <1>q DEF LedgerStep
<1>a. ASSUME Active, tx.step # "create"
      PROVE  /\ mem \in Memory /\ mem.run \in Run /\ OnDisk(mem.run, mem.mission)
             /\ mem.status \in Status
             /\ meta[mem.run].status = "aborted" => mem.status = "aborted"
  BY <1>0, <1>a DEF IInv, OpenRunOnDisk, CloseProgress, TypeOK, Memory, Active
<1>m. ASSUME NEW s \in Status, mem \in Memory
      PROVE  ActiveMetadata(s) \in Metadata /\ ActiveMetadata(s).mission = mem.mission
             /\ ActiveMetadata(s).status = s /\ ActiveMetadata(s).captures = mem.captures
  BY <1>m DEF ActiveMetadata, Memory, Metadata
<1>1. ASSUME NEW m \in Mission, StartResumes(m) \/ StartCreates(m) PROVE LedgerStep
  BY <1>1, <1>q DEF StartResumes, StartCreates, disk
<1>2. ASSUME NEW m \in Mission, NEW r \in Run, NEW q \in Request,
             CaptureRetry(r, m, q) \/ CaptureClaim(r, m, q)
      PROVE  LedgerStep
  BY <1>2, <1>q DEF CaptureRetry, CaptureClaim, disk
<1>c. ASSUME NEW m \in Mission, NEW r \in Run, MayClose(r, m)
      PROVE  LET a == IF Active THEN mem ELSE Resumed(r)
             IN  /\ a \in Memory /\ a.run = r /\ a.mission = m
                 /\ OnDisk(r, m) /\ r \notin ready /\ meta[r].status # "aborted"
  <2>1. OnDisk(r, m) /\ r \notin ready /\ meta[r].status # "aborted"
    BY <1>0, <1>c, ClosableIsOpen, ClosableIsRunning
  <2>2. Resumed(r) \in Memory
    BY <1>0, <2>1 DEF Resumed, Memory, TypeOK, OnDisk, Metadata, Run
  <2>3. QED
    BY <1>0, <1>c, <2>1, <2>2, ClosableIsRunning DEF TypeOK
<1>3. ASSUME NEW m \in Mission, NEW r \in Run, FinishMission(r, m) PROVE LedgerStep
  <2> DEFINE a == IF Active THEN mem ELSE Resumed(r)
  <2>1. MayClose(r, m) /\ WriteCompleted(a)
    BY <1>3 DEF FinishMission
  <2>2. /\ a \in Memory /\ a.run = r /\ a.mission = m
        /\ OnDisk(r, m) /\ r \notin ready /\ meta[r].status # "aborted"
    BY <2>1, <1>c
  <2> HIDE DEF a
  <2>3. QED
    BY <1>0, <2>1, <2>2, CompletesLedger
<1>4. ASSUME NEW m \in Mission, NEW r \in Run, FinishRetry(r, m) PROVE LedgerStep
  <2>1. meta[r].status = "completed"
    BY <1>0, <1>4, CompletedIsClosed DEF FinishRetry, ExecutorFree
  <2>2. CASE ready' = ready \cup {r} /\ UNCHANGED meta
    BY <2>1, <2>2 DEF LedgerStep, ShipsLedger
  <2>3. CASE WriteFails
    BY <1>q, <2>3 DEF WriteFails
  <2>4. QED
    BY <1>4, <2>2, <2>3 DEF FinishRetry
<1>5. ASSUME NEW m \in Mission, NEW r \in Run, AbortMission(r, m) PROVE LedgerStep
  <2> DEFINE a == IF Active THEN mem ELSE Resumed(r)
             x == [mission |-> m, status |-> "aborted", captures |-> a.captures]
  <2>1. a \in Memory /\ OnDisk(r, m) /\ r \notin ready
    BY <1>5, <1>c DEF AbortMission
  <2>2. x \in Metadata /\ x.mission = m /\ x.status = "aborted"
    BY <2>1 DEF Memory, Metadata, Status
  <2>3. CASE WriteMetadata(r, x) /\ ready' = ready \ {r}
    BY <2>1, <2>2, <2>3 DEF LedgerStep, PersistsLedger, OnDisk
  <2>4. CASE WriteFails
    BY <1>q, <2>4 DEF WriteFails
  <2>5. QED
    BY <1>5, <2>3, <2>4 DEF AbortMission
<1>6. ASSUME NEW m \in Mission, NEW r \in Run, AbortRetry(r, m) PROVE LedgerStep
  <2>1. UNCHANGED meta /\ ready' \subseteq ready
    BY <1>6 DEF AbortRetry
  <2>2. ready \subseteq ready'
    BY <1>0, FrozenStep
  <2>3. QED
    BY <1>q, <2>1, <2>2
<1>7. ASSUME LegacyStart \/ LegacyTrigger PROVE LedgerStep
  BY <1>7, <1>q DEF LegacyStart, LegacyTrigger, disk
<1>8. CASE LegacyFinish
  <2>1. Active /\ WriteCompleted(mem) /\ tx.step = "idle" /\ mem.mission = NoMission
    BY <1>8 DEF LegacyFinish, ExecutorFree
  <2>2. meta[mem.run].status # "aborted" /\ mem.run \notin ready
    BY <1>0, <1>a, <2>1 DEF CloseProgress, IInv, ReadyMeansCompleted
  <2>3. QED
    BY <1>0, <1>a, <2>1, <2>2, CompletesLedger
<1>9. CASE WriteFirstMetadata
  <2>1. /\ tx.step = "create" /\ mem.run \in Run /\ mem \in Memory /\ meta[mem.run] = NoMeta
        /\ mem.captures = <<>> /\ (mem.mission \in Mission => ~HasRun(mem.mission))
    BY <1>0, <1>9 DEF WriteFirstMetadata, TypeOK, Memory, IInv, TxProgress, CloseProgress
  <2>2. CASE WriteMetadata(mem.run, ActiveMetadata("running")) /\ UNCHANGED ready
    <3>1. /\ ActiveMetadata("running") \in Metadata
          /\ ActiveMetadata("running").mission = mem.mission
          /\ ActiveMetadata("running").status = "running"
          /\ ActiveMetadata("running").captures = <<>>
      BY <1>m, <2>1 DEF Status
    <3>2. OpensLedger(mem.run)
      BY <2>1, <2>2, <3>1 DEF OpensLedger
    <3>3. QED
      BY <2>1, <3>2 DEF LedgerStep
  <2>3. CASE WriteFails
    BY <1>q, <2>3 DEF WriteFails
  <2>4. QED
    BY <1>9, <2>2, <2>3 DEF WriteFirstMetadata
<1>10. CASE WriteReady
  <2>1. mem.run \in Run /\ meta[mem.run].status = "completed"
    BY <1>0, <1>10 DEF WriteReady, TypeOK, Memory, IInv, TxProgress
  <2>2. CASE ready' = ready \cup {mem.run} /\ UNCHANGED meta
    BY <2>1, <2>2 DEF LedgerStep, ShipsLedger
  <2>3. CASE WriteFails
    BY <1>q, <2>3 DEF WriteFails
  <2>4. QED
    BY <1>10, <2>2, <2>3 DEF WriteReady
<1>w. ASSUME Active, tx.step # "create", NEW x \in Metadata, WriteMetadata(mem.run, x),
             UNCHANGED ready, mem.run \notin ready, x.mission = mem.mission,
             meta[mem.run].status = "aborted" => x.status = "aborted"
      PROVE  LedgerStep
  BY <1>a, <1>w DEF LedgerStep, PersistsLedger, OnDisk
<1>r. Active => mem.run \notin ready
  BY <1>0 DEF IInv, ReadyMeansCompleted
<1>11. CASE Rollback
  <2>1. Active /\ tx.step = "rollback" /\ mem \in Memory /\ mem.status = "running"
    BY <1>0, <1>11 DEF Rollback, TypeOK, Active, CloseProgress
  <2>2. CASE WriteMetadata(mem.run, ActiveMetadata("running")) /\ UNCHANGED ready
    <3>1. /\ ActiveMetadata("running") \in Metadata
          /\ ActiveMetadata("running").mission = mem.mission
      BY <1>m, <2>1 DEF Status
    <3>2. meta[mem.run].status # "aborted"
      BY <1>a, <2>1
    <3>3. QED
      BY <1>r, <1>w, <2>1, <2>2, <3>1, <3>2
  <2>3. CASE WriteFails
    BY <1>q, <2>3 DEF WriteFails
  <2>4. QED
    BY <1>11, <2>2, <2>3 DEF Rollback
<1>12. ASSUME NEW t \in Thread, Record(t) PROVE LedgerStep
  <2> DEFINE c == [req |-> job[t].req, slot |-> job[t].slot, sides |-> job[t].sides]
             x == [ActiveMetadata(mem.status) EXCEPT !.captures = Append(@, c)]
  <2>1. \/ UNCHANGED <<meta, ready>>
        \/ WriteMetadata(mem.run, x) /\ UNCHANGED ready
    BY <1>12 DEF Record, WriteFails
  <2>2. /\ Active /\ tx.step = "idle" /\ c \in Capture /\ mem.captures \in Seq(Capture)
    BY <1>0, <1>12, RecordTypes DEF Record
  <2>3. Append(mem.captures, c) \in Seq(Capture)
    BY <2>2
  <2>4. mem.status \in Status /\ mem.mission \in Mission \cup {NoMission}
    BY <1>a, <2>2 DEF Memory
  <2>5. x \in Metadata /\ x.mission = mem.mission /\ x.status = mem.status
    BY <2>3, <2>4 DEF ActiveMetadata, Metadata
  <2> HIDE DEF x
  <2>6. QED
    BY <1>a, <1>q, <1>r, <1>w, <2>1, <2>2, <2>5
<1>13. ASSUME NEW t \in Thread, Allocate(t) PROVE LedgerStep
  BY <1>13, <1>q DEF Allocate, disk
<1>14. ASSUME NEW t \in Thread, NEW d \in Side, Shoot(t, d) PROVE LedgerStep
  BY <1>14, <1>q DEF Shoot
<1>15. ASSUME EnsureRun \/ Crash PROVE LedgerStep
  BY <1>15, <1>q DEF EnsureRun, Crash, disk
<1>16. CASE UNCHANGED vars
  BY <1>16, <1>q DEF vars
<1>17. QED
  BY NextCases, <1>1, <1>2, <1>3, <1>4, <1>5, <1>6, <1>7, <1>8, <1>9, <1>10, <1>11,
     <1>12, <1>13, <1>14, <1>15, <1>16

(* The ledger's view of a run: its owner, its records, whether given up.   *)
OwnerOf(m)   == IF m = NoMeta THEN {} ELSE {m.mission}
RecordsOf(m) == {m.captures[i] : i \in DOMAIN m.captures}

(* A longer list has the records of the shorter one. *)
LEMMA RecordsGrow ==
  ASSUME TypeOK, TypeOK', DiskGrows, NEW r \in Run
  PROVE  RecordsOf(meta[r]) \subseteq RecordsOf(meta'[r])
<1>1. /\ meta[r].captures \in Seq(Capture) /\ meta'[r].captures \in Seq(Capture)
      /\ Extends(meta'[r].captures, meta[r].captures)
  BY DiskTypes DEF DiskGrows, TypeOK
<1> DEFINE s == meta[r].captures
           t == meta'[r].captures
<1>2. DOMAIN s \subseteq DOMAIN t /\ \A i \in DOMAIN s : t[i] = s[i]
  BY <1>1 DEF Extends
<1>3. QED
  BY <1>2 DEF RecordsOf

(* The disk at first is an empty ledger. *)
LEMMA LedgerInit == Init => Ledger!Init
<1> SUFFICES ASSUME Init PROVE Ledger!Init
  OBVIOUS
<1>1. \A r \in Run : meta[r] = NoMeta
  BY DEF Init
<1>2. NoMeta.captures = <<>> /\ NoMeta.status = "none"
  BY DEF NoMeta
<1>3. QED
  BY <1>1, <1>2 DEF Init, Ledger!Init

(* Every step of the node is a step of the ledger or leaves it alone. *)
LEMMA LedgerRefines ==
  ASSUME RecInv, [Next]_vars
  PROVE  [Ledger!Next]_<<[r \in Run |-> IF meta[r] = NoMeta THEN {} ELSE {meta[r].mission}],
                         [r \in Run |-> {meta[r].captures[i] : i \in DOMAIN meta[r].captures}],
                         ready, {r \in Run : meta[r].status = "aborted"}>>
<1> DEFINE owner   == [r \in Run |-> IF meta[r] = NoMeta THEN {} ELSE {meta[r].mission}]
           stored  == [r \in Run |-> {meta[r].captures[i] : i \in DOMAIN meta[r].captures}]
           aborted == {r \in Run : meta[r].status = "aborted"}
<1>0. TypeOK /\ TypeOK' /\ DiskGrows
  BY TypeStep, RecordShape, GrowStep DEF RecInv, IInv
<1>n. NoMeta.captures = <<>> /\ NoMeta.status = "none" /\ \A x \in Metadata : x # NoMeta
  <2>1. \A x \in Metadata : x.status # "none"
    BY DEF Metadata, Status
  <2>2. QED
    BY <2>1 DEF NoMeta
<1>1. ASSUME UNCHANGED <<meta, ready>> PROVE UNCHANGED <<owner, stored, ready, aborted>>
  BY <1>1
<1>2. ASSUME NEW r \in Run, OpensLedger(r) PROVE Ledger!Next
  <2>1. PICK x \in Metadata : /\ WriteMetadata(r, x) /\ x.captures = <<>> /\ x.status = "running"
                              /\ x.mission \in Mission => ~HasRun(x.mission)
    BY <1>2 DEF OpensLedger
  <2>2. /\ meta[r] = NoMeta /\ meta'[r] = x /\ x # NoMeta
        /\ \A s \in Run \ {r} : meta'[s] = meta[s]
    <3>1. meta'[r] = x /\ \A s \in Run \ {r} : meta'[s] = meta[s]
      BY <1>0, <2>1, WriteIsLocal
    <3>2. meta[r] = NoMeta
      BY <1>2 DEF OpensLedger
    <3>3. x # NoMeta
      BY <1>n
    <3>4. QED
      BY <3>1, <3>2, <3>3
  <2>3. owner[r] = {} /\ owner' = [owner EXCEPT ![r] = {x.mission}]
    <3>1. owner[r] = {} /\ owner'[r] = {x.mission}
      BY <2>2
    <3>2. \A s \in Run \ {r} : owner'[s] = owner[s]
      BY <2>2
    <3>3. owner \in [Run -> {owner[s] : s \in Run}] /\ DOMAIN owner' = Run /\ DOMAIN owner = Run
      OBVIOUS
    <3>4. owner' = [s \in Run |-> owner'[s]]
      OBVIOUS
    <3>5. [owner EXCEPT ![r] = {x.mission}] = [s \in Run |-> IF s = r THEN {x.mission} ELSE owner[s]]
      BY <3>3
    <3> HIDE DEF owner
    <3>6. QED
      BY <3>1, <3>2, <3>4, <3>5
  <2>4. UNCHANGED <<stored, ready, aborted>>
    <3>1. /\ \A s \in Run : meta'[s].captures = meta[s].captures
          /\ \A s \in Run : meta'[s].status = "aborted" <=> meta[s].status = "aborted"
      BY <1>n, <2>1, <2>2
    <3>2. stored' = stored
      BY <3>1
    <3>3. aborted' = aborted
      BY <3>1
    <3>4. QED
      BY <1>2, <3>2, <3>3 DEF OpensLedger
  <2>5. x.mission = NoMission \/ \A s \in Run : x.mission \notin owner[s]
    <3>1. x.mission \in Mission \cup {NoMission}
      BY DEF Metadata
    <3>2. ASSUME x.mission # NoMission, NEW s \in Run, meta[s] # NoMeta PROVE meta[s].mission # x.mission
      BY <2>1, <3>1, <3>2 DEF HasRun, OnDisk
    <3>3. QED
      BY <3>2
  <2>6. x.mission \in Mission \cup {NoMission}
    BY DEF Metadata
  <2>7. Ledger!Open(r, x.mission)
    BY <2>3, <2>4, <2>5 DEF Ledger!Open
  <2>8. QED
    BY <2>6, <2>7 DEF Ledger!Next
<1>3. ASSUME NEW r \in Run, PersistsLedger(r) PROVE Ledger!Next
  <2>1. PICK x \in Metadata : /\ WriteMetadata(r, x) /\ x.mission = meta[r].mission
                              /\ meta[r].status = "aborted" => x.status = "aborted"
    BY <1>3 DEF PersistsLedger
  <2>2. /\ meta[r] # NoMeta /\ r \notin ready /\ ready' = ready
        /\ meta'[r] = x /\ x # NoMeta /\ \A s \in Run \ {r} : meta'[s] = meta[s]
    <3>1. meta'[r] = x /\ \A s \in Run \ {r} : meta'[s] = meta[s]
      BY <1>0, <2>1, WriteIsLocal
    <3>2. meta[r] # NoMeta /\ r \notin ready /\ ready' = ready
      BY <1>3 DEF PersistsLedger
    <3>3. x # NoMeta
      BY <1>n
    <3>4. QED
      BY <3>1, <3>2, <3>3
  <2>3. owner[r] # {} /\ owner' = owner
    BY <2>1, <2>2
  <2>4. stored[r] \subseteq stored'[r]
    BY <1>0, RecordsGrow DEF RecordsOf
  <2>5. \A s \in Run \ {r} : stored'[s] = stored[s]
    BY <2>2
  <2>6. aborted' = aborted \/ aborted' = aborted \cup {r}
    <3>1. \A s \in Run \ {r} : meta'[s].status = "aborted" <=> meta[s].status = "aborted"
      BY <2>2
    <3>2. meta[r].status = "aborted" => meta'[r].status = "aborted"
      BY <2>1, <2>2
    <3>3. CASE meta'[r].status = "aborted"
      BY <3>1, <3>3
    <3>4. CASE meta'[r].status # "aborted"
      BY <3>1, <3>2, <3>4
    <3>5. QED
      BY <3>3, <3>4
  <2>7. Ledger!Persist(r)
    BY <2>2, <2>3, <2>4, <2>5, <2>6 DEF Ledger!Persist
  <2>8. QED
    BY <2>7 DEF Ledger!Next
<1>4. ASSUME NEW r \in Run, ShipsLedger(r) PROVE Ledger!Next
  <2>1. /\ meta[r] # NoMeta /\ r \notin aborted /\ ready' = ready \cup {r} /\ UNCHANGED meta
    BY <1>4 DEF ShipsLedger, NoMeta
  <2>2. Ledger!Ship(r)
    BY <2>1 DEF Ledger!Ship
  <2>3. QED
    BY <2>2 DEF Ledger!Next
<1>5. QED
  BY <1>1, <1>2, <1>3, <1>4, LedgerShape DEF LedgerStep

(* On disk a run only gains records until it is shipped or given up: the   *)
(* node implements RunLedger through every failed write and crash.         *)
THEOREM NodeKeepsTheLedger == Spec => LedgerSpec
<1>1. RecInv /\ [Next]_vars =>
        [Ledger!Next]_<<[r \in Run |-> IF meta[r] = NoMeta THEN {} ELSE {meta[r].mission}],
                        [r \in Run |-> {meta[r].captures[i] : i \in DOMAIN meta[r].captures}],
                        ready, {r \in Run : meta[r].status = "aborted"}>>
  BY LedgerRefines
<1>2. QED
  BY <1>1, LedgerInit, RecordsHold, PTL DEF Spec, LedgerSpec, Ledger!Spec
=============================================================================
