--------------------------- MODULE CaptureStorage ---------------------------
(***************************************************************************)
(* Run-scoped storage of paired gimbal-camera captures                     *)
(* (gimbal_camera_capture: storage.py and the callbacks of                 *)
(* capture_node.py that drive it).                                         *)
(*                                                                         *)
(* A run is a directory with a metadata.yaml, left/right photo folders     *)
(* and, once it may be shipped, a READY marker.  The node keeps one active *)
(* run in memory.  Every file system write may fail and the process may    *)
(* die between two writes; memory is then lost and the disk is what the    *)
(* completed writes left.  Service callbacks run one at a time on the      *)
(* executor; a legacy trigger starts a worker thread beside it.            *)
(***************************************************************************)
EXTENDS Naturals, Sequences

CONSTANTS
  Mission,      \* mission ids the drive manager uses
  Request,      \* request ids of CapturePair
  NoMission,    \* the empty mission id of a legacy run
  NoRequest,    \* the empty request id of a legacy capture
  MaxRun,       \* bound: run directories ever created
  MaxCaptures,  \* bound: capture records in one run
  MaxFault,     \* bound: failed writes and crashes together
  LegacyTopics  \* whether the manual-test topics are used as well

ASSUME ConstantsAssumption ==
  /\ NoMission \notin Mission
  /\ NoRequest \notin Request
  /\ MaxRun \in Nat /\ MaxCaptures \in Nat
  /\ MaxFault \in Nat
  /\ LegacyTopics \in BOOLEAN

Run    == 1..MaxRun
Slot   == 1..(MaxCaptures + MaxFault)  \* every record and every crash uses one
Side   == {"left", "right"}
Thread == {"service", "worker"}
Status == {"running", "completed", "aborted"}

Capture == [req : Request \cup {NoRequest}, slot : Slot, sides : SUBSET Side]

Metadata == [mission : Mission \cup {NoMission}, status : Status,
             captures : Seq(Capture)]
NoMeta   == [mission |-> NoMission, status |-> "none", captures |-> <<>>]

Memory == [run : Run \cup {0}, mission : Mission \cup {NoMission},
           status : Status \cup {"none"}, captures : Seq(Capture),
           reserved : SUBSET Slot]
NoActive == [run |-> 0, mission |-> NoMission, status |-> "none",
             captures |-> <<>>, reserved |-> {}]

Job == [phase : {"idle", "ensure", "allocate", "shoot", "record"},
        req : Request \cup {NoRequest}, run : Run \cup {0},
        slot : Slot \cup {0}, pending : SUBSET Side, sides : SUBSET Side]
NoJob == [phase |-> "idle", req |-> NoRequest, run |-> 0, slot |-> 0,
          pending |-> {}, sides |-> {}]

Transaction == [step : {"idle", "create", "ready", "rollback"},
                by : {"start", "worker", "finish"}]
NoTx == [step |-> "idle", by |-> "start"]

VARIABLES
  dirs,    \* disk: run directories made so far (numbers are never reused)
  meta,    \* disk: metadata.yaml of every run, NoMeta where there is none
  ready,   \* disk: runs that have a READY marker
  photos,  \* disk: image files, as <<run, side, slot>>
  mem,     \* process: the active run and its metadata
  tx,      \* process: the write sequence running under the storage lock
  job,     \* process: the capture each thread is busy with
  acked,   \* history: positive answers given to the service client
  faults   \* failed writes and crashes so far

disk    == <<dirs, meta, ready, photos>>
process == <<mem, tx, job>>
vars    == <<dirs, meta, ready, photos, mem, tx, job, acked, faults>>

Ack == [kind : {"capture", "retry", "finish", "abort"},
        run : Run, req : Request \cup {NoRequest}]

(* Directories, metadata, the open run, the lock holder and both threads   *)
(* stay within their sets; a run is open while its files are written.      *)
TypeOK ==
  /\ dirs \in 0..MaxRun
  /\ meta \in [Run -> Metadata \cup {NoMeta}]
  /\ ready \subseteq Run
  /\ photos \subseteq Run \X Side \X Slot
  /\ mem \in Memory /\ (mem.run # 0 => mem.status \in Status)
  /\ tx \in Transaction /\ (tx.step # "idle" => mem.run # 0)
  /\ job \in [Thread -> Job]
  /\ \A t \in Thread : job[t].phase \in {"shoot", "record"} =>
       job[t].run # 0 /\ job[t].slot # 0
  /\ acked \subseteq Ack
  /\ faults \in 0..MaxFault

Init ==
  /\ dirs = 0 /\ meta = [r \in Run |-> NoMeta]
  /\ ready = {} /\ photos = {}
  /\ mem = NoActive /\ tx = NoTx /\ job = [t \in Thread |-> NoJob]
  /\ acked = {} /\ faults = 0

-----------------------------------------------------------------------------
(* Helpers on the disk and on the active run *)

Active == mem.run # 0

RequestsLastOnly(captures) ==          \* mutant: looks at the last record only
  IF captures = <<>> THEN {} ELSE {captures[Len(captures)].req}
Requests(captures) == {captures[i].req : i \in DOMAIN captures}

(* The metadata a write of the active run puts on disk. *)
ActiveMetadata(status) ==
  [mission |-> mem.mission, status |-> status, captures |-> mem.captures]

(* os.replace succeeded: the new contents are on disk, all or nothing. *)
WriteMetadata(r, m) == meta' = [meta EXCEPT ![r] = m]

(* The write raised: the file keeps its former contents. *)
WriteFails ==
  /\ faults < MaxFault
  /\ faults' = faults + 1
  /\ UNCHANGED <<meta, ready>>

ResumedEmpty(r) ==                     \* mutant: forgets the stored records
  [run |-> r, mission |-> meta[r].mission, status |-> meta[r].status,
   captures |-> <<>>, reserved |-> {}]

(* Memory after resuming a run found on disk. *)
Resumed(r) ==
  [run |-> r, mission |-> meta[r].mission, status |-> meta[r].status,
   captures |-> meta[r].captures, reserved |-> {}]

(* The run a service call with these identifiers is about. *)
InMemory(r, m) == Active /\ mem.run = r /\ mem.mission = m
OnDisk(r, m)   == meta[r] # NoMeta /\ meta[r].mission = m
Found(r, m)    == InMemory(r, m) \/ OnDisk(r, m)

StatusOf(r, m)   == IF InMemory(r, m) THEN mem.status ELSE meta[r].status
CapturesOf(r, m) == IF InMemory(r, m) THEN mem.captures ELSE meta[r].captures

HasRunningRun(m) ==                    \* mutant: ignores terminated runs
  \E r \in Run : OnDisk(r, m) /\ meta[r].status = "running"
HasRun(m) == \E r \in Run : OnDisk(r, m)

ServiceCaptureOnly == job["service"].phase # "idle"  \* mutant: forgets the worker

(* capture_node refuses every other operation while this holds. *)
CaptureInProgress == \E t \in Thread : job[t].phase # "idle"

(* The executor is between two callbacks and storage._lock is free. *)
ExecutorFree == tx.step = "idle" /\ job["service"].phase = "idle"

Answer(kind, r, q) ==
  acked' = acked \cup {[kind |-> kind, run |-> r, req |-> q]}

-----------------------------------------------------------------------------
(* Creating a run: mkdir of the next number, then the first metadata *)

MkdirFails ==
  /\ dirs < MaxRun /\ faults < MaxFault
  /\ dirs' \in {dirs, dirs + 1}
  /\ faults' = faults + 1
  /\ UNCHANGED <<mem, tx>>

MakeRunDirectory(m, by) ==
  /\ dirs < MaxRun
  /\ dirs' = dirs + 1
  /\ mem' = [run |-> dirs + 1, mission |-> m, status |-> "running",
             captures |-> <<>>, reserved |-> {}]
  /\ tx' = [step |-> "create", by |-> by]
  /\ UNCHANGED faults

StartResumesAny(m) ==                  \* mutant: no look at the status
  /\ ExecutorFree /\ ~CaptureInProgress /\ ~Active
  /\ \E r \in Run : OnDisk(r, m) /\ mem' = Resumed(r)
  /\ UNCHANGED <<disk, tx, job, acked, faults>>

(* StartCaptureRun for mission m: resume the run found on disk ...*)
StartResumes(m) ==
  /\ ExecutorFree /\ ~CaptureInProgress /\ ~Active
  /\ \E r \in Run : /\ OnDisk(r, m) /\ meta[r].status = "running"
                    /\ mem' = Resumed(r)
  /\ UNCHANGED <<disk, tx, job, acked, faults>>

(* ... or make a new one when no metadata names the mission.  A start for  *)
(* the mission already active, or for a terminated one, changes nothing,   *)
(* and one for another mission than the active one is refused.             *)
StartCreates(m) ==
  /\ ExecutorFree /\ ~CaptureInProgress /\ ~Active
  /\ ~HasRun(m)
  /\ MakeRunDirectory(m, "start") \/ MkdirFails
  /\ UNCHANGED <<meta, ready, photos, job, acked>>

StartMission(m) == StartResumes(m) \/ StartCreates(m)

(* The first metadata write; a worker goes on to allocate its file names.  *)
WriteFirstMetadata ==
  /\ tx.step = "create"
  /\ tx' = NoTx
  /\ \/ /\ WriteMetadata(mem.run, ActiveMetadata("running"))
        /\ job' = IF tx.by = "worker"
                  THEN [job EXCEPT !["worker"].phase = "allocate"] ELSE job
        /\ UNCHANGED <<mem, ready, faults>>
     \/ /\ WriteFails
        /\ mem' = NoActive
        /\ job' = IF tx.by = "worker"
                  THEN [job EXCEPT !["worker"] = NoJob] ELSE job
  /\ UNCHANGED <<dirs, photos, acked>>

-----------------------------------------------------------------------------
(* CapturePair *)

(* The request already has a record: its stored result is the answer. *)
CaptureRetry(r, m, q) ==
  /\ ExecutorFree /\ ~CaptureInProgress
  /\ Found(r, m)
  /\ q \in Requests(CapturesOf(r, m))
  /\ Answer("retry", r, q)
  /\ UNCHANGED <<disk, process, faults>>

(* Otherwise the identifiers must be those of the active run. *)
CaptureClaim(r, m, q) ==
  /\ ExecutorFree /\ ~CaptureInProgress
  /\ InMemory(r, m)
  /\ q \notin Requests(CapturesOf(r, m))
  /\ Len(mem.captures) < MaxCaptures
  /\ job' = [job EXCEPT !["service"] =
               [NoJob EXCEPT !.phase = "allocate", !.req = q]]
  /\ UNCHANGED <<disk, mem, tx, acked, faults>>

CapturePair(r, m, q) == CaptureRetry(r, m, q) \/ CaptureClaim(r, m, q)

FreeIfUnreserved(s) == s \notin mem.reserved        \* mutant: no look at the disk
FreeOnTheLeft(s) ==                    \* mutant: looks at one side only
  s \notin mem.reserved /\ <<mem.run, "left", s>> \notin photos

(* A slot neither side's folder nor the reservations know. *)
Free(s) ==
  /\ s \notin mem.reserved
  /\ \A d \in Side : <<mem.run, d, s>> \notin photos

Allocate(t) ==
  /\ tx.step = "idle"
  /\ job[t].phase = "allocate"
  /\ Active
  /\ \E s \in Slot :
       /\ Free(s) /\ \A u \in Slot : Free(u) => s <= u
       /\ mem' = [mem EXCEPT !.reserved = @ \cup {s}]
       /\ job' = [job EXCEPT ![t].phase = "shoot", ![t].run = mem.run,
                             ![t].slot = s, ![t].pending = Side]
  /\ UNCHANGED <<disk, tx, acked, faults>>

(* One camera's future: the image is saved, or its error is noted. *)
Shoot(t, d) ==
  /\ job[t].phase = "shoot" /\ d \in job[t].pending
  /\ LET rest == job[t].pending \ {d}
         next == IF rest = {} THEN "record" ELSE "shoot"
     IN  \/ /\ photos' = photos \cup {<<job[t].run, d, job[t].slot>>}
            /\ job' = [job EXCEPT ![t].pending = rest, ![t].phase = next,
                                  ![t].sides = @ \cup {d}]
         \/ /\ job' = [job EXCEPT ![t].pending = rest, ![t].phase = next]
            /\ UNCHANGED photos
  /\ UNCHANGED <<dirs, meta, ready, mem, tx, acked, faults>>

ReleaseAfterImages(t) ==               \* mutant: keeps the flag after a failure
  job' = [job EXCEPT ![t] = IF job[t].sides = {} THEN @ ELSE NoJob]

(* The finally block: the capture flag, or the worker, is given back. *)
Release(t) == job' = [job EXCEPT ![t] = NoJob]

(* record_service_capture appends in memory, then writes the metadata; a   *)
(* failed write leaves the appended record in memory.  A request id that   *)
(* is already there is answered with what is stored.                       *)
Record(t) ==
  /\ tx.step = "idle"
  /\ job[t].phase = "record"
  /\ Active
  /\ Release(t)
  /\ LET q == job[t].req
         c == [req |-> q, slot |-> job[t].slot, sides |-> job[t].sides]
         known == q # NoRequest /\ q \in Requests(mem.captures)
         answered == IF t = "service" THEN Answer("capture", mem.run, q)
                                      ELSE UNCHANGED acked
     IN  \/ known /\ answered /\ UNCHANGED <<mem, meta, ready, faults>>
         \/ /\ ~known
            /\ mem' = [mem EXCEPT !.captures = Append(@, c)]
            /\ \/ /\ WriteMetadata(mem.run,
                       [ActiveMetadata(mem.status) EXCEPT
                          !.captures = Append(@, c)])
                  /\ answered
                  /\ UNCHANGED <<ready, faults>>
               \/ WriteFails /\ UNCHANGED acked
  /\ UNCHANGED <<dirs, photos, tx>>

-----------------------------------------------------------------------------
(* FinishCaptureRun: metadata first, READY last, rollback on failure *)

MayCloseUnlessCompleted(r, m) ==       \* mutant: an aborted run may be finished
  /\ ExecutorFree /\ ~CaptureInProgress
  /\ Found(r, m)
  /\ StatusOf(r, m) # "completed"
  /\ ~Active \/ mem.run = r

(* The guards finish and abort share: an open run, and no other one active. *)
MayClose(r, m) ==
  /\ ExecutorFree /\ ~CaptureInProgress
  /\ Found(r, m)
  /\ StatusOf(r, m) = "running"
  /\ ~Active \/ mem.run = r

(* _finish_active_locked up to its first write. *)
WriteCompleted(active) ==
  \/ /\ WriteMetadata(active.run,
          [mission |-> active.mission, status |-> "completed",
           captures |-> active.captures])
     /\ mem' = [active EXCEPT !.status = "completed"]
     /\ tx' = [step |-> "ready", by |-> "finish"]
     /\ UNCHANGED <<ready, faults>>
  \/ /\ WriteFails
     /\ mem' = [active EXCEPT !.status = "running"]
     /\ tx' = [step |-> "rollback", by |-> "finish"]

FinishMission(r, m) ==
  /\ MayClose(r, m)
  /\ WriteCompleted(IF Active THEN mem ELSE Resumed(r))
  /\ UNCHANGED <<dirs, photos, job, acked>>

FinishRetryOnlyAnswers(r, m) ==        \* mutant: the missing READY is not written
  /\ ExecutorFree /\ ~CaptureInProgress
  /\ Found(r, m)
  /\ StatusOf(r, m) = "completed"
  /\ Answer("finish", r, NoRequest)
  /\ UNCHANGED <<disk, process, faults>>

(* A retry on a completed run writes the READY a crash left out. *)
FinishRetry(r, m) ==
  /\ ExecutorFree /\ ~CaptureInProgress
  /\ Found(r, m)
  /\ StatusOf(r, m) = "completed"
  /\ \/ /\ ready' = ready \cup {r}
        /\ Answer("finish", r, NoRequest)
        /\ UNCHANGED <<meta, faults>>
     \/ r \notin ready /\ WriteFails /\ UNCHANGED acked
  /\ UNCHANGED <<dirs, photos, process>>

WriteReady ==
  /\ tx.step = "ready"
  /\ \/ /\ ready' = ready \cup {mem.run}
        /\ IF mem.mission = NoMission
           THEN UNCHANGED acked ELSE Answer("finish", mem.run, NoRequest)
        /\ mem' = NoActive
        /\ tx' = NoTx
        /\ UNCHANGED <<meta, faults>>
     \/ /\ WriteFails
        /\ mem' = [mem EXCEPT !.status = "running"]
        /\ tx' = [tx EXCEPT !.step = "rollback"]
        /\ UNCHANGED acked
  /\ UNCHANGED <<dirs, photos, job>>

Rollback ==
  /\ tx.step = "rollback"
  /\ tx' = NoTx
  /\ \/ /\ WriteMetadata(mem.run, ActiveMetadata("running"))
        /\ UNCHANGED <<ready, faults>>
     \/ WriteFails
  /\ UNCHANGED <<dirs, photos, mem, job, acked>>

-----------------------------------------------------------------------------
(* AbortCaptureRun: memory first, then the metadata, then release *)

AbortMission(r, m) ==
  /\ MayClose(r, m)
  /\ LET active == IF Active THEN mem ELSE Resumed(r)
     IN  \/ /\ WriteMetadata(r, [mission |-> m, status |-> "aborted",
                                 captures |-> active.captures])
            /\ ready' = ready \ {r}
            /\ mem' = NoActive
            /\ Answer("abort", r, NoRequest)
            /\ UNCHANGED faults
         \/ /\ WriteFails
            /\ mem' = [active EXCEPT !.status = "aborted"]
            /\ UNCHANGED acked
  /\ UNCHANGED <<dirs, photos, tx, job>>

(* A retry on a run already marked aborted only removes the marker. *)
AbortRetry(r, m) ==
  /\ ExecutorFree /\ ~CaptureInProgress
  /\ Found(r, m)
  /\ StatusOf(r, m) = "aborted"
  /\ ready' = ready \ {r}
  /\ Answer("abort", r, NoRequest)
  /\ UNCHANGED <<dirs, meta, photos, process, faults>>

-----------------------------------------------------------------------------
(* The manual-test topics *)

LegacyStart ==
  /\ LegacyTopics
  /\ ExecutorFree /\ ~CaptureInProgress /\ ~Active
  /\ MakeRunDirectory(NoMission, "start") \/ MkdirFails
  /\ UNCHANGED <<meta, ready, photos, job, acked>>

LegacyFinish ==
  /\ ExecutorFree /\ ~CaptureInProgress
  /\ Active /\ mem.mission = NoMission
  /\ WriteCompleted(mem)
  /\ UNCHANGED <<dirs, photos, job, acked>>

LegacyTrigger ==
  /\ LegacyTopics
  /\ ExecutorFree /\ ~CaptureInProgress
  /\ mem.mission = NoMission
  /\ Len(mem.captures) < MaxCaptures
  /\ job' = [job EXCEPT !["worker"].phase = "ensure"]
  /\ UNCHANGED <<disk, mem, tx, acked, faults>>

EnsureRun ==
  /\ tx.step = "idle"
  /\ job["worker"].phase = "ensure"
  /\ \/ /\ Active
        /\ job' = [job EXCEPT !["worker"].phase = "allocate"]
        /\ UNCHANGED <<dirs, mem, tx, faults>>
     \/ /\ ~Active
        /\ MakeRunDirectory(NoMission, "worker")
        /\ UNCHANGED job
     \/ /\ ~Active
        /\ MkdirFails
        /\ job' = [job EXCEPT !["worker"] = NoJob]
  /\ UNCHANGED <<meta, ready, photos, acked>>

(* The process dies and is started again. *)
Crash ==
  /\ faults < MaxFault
  /\ faults' = faults + 1
  /\ mem' = NoActive /\ tx' = NoTx /\ job' = [t \in Thread |-> NoJob]
  /\ UNCHANGED <<disk, acked>>

-----------------------------------------------------------------------------
Service ==
  \E m \in Mission :
    \/ StartMission(m)
    \/ \E r \in Run : \/ \E q \in Request : CapturePair(r, m, q)
                      \/ FinishMission(r, m) \/ FinishRetry(r, m)
                      \/ AbortMission(r, m)  \/ AbortRetry(r, m)

Legacy == LegacyStart \/ LegacyFinish \/ LegacyTrigger

(* What a running thread does next without being asked. *)
Progress ==
  \/ WriteFirstMetadata \/ WriteReady \/ Rollback \/ EnsureRun
  \/ \E t \in Thread : \/ Allocate(t) \/ Record(t)
                       \/ \E d \in Side : Shoot(t, d)

Next == Service \/ Legacy \/ Progress \/ Crash

Spec == Init /\ [][Next]_vars

(* The node's threads keep running, and the client keeps repeating a       *)
(* finish until it is answered.                                            *)
FairSpec ==
  /\ Spec
  /\ WF_vars(Progress)
  /\ \A r \in Run, m \in Mission :
       WF_vars(FinishMission(r, m)) /\ WF_vars(FinishRetry(r, m))

-----------------------------------------------------------------------------
(* Safety *)

(* Jetson takes every run with a READY marker: its metadata says completed  *)
(* and the node no longer has it open (storage.py writes READY last).      *)
ReadyMeansCompleted ==
  \A r \in ready : meta[r].status = "completed" /\ mem.run # r

(* A mission never owns two runs, whatever is retried after whichever      *)
(* failure or restart (start_mission_run looks on disk before creating).   *)
OneRunPerMission ==
  \A r, s \in Run, m \in Mission : OnDisk(r, m) /\ OnDisk(s, m) => r = s

(* What the client was told is on disk stays on disk: a capture answered   *)
(* when it was taken, and the READY of an answered finish.                 *)
AcksAreDurable ==
  \A a \in acked :
    /\ a.kind = "capture" => a.req \in Requests(meta[a.run].captures)
    /\ a.kind = "finish" => a.run \in ready

(* Within a run a request id is recorded at most once, in memory and on    *)
(* disk, however often CapturePair is repeated.                            *)
NoDuplicateRequest ==
  LET Once(caps) == \A i, j \in DOMAIN caps :
                      caps[i].req = caps[j].req /\ caps[i].req # NoRequest => i = j
  IN  Once(mem.captures) /\ \A r \in Run : Once(meta[r].captures)

(* A camera never writes over an image that is already there, not even     *)
(* after a restart has forgotten the reservations (allocate).              *)
ShootsIntoFreeSlot ==
  \A t \in Thread : job[t].phase = "shoot" =>
    \A d \in job[t].pending : <<job[t].run, d, job[t].slot>> \notin photos

(* Every image a metadata.yaml names exists, and belongs to one record.    *)
RecordsHavePhotos ==
  \A r \in Run : LET caps == meta[r].captures IN
    /\ \A i \in DOMAIN caps : \A d \in caps[i].sides :
         <<r, d, caps[i].slot>> \in photos
    /\ \A i, j \in DOMAIN caps :
         caps[i].slot = caps[j].slot /\ caps[i].sides \cap caps[j].sides # {} => i = j

(* From the moment its file names are chosen until it is recorded, a       *)
(* capture belongs to the run that is open, and it is the only one.        *)
CaptureKeepsItsRun ==
  /\ \A t \in Thread : /\ job[t].phase = "allocate" => Active
                       /\ job[t].phase \in {"shoot", "record"} =>
                            Active /\ job[t].run = mem.run
  /\ \E t \in Thread : job[t].phase = "idle"

(* A READY run is frozen: marker, metadata and images never change again,  *)
(* so it can be copied while the node goes on.                             *)
ReadyRunFrozen ==
  [][\A r \in ready : /\ r \in ready'
                      /\ meta'[r] = meta[r]
                      /\ \A p \in photos' \ photos : p[1] # r]_vars

-----------------------------------------------------------------------------
(* What a reader of the disk relies on: the abstract ledger of runs *)

Ledger == INSTANCE RunLedger WITH
  owner   <- [r \in Run |-> IF meta[r] = NoMeta THEN {} ELSE {meta[r].mission}],
  stored  <- [r \in Run |-> {meta[r].captures[i] : i \in DOMAIN meta[r].captures}],
  shipped <- ready,
  aborted <- {r \in Run : meta[r].status = "aborted"}

(* The node implements RunLedger: on disk a run only gains records until it *)
(* is shipped or given up, whichever writes fail and wherever it crashes.  *)
LedgerSpec == Ledger!Spec

-----------------------------------------------------------------------------
(* Liveness *)

(* A mission's run does not stay open for ever once its client keeps       *)
(* asking for the finish: it becomes READY, unless it was aborted or a     *)
(* failed abort keeps a run open in memory, which blocks every other run   *)
(* until the node is restarted.                                            *)
FinishEventuallyReady ==
  \A r \in Run : meta[r].status = "running" ~>
    \/ r \in ready
    \/ meta[r].status = "aborted"
    \/ Active /\ mem.status = "aborted"

(* No capture blocks the services for ever: every one that is claimed is   *)
(* recorded, fails or is cut off by a restart.                             *)
CaptureEnds == \A t \in Thread : job[t].phase # "idle" ~> job[t].phase = "idle"

-----------------------------------------------------------------------------
(* What the documents promise and failed writes refute *)

(* README.md:89-92: every answer is given after metadata.yaml was written, *)
(* and a repeated request gets the result stored on disk.                  *)
EveryAnswerIsOnDisk ==
  \A a \in acked : a.kind \in {"capture", "retry"} =>
    a.req \in Requests(meta[a.run].captures)

(* README.md:244-245, CAMERA_SERVICE_INTEGRATION.md:299: a run whose abort *)
(* was answered has no READY.                                              *)
AbortedRunHasNoReady ==
  \A a \in acked : a.kind = "abort" => a.run \notin ready

=============================================================================
