------------------------------ MODULE LidarNode ------------------------------
(* The LiDAR node of sllidar_ros2 and the driver it is built on: the main    *)
(* thread asks the device and waits for each answer, the decoder thread      *)
(* takes what the serial line brings, and the two share the mode of the      *)
(* decoder, the switch of the unpacker, the awaited answer and the pair of   *)
(* buffers a scan is collected in.  Every command, answer and sample may be  *)
(* lost, and the device may still be scanning for a process that was killed. *)
(*                                                                           *)
(* One measurement is one item of the line.  Several requests of one kind in *)
(* a row are one here, and the signal that switches the motor is left out:   *)
(* the device brings samples or not, whatever it was told.                   *)
EXTENDS Integers, Sequences

CONSTANTS
  Samples,      \* measurements in a revolution
  Capacity,     \* entries of a scan buffer (8192 in the code), at least Samples
  MaxPosition,  \* bound: the last measurement of a scan
  MaxStarts,    \* bound: scan commands
  MaxSent,      \* bound: commands on their way
  MaxLine,      \* bound: items received and not decoded
  Late          \* whether an answer may come after the wait for it has ended

VARIABLES
  pc, request,          \* main thread: its step, and how far the request of it is
  waiting, answered,    \* _waiting_packet_type; _lastAnsPkt with _response_waiter
  unpacking, looping,   \* the unpacker's _enabled; STATUS_LOOP_MODE_FLAG
  decoder,              \* decoder thread: the item in hand and what is next for it
  buffers, available,   \* _scanbuffer, _scan_node_available_id
  ready,                \* _data_waiter
  starts, delivered,    \* scan commands so far, the scan last grabbed
  outgoing, incoming,   \* the serial line in both directions
  scanning, position,   \* the device, and the number of its next measurement
  lost                  \* measurements of its scan that were lost

main   == <<pc, request>>
answer == <<waiting, answered>>
mode   == <<unpacking, looping>>
holder == <<buffers, available, ready>>
scans  == <<starts, delivered>>
serial == <<outgoing, incoming>>
device == <<scanning, position, lost>>
vars   == <<main, answer, mode, decoder, holder, scans, serial, device>>

(* A revolution fits into a scan buffer. *)
Parameters ==
  Samples \in Nat \ {0} /\ Capacity \in Nat /\ Samples <= Capacity

None == "none"

(* Requests of the main thread: what is asked, and the steps that follow     *)
(* with an answer and without one.  connect() asks first, for the motor:     *)
ConnectAsks ==
  [connect |-> [of |-> "device", yes |-> {"board"}, no |-> "info"],
   board   |-> [of |-> "board",  yes |-> {"info"},  no |-> "info"]]

(* work_loop, and start_motor: *)
NodeAsks ==
  [info    |-> [of |-> "device", yes |-> {"health"}, no |-> "ended"],
   health  |-> [of |-> "health", yes |-> {"motor"},  no |-> "ended"],
   motor   |-> [of |-> "conf",   yes |-> {"known"},  no |-> "known"],
   known   |-> [of |-> "device", yes |-> {"modes"},  no |-> "loop"],
   modes   |-> [of |-> "conf",   yes |-> {"stop"},   no |-> "loop"],
   restart |-> [of |-> "conf",   yes |-> {"stop"},   no |-> "stop"]]

(* A start asks for the mode of scanning and, when startScan or              *)
(* startScanExpress hands over to the next function, begins again.           *)
StartAsks ==
  [support |-> [of |-> "device", yes |-> {"mode"},          no |-> "loop"],
   mode    |-> [of |-> "conf",   yes |-> {"speed", "stop"}, no |-> "loop"],
   speed   |-> [of |-> "conf",   yes |-> {"scan"},          no |-> "scan"]]

Asks ==
  [step \in UNION {DOMAIN ConnectAsks, DOMAIN NodeAsks, DOMAIN StartAsks} |->
     CASE step \in DOMAIN ConnectAsks -> ConnectAsks[step]
       [] step \in DOMAIN NodeAsks    -> NodeAsks[step]
       [] step \in DOMAIN StartAsks   -> StartAsks[step]]

Sample(p)      == [kind |-> "sample", start |-> starts, position |-> p]
IsSync(sample) == sample.position % Samples = 0
Empty          == [b \in 0..1 |-> <<>>]

Init ==
  /\ pc = "connect" /\ request = "idle"
  /\ waiting = None /\ answered = None
  /\ unpacking = FALSE /\ looping = FALSE /\ decoder = <<>>
  /\ buffers = Empty /\ available = -1 /\ ready = FALSE
  /\ starts = 0 /\ delivered = <<>>
  /\ outgoing = <<>> /\ incoming = <<>>
  /\ scanning \in BOOLEAN /\ position = 0 /\ lost = {}

-----------------------------------------------------------------------------
(* The main thread: requests.                                                *)

(* Samples are refused, and the decoder waits for a header again. *)
DisableDataGrabbing == unpacking' = FALSE /\ looping' = FALSE

Transmit(command) == Len(outgoing) < MaxSent /\ outgoing' = Append(outgoing, command)

(* _sendCommandWithResponse holds _data_locker from here until the awaited   *)
(* type is set.                                                              *)
Prepare ==
  /\ pc \in DOMAIN Asks /\ request = "idle"
  /\ DisableDataGrabbing
  /\ request' = "locked"
  /\ UNCHANGED <<pc, answer, decoder, holder, scans, serial, device>>

Request ==
  /\ request = "locked"
  /\ waiting' = Asks[pc].of /\ answered' = None
  /\ Transmit(Asks[pc].of)
  /\ request' = "waiting"
  /\ UNCHANGED <<pc, mode, decoder, holder, scans, incoming, device>>

(* An answer of another kind is refused for its size or its type. *)
Accepts == answered = Asks[pc].of

(* Any answer may be refused for what it says. *)
Answered ==
  /\ request = "waiting" /\ answered # None
  /\ \/ Accepts /\ pc' \in Asks[pc].yes
     \/ pc' = Asks[pc].no
  /\ request' = "idle" /\ answered' = None
  /\ UNCHANGED <<waiting, mode, decoder, holder, scans, serial, device>>

(* The wait, two seconds, is longer than any delay of the line unless Late. *)
TimesOut ==
  /\ request = "waiting" /\ answered = None
  /\ Late \/ (outgoing = <<>> /\ incoming = <<>> /\ decoder = <<>>)
  /\ pc' = Asks[pc].no /\ request' = "idle"
  /\ UNCHANGED <<answer, mode, decoder, holder, scans, serial, device>>

-----------------------------------------------------------------------------
(* The main thread: scans.                                                   *)

(* stop(), before every start and when the node ends. *)
Stop(next) ==
  /\ DisableDataGrabbing
  /\ answered' = None
  /\ Transmit("stop")
  /\ pc' = next
  /\ UNCHANGED <<request, waiting, decoder, holder, scans, incoming, device>>

Stops == pc = "stop" /\ Stop("support")
Exits == pc = "loop" /\ Stop("ended")

KeepsPartialScan ==                    \* mutant: only what is complete is dropped
  available' = -1 /\ ready' = FALSE /\ UNCHANGED buffers
ResetHolder == buffers' = Empty /\ available' = -1 /\ ready' = FALSE

StartScan ==
  /\ pc = "scan" /\ starts < MaxStarts
  /\ ResetHolder
  /\ unpacking' = TRUE /\ answered' = None
  /\ Transmit("scan")
  /\ starts' = starts + 1
  /\ pc' = "loop"
  /\ UNCHANGED <<request, waiting, looping, decoder, delivered, incoming, device>>

(* waitAndLockAvailableScan takes the signal first and the lock after it. *)
Signalled ==
  /\ pc = "loop" /\ ready
  /\ ready' = FALSE /\ pc' = "grabs"
  /\ UNCHANGED <<request, answer, mode, decoder, buffers, available, scans, serial, device>>

GrabTimesOut ==
  /\ pc = "loop" /\ ~ready
  /\ pc' = "spin"
  /\ UNCHANGED <<request, answer, mode, decoder, holder, scans, serial, device>>

(* grabScanDataHqWithTimeStamp copies this, under the lock. *)
Available == buffers[available]

(* What was copied is published. *)
Grab ==
  /\ pc = "grabs"
  /\ delivered' = Available
  /\ pc' = "spin"
  /\ UNCHANGED <<request, answer, mode, decoder, holder, starts, serial, device>>

(* spin_some: no service, stop_motor, or start_motor. *)
SpinSome ==
  /\ pc = "spin"
  /\ pc' \in {"loop", "restart"}
  /\ UNCHANGED <<request, answer, mode, decoder, holder, scans, serial, device>>

-----------------------------------------------------------------------------
(* The decoder thread.                                                       *)

Takes == decoder = <<>> /\ incoming # <<>> /\ incoming' = Tail(incoming)

(* onDecodeData: after a header everything is a sample, before it nothing is. *)
Decode ==
  /\ Takes
  /\ LET item == Head(incoming) IN
       /\ looping' = (looping \/ item.kind = "header")
       /\ decoder' = IF item.kind # "header" /\ looping = (item.kind = "sample")
                     THEN <<item, "checks">> ELSE <<>>
  /\ UNCHANGED <<main, answer, unpacking, holder, scans, outgoing, device>>

(* Is the unpacker on, is this the awaited answer? *)
Wanted(item) == IF item.kind = "sample" THEN unpacking ELSE item.kind = waiting

(* onProtocolMessageDecoded, with no lock of the codec held. *)
Check ==
  /\ decoder # <<>> /\ decoder[2] = "checks"
  /\ decoder' = IF Wanted(decoder[1]) THEN <<decoder[1], "commits">> ELSE <<>>
  /\ UNCHANGED <<main, answer, mode, holder, scans, serial, device>>

Commits == decoder # <<>> /\ decoder[2] = "commits" /\ decoder' = <<>>

SetResult ==
  /\ Commits /\ decoder[1].kind # "sample"
  /\ request # "locked"
  /\ answered' = decoder[1].kind
  /\ UNCHANGED <<main, waiting, mode, holder, scans, serial, device>>

Operating == IF available < 0 THEN 0 ELSE 1 - available

StoredAny(buffer, sample) ==           \* mutant: a scan may begin with any sample
  IF Len(buffer) < Capacity THEN Append(buffer, sample)
  ELSE [buffer EXCEPT ![Len(buffer)] = sample]

(* A scan begins with its sync sample; in a full buffer the last entry is replaced. *)
Stored(buffer, sample) ==
  IF buffer = <<>> /\ ~IsSync(sample) THEN buffer
  ELSE IF Len(buffer) < Capacity THEN Append(buffer, sample)
  ELSE [buffer EXCEPT ![Len(buffer)] = sample]

(* A sync sample makes what was collected available and begins the other buffer. *)
PushScanNodeData(sample) ==
  LET done == IsSync(sample) /\ buffers[Operating] # <<>>
  IN  /\ buffers' = IF done THEN [buffers EXCEPT ![1 - Operating] = <<sample>>]
                    ELSE [buffers EXCEPT ![Operating] = Stored(@, sample)]
      /\ available' = IF done THEN Operating ELSE available
      /\ ready' = (ready \/ done)

(* A handler that was reset since the check may find nobody to push to. *)
Push ==
  /\ Commits /\ decoder[1].kind = "sample"
  /\ \/ PushScanNodeData(decoder[1])
     \/ ~unpacking /\ UNCHANGED holder
  /\ UNCHANGED <<main, answer, mode, scans, serial, device>>

-----------------------------------------------------------------------------
(* The serial line and the device.                                           *)

(* What the receiving thread queues, or the line loses. *)
Received(item) == Append(incoming, item)
MayArrive(item) == incoming' \in {incoming, Received(item)}

Obey ==
  /\ outgoing # <<>> /\ Len(incoming) < MaxLine
  /\ outgoing' = Tail(outgoing)
  /\ LET command == Head(outgoing) IN
       CASE command = "stop" ->
              scanning' = FALSE /\ UNCHANGED <<position, lost, incoming>>
         [] command = "scan" ->
              /\ scanning' = TRUE /\ position' \in 0..Samples - 1 /\ lost' = {}
              /\ MayArrive([kind |-> "header"])
         [] OTHER -> MayArrive([kind |-> command]) /\ UNCHANGED device
  /\ UNCHANGED <<main, answer, mode, decoder, holder, scans>>

CommandLost ==
  /\ outgoing # <<>> /\ outgoing' = Tail(outgoing)
  /\ UNCHANGED <<main, answer, mode, decoder, holder, scans, incoming, device>>

Measure ==
  /\ scanning /\ position <= MaxPosition /\ Len(incoming) < MaxLine
  /\ position' = position + 1
  /\ \/ incoming' = Received(Sample(position)) /\ UNCHANGED lost
     \/ lost' = lost \cup {position} /\ UNCHANGED incoming
  /\ UNCHANGED <<main, answer, mode, decoder, holder, scans, outgoing, scanning>>

Next ==
  \/ Prepare \/ Request \/ Answered \/ TimesOut
  \/ Stops \/ Exits \/ StartScan \/ Signalled \/ GrabTimesOut \/ Grab \/ SpinSome
  \/ Decode \/ Check \/ SetResult \/ Push
  \/ Obey \/ CommandLost \/ Measure

Spec == Init /\ [][Next]_vars

-----------------------------------------------------------------------------
Delivers == delivered' # delivered

(* A scan holds no measurement of before the last scan command, however late *)
(* the decoder was with it, and none goes back behind the one before it      *)
(* (startScanNormal_commonpath, waitAndLockAvailableScan).                   *)
ScanIsNew ==
  [][Delivers =>
       /\ \A i \in 1..Len(delivered') : delivered'[i].start = starts
       /\ (delivered # <<>> /\ delivered[1].start = starts)
            => delivered[1].position < delivered'[1].position]_vars

Positions(scan) == {scan[i].position : i \in 1..Len(scan)}

(* A scan begins with a sync sample and, when the sync sample of the next    *)
(* revolution arrived, is all that arrived of its own and nothing else       *)
(* (pushScanNodeData; sl_lidar_driver.h:452 promises it unconditionally).    *)
ScanIsOneRevolution ==
  [][Delivers =>
       LET first == delivered'[1].position IN
         /\ IsSync(delivered'[1])
         /\ first + Samples \notin lost
              => Positions(delivered') = (first..first + Samples - 1) \ lost]_vars
=============================================================================
