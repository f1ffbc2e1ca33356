------------------------------ MODULE MotorBase ------------------------------
(***************************************************************************)
(* The motor node (stella_md main.cpp): velocity commands, the stop        *)
(* watchdog and the encoder samples.                                       *)
(*                                                                         *)
(* Two threads share the node.  The executor takes commands and publishes  *)
(* samples; a worker owns the serial line, applies the latest command,     *)
(* stops the motors when commands stop coming, and polls both encoders.    *)
(* A transaction on a bad line may raise, whether or not it took effect.   *)
(***************************************************************************)
EXTENDS Integers, FiniteSets

CONSTANTS
  Half,         \* half the span of the controller's position counter: 2^31 of
                \* its 32 bits
  FirstCount,   \* position of both wheels when the node starts
  MaxCommand,   \* bound: commands received
  Turning,      \* bound: the wheels that turn in this instance
  MaxTravel     \* bound: counts a wheel travels

ASSUME CounterAssumption ==
  /\ Half \in Nat \ {0}
  /\ FirstCount \in Int
  /\ MaxCommand \in Nat /\ MaxTravel \in Nat
  /\ Turning \subseteq {"left", "right"}

Wheel    == {"left", "right"}
Velocity == {"stop", "forward", "back"}
Counter  == -Half .. Half - 1

VARIABLES
  phase,    \* "starting", "running", "stopping", "exited", and "failed" (to start)
            \* or "unstopped" (at the end) when the stop raised
  pending,  \* the last velocity received (command_mutex_)
  seq,      \* command_sequence_; 0 until a command was received
  stale,    \* whether that command is older than cmd_vel_timeout_sec
  applied,  \* applied_command_sequence_
  stopped,  \* cmd_vel_watchdog_stopped_
  pc,       \* the worker
  chosen,   \* the command the worker is sending
  read,     \* positions the driver library read last
  sample,   \* sampled encoders and encoder_sample_pending_ (encoder_mutex_)
  wheels,   \* published wheel state: last raw position and unwrapped travel
  motors,   \* what the controller drives
  travel,   \* true distance of each wheel, in counts
  line      \* "good" or "bad"

vars == <<phase, pending, seq, stale, applied, stopped, pc, chosen, read, sample,
          wheels, motors, travel, line>>
command  == <<pending, seq, stale>>
worker   == <<applied, stopped, pc, chosen, read>>
encoders == <<sample, wheels, travel>>

(* The signed counter a position shows as on the wire. *)
Wrapped(position) == ((position + Half) % (2 * Half)) - Half
Raw(w) == Wrapped(FirstCount + travel[w])

Init ==
  /\ phase = "starting"
  /\ pending = "stop" /\ seq = 0 /\ stale = FALSE
  /\ applied = 0 /\ stopped = FALSE
  /\ pc = "top" /\ chosen = [velocity |-> "stop", seq |-> 0, late |-> FALSE]
  /\ read = [w \in Wheel |-> 0]
  /\ sample = [fresh |-> FALSE, raw |-> read, at |-> [w \in Wheel |-> 0]]
  /\ wheels = [known |-> FALSE, raw |-> read, origin |-> read, unwrapped |-> read, at |-> read]
  /\ motors \in Velocity /\ travel = [w \in Wheel |-> 0]
  /\ line \in {"good", "bad"}

(* Whether a transaction returns or raises. *)
Returns == IF line = "good" THEN {TRUE} ELSE BOOLEAN

(* A velocity command: after a raise the motors may have taken it or not.  *)
Drive(velocity, returned) ==
  motors' \in IF returned THEN {velocity} ELSE {velocity, motors}

-----------------------------------------------------------------------------
(* Construction and destruction *)

ConstructUnstopped ==                  \* mutant: inherits a moving controller
  /\ phase = "starting"
  /\ phase' = "running"
  /\ UNCHANGED <<command, worker, encoders, motors, line>>

(* The controller is stopped first; if that raises the node is not made.   *)
Construct ==
  /\ phase = "starting"
  /\ \E returned \in Returns :
       /\ Drive("stop", returned)
       /\ phase' = IF returned THEN "running" ELSE "failed"
  /\ UNCHANGED <<command, worker, encoders, line>>

(* spin returns on SIGINT; the destructor tells the worker to end. *)
Shutdown ==
  /\ phase = "running"
  /\ phase' = "stopping"
  /\ UNCHANGED <<command, worker, encoders, motors, line>>

DestructUnjoined ==                    \* mutant: stops before the worker has ended
  /\ phase = "stopping"
  /\ \E returned \in Returns :
       /\ Drive("stop", returned)
       /\ phase' = IF returned THEN "exited" ELSE "unstopped"
  /\ UNCHANGED <<command, worker, encoders, line>>

(* ... joins it and stops the motors; a failure is only logged. *)
Destruct ==
  /\ phase = "stopping" /\ pc = "ended"
  /\ \E returned \in Returns :
       /\ Drive("stop", returned)
       /\ phase' = IF returned THEN "exited" ELSE "unstopped"
  /\ UNCHANGED <<command, worker, encoders, line>>

-----------------------------------------------------------------------------
(* The executor *)

Command(v) ==
  /\ phase = "running" /\ seq < MaxCommand
  /\ pending' = v /\ seq' = seq + 1 /\ stale' = FALSE
  /\ UNCHANGED <<phase, worker, encoders, motors, line>>

NoWrap(current, previous) == current - previous  \* mutant: no look at the wrap

(* unwrap_signed_32bit_delta *)
Delta(current, previous) ==
  LET d == current - previous
  IN  IF d > Half - 1 THEN d - 2 * Half ELSE IF d < -Half THEN d + 2 * Half ELSE d

(* serial_callback: the newest sample, at most once. *)
Publish ==
  /\ phase = "running" /\ sample.fresh
  /\ sample' = [sample EXCEPT !.fresh = FALSE]
  /\ wheels' = [known |-> TRUE, raw |-> sample.raw, at |-> sample.at,
                origin |-> IF wheels.known THEN wheels.origin ELSE sample.at,
                unwrapped |-> IF ~wheels.known THEN wheels.unwrapped
                              ELSE [w \in Wheel |-> wheels.unwrapped[w]
                                      + Delta(sample.raw[w], wheels.raw[w])]]
  /\ UNCHANGED <<phase, command, worker, motors, travel, line>>

-----------------------------------------------------------------------------
(* The worker *)

NothingToApplyOnce == applied = seq    \* mutant: the watchdog is not looked at
NothingToApply == seq = 0 \/ (applied = seq /\ (~stale \/ stopped))

(* apply_pending_command up to the transaction: twice a round, before the  *)
(* encoders and between them.                                              *)
Choose ==
  /\ pc \in {"top", "middle"}
  /\ IF NothingToApply
     THEN /\ pc' \in IF pc = "top" THEN {"left", "wait"} ELSE {"right"}
          /\ UNCHANGED chosen
     ELSE /\ pc' = IF pc = "top" THEN "send top" ELSE "send middle"
          /\ chosen' = [velocity |-> IF stale THEN "stop" ELSE pending,
                        seq |-> seq, late |-> stale]
  /\ UNCHANGED <<phase, command, applied, stopped, read, encoders, motors, line>>

SendLatest ==                          \* mutant: marks the newest command as applied
  /\ pc \in {"send top", "send middle"}
  /\ \E returned \in Returns :
       /\ Drive(chosen.velocity, returned)
       /\ applied' = IF returned THEN seq ELSE applied
       /\ stopped' = IF returned THEN chosen.late ELSE stopped
       /\ pc' \in IF ~returned THEN {"wait"}
                  ELSE IF pc = "send top" THEN {"left", "wait"} ELSE {"right"}
  /\ UNCHANGED <<phase, command, chosen, read, encoders, line>>

SendOnce ==                            \* mutant: a failed transaction is not repeated
  /\ pc \in {"send top", "send middle"}
  /\ \E returned \in Returns :
       /\ Drive(chosen.velocity, returned)
       /\ applied' = chosen.seq
       /\ stopped' = chosen.late
       /\ pc' \in IF ~returned THEN {"wait"}
                  ELSE IF pc = "send top" THEN {"left", "wait"} ELSE {"right"}
  /\ UNCHANGED <<phase, command, chosen, read, encoders, line>>

(* The transaction; what was sent is remembered only when it returned.     *)
(* After a failure the round is over and the command is tried again.       *)
Send ==
  /\ pc \in {"send top", "send middle"}
  /\ \E returned \in Returns :
       /\ Drive(chosen.velocity, returned)
       /\ applied' = IF returned THEN chosen.seq ELSE applied
       /\ stopped' = IF returned THEN chosen.late ELSE stopped
       /\ pc' \in IF ~returned THEN {"wait"}
                  ELSE IF pc = "send top" THEN {"left", "wait"} ELSE {"right"}
  /\ UNCHANGED <<phase, command, chosen, read, encoders, line>>

(* One encoder query; a failed one drops the round's sample. *)
Query(w) ==
  /\ pc = w
  /\ \E returned \in Returns :
       /\ read' = IF returned THEN [read EXCEPT ![w] = travel[w]] ELSE read
       /\ pc' = IF ~returned THEN "wait" ELSE IF w = "left" THEN "middle" ELSE "store"
  /\ UNCHANGED <<phase, command, applied, stopped, chosen, encoders, motors, line>>

Store ==
  /\ pc = "store" /\ pc' = "wait"
  /\ sample' = [fresh |-> TRUE, at |-> read,
                raw |-> [w \in Wheel |-> Wrapped(FirstCount + read[w])]]
  /\ UNCHANGED <<phase, command, applied, stopped, chosen, read, wheels, motors, travel, line>>

LoopForever ==                         \* mutant: the end is not looked at
  /\ pc = "wait"
  /\ pc' = "top"
  /\ UNCHANGED <<phase, command, applied, stopped, chosen, read, encoders, motors, line>>

(* The wait is bounded; then the loop condition is looked at. *)
Loop ==
  /\ pc = "wait"
  /\ pc' = IF phase = "running" THEN "top" ELSE "ended"
  /\ UNCHANGED <<phase, command, applied, stopped, chosen, read, encoders, motors, line>>

(* The thread is started by a constructor that succeeded. *)
Worker ==
  /\ phase \notin {"starting", "failed"}
  /\ Choose \/ Send \/ (\E w \in Wheel : Query(w)) \/ Store \/ Loop

-----------------------------------------------------------------------------
(* The world *)

CommandAges ==
  /\ phase = "running" /\ seq # 0 /\ ~stale
  /\ stale' = TRUE
  /\ UNCHANGED <<phase, pending, seq, worker, encoders, motors, line>>

(* A wheel turns, by less than half a counter between any two samples. *)
Turn(w) ==
  /\ phase \in {"running", "stopping"}
  /\ \E d \in {-1, 1} :
       /\ travel' = [travel EXCEPT ![w] = @ + d]
       /\ travel'[w] \in -MaxTravel .. MaxTravel
       /\ \A seen \in {read[w], sample.at[w], wheels.at[w]} :
            travel'[w] - seen \in 1 - Half .. Half - 1
  /\ UNCHANGED <<phase, command, worker, sample, wheels, motors, line>>

LineChanges ==
  /\ line' \in {"good", "bad"} \ {line}
  /\ UNCHANGED <<phase, command, worker, encoders, motors>>

Executor == Construct \/ Shutdown \/ Destruct \/ Publish \/ \E v \in Velocity : Command(v)
Next == Executor \/ Worker \/ CommandAges \/ LineChanges \/ \E w \in Turning : Turn(w)

Spec == Init /\ [][Next]_vars

(* Both threads run, every wait of the worker is bounded, and a command    *)
(* that is not renewed ages.                                               *)
FairSpec ==
  /\ Spec
  /\ WF_vars(Worker) /\ WF_vars(Destruct) /\ WF_vars(CommandAges)

-----------------------------------------------------------------------------
(* Properties *)

(* What was applied is never newer than what was received, and raw         *)
(* positions fit the counter.                                              *)
TypeOK ==
  /\ phase \in {"starting", "running", "stopping", "exited", "failed", "unstopped"}
  /\ pending \in Velocity /\ seq \in Nat /\ stale \in BOOLEAN
  /\ applied \in 0 .. seq /\ stopped \in BOOLEAN
  /\ pc \in {"top", "send top", "left", "middle", "send middle", "right", "store", "wait", "ended"}
  /\ chosen \in [velocity : Velocity, seq : 0 .. seq, late : BOOLEAN]
  /\ read \in [Wheel -> Int] /\ travel \in [Wheel -> Int]
  /\ sample \in [fresh : BOOLEAN, raw : [Wheel -> Counter], at : [Wheel -> Int]]
  /\ wheels \in [known : BOOLEAN, raw : [Wheel -> Counter], origin : [Wheel -> Int],
                 unwrapped : [Wheel -> Int], at : [Wheel -> Int]]
  /\ motors \in Velocity /\ line \in {"good", "bad"}

(* What the last command asks for now: the stop once it is too old. *)
Wanted == IF seq = 0 \/ stale THEN "stop" ELSE pending

(* When the worker finds nothing to send, the motors do drive what the     *)
(* last command asks for now, whatever transactions raised before, and     *)
(* whichever command arrived while another one was being sent.             *)
SkipIsSafe ==
  phase = "running" /\ pc \in {"top", "middle"} /\ NothingToApply => motors = Wanted

(* The controller never drives before a command of this process: what an   *)
(* unclean exit left running is stopped before the node takes commands.    *)
NoMotionUncommanded == phase = "running" /\ seq = 0 => motors = "stop"

(* The published wheel positions are the distance travelled since the      *)
(* first sample, over every wrap of the counters and every lost sample.    *)
PublishedIsTrue ==
  wheels.known => \A w \in Wheel : wheels.unwrapped[w] = wheels.at[w] - wheels.origin[w]

(* After an orderly end the motors stand, although the worker may have     *)
(* been sending a velocity when the process was told to end.               *)
QuietAfterExit == phase = "exited" => motors = "stop"

(* While the line works, a command that went stale stops the motors: the   *)
(* stop is repeated until a transaction returned.                          *)
StaleIsStopped ==
  <>[](line = "good" /\ phase = "running") => (stale ~> motors = "stop")

(* The destructor's join returns: the worker ends whatever it was doing.   *)
EndingEnds == phase = "stopping" ~> phase \in {"exited", "unstopped"}
=============================================================================
