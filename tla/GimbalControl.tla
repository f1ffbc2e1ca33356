---------------------------- MODULE GimbalControl ----------------------------
(***************************************************************************)
(* The gimbal node (control_node.py) and its UDP clients                   *)
(* (siyi_protocol.py).  A rotation or a zoom goes on until it is stopped;  *)
(* a timer, the watchdog, stops the ones that nobody renews.  Centring and *)
(* setting the start angles wait for the camera's acknowledgement, and     *)
(* meanwhile the only thread runs no other callback.                       *)
(*                                                                         *)
(* Any datagram may be lost or late, and any sendto may raise.             *)
(***************************************************************************)
EXTENDS Naturals, Sequences, FiniteSets

CONSTANTS
  Camera,        \* the cameras; the code has left and right
  CameraOrder,   \* the order in which the code goes through them
  Timeout,       \* command_timeout_sec, in watchdog periods
  StepDuration,  \* step_duration_sec
  AckTimeout,    \* startup_ack_timeout_sec
  Retries,       \* startup_command_retries
  StartDelay,    \* startup_delay_sec
  Settle,        \* startup_center_settle_sec
  MaxTime,       \* bound: how long TLC looks
  MaxEvents      \* bound: messages to the node and commands that miss their camera

(* What __init__ checks, or makes so; each camera is gone through once. *)
Parameters ==
  /\ IsFiniteSet(Camera)
  /\ CameraOrder \in Seq(Camera) /\ Len(CameraOrder) = Cardinality(Camera)
  /\ {Timeout, StepDuration, AckTimeout, Retries} \subseteq Nat \ {0}
  /\ {StartDelay, Settle} \subseteq Nat

Axis  == {"motion", "zoom"}
Topic == {"move", "cmd_vel", "zoom", "center"}
Acked == {"center", "angles"}

Idle == [command |-> "none"]

WatchdogTimer == <<"watchdog">>
StartupTimer  == <<"startup">>

VARIABLES
  now,       \* time.monotonic, in watchdog periods
  due,       \* the watchdog timer has expired
  turn,      \* callbacks that the executor still runs before it waits again
  doing,     \* the command whose acknowledgement is waited for, or Idle
  phase,     \* _startup_phase, or "closed" after destroy_node
  settled,   \* _startup_deadline
  deadline,  \* per camera and axis: when the watchdog stops it; 0: not active
  driven,    \* per camera and axis: the camera moves
  missed,    \* per camera and axis: the last command did not reach the camera
  acks,      \* acknowledgements under way or unread: camera and command
  executed,  \* cameras that were sent the start angles and took them
  reported,  \* cameras reported at their start angles
  events     \* bound: messages and misses so far

vars == <<now, due, turn, doing, phase, settled, deadline, driven, missed, acks, executed,
          reported, events>>
axes   == <<deadline, driven, missed>>
answer == <<acks, executed, reported>>

PerAxis(v) == [c \in Camera |-> [a \in Axis |-> v]]

Init ==
  /\ now = 0 /\ due = FALSE /\ turn = {} /\ doing = Idle
  /\ phase \in {"waiting", "done"} /\ settled = StartDelay
  /\ deadline = PerAxis(0) /\ driven = PerAxis(FALSE) /\ missed = PerAxis(FALSE)
  /\ acks = {}
  /\ executed = {} /\ reported = {}
  /\ events = 0

-----------------------------------------------------------------------------
(* The executor: it takes what is ready, timers first, and runs all of it  *)
(* before it looks again.                                                  *)

StartupDue == phase \in {"waiting", "centering"} /\ now >= settled

Tick ==
  /\ phase # "closed" /\ now < MaxTime
  /\ \/ doing # Idle /\ now < doing.until
     \/ doing = Idle /\ turn = {} /\ ~due /\ ~StartupDue
  /\ now' = now + 1 /\ due' = TRUE
  /\ UNCHANGED <<turn, doing, phase, settled, axes, answer, events>>

Spin ==
  /\ phase # "closed" /\ doing = Idle /\ turn = {}
  /\ \E ready \in SUBSET (Camera \X Topic) :
       /\ events + Cardinality(ready) <= MaxEvents
       /\ events' = events + Cardinality(ready)
       /\ turn' = ready \cup {t \in {WatchdogTimer} : due} \cup {t \in {StartupTimer} : StartupDue}
  /\ turn' # {}
  /\ UNCHANGED <<now, due, doing, phase, settled, axes, answer>>

(* Callback t is the next one of this turn. *)
Runs(t) ==
  /\ phase # "closed" /\ doing = Idle /\ t \in turn
  /\ t # WatchdogTimer => WatchdogTimer \notin turn
  /\ t \notin {WatchdogTimer, StartupTimer} => StartupTimer \notin turn

-----------------------------------------------------------------------------
(* rotate and zoom: one datagram each, not acknowledged *)

(* One datagram moves or stops an axis, or is lost, or raises unsent. *)
Commanded(c, a, on, lost) ==
  /\ events + Cardinality(lost) <= MaxEvents
  /\ events' = events + Cardinality(lost)
  /\ driven' = [driven EXCEPT ![c][a] = IF lost = {} THEN on ELSE @]
  /\ missed' = [missed EXCEPT ![c][a] = lost # {}]

(* _stop_motion, _stop_zoom: a raise is only logged. *)
Stops(c, a) ==
  /\ \E lost \in SUBSET {a} : Commanded(c, a, FALSE, lost)
  /\ deadline' = [deadline EXCEPT ![c][a] = 0]

(* A motion begins, or goes on, until the watchdog's deadline. *)
Drives(c, a, until) ==
  /\ \E lost \in SUBSET {a} : Commanded(c, a, TRUE, lost)
  /\ deadline' = [deadline EXCEPT ![c][a] = until]

(* The socket refuses the command, and then perhaps the stop as well. *)
Refused(c, a) ==
  /\ events < MaxEvents
  /\ \E lost \in SUBSET {a} :
       /\ driven' = [driven EXCEPT ![c][a] = IF lost = {} THEN FALSE ELSE @]
       /\ missed' = [missed EXCEPT ![c][a] = lost # {}]
       /\ events' = events + 1
  /\ deadline' = [deadline EXCEPT ![c][a] = 0]

-----------------------------------------------------------------------------
(* Callbacks that do not wait *)

Returns(t) ==
  /\ turn' = turn \ {t}
  /\ UNCHANGED <<now, doing, phase, settled, answer>>

OnMove(c) ==
  /\ Runs(<<c, "move">>)
  /\ Stops(c, "motion") \/ Drives(c, "motion", now + StepDuration) \/ Refused(c, "motion")
  /\ Returns(<<c, "move">>) /\ UNCHANGED due

(* A speed of zero, and one that is not finite, stop the motion. *)
OnVelocity(c) ==
  /\ Runs(<<c, "cmd_vel">>)
  /\ Stops(c, "motion") \/ Drives(c, "motion", now + Timeout) \/ Refused(c, "motion")
  /\ Returns(<<c, "cmd_vel">>) /\ UNCHANGED due

OnZoomMixed(c) ==                       \* mutant: the watchdog is told of a motion
  /\ Runs(<<c, "zoom">>)
  /\ \E lost \in SUBSET {"zoom"} : Commanded(c, "zoom", TRUE, lost)
  /\ deadline' = [deadline EXCEPT ![c]["motion"] = now + Timeout]
  /\ Returns(<<c, "zoom">>) /\ UNCHANGED due

OnZoom(c) ==
  /\ Runs(<<c, "zoom">>)
  /\ Stops(c, "zoom") \/ Drives(c, "zoom", now + Timeout) \/ Refused(c, "zoom")
  /\ Returns(<<c, "zoom">>) /\ UNCHANGED due

Expired == {p \in Camera \X Axis : deadline[p[1]][p[2]] # 0 /\ now >= deadline[p[1]][p[2]]}

(* A stop goes to all axes in set and reaches those not in lost; none of   *)
(* them is looked at again.                                                *)
StopsAll(set, lost) ==
  /\ events + Cardinality(lost) <= MaxEvents
  /\ events' = events + Cardinality(lost)
  /\ driven' = [c \in Camera |-> [a \in Axis |-> driven[c][a] /\ <<c, a>> \notin set \ lost]]
  /\ missed' = [c \in Camera |-> [a \in Axis |->
       IF <<c, a>> \in set THEN <<c, a>> \in lost ELSE missed[c][a]]]
  /\ deadline' = [c \in Camera |-> [a \in Axis |->
       IF <<c, a>> \in set THEN 0 ELSE deadline[c][a]]]

Watchdog ==
  /\ Runs(WatchdogTimer)
  /\ \E lost \in SUBSET Expired : StopsAll(Expired, lost)
  /\ due' = FALSE /\ Returns(WatchdogTimer)

-----------------------------------------------------------------------------
(* Callbacks that wait: send_command_with_ack, for one camera after the    *)
(* other                                                                   *)

Begins(t, k, cameras) ==
  doing' = [callback |-> t, command |-> k, began |-> now, left |-> cameras,
            tries |-> Retries, waits |-> FALSE, until |-> 0]

(* Centring stops the motion first. *)
OnCenter(c) ==
  /\ Runs(<<c, "center">>)
  /\ Stops(c, "motion")
  /\ Begins(<<c, "center">>, "center", <<c>>)
  /\ UNCHANGED <<now, due, turn, phase, settled, answer>>

InitializeGimbals ==
  /\ Runs(StartupTimer)
  /\ Begins(StartupTimer, IF phase = "waiting" THEN "center" ELSE "angles", CameraOrder)
  /\ UNCHANGED <<now, due, turn, phase, settled, axes, answer, events>>

Asked == Head(doing.left)
Asking == doing # Idle /\ phase # "closed" /\ doing.left # <<>>
NextCamera == [doing EXCEPT !.left = Tail(@), !.tries = Retries, !.waits = FALSE]
quiet == <<now, due, turn, phase, settled, axes>>

AttemptsLeft == doing.tries - 1

(* An answer that is lost is one that is never received, and so is that of *)
(* a centring that did not arrive.  Of equal answers one is kept.          *)
Attempt ==
  /\ Asking /\ ~doing.waits /\ doing.tries > 0
  /\ doing' = [doing EXCEPT !.tries = AttemptsLeft, !.waits = TRUE, !.until = now + AckTimeout]
  /\ \/ /\ acks' = acks \cup {<<Asked, doing.command>>}
        /\ executed' = executed \cup {c \in {Asked} : doing.command = "angles"}
     \/ doing.command = "angles" /\ UNCHANGED <<acks, executed>>
  /\ UNCHANGED <<quiet, reported, events>>

AnswersAny(k) == TRUE                    \* mutant: any acknowledgement answers

(* Compared are the sender and the command, the sequence is not. *)
Answers(k) == k = doing.command

(* An acknowledgement that does not answer is dropped, and the wait goes on. *)
Receive ==
  /\ Asking /\ doing.waits
  /\ \E k \in Acked :
       /\ <<Asked, k>> \in acks
       /\ acks' = acks \ {<<Asked, k>>}
       /\ IF Answers(k)
          THEN /\ doing' = NextCamera
               /\ reported' = reported \cup {c \in {Asked} : doing.command = "angles"}
          ELSE UNCHANGED <<doing, reported>>
  /\ UNCHANGED <<quiet, executed, events>>

TimesOut ==
  /\ Asking /\ doing.waits /\ now >= doing.until
  /\ doing' = IF doing.tries > 0 THEN [doing EXCEPT !.waits = FALSE] ELSE NextCamera
  /\ UNCHANGED <<quiet, answer, events>>

(* A raise ends the attempts for this camera. *)
AttemptRefused ==
  /\ Asking /\ ~doing.waits /\ events < MaxEvents
  /\ events' = events + 1
  /\ doing' = NextCamera
  /\ UNCHANGED <<quiet, answer>>

(* The time to settle counts from the beginning of the callback. *)
Done ==
  /\ doing # Idle /\ phase # "closed" /\ doing.left = <<>>
  /\ doing' = Idle /\ turn' = turn \ {doing.callback}
  /\ IF doing.callback # StartupTimer THEN UNCHANGED <<phase, settled>>
     ELSE IF doing.command = "center"
          THEN phase' = "centering" /\ settled' = doing.began + Settle
          ELSE phase' = "done" /\ UNCHANGED settled
  /\ UNCHANGED <<now, due, axes, answer, events>>

(* Ctrl-C at any moment: destroy_node stops both axes of every camera,     *)
(* three times over, and closes the sockets.  A raise leaves out the rest  *)
(* for this camera only.                                                   *)
DestroyNode ==
  /\ phase # "closed"
  /\ \E lost \in SUBSET (Camera \X Axis) : StopsAll(Camera \X Axis, lost)
  /\ phase' = "closed" /\ doing' = Idle /\ turn' = {}
  /\ UNCHANGED <<now, due, settled, answer>>

Callback == \E c \in Camera : OnMove(c) \/ OnVelocity(c) \/ OnZoom(c) \/ OnCenter(c)

Next ==
  \/ Tick \/ Spin \/ Watchdog \/ InitializeGimbals \/ Callback
  \/ Attempt \/ Receive \/ TimesOut \/ AttemptRefused \/ Done
  \/ DestroyNode

Spec == Init /\ [][Next]_vars

-----------------------------------------------------------------------------
(* Properties *)

(* How late the watchdog may be: one turn of the executor holds at most a  *)
(* centring of every camera and one start-up command for each.             *)
LatestStop == 2 * Cardinality(Camera) * Retries * AckTimeout

(* An axis that moves and that nobody renews is stopped, unless that stop  *)
(* did not reach the camera: no callback, raise, start-up or end of the    *)
(* node forgets an axis that it set in motion, and no chain of waits for   *)
(* acknowledgements keeps the watchdog for ever from its turn              *)
(* (GimbalState, _watchdog, destroy_node).                                 *)
MovesUnderWatch ==
  \A c \in Camera, a \in Axis :
    IF deadline[c][a] = 0 THEN driven[c][a] => missed[c][a]
    ELSE now < deadline[c][a] + LatestStop

(* A camera reported at its start angles was sent them and carried them    *)
(* out, whatever acknowledgements of centrings are still under way         *)
(* (send_command_with_ack, startup_set_angles).                            *)
AnglesWereSet == reported \subseteq executed

(* The README's promise: a motion or a zoom stops by itself when its time  *)
(* is over, give or take a period of the watchdog.                         *)
StopsByItself ==
  \A c \in Camera, a \in Axis : driven[c][a] /\ ~missed[c][a] => now <= deadline[c][a] + 1
=============================================================================
