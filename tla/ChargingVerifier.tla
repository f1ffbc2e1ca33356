-------------------------- MODULE ChargingVerifier --------------------------
(***************************************************************************)
(* How the docking program decides that the robot charges (docking:        *)
(* charging.py).  Two streams are watched, the charger's availability and  *)
(* the battery state; each delivers a sample from time to time, and only a *)
(* recent one counts.  Charging is confirmed when both said so without a   *)
(* gap for a whole stability window.                                       *)
(***************************************************************************)
EXTENDS Naturals

CONSTANTS
  Existing,  \* existing_charging_wait_sec
  Timeout,   \* charger_wait_timeout_sec
  Stable,    \* charging_stable_sec
  MaxAge,    \* charging_status_max_age_sec
  Period,    \* 1 / charging_command_rate_hz
  MaxTime    \* bound: the last moment of the monotonic clock

ASSUME TimesAssumption ==
  /\ {Existing, Timeout, Stable, MaxAge, Period} \subseteq Nat
  /\ MaxTime \in Nat \ {0}

VARIABLES
  now,        \* the monotonic clock
  available,  \* last_available and when it came; at = 0: never
  battery,    \* last_battery and when it came
  since,      \* charging_since; 0: none
  pc,         \* "existing", "motion", "top", "spin", "check", "done"
  until,      \* deadline of the wait that runs
  nextOn,     \* next_command_at
  sent,       \* command_sent
  confirmed,  \* confirmed
  stop,       \* should_stop()
  doubt       \* history: the last moment without two recent good samples

vars == <<now, available, battery, since, pc, until, nextOn, sent, confirmed, stop, doubt>>
wait == <<pc, until, nextOn, sent, confirmed>>

Sample == [good : BOOLEAN, at : Nat]
None   == [good |-> FALSE, at |-> 0]

(* A recent sample that says charging, with enough current for a battery. *)
Fresh(sample, time) == sample.at > 0 /\ sample.at <= time /\ time - sample.at <= MaxAge
Says(sample, time)  == Fresh(sample, time) /\ sample.good
Charging(a, b, time) == Says(a, time) /\ Says(b, time)

(* _update_charging_stability *)
Updated(start, a, b, time) ==
  IF ~Charging(a, b, time) THEN 0 ELSE IF start = 0 THEN time ELSE start

Init ==
  /\ now = 1 /\ available = None /\ battery = None /\ since = 0
  /\ pc = "existing" /\ until = 1 + Existing /\ nextOn = 0
  /\ sent = FALSE /\ confirmed = FALSE /\ stop = FALSE /\ doubt = 1

-----------------------------------------------------------------------------
(* Time and messages *)

Tick ==
  /\ now < MaxTime
  /\ now' = now + 1
  /\ doubt' = IF Charging(available, battery, now + 1) THEN doubt ELSE now + 1
  /\ UNCHANGED <<available, battery, since, wait, stop>>

RequestStop ==
  /\ ~stop /\ stop' = TRUE
  /\ UNCHANGED <<now, available, battery, since, wait, doubt>>

SamplesLate(a, b) ==                   \* mutant: the former samples are not looked at
  since' = Updated(since, a, b, now)

(* A callback first judges the former samples, so that a gap that ended    *)
(* with this message is not covered up.                                    *)
Samples(a, b) ==
  since' = Updated(Updated(since, available, battery, now), a, b, now)

Callback ==
  /\ \E good \in BOOLEAN :
       LET new == [good |-> good, at |-> now]
       IN  \/ available' = new /\ battery' = battery
           \/ battery' = new /\ available' = available
  /\ Samples(available', battery')
  /\ doubt' = IF Charging(available', battery', now) THEN doubt ELSE now

(* spin_once: at most one callback. *)
SpinOnce ==
  \/ Callback
  \/ UNCHANGED <<available, battery, since, doubt>>

-----------------------------------------------------------------------------
(* wait_for_existing_charge, and the way to the dock *)

ExistingCharge ==
  /\ pc = "existing"
  /\ IF stop THEN pc' = "done" /\ confirmed' = FALSE /\ UNCHANGED <<available, battery, since, doubt>>
     ELSE /\ SpinOnce
          /\ confirmed' = Says(battery', now)
          /\ pc' = IF confirmed' THEN "done" ELSE IF now >= until THEN "motion" ELSE "existing"
  /\ UNCHANGED <<now, until, nextOn, sent, stop>>

Motion ==
  /\ pc = "motion"
  /\ \/ SpinOnce /\ UNCHANGED wait
     \/ /\ pc' = "top" /\ until' = now + Timeout /\ nextOn' = 0
        /\ UNCHANGED <<available, battery, since, doubt, sent, confirmed>>
  /\ UNCHANGED <<now, stop>>

-----------------------------------------------------------------------------
(* verify *)

Guard ==
  /\ pc = "top"
  /\ pc' = IF stop \/ now >= until THEN "done" ELSE "spin"
  /\ UNCHANGED <<now, available, battery, since, until, nextOn, sent, confirmed, stop, doubt>>

Spin ==
  /\ pc = "spin" /\ pc' = "check"
  /\ SpinOnce
  /\ UNCHANGED <<now, until, nextOn, sent, confirmed, stop>>

(* ON while the contact is there, at the command rate. *)
CommandOn ==
  IF Says(available, now) /\ now >= nextOn
  THEN sent' = TRUE /\ nextOn' = now + Period ELSE UNCHANGED <<sent, nextOn>>

CheckStart ==                          \* mutant: keeps a start that has become doubtful
  /\ pc = "check"
  /\ CommandOn
  /\ since' = IF since = 0 THEN Updated(since, available, battery, now) ELSE since
  /\ confirmed' = (since' # 0 /\ now - since' >= Stable)
  /\ pc' = IF confirmed' THEN "done" ELSE "top"
  /\ UNCHANGED <<now, available, battery, until, stop, doubt>>

Check ==
  /\ pc = "check"
  /\ CommandOn
  /\ since' = Updated(since, available, battery, now)
  /\ confirmed' = (since' # 0 /\ now - since' >= Stable)
  /\ pc' = IF confirmed' THEN "done" ELSE "top"
  /\ UNCHANGED <<now, available, battery, until, stop, doubt>>

Next == Tick \/ RequestStop \/ ExistingCharge \/ Motion \/ Guard \/ Spin \/ Check

Spec == Init /\ [][Next]_vars

-----------------------------------------------------------------------------
(* Properties *)

(* No sample, window or doubt lies in the future.                          *)
TypeOK ==
  /\ now \in 1 .. MaxTime /\ until \in Nat /\ nextOn \in Nat
  /\ available \in Sample /\ available.at <= now
  /\ battery \in Sample /\ battery.at <= now
  /\ since \in 0 .. now /\ doubt \in 1 .. now
  /\ pc \in {"existing", "motion", "top", "spin", "check", "done"}
  /\ sent \in BOOLEAN /\ confirmed \in BOOLEAN /\ stop \in BOOLEAN

(* A window that is being measured has been free of doubt since it began:  *)
(* neither a gap nor a bad sample of either stream lies inside it,         *)
(* whichever callbacks and delays it was measured through.                 *)
WindowIsClean ==
  since # 0 /\ Charging(available, battery, now) => doubt <= since

(* verify confirms only after both streams said charging, without a gap,   *)
(* for the whole stability window up to this very moment.                  *)
ConfirmedIsStable ==
  [][ pc = "check" /\ ~confirmed /\ confirmed' =>
        Charging(available, battery, now) /\ now - doubt >= Stable ]_vars
=============================================================================
