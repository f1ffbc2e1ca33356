--------------------------- MODULE ChargerSession ---------------------------
(***************************************************************************)
(* The charging session of the battery node (battery_status.py) and the    *)
(* SK120 charger behind its Modbus link (sk120_driver.py, modbus_rtu.py).  *)
(*                                                                         *)
(* The node is single threaded: a command or a timer callback runs to its  *)
(* end before the next one.  Each callback is several Modbus transactions, *)
(* and while the link is bad a write may take effect or not and be         *)
(* acknowledged or not, independently, and a read may return nothing.      *)
(* The charger also changes by itself, and measured current comes and goes.*)
(*                                                                         *)
(* Currents are levels in units of the ramp step's divisor; time is what   *)
(* the code compares it with: whether the last change has settled, whether *)
(* the ramp interval is over, and whether the last reading is fresh.       *)
(***************************************************************************)
EXTENDS Integers, Sequences

CONSTANTS
  Start,     \* start_current, as a level
  Step,      \* ramp_step
  Target,    \* target_current: the ceiling of every session
  FAIL_THRESHOLD, LOW_CURRENT_MAX_COUNT, GOOD_CURRENT_MIN_COUNT

ASSUME LevelsAssumption ==
  /\ Start \in Nat \ {0} /\ Step \in Nat \ {0} /\ Target \in Nat
  /\ Start <= Target
  /\ FAIL_THRESHOLD \in Nat \ {0} /\ LOW_CURRENT_MAX_COUNT \in Nat \ {0}
  /\ GOOD_CURRENT_MIN_COUNT \in Nat \ {0}

Level   == 0..Target         \* 0: no level, or a setting the node never makes
Charger == [on : BOOLEAN, iset : Level, vok : BOOLEAN]  \* vok: 25.2 V is set
Lost == [on |-> FALSE, iset |-> -1, vok |-> FALSE]      \* a failed read

Node == [open : BOOLEAN,          \* _sk120 is not None
         ready : BOOLEAN,         \* _sk120_ready
         monitor : BOOLEAN,       \* _monitor is not None
         charging : BOOLEAN, ramping : BOOLEAN, latched : BOOLEAN,
         output : {"on", "off", "unknown"},
         fresh : BOOLEAN,         \* last reading within 1.5 status intervals
         waited : 0..2,           \* since the last change: settled, ramp interval over
         cset : Level, ceiling : Level,   \* _current_set, _i_target_eff
         limit : Level, lastGood : Level, candidate : Level,
         good : 0..GOOD_CURRENT_MIN_COUNT, low : 0..LOW_CURRENT_MAX_COUNT,
         fails : 0..FAIL_THRESHOLD, wfails : 0..FAIL_THRESHOLD]

(* Registers set by somebody else: whatever they hold, it does not match.  *)
Foreign(on) == [on |-> on, iset |-> 0, vok |-> FALSE]

VARIABLES
  node,     \* the battery node's memory
  charger,  \* the SK120's registers
  flow,     \* whether current would flow if the output is on
  link,     \* "good": transactions succeed and are quick
  seen,     \* history: the last GOOD_CURRENT_MIN_COUNT readings at the setting
  recovered \* history: the level low current was recovered to, 0 if none

vars == <<node, charger, flow, link, seen, recovered>>
environment == <<flow, link>>

InitNode == [open |-> FALSE, ready |-> FALSE, monitor |-> FALSE,
             charging |-> FALSE, ramping |-> FALSE, latched |-> FALSE,
             output |-> "unknown", fresh |-> FALSE, waited |-> 2,
             cset |-> Start, ceiling |-> Target,
             limit |-> 0, lastGood |-> 0, candidate |-> 0,
             good |-> 0, low |-> 0, fails |-> 0, wfails |-> 0]

Init ==
  /\ node = InitNode
  /\ \E on \in BOOLEAN : charger = Foreign(on)
  /\ flow \in BOOLEAN /\ link \in {"good", "bad"}
  /\ seen = <<>> /\ recovered = 0

AtMost(a, b) == IF a <= b THEN a ELSE b

-----------------------------------------------------------------------------
(* Modbus transactions *)

(* The chargers a write of value to one register may leave behind. *)
Written(C, register, value) ==
  {[c EXCEPT ![register] = value] : c \in C} \cup (IF link = "bad" THEN C ELSE {})

(* Whether the echo came back, and what a read may return. *)
Acknowledged == IF link = "bad" THEN BOOLEAN ELSE {TRUE}
Readings(c)  == IF link = "bad" THEN {c, Lost} ELSE {c}

(* _invalidate_status *)
Invalidate(n) ==
  [n EXCEPT !.fresh = FALSE, !.output = "unknown",
            !.good = 0, !.candidate = 0, !.low = 0]

(* _accept_status: counts do not carry over a gap between readings. *)
Accept(n, s) ==
  LET gap == ~n.fresh
  IN  [n EXCEPT !.fresh = TRUE, !.output = IF s.on THEN "on" ELSE "off",
                !.good = IF gap THEN 0 ELSE @, !.candidate = IF gap THEN 0 ELSE @,
                !.low = IF gap THEN 0 ELSE @]

Observe(n, s) == IF s = Lost THEN Invalidate(n) ELSE Accept(n, s)

Matches(s, level) == s.iset = level /\ s.vok

Latch(n) == [n EXCEPT !.latched = TRUE]

(* The memory _stop_charging clears before it talks to the charger. *)
Ended(n) ==
  [n EXCEPT !.charging = FALSE, !.ramping = FALSE, !.low = 0, !.good = 0,
            !.candidate = 0, !.lastGood = 0]

(* _stop_charging: OFF, then a readback; confirmed when both agree. *)
StopUnread(n, c) ==                    \* mutant: the echo alone confirms
  IF ~n.open THEN {[n |-> Ended(n), c |-> c, confirmed |-> FALSE]}
  ELSE {[n |-> Ended(n), c |-> x, confirmed |-> a] :
          x \in Written({c}, "on", FALSE), a \in Acknowledged}
Stop(n, c) ==
  IF ~n.open THEN {[n |-> Ended(n), c |-> c, confirmed |-> FALSE]}
  ELSE UNION {{[n |-> Observe(Ended(n), s), c |-> x,
                confirmed |-> a /\ s # Lost /\ ~s.on] :
                 s \in Readings(x), a \in Acknowledged} :
                x \in Written({c}, "on", FALSE)}

(* What the callers other than a command keep of a stop. *)
Stopped(n, c) == {<<o.n, o.c>> : o \in Stop(n, c)}

-----------------------------------------------------------------------------
(* One of the outcomes, a node and a charger, of a callback. *)
Becomes(outcomes) == \E o \in outcomes : node' = o[1] /\ charger' = o[2]

(* _configure_output: OFF, read, voltage, current, read, ON, read.  The    *)
(* chargers of a success and of each way to fail; the node's memory of a   *)
(* success is Configured.                                                  *)

OffFirst(c)         == Written({c}, "on", FALSE)
VoltageSet(c)       == Written({x \in OffFirst(c) : ~x.on}, "vok", TRUE)
CurrentSet(c, i)    == Written(VoltageSet(c), "iset", i)
OutputOnUnread(c, i) ==                \* mutant: no readback before ON
  Written(CurrentSet(c, i), "on", TRUE)
OutputOn(c, i)      == Written({x \in CurrentSet(c, i) : Matches(x, i)}, "on", TRUE)

ConfigureSucceeds(c, i) == {x \in OutputOn(c, i) : x.on /\ Matches(x, i)}
ConfigureFails(c, i) ==
  IF link = "good" THEN {}
  ELSE OffFirst(c) \cup VoltageSet(c) \cup CurrentSet(c, i) \cup OutputOn(c, i)

Configured(n, i) ==
  [Accept([n EXCEPT !.cset = i], [on |-> TRUE, iset |-> i, vok |-> TRUE]) EXCEPT
     !.waited = 0, !.low = 0, !.good = 0, !.candidate = 0, !.wfails = 0]

-----------------------------------------------------------------------------
(* Commands *)

SessionStarted(n, i) ==
  [Configured(n, i) EXCEPT !.charging = TRUE, !.ramping = i < n.ceiling,
                           !.fails = 0, !.lastGood = 0]

MayStartLatched ==                     \* mutant: a latched fault is ignored
  node.ready /\ ~node.charging /\ node.monitor
MayStart == ~node.latched /\ node.ready /\ ~node.charging /\ node.monitor

(* ON with a readable battery voltage starts a session, or latches.  It is *)
(* ignored while a fault is latched, without the charger, in a session, or *)
(* when the voltage cannot be read or is out of range.                     *)
CommandOn ==
  /\ MayStart
  /\ LET top == IF node.limit = 0 THEN Target ELSE AtMost(Target, node.limit)
         n == [node EXCEPT !.ceiling = top]
         i == AtMost(Start, top)
     IN  \/ /\ charger' \in ConfigureSucceeds(charger, i)
            /\ node' = SessionStarted(n, i)
         \/ \E c \in ConfigureFails(charger, i) :
              Becomes(Stopped(Latch(n), c))
  /\ seen' = <<>> /\ recovered' = 0
  /\ UNCHANGED environment

(* OFF ends the session; only a confirmed one releases a latched fault. *)
CommandOff ==
  /\ \E o \in Stop(node, charger) :
       /\ node' = IF o.confirmed THEN [o.n EXCEPT !.latched = FALSE] ELSE o.n
       /\ charger' = o.c
  /\ seen' = <<>> /\ recovered' = 0
  /\ UNCHANGED environment

-----------------------------------------------------------------------------
(* Timers *)

(* _cb_poll: open the port, read, turn off what was left on, be ready. *)
Poll ==
  /\ ~node.ready
  /\ LET n == [node EXCEPT !.open = TRUE]
         Ready(s) == Accept([n EXCEPT !.ready = TRUE, !.fails = 0], s)
     IN  \/ /\ Lost \in Readings(charger)
            /\ node' = [node EXCEPT !.open = FALSE]
            /\ UNCHANGED charger
         \/ ~charger.on /\ node' = Ready(charger) /\ UNCHANGED charger
         \/ /\ charger.on
            /\ charger' \in Written({charger}, "on", FALSE)
            /\ \E s \in Readings(charger') :
                 node' = IF s = Lost \/ s.on THEN n ELSE Ready(s)
  /\ UNCHANGED <<seen, recovered, environment>>

NextLevel == AtMost(node.cset + Step, node.ceiling)

(* _cb_ramp *)
RampUp ==
  /\ node.charging /\ node.ramping
  /\ node.output = "on" /\ node.fails = 0 /\ node.fresh /\ node.waited = 2
  /\ node.good >= GOOD_CURRENT_MIN_COUNT /\ node.low = 0
  /\ LET next == NextLevel
         n == [node EXCEPT !.wfails = @ + 1]
     IN  \/ /\ charger' \in Written({charger}, "iset", next)
            /\ node' = [node EXCEPT !.wfails = 0, !.cset = next, !.waited = 0,
                                    !.good = 0, !.candidate = 0, !.low = 0,
                                    !.ramping = next < node.ceiling]
            /\ seen' = <<>>
         \/ /\ link = "bad"
            /\ \E c \in Written({charger}, "iset", next) :
                 IF n.wfails >= FAIL_THRESHOLD
                 THEN Becomes(Stopped(Latch(n), c))
                 ELSE node' = n /\ charger' = c
            /\ UNCHANGED seen
  /\ UNCHANGED <<recovered, environment>>

(* _on_undocked *)
Undocked(n, c) ==
  {<<[Invalidate(o.n) EXCEPT !.open = FALSE, !.ready = FALSE], o.c>> :
     o \in Stop(Latch(n), c)}

RememberAtOnce(n) ==                   \* mutant: one good reading is enough
  [n EXCEPT !.candidate = n.cset, !.good = GOOD_CURRENT_MIN_COUNT,
            !.lastGood = n.cset, !.limit = n.cset]

(* _remember_good_current, for a reading at the present setting *)
Remember(n) ==
  LET count == AtMost(IF n.candidate = n.cset THEN n.good + 1 ELSE 1,
                      GOOD_CURRENT_MIN_COUNT)
      proven == count >= GOOD_CURRENT_MIN_COUNT
  IN  [n EXCEPT !.candidate = n.cset, !.good = count,
                !.lastGood = IF proven THEN n.cset ELSE @,
                !.limit = IF proven THEN n.cset ELSE @]

(* _handle_low_charge_current: down to the last proven level, or off. *)
HandleLowAgain(n, c) ==                \* mutant: recovers to the level that was lost
  IF n.lastGood = 0 \/ n.lastGood > n.cset THEN Stopped(Latch(n), c)
  ELSE LET m == [n EXCEPT !.limit = n.lastGood, !.ceiling = n.lastGood]
           i == AtMost(Start, n.lastGood)
       IN  {<<[Configured(m, i) EXCEPT !.ramping = i < m.ceiling], x>> :
              x \in ConfigureSucceeds(c, i)}
HandleLow(n, c) ==
  IF n.lastGood = 0 \/ n.lastGood >= n.cset THEN Stopped(Latch(n), c)
  ELSE LET m == [n EXCEPT !.limit = n.lastGood, !.ceiling = n.lastGood]
           i == AtMost(Start, n.lastGood)
       IN  {<<[Configured(m, i) EXCEPT !.ramping = i < m.ceiling], x>> :
              x \in ConfigureSucceeds(c, i)}
           \cup UNION {Stopped(Latch(m), x) : x \in ConfigureFails(c, i)}

CheckSettled(n, c) ==
  IF flow THEN {<<Remember([n EXCEPT !.low = 0]), c>>}
  ELSE LET m == [n EXCEPT !.low = @ + 1, !.good = 0, !.candidate = 0]
       IN  IF m.low >= LOW_CURRENT_MAX_COUNT THEN HandleLow(m, c) ELSE {<<m, c>>}

(* The charger half of _cb_status, after a reading s. *)
ProtectOnce(n, c, s) ==                \* mutant: an unconfirmed OFF is not retried
  IF n.charging /\ (~s.on \/ ~Matches(s, n.cset)) THEN Stopped(Latch(n), c)
  ELSE IF n.charging /\ n.waited >= 1 THEN CheckSettled(n, c)
  ELSE {<<n, c>>}
Protect(n, c, s) ==
  IF ~n.charging THEN IF s.on THEN Stopped(n, c) ELSE {<<n, c>>}
  ELSE IF ~s.on \/ ~Matches(s, n.cset) THEN Stopped(Latch(n), c)
  ELSE IF n.waited >= 1 THEN CheckSettled(n, c)
  ELSE {<<n, c>>}

LostReading(n, c) ==
  LET m == Invalidate([n EXCEPT !.fails = AtMost(@ + 1, FAIL_THRESHOLD)])
  IN  IF m.fails >= FAIL_THRESHOLD THEN Undocked(m, c) ELSE {<<m, c>>}

CheckCharger(n, c, s) ==
  IF ~n.ready THEN {<<n, c>>}
  ELSE IF s = Lost THEN LostReading(n, c)
  ELSE Protect(Accept([n EXCEPT !.fails = 0], s), c, s)

(* The I2C half of _cb_status: "range" is a voltage outside 17.5..25.2 V.  *)
CheckSensor(n, c, sensor) ==
  LET m == [n EXCEPT !.monitor = sensor # "error"]
  IN  IF sensor # "ok" /\ n.charging THEN Stopped(Latch(m), c) ELSE {<<m, c>>}

(* _cb_status; while the charger is not ready nothing is read from it. *)
StatusTimer ==
  \E s \in Readings(charger), sensor \in {"ok", "range", "error"} :
    \E o \in CheckCharger(node, charger, s) :
      /\ Becomes(CheckSensor(o[1], o[2], sensor))
      /\ LET reading == IF s # Lost /\ s.on /\ flow THEN "good" ELSE "bad"
             kept == IF Len(seen) < GOOD_CURRENT_MIN_COUNT THEN seen ELSE Tail(seen)
         IN  seen' = IF ~node'.charging \/ node'.waited < node.waited THEN <<>>
                     ELSE IF node.waited = 0 THEN seen ELSE Append(kept, reading)
      /\ recovered' = IF node'.ceiling # node.ceiling THEN node'.ceiling ELSE recovered
      /\ UNCHANGED environment

-----------------------------------------------------------------------------
(* The rest of the world *)

(* Time: the settling of the last change, then the ramp interval.  A       *)
(* reading goes stale when transactions of a bad link delay the timers.    *)
TimePasses ==
  /\ \/ node.waited < 2 /\ node' = [node EXCEPT !.waited = @ + 1]
     \/ link = "bad" /\ node.fresh /\ node' = [node EXCEPT !.fresh = FALSE]
  /\ UNCHANGED <<charger, seen, recovered, environment>>

(* The charger trips, is switched or set at its panel, or loses power. *)
ChargerChanges ==
  /\ charger' \in {[charger EXCEPT !.on = ~@], Foreign(charger.on)} \ {charger}
  /\ UNCHANGED <<node, seen, recovered, environment>>

FlowChanges ==
  /\ flow' = ~flow
  /\ UNCHANGED <<node, charger, link, seen, recovered>>

LinkChanges ==
  /\ link' \in {"good", "bad"} \ {link}
  /\ UNCHANGED <<node, charger, flow, seen, recovered>>

(* The process is killed, or destroy_node runs; it is then started again.  *)
Restart ==
  /\ \/ UNCHANGED charger
     \/ \E o \in Stop(node, charger) : charger' = o.c
  /\ node' = InitNode /\ seen' = <<>> /\ recovered' = 0
  /\ UNCHANGED <<flow, link>>

Callback == CommandOn \/ CommandOff \/ Poll \/ RampUp \/ StatusTimer
World    == TimePasses \/ ChargerChanges \/ FlowChanges \/ LinkChanges \/ Restart
Next     == Callback \/ World

Spec == Init /\ [][Next]_vars

(* Timers keep firing and time passes; nothing else is fair. *)
FairSpec == Spec /\ WF_vars(StatusTimer) /\ WF_vars(Poll) /\ WF_vars(TimePasses)

-----------------------------------------------------------------------------
(* Settings stay between zero and the target, counters below thresholds.   *)
TypeOK ==
  /\ node \in Node /\ charger \in Charger
  /\ flow \in BOOLEAN /\ link \in {"good", "bad"}
  /\ seen \in Seq({"good", "bad"}) /\ Len(seen) <= GOOD_CURRENT_MIN_COUNT
  /\ recovered \in Level

(* A session exists only with a charger that answers and no latched fault, *)
(* and it never asks for more than its ceiling.                            *)
SessionIsSound ==
  node.charging => /\ node.ready /\ node.open /\ ~node.latched
                   /\ node.cset \in 1..node.ceiling

(* The setting is raised only when the last readings at it, as many as     *)
(* GOOD_CURRENT_MIN_COUNT asks for (README.md claim 3: two), were all good *)
(* ones, whatever readings were lost before.                               *)
RaiseIsProven ==
  [][node.charging /\ node'.charging /\ node'.cset > node.cset
       => /\ Len(seen) = GOOD_CURRENT_MIN_COUNT
          /\ \A i \in 1..GOOD_CURRENT_MIN_COUNT : seen[i] = "good"]_vars

(* A callback that turns the output on, even one that then fails and whose *)
(* OFF is lost, has first read back the voltage and a starting current.    *)
OnIsVerified ==
  [][~charger.on /\ charger'.on /\ Callback =>
       Matches(charger', AtMost(Start, node'.ceiling))]_vars

(* Once latched by a protective stop, only an OFF that the charger obeyed  *)
(* or a restart allows another session (README.md claim 7).                *)
LatchNeedsOff ==
  [][node.latched /\ ~node'.latched => ~charger'.on \/ node' = InitNode]_vars

(* A session that goes on after its current was lost goes on below the     *)
(* level it was lost at: it cannot lose current for ever.                  *)
LossLowersCeiling ==
  [][node.charging /\ node'.charging /\ node'.ceiling # node.ceiling
       => node'.ceiling < node.cset]_vars

(* With a working link, an output nobody asked for is turned off, also     *)
(* when it was left on by a failed OFF or by a killed process.             *)
OrphanOutputGoesOff ==
  <>[](link = "good") =>
    (charger.on /\ ~node.charging ~> ~charger.on \/ node.charging)

(* README.md claim 4: a level to which charging was recovered is the last  *)
(* one; when its current vanishes too, the output goes off.                *)
RecoveredLevelIsLast ==
  [][node.charging /\ recovered # 0 /\ node.cset = recovered /\ node'.ceiling < recovered
       => ~node'.charging]_vars
=============================================================================
