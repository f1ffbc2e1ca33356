-------------------------- MODULE DockingStepsProofs --------------------------
(***************************************************************************)
(* Two steps of the docking program, for every window, age, deadline and   *)
(* count: a charge that is confirmed has been free of gaps for the whole   *)
(* stability window, and the drive backwards decides only about a robot    *)
(* that stands and goes straight once its corridor is proved.              *)
(***************************************************************************)
EXTENDS ChargingVerifier, LidarBackup, TLAPS

-----------------------------------------------------------------------------
(* The charging verifier *)

(* A start that _update_charging_stability returns is never in the future. *)
LEMMA UpdatedBound ==
  ASSUME NEW time \in Nat \ {0}, NEW start \in 0 .. time, NEW a, NEW b
  PROVE  Updated(start, a, b, time) \in 0 .. time
BY DEF Updated

(* A sample that is recent later was recent before, if it had come by then. *)
LEMMA FreshBefore ==
  ASSUME NEW time \in Nat, NEW sample \in Sample, sample.at <= time, Says(sample, time + 1)
  PROVE  Says(sample, time)
BY TimesAssumption DEF Says, Fresh, Sample

(* Clock, samples and counters stay in range in every step. *)
LEMMA TypeStep == TypeOK /\ [Next]_vars => TypeOK'
<1> SUFFICES ASSUME TypeOK, [Next]_vars PROVE TypeOK'
  OBVIOUS
<1> USE TimesAssumption DEF TypeOK, wait
<1>1. CASE Tick
  <2>1. now' = now + 1 /\ now' \in 1 .. MaxTime
    BY <1>1 DEF Tick
  <2>2. doubt' = doubt \/ doubt' = now + 1
    BY <1>1 DEF Tick
  <2>3. doubt' \in 1 .. now'
    <3>1. now \in Nat /\ doubt \in 1 .. now /\ doubt \in Nat /\ now + 1 \in 1 .. now + 1
      OBVIOUS
    <3>2. CASE doubt' = doubt
      BY <2>1, <3>1, <3>2
    <3>3. CASE doubt' = now + 1
      BY <2>1, <3>1, <3>3
    <3>4. QED
      BY <2>2, <3>2, <3>3
  <2>4. UNCHANGED <<available, battery, since, pc, until, nextOn, sent, confirmed, stop>>
    BY <1>1 DEF Tick
  <2>5. now <= now' /\ available.at \in Nat /\ battery.at \in Nat /\ now \in Nat
    BY <2>1 DEF Sample
  <2>6. available'.at <= now' /\ battery'.at <= now' /\ since' \in 0 .. now'
    BY <2>1, <2>4, <2>5
  <2>7. QED
    BY <2>1, <2>3, <2>4, <2>6
<1>2. CASE RequestStop
  BY <1>2 DEF RequestStop
<1>s. ASSUME SpinOnce, now' = now
      PROVE  /\ available' \in Sample /\ available'.at <= now
             /\ battery' \in Sample /\ battery'.at <= now
             /\ since' \in 0 .. now /\ doubt' \in 1 .. now
  <2>1. CASE Callback
    <3>1. \A g \in BOOLEAN : [good |-> g, at |-> now] \in Sample
      BY DEF Sample
    <3>2. /\ available' \in Sample /\ available'.at <= now
          /\ battery' \in Sample /\ battery'.at <= now
      BY <2>1, <3>1 DEF Callback
    <3>3. since' \in 0 .. now
      BY <2>1, UpdatedBound DEF Callback, Samples
    <3>4. doubt' \in 1 .. now
      BY <2>1 DEF Callback
    <3>5. QED
      BY <3>2, <3>3, <3>4
  <2>2. CASE UNCHANGED <<available, battery, since, doubt>>
    BY <2>2
  <2>3. QED
    BY <1>s, <2>1, <2>2 DEF SpinOnce
<1>3. CASE ExistingCharge
  <2>1. now' = now /\ until' = until /\ nextOn' = nextOn /\ sent' = sent /\ stop' = stop
    BY <1>3 DEF ExistingCharge
  <2>2. CASE stop
    BY <1>3, <2>1, <2>2 DEF ExistingCharge
  <2>3. CASE ~stop
    <3>1. SpinOnce /\ confirmed' = Says(battery', now) /\ pc' \in {"done", "motion", "existing"}
      BY <1>3, <2>3 DEF ExistingCharge
    <3>2. confirmed' \in BOOLEAN
      BY <3>1 DEF Says, Fresh, Sample
    <3>3. QED
      BY <1>s, <2>1, <3>1, <3>2
  <2>4. QED
    BY <2>2, <2>3
<1>4. CASE Motion
  <2>1. CASE SpinOnce /\ UNCHANGED wait
    BY <1>4, <1>s, <2>1 DEF Motion
  <2>2. CASE pc' = "top" /\ until' = now + Timeout /\ nextOn' = 0
             /\ UNCHANGED <<available, battery, since, doubt, sent, confirmed>>
    BY <1>4, <2>2 DEF Motion
  <2>3. QED
    BY <1>4, <2>1, <2>2 DEF Motion
<1>5. CASE Guard
  BY <1>5 DEF Guard
<1>6. CASE Spin
  BY <1>6, <1>s DEF Spin
<1>7. CASE Check
  <2>1. since' \in 0 .. now
    BY <1>7, UpdatedBound DEF Check
  <2>2. sent' \in BOOLEAN /\ nextOn' \in Nat
    <3>1. (sent' = TRUE /\ nextOn' = now + Period) \/ UNCHANGED <<sent, nextOn>>
      BY <1>7 DEF Check, CommandOn
    <3>2. sent' = TRUE \/ sent' = sent
      BY <3>1
    <3>3. nextOn' = now + Period \/ nextOn' = nextOn
      BY <3>1
    <3>4. now + Period \in Nat
      OBVIOUS
    <3>5. QED
      BY <3>2, <3>3, <3>4
  <2>3. confirmed' \in BOOLEAN /\ pc' \in {"done", "top"}
    BY <1>7 DEF Check
  <2>4. QED
    BY <1>7, <2>1, <2>2, <2>3 DEF Check
<1>8. CASE UNCHANGED vars
  BY <1>8 DEF vars
<1>9. QED
  BY <1>1, <1>2, <1>3, <1>4, <1>5, <1>6, <1>7, <1>8 DEF Next

(* The clock runs from 1 and nothing has been received. *)
LEMMA InitType == Init => TypeOK
<1> SUFFICES ASSUME Init PROVE TypeOK
  OBVIOUS
<1>1. None \in Sample /\ None.at = 0
  BY DEF None, Sample
<1>2. until \in Nat /\ 1 \in 1 .. MaxTime
  BY TimesAssumption DEF Init
<1>3. /\ now \in 1 .. MaxTime /\ nextOn \in Nat
      /\ since \in 0 .. now /\ doubt \in 1 .. now
  BY <1>2 DEF Init
<1>4. /\ available \in Sample /\ available.at <= now
      /\ battery \in Sample /\ battery.at <= now
  <2>1. available = None /\ battery = None /\ now = 1
    BY DEF Init
  <2>2. QED
    BY <1>1, <2>1
<1>5. /\ pc \in {"existing", "motion", "top", "spin", "check", "done"}
      /\ sent \in BOOLEAN /\ confirmed \in BOOLEAN /\ stop \in BOOLEAN
  BY DEF Init
<1>6. QED
  BY <1>2, <1>3, <1>4, <1>5 DEF TypeOK

(* The invariant: a running window is clean. *)
VerifierInv == TypeOK /\ WindowIsClean

(* Time may end a window and only a callback or a look at the samples may  *)
(* begin one; whichever it is judges the samples that were there before.   *)
LEMMA WindowStep == VerifierInv /\ [Next]_vars => VerifierInv'
<1> SUFFICES ASSUME VerifierInv, [Next]_vars PROVE WindowIsClean'
  BY TypeStep DEF VerifierInv
<1>t. TypeOK /\ WindowIsClean /\ TypeOK'
  BY TypeStep DEF VerifierInv
<1> USE <1>t
<1>1. CASE Tick
  <2>1. SUFFICES ASSUME since' # 0, Charging(available, battery, now + 1)
                 PROVE  doubt <= since
    BY <1>1, <2>1 DEF Tick, WindowIsClean
  <2>2. Charging(available, battery, now) /\ since # 0
    BY <1>1, <2>1, FreshBefore DEF Tick, Charging, TypeOK
  <2>3. QED
    BY <2>2 DEF WindowIsClean
<1>s. ASSUME SpinOnce, now' = now PROVE WindowIsClean'
  <2>1. CASE Callback
    <3> DEFINE s == Updated(since, available, battery, now)
    <3>0. since \in 0 .. now /\ now \in Nat \ {0} /\ doubt \in 1 .. now
      BY DEF TypeOK
    <3>1. CASE ~Charging(available', battery', now)
      BY <1>s, <3>1 DEF WindowIsClean
    <3>2. CASE Charging(available', battery', now)
      <4>1. doubt' = doubt /\ since' = IF s = 0 THEN now ELSE s
        BY <2>1, <3>2 DEF Callback, Samples, Updated
      <4>2. CASE s = 0 \/ s = now
        BY <1>s, <3>0, <4>1, <4>2 DEF WindowIsClean
      <4>3. CASE s # 0 /\ s # now
        <5>1. Charging(available, battery, now) /\ since # 0 /\ s = since
          BY <4>3 DEF Updated
        <5>2. QED
          BY <4>1, <4>3, <5>1 DEF WindowIsClean
      <4>4. QED
        BY <4>2, <4>3
    <3>3. QED
      BY <3>1, <3>2
  <2>2. CASE UNCHANGED <<available, battery, since, doubt>>
    BY <1>s, <2>2 DEF WindowIsClean
  <2>3. QED
    BY <1>s, <2>1, <2>2 DEF SpinOnce
<1>3. CASE ExistingCharge
  <2>1. now' = now
    BY <1>3 DEF ExistingCharge
  <2>2. CASE stop
    BY <1>3, <2>1, <2>2 DEF ExistingCharge, WindowIsClean
  <2>3. CASE ~stop
    BY <1>3, <1>s, <2>1, <2>3 DEF ExistingCharge
  <2>4. QED
    BY <2>2, <2>3
<1>4. CASE Motion
  <2>1. CASE SpinOnce
    BY <1>4, <1>s, <2>1 DEF Motion
  <2>2. CASE UNCHANGED <<available, battery, since, doubt>>
    BY <1>4, <2>2 DEF Motion, WindowIsClean
  <2>3. QED
    BY <1>4, <2>1, <2>2 DEF Motion
<1>5. CASE Spin
  BY <1>5, <1>s DEF Spin
<1>6. CASE Check
  <2>1. since \in 0 .. now /\ now \in Nat \ {0} /\ doubt \in 1 .. now
    BY DEF TypeOK
  <2>2. UNCHANGED <<available, battery, now, doubt>> /\ since' = Updated(since, available, battery, now)
    BY <1>6 DEF Check
  <2>3. QED
    BY <2>1, <2>2 DEF Updated, WindowIsClean
<1>7. CASE RequestStop \/ Guard \/ UNCHANGED vars
  BY <1>7 DEF RequestStop, Guard, vars, WindowIsClean
<1>8. QED
  BY <1>1, <1>3, <1>4, <1>5, <1>6, <1>7 DEF Next

(* No gap and no bad sample lies inside a window that is being measured.   *)
THEOREM WindowsAreClean == Spec => []VerifierInv
<1>1. Init => VerifierInv
  BY InitType DEF VerifierInv, Init, WindowIsClean
<1>2. QED
  BY <1>1, WindowStep, PTL DEF Spec

(* A window that verify is measuring began after the last doubt.          *)
THEOREM WindowClean == Spec => []WindowIsClean
<1>1. VerifierInv => WindowIsClean
  BY DEF VerifierInv
<1>2. QED
  BY <1>1, WindowsAreClean, PTL

(* verify reports a charge only after both streams said so for the whole   *)
(* stability window, up to the moment of the report.                       *)
THEOREM ConfirmedAfterWindow == Spec => ConfirmedIsStable
<1>1. VerifierInv /\ [Next]_vars =>
        [pc = "check" /\ ~confirmed /\ confirmed' =>
           Charging(available, battery, now) /\ now - doubt >= Stable]_vars
  <2> SUFFICES ASSUME VerifierInv, Next, pc = "check", ~confirmed, confirmed'
               PROVE  Charging(available, battery, now) /\ now - doubt >= Stable
    BY DEF vars
  <2>1. Check
    BY DEF Next, Tick, RequestStop, ExistingCharge, Motion, Guard, Spin, wait
  <2>2. since \in 0 .. now /\ now \in Nat \ {0} /\ doubt \in 1 .. now
    BY DEF VerifierInv, TypeOK
  <2>3. since' # 0 /\ now - since' >= Stable /\ since' = Updated(since, available, battery, now)
    BY <2>1 DEF Check
  <2>4. Charging(available, battery, now)
    BY <2>3 DEF Updated
  <2>5. since' = IF since = 0 THEN now ELSE since
    BY <2>3, <2>4 DEF Updated
  <2>6. CASE since = 0
    <3>1. Stable \in Nat
      BY TimesAssumption
    <3>2. since' = now
      BY <2>5, <2>6
    <3>3. now - doubt >= Stable
      BY <2>2, <2>3, <3>1, <3>2
    <3>4. QED
      BY <2>4, <3>3
  <2>7. CASE since # 0
    BY <2>2, <2>3, <2>4, <2>5, <2>7, TimesAssumption DEF VerifierInv, WindowIsClean
  <2>8. QED
    BY <2>6, <2>7
<1>2. QED
  BY WindowsAreClean, <1>1, PTL DEF Spec, ConfirmedIsStable

-----------------------------------------------------------------------------
(* The drive backwards *)

Command == {"zero", "turn", "back", "steer"}
Result  == {"running", "waiting", "done", "failed"}

Numbers ==
  /\ elapsed \in Int /\ used \in Int /\ began \in Int /\ planeSince \in Int
  /\ count \in Nat /\ settled \in Nat /\ stood \in 0 .. MaxStood

Names ==
  /\ result \in Result /\ command \in Command
  /\ handoff \in BOOLEAN /\ correcting \in BOOLEAN /\ anchor \in BOOLEAN /\ verified \in BOOLEAN

(* Nothing that a proved corridor forbids is under way. *)
Committed ==
  handoff => /\ command \in {"zero", "back"} /\ ~correcting
             /\ planeSince = Never /\ guideSince = Never

(* Without a corridor the robot waits for feedback only before it begins. *)
FirstWaitIsClean == result = "waiting" /\ ~handoff => planeSince = Never

Stands == command \in {"zero", "turn"}

(* What permits a motion backwards rests on a plane reference. *)
Anchored == (verified \/ handoff => anchor) /\ (~anchor => Stands /\ stood = MaxStood)

(* While something is decided standing the robot is not sent backwards, *)
(* and it has stood for as long as the count or the pause lasts.        *)
PlaneStands == planeSince # Never => Stands /\ stood >= Smaller(elapsed - planeSince, MaxStood - 1)
TurnStands  == correcting => Stands /\ stood >= Smaller(settled + 1, MaxStood - 1)
CountStands == (count > 0 => Stands) /\ stood >= Smaller(count, MaxStood - 1)

IInv ==
  /\ Numbers /\ Names /\ Committed /\ FirstWaitIsClean /\ WaitsAreBudgeted /\ Anchored
  /\ PlaneStands /\ TurnStands /\ CountStands

-----------------------------------------------------------------------------
(* A command that sends the robot nowhere lets it stand a turn longer. *)
LEMMA PublishStands ==
  ASSUME Limits, stood \in 0 .. MaxStood, NEW c \in {"zero", "turn"}, Publish(c)
  PROVE  /\ command' = c /\ stood' \in 0 .. MaxStood
         /\ stood = MaxStood => stood' = MaxStood
         /\ stood' >= Smaller(stood + 1, MaxStood - 1)
<1>1. command' = c BY DEF Publish
<1>2. stood' = IF stood = MaxStood THEN stood ELSE Smaller(stood + 1, MaxStood - 1)
  BY DEF Publish
<1>3. MaxStood \in Nat /\ MaxStood > 0 BY DEF Limits
<1>4. QED BY <1>1, <1>2, <1>3 DEF Smaller

(* Who has stood for the time a, and stands on, has stood for any time up *)
(* to a + 1, as far as times are told apart.                              *)
LEMMA StandingOn ==
  ASSUME NEW a \in Int, NEW b \in Int, NEW s \in Int, NEW t \in Int, NEW m \in Int,
         s >= Smaller(a, m), t >= Smaller(s + 1, m), b <= a + 1
  PROVE  t >= Smaller(b, m)
BY DEF Smaller

(* A pause that goes on, or begins, or ends. *)
LEMMA PauseStands ==
  ASSUME Limits, Numbers, PlaneStands, NEW c \in {"zero", "turn"}, Publish(c),
         elapsed' = elapsed \/ elapsed' = elapsed + 1,
         planeSince' \in {planeSince, Never, Since(planeSince)}
  PROVE  PlaneStands'
<1> USE DEF Numbers
<1>1. command' = c /\ stood' >= Smaller(stood + 1, MaxStood - 1) /\ stood' \in 0 .. MaxStood
  BY PublishStands
<1>2. MaxStood \in Nat /\ MaxStood > 0 BY DEF Limits
<1>3. CASE planeSince' = Never BY <1>3 DEF PlaneStands
<1>4. CASE planeSince' # Never /\ planeSince # Never
  <2>1. planeSince' = planeSince BY <1>4 DEF Since
  <2>2. stood >= Smaller(elapsed - planeSince, MaxStood - 1) BY <1>4 DEF PlaneStands
  <2>3. /\ elapsed - planeSince \in Int /\ elapsed' - planeSince' \in Int
        /\ stood \in Int /\ stood' \in Int /\ MaxStood - 1 \in Int
        /\ elapsed' - planeSince' <= (elapsed - planeSince) + 1
    BY <1>1, <1>2, <2>1
  <2>5. stood' >= Smaller(elapsed' - planeSince', MaxStood - 1)
    BY <1>1, <2>2, <2>3, StandingOn
  <2>6. QED BY <1>1, <2>5 DEF PlaneStands, Stands
<1>5. CASE planeSince' # Never /\ planeSince = Never
  <2>1. planeSince' = elapsed BY <1>5 DEF Since
  <2>2. elapsed' - planeSince' = 0 \/ elapsed' - planeSince' = 1 BY <2>1
  <2>3. stood' \in Int /\ stood' >= Smaller(elapsed' - planeSince', MaxStood - 1)
    BY <1>1, <1>2, <2>2 DEF Smaller
  <2>4. QED BY <1>1, <2>3 DEF PlaneStands, Stands
<1>6. QED BY <1>3, <1>4, <1>5

(* A correction that begins, goes on, or ends. *)
LEMMA CorrectionStands ==
  ASSUME Limits, Numbers, TurnStands, NEW c \in {"zero", "turn"}, Publish(c), settled' \in Nat,
         correcting' => settled' = 0 \/ (correcting /\ settled' <= settled + 1)
  PROVE  TurnStands'
<1> USE DEF Numbers
<1>1. command' = c /\ stood' >= Smaller(stood + 1, MaxStood - 1) /\ stood' \in 0 .. MaxStood
  BY PublishStands
<1>2. MaxStood \in Nat /\ MaxStood > 0 BY DEF Limits
<1>3. SUFFICES ASSUME correcting' PROVE stood' >= Smaller(settled' + 1, MaxStood - 1)
  BY <1>1 DEF TurnStands, Stands
<1>4. CASE settled' = 0 BY <1>1, <1>2, <1>4 DEF Smaller
<1>5. CASE correcting /\ settled' <= settled + 1
  <2>1. stood >= Smaller(settled + 1, MaxStood - 1) BY <1>5 DEF TurnStands
  <2>2. settled + 1 \in Int /\ settled' + 1 \in Int /\ MaxStood - 1 \in Int BY <1>2
  <2>3. stood \in Int /\ stood' \in Int BY <1>1, <1>2
  <2>4. settled' <= settled + 1 BY <1>5
  <2>5. \A m, n \in Nat : n <= m + 1 => n + 1 <= (m + 1) + 1 OBVIOUS
  <2>6. settled' + 1 <= (settled + 1) + 1 BY <2>4, <2>5
  <2>7. QED BY <1>1, <2>1, <2>2, <2>3, <2>6, StandingOn
<1>6. QED BY <1>3, <1>4, <1>5

(* A scan that counts, one that does not, and none. *)
LEMMA CountingStands ==
  ASSUME Limits, Numbers, CountStands, NEW c \in {"zero", "turn"}, Publish(c),
         count' = 0 \/ count' = count \/ count' = count + 1
  PROVE  CountStands'
<1> USE DEF Numbers
<1>1. command' = c /\ stood' >= Smaller(stood + 1, MaxStood - 1) /\ stood' \in 0 .. MaxStood
  BY PublishStands
<1>2. MaxStood \in Nat /\ MaxStood > 0 BY DEF Limits
<1>3. stood >= Smaller(count, MaxStood - 1) BY DEF CountStands
<1>4. stood' >= Smaller(count', MaxStood - 1) BY <1>1, <1>2, <1>3 DEF Smaller
<1>5. QED BY <1>1, <1>4 DEF CountStands, Stands

(* All of them in a turn that changes nothing else they speak of. *)
LEMMA StandingTurn ==
  ASSUME Limits, IInv, NEW c \in {"zero", "turn"}, Publish(c),
         elapsed' = elapsed \/ elapsed' = elapsed + 1, count' = 0 \/ count' = count \/ count' = count + 1,
         planeSince' \in {planeSince, Never, Since(planeSince)}, settled' \in Nat,
         correcting' => settled' = 0 \/ (correcting /\ settled' <= settled + 1)
  PROVE  PlaneStands' /\ TurnStands' /\ CountStands'
BY PauseStands, CorrectionStands, CountingStands DEF IInv

(* The budget of a wait is never more than what is left. *)
LEMMA BudgetBounds ==
  ASSUME Limits, used \in Int, began \in Int
  PROVE  Budget \in Int /\ Budget <= AllWaits - used /\ Budget <= MotionTimeout - began
BY DEF Limits, Budget, Smaller

-----------------------------------------------------------------------------
(* Before its first turn the step has settled nothing and the robot *)
(* stands.                                                          *)
THEOREM InitIInv == ASSUME Limits PROVE BackupInit => IInv
<1> SUFFICES ASSUME BackupInit PROVE IInv
  OBVIOUS
<1> USE DEF BackupInit
<1>1. Numbers /\ Names
  <2>1. stood \in 0 .. MaxStood BY DEF Limits
  <2>2. result \in Result /\ command \in Command BY DEF Result, Command
  <2>3. elapsed \in Int /\ used \in Int /\ began \in Int /\ planeSince \in Int BY DEF Never
  <2>4. QED BY <2>1, <2>2, <2>3 DEF Numbers, Names
<1>2. Committed /\ FirstWaitIsClean /\ Anchored BY DEF Committed, FirstWaitIsClean, Anchored, Stands
<1>3. WaitsAreBudgeted BY DEF WaitsAreBudgeted, Limits
<1>4. PlaneStands /\ TurnStands BY DEF PlaneStands, TurnStands
<1>5. CountStands BY DEF CountStands, Smaller, Limits
<1>6. QED BY <1>1, <1>2, <1>3, <1>4, <1>5 DEF IInv

(* Lost feedback stops the robot: in a proved corridor a wait with the *)
(* budget that is left begins, before it the step fails.               *)
LEMMA FeedbackLostKeeps == ASSUME Limits, IInv, FeedbackLost PROVE IInv'
<1> USE DEF IInv
<1>1. Publish("zero") /\ result' \in {"waiting", "failed"} BY DEF FeedbackLost, Fails
<1>2. UNCHANGED <<elapsed, count, planeSince, guideSince, correcting, settled, anchor, verified, handoff, used>>
  BY DEF FeedbackLost, heading, turning, corridor, pauses, waits
<1>3. PlaneStands' /\ TurnStands' /\ CountStands' BY <1>1, <1>2, StandingTurn DEF Numbers
<1>4. command' = "zero" /\ stood' \in 0 .. MaxStood /\ (stood = MaxStood => stood' = MaxStood)
  BY <1>1, PublishStands DEF Numbers
<1>5. result' = "waiting" => handoff /\ began' = elapsed /\ elapsed <= MotionTimeout
  BY DEF FeedbackLost, Fails
<1>6. began' \in Int BY DEF FeedbackLost, Numbers, waits
<1>7. Numbers' /\ Names'
  <2>1. Numbers' BY <1>1, <1>2, <1>4, <1>6 DEF Numbers
  <2>2. Names' BY <1>1, <1>2, <1>4, <1>6 DEF Names, Result, Command
  <2>3. QED BY <2>1, <2>2
<1>8. Committed' /\ FirstWaitIsClean' /\ Anchored'
  BY <1>2, <1>4, <1>5 DEF Committed, FirstWaitIsClean, Anchored, Stands
<1>9. WaitsAreBudgeted' BY <1>2, <1>5 DEF WaitsAreBudgeted, Numbers, Limits
<1>10. QED BY <1>3, <1>7, <1>8, <1>9

(* A turn of the wait for feedback leaves the robot standing; its time *)
(* counts against the budget when the wait is over.                    *)
LEMMA WaitForFeedbackKeeps == ASSUME Limits, IInv, WaitForFeedback PROVE IInv'
<1> USE DEF IInv
<1>1. Publish("zero") /\ result' \in {"waiting", "running", "failed"} /\ result = "waiting"
  BY DEF WaitForFeedback, Fails
<1>2. UNCHANGED <<planeSince, guideSince, correcting, settled, anchor, verified, handoff, began>>
  BY DEF WaitForFeedback, heading, turning, corridor, pauses
<1>3. planeSince = Never BY <1>1 DEF Committed, FirstWaitIsClean
<1>4. count' = 0 \/ count' = count BY DEF WaitForFeedback
<1>5. PlaneStands' BY <1>2, <1>3 DEF PlaneStands
<1>6. TurnStands' BY <1>1, <1>2, CorrectionStands DEF Numbers
<1>7. CountStands' BY <1>1, <1>4, CountingStands
<1>8. command' = "zero" /\ stood' \in 0 .. MaxStood /\ (stood = MaxStood => stood' = MaxStood)
  BY <1>1, PublishStands DEF Numbers
<1>9. WaitEnds \in Int BY BudgetBounds DEF WaitEnds, Numbers, Limits
<1>10. elapsed' \in Int /\ used' \in Int BY <1>9 DEF WaitForFeedback, Numbers, Smaller
<1>11. Numbers' /\ Names'
  <2>1. Numbers' BY <1>1, <1>2, <1>4, <1>8, <1>10 DEF Numbers
  <2>2. Names' BY <1>1, <1>2, <1>4, <1>8, <1>10 DEF Names, Result, Command
  <2>3. QED BY <2>1, <2>2
<1>12. Committed' /\ FirstWaitIsClean' /\ Anchored'
  BY <1>2, <1>3, <1>8 DEF Committed, FirstWaitIsClean, Anchored, Stands
<1>13. WaitsAreBudgeted'
  <2>1. CASE elapsed + 1 >= WaitEnds
    <3>1. result' = "failed" /\ used' = used
      BY <2>1, <1>9 DEF WaitForFeedback, Fails, Numbers
    <3>2. QED BY <3>1 DEF WaitsAreBudgeted
  <2>2. CASE elapsed + 1 < WaitEnds /\ ~handoff
    <3>1. used' \in {used, 0} BY <2>2, <1>9 DEF WaitForFeedback, Numbers
    <3>2. QED BY <1>2, <2>2, <3>1 DEF WaitsAreBudgeted, Limits
  <2>3. CASE elapsed + 1 < WaitEnds /\ handoff
    <3>1. /\ elapsed' = elapsed + 1
          /\ used' = used \/ (used' = used + elapsed + 1 - began /\ result' = "running")
      BY <2>3, <1>9 DEF WaitForFeedback, Numbers
    <3>2. elapsed + 1 < began + Budget BY <2>3 DEF WaitEnds
    <3>3. used + elapsed + 1 - began <= AllWaits /\ elapsed + 1 <= MotionTimeout
      BY <3>2, BudgetBounds DEF Numbers, Limits
    <3>4. QED BY <1>2, <3>1, <3>3 DEF WaitsAreBudgeted, Numbers, Limits
  <2>4. QED BY <2>1, <2>2, <2>3, <1>9 DEF Numbers
<1>14. QED BY <1>5, <1>6, <1>7, <1>11, <1>12, <1>13

(* What the turns without a new reference have in common. *)
LEMMA StillKeeps ==
  ASSUME Limits, IInv, Publish("zero"), elapsed' = elapsed \/ elapsed' = elapsed + 1,
         result' \in {"running", "done", "failed"}, count' = 0 \/ count' = count \/ count' = count + 1,
         UNCHANGED <<planeSince, guideSince, correcting, settled, anchor, verified, handoff,
                     used, began>>
  PROVE  IInv'
<1> USE DEF IInv
<1>1. PlaneStands' /\ TurnStands' /\ CountStands' BY StandingTurn DEF Numbers
<1>2. command' = "zero" /\ stood' \in 0 .. MaxStood /\ (stood = MaxStood => stood' = MaxStood)
  BY PublishStands DEF Numbers
<1>3. Numbers' /\ Names'
  <2>1. Numbers' BY <1>2 DEF Numbers
  <2>2. Names' BY <1>2 DEF Names, Result, Command
  <2>3. QED BY <2>1, <2>2
<1>4. Committed' /\ FirstWaitIsClean' /\ Anchored'
  BY <1>2 DEF Committed, FirstWaitIsClean, Anchored, Stands
<1>5. WaitsAreBudgeted' BY DEF WaitsAreBudgeted
<1>6. QED BY <1>1, <1>3, <1>4, <1>5

(* A step that gives up, or whose time is over, leaves the robot stopped. *)
LEMMA EndingKeeps == ASSUME Limits, IInv, GivesUp \/ TimedOut PROVE IInv'
<1>1. Publish("zero") /\ result' = "failed" BY DEF GivesUp, TimedOut, Fails
<1>2. UNCHANGED <<elapsed, count, planeSince, guideSince, correcting, settled, anchor, verified,
                  handoff, used, began>>
  BY DEF GivesUp, TimedOut, heading, turning, corridor, pauses, waits
<1>3. QED BY <1>1, <1>2, StillKeeps

(* A turn without a scan stops the robot, and forgets the scans counted *)
(* so far.                                                              *)
LEMMA NoScanKeeps == ASSUME Limits, IInv, NoScan PROVE IInv'
<1>1. Publish("zero") /\ result' \in {"running", "failed"} /\ elapsed' = elapsed + 1 /\ count' = 0
  BY DEF NoScan, Turn, Goes, Fails
<1>2. UNCHANGED <<planeSince, guideSince, correcting, settled, anchor, verified, handoff, used, began>>
  BY DEF NoScan, still, turning, corridor, pauses, waits
<1>3. QED BY <1>1, <1>2, StillKeeps

(* At the target the robot stands while the scans that agree are counted. *)
LEMMA AtTargetKeeps == ASSUME Limits, IInv, AtTarget PROVE IInv'
<1>1. Publish("zero") /\ result' \in {"running", "done"} /\ elapsed' = elapsed + 1
  BY DEF AtTarget, Turn, Goes
<1>2. count' = 0 \/ count' = count + 1 BY DEF AtTarget, Observe
<1>3. UNCHANGED <<planeSince, guideSince, correcting, settled, anchor, verified, handoff, used, began>>
  BY DEF AtTarget, heading, still, turning, corridor, pauses, waits
<1>4. QED BY <1>1, <1>2, <1>3, StillKeeps

(* A turn that sees the scan of the turn before repeats its command. *)
LEMMA SameScanKeeps == ASSUME Limits, IInv, SameScan PROVE IInv'
<1> USE DEF IInv
<1>1. Publish(command) /\ result' = result /\ result = "running" /\ elapsed' = elapsed + 1
  BY DEF SameScan, Turn, Goes
<1>2. UNCHANGED <<count, planeSince, guideSince, correcting, settled, anchor, verified, handoff,
                  used, began>>
  BY DEF SameScan, heading, still, turning, corridor, pauses, waits
<1>3. command' = command BY <1>1 DEF Publish
<1>4. PlaneStands' /\ TurnStands' /\ CountStands' /\ stood' \in 0 .. MaxStood
      /\ (~anchor => stood' = MaxStood)
  <2>1. CASE command \in {"zero", "turn"}
    <3>1. PlaneStands' /\ TurnStands' /\ CountStands' BY <1>1, <1>2, <2>1, StandingTurn DEF Numbers
    <3>2. stood' \in 0 .. MaxStood /\ (stood = MaxStood => stood' = MaxStood)
      BY <1>1, <2>1, PublishStands DEF Numbers
    <3>3. QED BY <3>1, <3>2 DEF Anchored
  <2>2. CASE command \notin {"zero", "turn"}
    <3>1. planeSince = Never /\ ~correcting /\ count = 0
      BY <2>2 DEF PlaneStands, TurnStands, CountStands, Stands, Numbers
    <3>2. stood' = 0 BY <1>1, <2>2 DEF Publish, Names, Command
    <3>3. PlaneStands' /\ TurnStands' BY <1>2, <3>1 DEF PlaneStands, TurnStands
    <3>4. CountStands' BY <1>2, <3>1, <3>2 DEF CountStands, Smaller, Limits
    <3>5. stood' \in 0 .. MaxStood BY <3>2 DEF Limits
    <3>6. anchor BY <2>2 DEF Anchored, Stands
    <3>7. QED BY <3>3, <3>4, <3>5, <3>6
  <2>3. QED BY <2>1, <2>2
<1>5. Numbers' /\ Names'
  <2>1. Numbers' BY <1>1, <1>2, <1>3, <1>4 DEF Numbers
  <2>2. Names' BY <1>1, <1>2, <1>3, <1>4 DEF Names
  <2>3. QED BY <2>1, <2>2
<1>6. Committed' /\ FirstWaitIsClean' /\ Anchored'
  BY <1>1, <1>2, <1>3, <1>4 DEF Committed, FirstWaitIsClean, Anchored, Stands
<1>7. WaitsAreBudgeted' BY <1>1, <1>2 DEF WaitsAreBudgeted
<1>8. QED BY <1>4, <1>5, <1>6, <1>7

-----------------------------------------------------------------------------
(* The turn that steers *)

(* What a look at the plane settles. *)
LEMMA SeenPlane ==
  ASSUME Limits, Names, NEW z, SeesPlane(z)
  PROVE  /\ anchor' \in BOOLEAN /\ (anchor => anchor')
         /\ Source(z) \in {"lidar", "guard"} => anchor'
         /\ handoff => Source(z) = "disabled"
         /\ recovered' # recovered => MayRecover /\ elapsed - planeSince >= Standing
<1> USE DEF Names
<1>1. Cycles # 0 BY DEF Limits
<1>2. CASE PlaneUnused(z) BY <1>2 DEF PlaneUnused, Source
<1>3. CASE PlaneRejected(z) BY <1>1, <1>3 DEF PlaneRejected, Source, LooksForPlane
<1>4. CASE PlaneAccepted(z) BY <1>1, <1>4 DEF PlaneAccepted, Source, LooksForPlane
<1>5. CASE PlaneInconsistent(z) BY <1>5 DEF PlaneInconsistent, Disagrees, LooksForPlane
<1>6. CASE PlaneCollected(z) BY <1>6 DEF PlaneCollected, Disagrees, LooksForPlane
<1>7. CASE PlaneRecovered(z) BY <1>7 DEF PlaneRecovered, LooksForPlane
<1>8. QED BY <1>2, <1>3, <1>4, <1>5, <1>6, <1>7 DEF SeesPlane

(* Who enters the corridor or goes on in it has a plane reference. *)
LEMMA EntryAnchored ==
  ASSUME Limits, Names, Anchored, NEW z, NEW g, NEW imu, SeesPlane(z), Entry(z, g, imu)
  PROVE  anchor'
<1>1. CASE handoff \/ z # "guide"
  <2>1. handoff \/ verified BY <1>1 DEF Entry
  <2>2. QED BY <2>1, SeenPlane DEF Anchored
<1>2. CASE ~(handoff \/ z # "guide")
  <2>1. Source(z) = "lidar" BY <1>2 DEF Entry, GuideReady
  <2>2. QED BY <2>1, SeenPlane
<1>3. QED BY <1>1, <1>2

(* A turn of a new scan after which the robot stands. *)
LEMMA ApproachStands ==
  ASSUME Limits, IInv, NEW c \in {"zero", "turn"}, Publish(c),
         elapsed' = elapsed + 1, count' = 0, result' \in {"running", "failed"},
         planeSince' \in {planeSince, Never, Since(planeSince)}, settled' \in Nat,
         correcting' => settled' = 0 \/ (correcting /\ settled' <= settled + 1),
         handoff' \in BOOLEAN, correcting' \in BOOLEAN, anchor' \in BOOLEAN,
         verified' \in BOOLEAN,
         anchor => anchor', verified' \/ handoff' => anchor', Committed',
         UNCHANGED <<used, began>>
  PROVE  IInv'
<1> USE DEF IInv
<1>1. PlaneStands' /\ TurnStands' /\ CountStands' BY StandingTurn
<1>2. command' = c /\ stood' \in 0 .. MaxStood /\ (stood = MaxStood => stood' = MaxStood)
  BY PublishStands DEF Numbers
<1>3. Numbers'
  <2>1. planeSince' \in Int BY DEF Numbers, Since, Never
  <2>2. QED BY <1>2, <2>1 DEF Numbers
<1>4. Names' BY <1>2 DEF Names, Result, Command
<1>5. FirstWaitIsClean' /\ Anchored' BY <1>2 DEF FirstWaitIsClean, Anchored, Stands
<1>6. WaitsAreBudgeted' BY DEF WaitsAreBudgeted
<1>7. QED BY <1>1, <1>3, <1>4, <1>5, <1>6

(* A pause for the plane stops the robot, before the corridor is proved *)
(* only.                                                                *)
LEMMA WaitsForPlaneKeeps ==
  ASSUME Limits, IInv, NEW z, NEW g, NEW imu, Turn, count' = 0, UNCHANGED waits,
         SeesPlane(z), WaitsForPlane(z, g, imu)
  PROVE  IInv'
<1> USE DEF IInv
<1>1. Publish("zero") /\ result' \in {"running", "failed"} /\ elapsed' = elapsed + 1
  BY DEF WaitsForPlane, Pauses, Fails, Goes, Turn
<1>2. ~handoff BY SeenPlane DEF WaitsForPlane
<1>3. UNCHANGED <<handoff, verified, guideSince, used, began>> BY DEF WaitsForPlane, waits
<1>4. correcting' \in BOOLEAN BY DEF WaitsForPlane, Realigns, Names
<1>5. settled' \in Nat BY DEF WaitsForPlane, Numbers
<1>6. correcting' => settled' = 0 \/ (correcting /\ settled' <= settled + 1)
  <2>1. CASE recovered' = recovered
    <3>1. correcting' = correcting /\ settled' = settled
      BY <2>1 DEF WaitsForPlane, Realigns, Names
    <3>2. settled' <= settled + 1 BY <3>1 DEF Numbers
    <3>3. QED BY <3>1, <3>2
  <2>2. CASE recovered' # recovered
    <3>1. settled' = 0 BY <2>2 DEF WaitsForPlane
    <3>2. QED BY <3>1
  <2>3. QED BY <2>1, <2>2
<1>7. Committed' BY <1>2, <1>3 DEF Committed
<1>8. anchor' \in BOOLEAN /\ (anchor => anchor') BY SeenPlane
<1>9. verified' \/ handoff' => anchor' BY <1>3, <1>8 DEF Anchored
<1>10. planeSince' = Since(planeSince) BY DEF WaitsForPlane
<1>11. handoff' \in BOOLEAN /\ verified' \in BOOLEAN BY <1>3 DEF Names
<1>12. QED BY <1>1, <1>3, <1>4, <1>5, <1>6, <1>7, <1>8, <1>9, <1>10, <1>11, ApproachStands

(* A pause for the guide rails stops the robot, before the corridor is *)
(* proved only.                                                        *)
LEMMA WaitsForGuideKeeps ==
  ASSUME Limits, IInv, NEW z, NEW g, NEW imu, Turn, count' = 0, UNCHANGED waits,
         SeesPlane(z), WaitsForGuide(z, g, imu)
  PROVE  IInv'
<1> USE DEF IInv
<1>1. Publish("zero") /\ result' \in {"running", "failed"} /\ elapsed' = elapsed + 1
  BY DEF WaitsForGuide, Pauses, Fails, Goes, Turn
<1>2. ~handoff BY DEF WaitsForGuide
<1>3. UNCHANGED <<handoff, correcting, settled, used, began>>
  BY DEF WaitsForGuide, turning, waits
<1>4. planeSince' = Never /\ verified' \in BOOLEAN /\ (verified' => verified)
  BY DEF WaitsForGuide, Names
<1>5. settled' \in Nat /\ settled' <= settled + 1 BY <1>3 DEF Numbers
<1>6. correcting' => settled' = 0 \/ (correcting /\ settled' <= settled + 1) BY <1>3, <1>5
<1>7. Committed' BY <1>2, <1>3 DEF Committed
<1>8. anchor' \in BOOLEAN /\ (anchor => anchor') BY SeenPlane
<1>9. verified' \/ handoff' => anchor' BY <1>3, <1>4, <1>8 DEF Anchored
<1>10. handoff' \in BOOLEAN /\ correcting' \in BOOLEAN BY <1>3 DEF Names
<1>11. QED BY <1>1, <1>3, <1>4, <1>5, <1>6, <1>7, <1>8, <1>9, <1>10, ApproachStands

(* A robot that is not centred at the entry fails, before the corridor is *)
(* proved only.                                                           *)
LEMMA NotCenteredKeeps ==
  ASSUME Limits, IInv, NEW z, NEW g, NEW imu, Turn, count' = 0, UNCHANGED waits,
         SeesPlane(z), NotCentered(z, g, imu)
  PROVE  IInv'
<1> USE DEF IInv
<1>1. Publish("zero") /\ result' = "failed" /\ elapsed' = elapsed + 1
  BY DEF NotCentered, Fails, Turn
<1>2. UNCHANGED <<handoff, verified, correcting, settled, used, began>> /\ ~handoff
  BY DEF NotCentered, turning, waits
<1>3. planeSince' = Never BY DEF NotCentered
<1>4. settled' \in Nat /\ settled' <= settled + 1 BY <1>2 DEF Numbers
<1>5. correcting' => settled' = 0 \/ (correcting /\ settled' <= settled + 1) BY <1>2, <1>4
<1>6. Committed' BY <1>2 DEF Committed
<1>7. anchor' \in BOOLEAN /\ (anchor => anchor') BY SeenPlane
<1>8. verified' \/ handoff' => anchor' BY <1>2, <1>7 DEF Anchored
<1>9. handoff' \in BOOLEAN /\ correcting' \in BOOLEAN /\ verified' \in BOOLEAN BY <1>2 DEF Names
<1>10. QED BY <1>1, <1>2, <1>3, <1>4, <1>5, <1>6, <1>7, <1>8, <1>9, ApproachStands

(* Once the corridor is proved, no correction is under way or begins. *)
LEMMA CommittedTurn ==
  ASSUME IInv, NEW z, NEW g, NEW imu, Drives(z, g, imu), handoff'
  PROVE  ~correcting /\ ~correcting' /\ guideSince' = Never
<1> USE DEF IInv
<1>1. ~correcting
  <2>1. CASE handoff BY <2>1 DEF Committed
  <2>2. CASE ~handoff BY <2>2 DEF Drives, Entry
  <2>3. QED BY <2>1, <2>2
<1>2. ~correcting'
  <2>1. CASE z = "block" BY <1>1, <2>1 DEF Drives, turning
  <2>2. CASE z # "block"
    <3>1. Corrects(z) BY <2>2 DEF Drives
    <3>2. correcting' \in {FALSE, Steers(z)} BY <1>1, <3>1 DEF Corrects
    <3>3. Steers(z) = FALSE BY DEF Steers
    <3>4. QED BY <3>2, <3>3
  <2>3. QED BY <2>1, <2>2
<1>3. guideSince' = Never
  <2>1. CASE handoff BY <2>1 DEF Drives, Entry, Committed
  <2>2. CASE ~handoff BY <2>2 DEF Drives, Entry
  <2>3. QED BY <2>1, <2>2
<1>4. QED BY <1>1, <1>2, <1>3

(* A correction counts the turns in which the heading has settled. *)
LEMMA CorrectsCounts ==
  ASSUME Limits, Numbers, Names, NEW z, Corrects(z)
  PROVE  /\ correcting' \in BOOLEAN /\ settled' \in Nat
         /\ correcting' => settled' = 0 \/ (correcting /\ settled' <= settled + 1)
         /\ taken' = "settled" => correcting /\ settled + 1 >= Cycles
         /\ taken' # "settled" => Takes(FALSE)
<1>1. CASE ~correcting
  <2>1. correcting' \in BOOLEAN /\ settled' = 0 BY <1>1 DEF Corrects, Steers
  <2>2. taken' # "settled" BY <1>1 DEF Corrects, Takes
  <2>3. Takes(FALSE) BY <1>1 DEF Corrects
  <2>4. QED BY <2>1, <2>2, <2>3
<1>2. CASE correcting
  <2>1. PICK ok \in {FALSE, Steers(z)} :
          LET n == IF ok THEN settled + 1 ELSE 0
          IN  /\ correcting' = (n < Cycles) /\ settled' = IF n < Cycles THEN n ELSE 0
              /\ Takes(n >= Cycles)
    BY <1>2 DEF Corrects
  <2> DEFINE n == IF ok THEN settled + 1 ELSE 0
  <2>2. n = settled + 1 \/ n = 0 OBVIOUS
  <2>3. correcting' = (n < Cycles) /\ settled' = (IF n < Cycles THEN n ELSE 0) /\ Takes(n >= Cycles)
    BY <2>1
  <2> HIDE DEF n
  <2>4. settled \in Nat /\ Cycles \in Nat /\ Cycles > 0 BY DEF Numbers, Limits
  <2>5. n \in Nat /\ n <= settled + 1 BY <2>2, <2>4
  <2>6. correcting' \in BOOLEAN BY <2>3
  <2>7. settled' \in Nat /\ settled' <= settled + 1 BY <2>3, <2>4, <2>5
  <2>8. taken' = "settled" => n >= Cycles BY <2>3 DEF Takes
  <2>9. n >= Cycles => settled + 1 >= Cycles BY <2>4, <2>5
  <2>10. taken' # "settled" => Takes(FALSE) BY <2>3 DEF Takes
  <2>11. QED BY <1>2, <2>6, <2>7, <2>8, <2>9, <2>10
<1>3. QED BY <1>1, <1>2 DEF Names

(* A turn that drives or corrects the heading: straight back once the     *)
(* corridor is proved, backwards or steering before only with a reference *)
(* of the plane.                                                          *)
LEMMA DrivesKeeps ==
  ASSUME Limits, IInv, NEW z, NEW g, NEW imu, Turn, count' = 0, UNCHANGED waits,
         SeesPlane(z), Drives(z, g, imu)
  PROVE  IInv'
<1> USE DEF IInv
<1>1. elapsed' = elapsed + 1 /\ result' \in {"running", "failed"} /\ planeSince' = Never
  BY DEF Drives, Pauses, Fails, Goes, Turn
<1>2. UNCHANGED <<used, began>> BY DEF waits
<1>3. handoff' \in BOOLEAN /\ verified' \in BOOLEAN BY DEF Drives, Entry, Names
<1>4. anchor' \in BOOLEAN /\ anchor' BY EntryAnchored, SeenPlane DEF Drives
<1>5. /\ correcting' \in BOOLEAN /\ settled' \in Nat
      /\ correcting' => settled' = 0 \/ (correcting /\ settled' <= settled + 1)
  <2>1. CASE z = "block"
    <3>1. correcting' = correcting /\ settled' = settled BY <2>1 DEF Drives, turning
    <3>2. settled' \in Nat /\ settled' <= settled + 1 BY <3>1 DEF Numbers
    <3>3. QED BY <3>1, <3>2 DEF Names
  <2>2. CASE z # "block"
    <3>1. Corrects(z) BY <2>2 DEF Drives
    <3>2. QED BY <3>1, CorrectsCounts
  <2>3. QED BY <2>1, <2>2
<1>6. handoff' => ~correcting' /\ guideSince' = Never BY CommittedTurn
<1>7. PICK c \in Command : /\ Publish(c)
                           /\ c \in {"back", "steer"} => ~correcting'
                           /\ c \in {"turn", "steer"} => ~handoff'
  <2>1. CASE z = "block" \/ (correcting' /\ Steers(z) /\ ~imu)
    <3>1. Publish("zero") BY <2>1 DEF Drives, Pauses, Fails, Goes
    <3>2. QED BY <3>1 DEF Command
  <2>2. CASE ~(z = "block" \/ (correcting' /\ Steers(z) /\ ~imu))
    <3>1. PICK c \in Moves(z) : Publish(c) BY <2>2 DEF Drives, Goes
    <3>2. QED BY <3>1 DEF Moves, Steers, Command
  <2>3. QED BY <2>1, <2>2
<1>8. command' = c BY <1>7 DEF Publish
<1>9. Committed' BY <1>1, <1>6, <1>7, <1>8 DEF Committed, Command
<1>10. CASE c \in {"zero", "turn"}
  BY <1>1, <1>2, <1>3, <1>4, <1>5, <1>7, <1>9, <1>10, ApproachStands
<1>11. CASE c \in {"back", "steer"}
  <2>1. ~correcting' /\ stood' = 0 BY <1>7, <1>11 DEF Publish
  <2>2. PlaneStands' /\ TurnStands' BY <1>1, <2>1 DEF PlaneStands, TurnStands
  <2>3. CountStands' BY <2>1 DEF CountStands, Smaller, Limits
  <2>4. Numbers'
    <3>1. stood' \in 0 .. MaxStood BY <2>1 DEF Limits
    <3>2. QED BY <1>1, <1>2, <1>5, <3>1 DEF Numbers, Never
  <2>5. Names' BY <1>1, <1>3, <1>4, <1>5, <1>8 DEF Names, Result
  <2>6. FirstWaitIsClean' /\ Anchored' BY <1>1, <1>4 DEF FirstWaitIsClean, Anchored
  <2>7. WaitsAreBudgeted' BY <1>1, <1>2 DEF WaitsAreBudgeted
  <2>8. QED BY <1>9, <2>2, <2>3, <2>4, <2>5, <2>6, <2>7
<1>12. QED BY <1>10, <1>11 DEF Command

(* A turn of a new scan before the target, whichever way it goes. *)
LEMMA ApproachKeeps == ASSUME Limits, IInv, Approach PROVE IInv'
<1>1. Turn /\ count' = 0 /\ UNCHANGED waits BY DEF Approach, Observe
<1>2. PICK z \in Zone, g \in Guide, imu \in BOOLEAN :
        /\ SeesPlane(z)
        /\ \/ WaitsForPlane(z, g, imu) \/ WaitsForGuide(z, g, imu)
           \/ NotCentered(z, g, imu) \/ Drives(z, g, imu)
  BY DEF Approach
<1>3. CASE WaitsForPlane(z, g, imu) BY <1>1, <1>2, <1>3, WaitsForPlaneKeeps
<1>4. CASE WaitsForGuide(z, g, imu) BY <1>1, <1>2, <1>4, WaitsForGuideKeeps
<1>5. CASE NotCentered(z, g, imu) BY <1>1, <1>2, <1>5, NotCenteredKeeps
<1>6. CASE Drives(z, g, imu) BY <1>1, <1>2, <1>6, DrivesKeeps
<1>7. QED BY <1>2, <1>3, <1>4, <1>5, <1>6

-----------------------------------------------------------------------------
(* Every turn of backup_with_lidar keeps the invariant. *)
THEOREM StepIInv == ASSUME Limits PROVE IInv /\ [BackupNext]_backupVars => IInv'
<1> SUFFICES ASSUME IInv, [BackupNext]_backupVars PROVE IInv'
  OBVIOUS
<1>1. CASE FeedbackLost BY <1>1, FeedbackLostKeeps
<1>2. CASE WaitForFeedback BY <1>2, WaitForFeedbackKeeps
<1>3. CASE GivesUp \/ TimedOut BY <1>3, EndingKeeps
<1>4. CASE NoScan BY <1>4, NoScanKeeps
<1>5. CASE SameScan BY <1>5, SameScanKeeps
<1>6. CASE AtTarget BY <1>6, AtTargetKeeps
<1>7. CASE Approach BY <1>7, ApproachKeeps
<1>8. CASE UNCHANGED backupVars
  <2>1. UNCHANGED <<elapsed, result, command, count, correcting, settled, anchor, verified, handoff>>
    BY <1>8 DEF backupVars, heading, turning, corridor
  <2>2. UNCHANGED <<planeSince, guideSince, used, began, stood>>
    BY <1>8 DEF backupVars, pauses, waits
  <2>3. Numbers' /\ Names' BY <2>1, <2>2 DEF IInv, Numbers, Names
  <2>4. Committed' /\ FirstWaitIsClean' /\ Anchored'
    BY <2>1, <2>2 DEF IInv, Committed, FirstWaitIsClean, Anchored, Stands
  <2>5. PlaneStands' /\ TurnStands' /\ CountStands'
    BY <2>1, <2>2 DEF IInv, PlaneStands, TurnStands, CountStands, Stands
  <2>6. WaitsAreBudgeted' BY <2>1, <2>2 DEF IInv, WaitsAreBudgeted
  <2>7. QED BY <2>3, <2>4, <2>5, <2>6 DEF IInv
<1>9. QED BY <1>1, <1>2, <1>3, <1>4, <1>5, <1>6, <1>7, <1>8 DEF BackupNext

(* The invariant holds in every state of the step, whatever its limits *)
(* and counts.                                                         *)
THEOREM AlwaysIInv == BackupSpec => []IInv
<1>1. BackupInit => IInv BY InitIInv, LimitsAssumption
<1>2. IInv /\ [BackupNext]_backupVars => IInv' BY StepIInv, LimitsAssumption
<1>3. QED BY <1>1, <1>2, PTL DEF BackupSpec

(* From the proof of the corridor on the robot goes straight or stands,    *)
(* however many cycles, observations and waits the code is set to.         *)
THEOREM GoesStraight == BackupSpec => []CommittedGoesStraight
<1>1. IInv => CommittedGoesStraight BY DEF IInv, Committed, CommittedGoesStraight
<1>2. BackupSpec => []IInv BY AlwaysIInv
<1>3. QED BY <1>1, <1>2, PTL

(* The waits for feedback in a proved corridor stay within their common    *)
(* budget and within the time of the step, for every budget.               *)
THEOREM Budgeted == BackupSpec => []WaitsAreBudgeted
<1>1. IInv => WaitsAreBudgeted BY DEF IInv
<1>2. BackupSpec => []IInv BY AlwaysIInv
<1>3. QED BY <1>1, <1>2, PTL

-----------------------------------------------------------------------------
(* What a step decides about a standing robot *)

Decisions ==
  /\ taken' = "first" => stood = MaxStood
  /\ taken' = "recovered" => stood >= Standing
  /\ taken' = "settled" => stood >= Cycles
  /\ result' = "done" => stood >= StableScans - 1

(* A turn that takes its reference from the look at the plane. *)
LEMMA LookDecides ==
  ASSUME Limits, IInv, NEW z, SeesPlane(z), Takes(FALSE), result' # "done"
  PROVE  Decisions
<1> USE DEF IInv
<1>1. taken' # "settled" BY DEF Takes
<1>2. taken' = "first" => stood = MaxStood
  <2>1. taken' = "first" => anchor' # anchor BY DEF Takes
  <2>2. anchor' # anchor => ~anchor BY SeenPlane DEF Names
  <2>3. QED BY <2>1, <2>2 DEF Anchored
<1>3. taken' = "recovered" => stood >= Standing
  <2> SUFFICES ASSUME taken' = "recovered" PROVE stood >= Standing
    OBVIOUS
  <2>1. recovered' # recovered BY DEF Takes
  <2>2. planeSince # Never /\ elapsed - planeSince >= Standing BY <2>1, SeenPlane DEF MayRecover
  <2>3. stood >= Smaller(elapsed - planeSince, MaxStood - 1) BY <2>2 DEF PlaneStands
  <2>4. elapsed \in Int /\ planeSince \in Int /\ stood \in Int BY DEF Numbers, Limits
  <2>5. Standing \in Nat /\ MaxStood \in Nat /\ Standing < MaxStood BY DEF Limits
  <2>6. QED BY <2>2, <2>3, <2>4, <2>5 DEF Smaller
<1>4. QED BY <1>1, <1>2, <1>3 DEF Decisions

(* Only a turn of a new scan before the target takes a reference, and it *)
(* does so of a robot that has stood.                                    *)
LEMMA ApproachDecides == ASSUME Limits, IInv, Approach PROVE Decisions
<1> USE DEF IInv
<1>1. PICK z \in Zone, g \in Guide, imu \in BOOLEAN :
        /\ SeesPlane(z)
        /\ \/ WaitsForPlane(z, g, imu) \/ WaitsForGuide(z, g, imu)
           \/ NotCentered(z, g, imu) \/ Drives(z, g, imu)
  BY DEF Approach
<1>2. result' # "done" BY <1>1 DEF Approach, Turn, WaitsForPlane, WaitsForGuide, NotCentered,
                                  Drives, Pauses, Goes, Fails
<1>3. CASE ~Drives(z, g, imu)
  <2>1. Takes(FALSE) BY <1>1, <1>3 DEF WaitsForPlane, WaitsForGuide, NotCentered
  <2>2. QED BY <1>1, <1>2, <2>1, LookDecides
<1>4. CASE Drives(z, g, imu) /\ z = "block"
  <2>1. Takes(FALSE) BY <1>4 DEF Drives
  <2>2. QED BY <1>1, <1>2, <2>1, LookDecides
<1>5. CASE Drives(z, g, imu) /\ z # "block"
  <2>1. Corrects(z) BY <1>5 DEF Drives
  <2>2. taken' # "settled" => Takes(FALSE) BY <2>1, CorrectsCounts
  <2>3. CASE taken' = "settled"
    <3>1. correcting /\ settled + 1 >= Cycles BY <2>1, <2>3, CorrectsCounts
    <3>2. stood >= Smaller(settled + 1, MaxStood - 1) BY <3>1 DEF TurnStands
    <3>3. settled \in Nat /\ stood \in Int BY DEF Numbers, Limits
    <3>4. Cycles \in Nat /\ MaxStood \in Nat /\ Cycles < MaxStood BY DEF Limits
    <3>5. settled + 1 >= Cycles BY <3>1
    <3>6. stood >= Cycles BY <3>2, <3>3, <3>4, <3>5 DEF Smaller
    <3>7. QED BY <1>2, <2>3, <3>6 DEF Decisions
  <2>4. CASE taken' # "settled"
    <3>1. Takes(FALSE) BY <2>2, <2>4
    <3>2. QED BY <1>1, <1>2, <3>1, LookDecides
  <2>5. QED BY <2>3, <2>4
<1>6. QED BY <1>3, <1>4, <1>5

(* Every turn decides what needs a standing robot of one that has stood. *)
LEMMA StepDecides == ASSUME Limits, IInv, BackupNext PROVE Decisions
<1>1. CASE FeedbackLost BY <1>1 DEF FeedbackLost, Fails, Decisions
<1>2. CASE WaitForFeedback BY <1>2 DEF WaitForFeedback, Fails, Decisions
<1>3. CASE GivesUp \/ TimedOut BY <1>3 DEF GivesUp, TimedOut, Fails, Decisions
<1>4. CASE NoScan BY <1>4 DEF NoScan, Turn, Goes, Fails, Decisions
<1>5. CASE SameScan BY <1>5 DEF SameScan, Turn, Goes, Decisions
<1>6. CASE AtTarget
  <2>1. taken' = "no" BY <1>6 DEF AtTarget
  <2>2. result' = "done" => stood >= StableScans - 1
    <3> SUFFICES ASSUME result' = "done" PROVE stood >= StableScans - 1
      OBVIOUS
    <3>1. count' >= StableScans BY <1>6 DEF AtTarget, Turn, Goes
    <3>2. count' = 0 \/ count' = count + 1 BY <1>6 DEF AtTarget, Observe
    <3>3. stood >= Smaller(count, MaxStood - 1) BY DEF IInv, CountStands
    <3>4. count \in Nat /\ stood \in Int /\ stood >= 0 BY DEF IInv, Numbers, Limits
    <3>5. StableScans \in Nat /\ MaxStood \in Nat /\ StableScans <= MaxStood BY DEF Limits
    <3>6. StableScans <= count + 1 BY <3>1, <3>2, <3>4, <3>5
    <3>7. QED BY <3>3, <3>4, <3>5, <3>6 DEF Smaller
  <2>3. QED BY <2>1, <2>2 DEF Decisions
<1>7. CASE Approach BY <1>7, ApproachDecides
<1>8. QED BY <1>1, <1>2, <1>3, <1>4, <1>5, <1>6, <1>7 DEF BackupNext

(* Whatever the counts are set to: a reference of the plane, a corrected   *)
(* heading and success are decided about a robot that stood long enough.   *)
THEOREM DecidesStanding == BackupSpec => DecidedStanding
<1>1. IInv /\ [BackupNext]_backupVars => [Decisions]_backupVars
  <2> SUFFICES ASSUME IInv, [BackupNext]_backupVars PROVE [Decisions]_backupVars
    OBVIOUS
  <2>1. CASE BackupNext BY <2>1, StepDecides, LimitsAssumption
  <2>2. CASE UNCHANGED backupVars BY <2>2
  <2>3. QED BY <2>1, <2>2
<1>2. BackupSpec => []IInv BY AlwaysIInv
<1>3. QED BY <1>1, <1>2, PTL DEF BackupSpec, DecidedStanding, Decisions
=============================================================================
