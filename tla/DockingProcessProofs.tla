------------------------ MODULE DockingProcessProofs ------------------------
(***************************************************************************)
(* Proofs about the docking program: the four invariants its run checks,   *)
(* for any set of helpers, any of which may drive, in both modes and for   *)
(* any number of steps that raise.                                         *)
(*                                                                         *)
(* The inductive invariant DockInv says what is settled at which step of   *)
(* the clean-up: after the cancel nothing unconfirmed is left on, after    *)
(* the kill no helper that has a leader lives, and each of the two stops   *)
(* behind the kill either works or costs an error.                         *)
(***************************************************************************)
EXTENDS DockingProcess, TLAPS

PhaseNames == {"existing", "start", "wait", "approach", "spin", "backup", "verify"}

(* Step n of the clean-up is done; a run that exited has done them all, or *)
(* never had a node to clean up after.                                     *)
After(n) == pc = "exited" \/ (pc = "cleanup" /\ step >= n)

(* Before there is a node nothing was started, driven or switched.         *)
NothingYet ==
  pc = "boot" => /\ velocity = "zero" /\ output = "none" /\ code # "SUCCESS"
                 /\ \A h \in Managed : member[h] = "none"

(* A velocity after the request used up the guard that let it through.     *)
Prompt ==
  /\ extra <= 1
  /\ extra > 0 => Requested /\ ~(pc \in Moving /\ step = 1)

(* Only what was launched lives. *)
Launched == \A h \in Managed : member[h] = "up" => leader[h] # "none"

(* The kill spares only members whose leader had gone before. *)
Ended == After(7) /\ ~orphaned => \A h \in Managed : member[h] # "up"

(* A stop after the kill works or costs an error, and then nothing drives. *)
Halted ==
  ~orphaned =>
    /\ After(8) => velocity = "zero" \/ ("stop" \in raised /\ faults >= 1)
    /\ After(9) => velocity = "zero" \/ faults >= 2

(* The charger command follows what was sent and what was confirmed.       *)
Verdict ==
  /\ output = "on" => sent
  /\ output = "off" => After(2) /\ ~confirmed
  /\ After(2) /\ "cancel" \notin raised /\ output = "on" => confirmed

(* Success is decided on the way out, and given only for a clean clean-up. *)
Truthful ==
  code = "SUCCESS" => /\ After(0) /\ (confirmed \/ Development)
                      /\ pc = "exited" => raised = {}

DockInv ==
  /\ TypeOK /\ NothingYet /\ Prompt /\ Launched
  /\ Ended /\ Halted /\ Verdict /\ Truthful

-----------------------------------------------------------------------------
(* Lemmas about the program's tables *)

(* The phases of run() in the order of the table, by name. *)
LEMMA PhasesByName ==
  /\ {Phases[i] : i \in DOMAIN Phases} = PhaseNames
  /\ DOMAIN Phases = 1 .. 7 /\ Phases[7] = "verify"
  /\ \A i \in 1 .. 7 : Phases[i] \in PhaseNames
<1>1. DOMAIN Phases = 1 .. 7
  BY DEF Phases
<1>2. /\ Phases[1] = "existing" /\ Phases[2] = "start" /\ Phases[3] = "wait"
      /\ Phases[4] = "approach" /\ Phases[5] = "spin" /\ Phases[6] = "backup"
      /\ Phases[7] = "verify"
  BY DEF Phases
<1>3. \A i \in 1 .. 7 : i = 1 \/ i = 2 \/ i = 3 \/ i = 4 \/ i = 5 \/ i = 6 \/ i = 7
  BY SMT
<1>4. \A i \in 1 .. 7 : Phases[i] \in PhaseNames
  BY <1>2, <1>3 DEF PhaseNames
<1>5. \A p \in PhaseNames : \E i \in 1 .. 7 : Phases[i] = p
  BY <1>2 DEF PhaseNames
<1> QED
  BY <1>1, <1>2, <1>4, <1>5

(* Behind every phase but the last one comes another phase. *)
LEMMA NextPhaseIsPhase ==
  ASSUME NEW p \in PhaseNames, p # "verify"
  PROVE  NextPhase(p) \in PhaseNames
<1> DEFINE place == CHOOSE i \in DOMAIN Phases : Phases[i] = p
<1>1. \E i \in DOMAIN Phases : Phases[i] = p
  BY PhasesByName
<1>2. place \in DOMAIN Phases /\ Phases[place] = p
  BY <1>1
<1>3. NextPhase(p) = Phases[place + 1]
  BY DEF NextPhase
<1> HIDE DEF place
<1>4. place \in 1 .. 7 /\ place # 7
  BY <1>2, PhasesByName
<1>5. place + 1 \in 1 .. 7
  BY <1>4
<1> QED
  BY <1>3, <1>5, PhasesByName

(* The clean-up of cleanup_managed_processes, step by step. *)
LEMMA CleanupSteps ==
  /\ Len(Cleanup) = 9
  /\ Cleanup[1] = "stop" /\ Cleanup[2] = "cancel" /\ Cleanup[3] = "stop"
  /\ Cleanup[4] = "interrupt" /\ Cleanup[5] = "terminate" /\ Cleanup[6] = "stop"
  /\ Cleanup[7] = "kill" /\ Cleanup[8] = "stop" /\ Cleanup[9] = "stop"
BY DEF Cleanup

(* Where the clean-up stands when it takes a step of the given kind. *)
LEMMA CleanupPlaces ==
  ASSUME step \in 0 .. 9
  PROVE  /\ At("stop") => step \in {0, 2, 5, 7, 8}
         /\ At("cancel") => step = 1
         /\ At("interrupt") \/ At("terminate") => step \in {3, 4}
         /\ At("kill") => step = 6
         /\ \A name : At(name) => pc = "cleanup" /\ step + 1 \in 1 .. 9
<1>1. \A name : At(name) => /\ pc = "cleanup" /\ step < 9
                            /\ Cleanup[step + 1] = name
  BY CleanupSteps DEF At
<1>2. step < 9 => \/ step = 0 \/ step = 1 \/ step = 2 \/ step = 3 \/ step = 4
                  \/ step = 5 \/ step = 6 \/ step = 7 \/ step = 8
  OBVIOUS
<1>3. CASE step < 9
  BY <1>1, <1>2, <1>3, CleanupSteps
<1>4. CASE ~(step < 9)
  BY <1>1, <1>4
<1> QED
  BY <1>3, <1>4

(* The exit codes; no phase fails with the code of a success. *)
LEMMA FailureCodes ==
  ASSUME signal \in {"none", "SIGINT", "SIGTERM", "SIGHUP"},
         NEW p \in PhaseNames, NEW late \in BOOLEAN
  PROVE  FailureCode(p, late) \in Codes \ {"SUCCESS"}
<1>1. {Default(Phases[i]) : i \in DOMAIN Phases} = {Default(q) : q \in PhaseNames}
  BY PhasesByName
<1>2. Default(p) \in Codes
  BY <1>1 DEF Codes
<1>3. Default(p) # "SUCCESS"
  BY DEF Default, PhaseNames, Moving
<1> QED
  BY <1>2, <1>3 DEF FailureCode, Codes

-----------------------------------------------------------------------------
(* Types *)

USE ConfigurationAssumption

(* Every step keeps the types; a phase that leaves does so with a code the *)
(* README lists.                                                           *)
LEMMA TypesKept ==
  ASSUME TypeOK, [Next]_vars
  PROVE  TypeOK'
<1> DEFINE Names == {"boot", "cleanup", "exited"} \cup PhaseNames
           Typed == /\ pc \in Names /\ step \in 0 .. 9
                    /\ signal \in {"none", "SIGINT", "SIGTERM", "SIGHUP"}
                    /\ expired \in BOOLEAN /\ timedOut \in BOOLEAN /\ code \in Codes
                    /\ raised \subseteq {"stop", "cancel"} /\ orphaned \in BOOLEAN
                    /\ faults \in 0 .. MaxFault
                    /\ leader \in [Managed -> {"none", "up", "gone"}]
                    /\ member \in [Managed -> {"none", "up", "gone"}]
                    /\ velocity \in {"zero", "moving"} /\ output \in {"none", "on", "off"}
                    /\ sent \in BOOLEAN /\ confirmed \in BOOLEAN
                    /\ extra \in Nat
<1>1. Typed /\ (Typed' => TypeOK')
  BY PhasesByName, CleanupSteps DEF TypeOK
<1>2. "SUCCESS" \in Codes /\ "INTERNAL_ERROR" \in Codes
  BY DEF Codes
<1>3. CASE UNCHANGED vars
  BY <1>1, <1>3 DEF vars
<1>4. CASE Program
  <2>1. CASE Boot
    <3>1. pc' \in Names /\ step' \in 0 .. 9 /\ code' = code
      BY <1>1, <2>1 DEF Boot, Enter, PhaseNames
    <3>2. raised' = raised /\ faults' \in 0 .. MaxFault
      BY <1>1, <2>1 DEF Boot, errors
    <3>3. UNCHANGED <<requests, helpers, velocity, charger, extra>>
      BY <2>1 DEF Boot
    <3> QED
      BY <1>1, <3>1, <3>2, <3>3 DEF requests, helpers, charger
  <2>2. CASE Launch
    BY <1>1, <2>2 DEF Launch, errors, requests, charger
  <2>3. CASE CommandOn
    BY <1>1, <2>3 DEF CommandOn, errors, requests, helpers
  <2>4. CASE AlreadyCharging
    BY <1>1, <1>2, <2>4 DEF AlreadyCharging, Leave, errors, requests, helpers
  <2>5. ASSUME NEW p \in PhaseNames, Running(p)
        PROVE  TypeOK'
    <3>1. CASE GuardPhase(p)
      <4>1. timedOut' \in BOOLEAN /\ velocity' \in {"zero", "moving"}
            /\ UNCHANGED <<signal, expired, errors, helpers, charger, extra>>
        BY <1>1, <3>1 DEF GuardPhase, Leave, EndMotion
      <4>2. pc' \in Names /\ step' \in 0 .. 9 /\ code' \in Codes
        BY <1>1, <3>1, <4>1, FailureCodes DEF GuardPhase, Leave
      <4> QED
        BY <1>1, <4>1, <4>2 DEF errors, helpers, charger
    <3>2. CASE PhaseFails(p)
      <4>1. pc' = "cleanup" /\ step' = 0 /\ code' \in Codes
        BY <1>1, <1>2, <3>2, FailureCodes DEF PhaseFails, Leave
      <4>2. velocity' \in {"zero", "moving"} /\ faults' \in 0 .. MaxFault
        BY <1>1, <3>2 DEF PhaseFails, EndMotion
      <4>3. UNCHANGED <<requests, raised, helpers, charger, extra>>
        BY <3>2 DEF PhaseFails
      <4> QED
        BY <1>1, <4>1, <4>2, <4>3 DEF requests, helpers, charger
    <3>3. CASE Move(p)
      BY <1>1, <3>3 DEF Move, errors, requests, helpers, charger
    <3>4. CASE Wait(p)
      BY <1>1, <3>4 DEF Wait, errors, requests, helpers, charger
    <3>5. CASE Succeed(p)
      <4>1. pc' \in Names /\ step' = 0 /\ code' \in Codes
        BY <1>1, <1>2, <3>5, NextPhaseIsPhase DEF Succeed, Leave, Enter
      <4>2. velocity' \in {"zero", "moving"} /\ confirmed' \in BOOLEAN
        BY <1>1, <3>5 DEF Succeed, EndMotion
      <4>3. UNCHANGED <<requests, errors, helpers, output, sent, extra>>
        BY <3>5 DEF Succeed
      <4> QED
        BY <1>1, <4>1, <4>2, <4>3 DEF requests, errors, helpers
    <3> QED
      BY <2>5, <3>1, <3>2, <3>3, <3>4, <3>5 DEF Running
  <2>6. CASE StopRobot
    <3>1. step' \in 0 .. 9 /\ pc' = pc /\ velocity' \in {"zero", "moving"}
      BY <1>1, <2>6, CleanupPlaces DEF StopRobot
    <3>2. /\ raised' = raised \/ raised' = raised \cup {"stop"}
          /\ faults' \in 0 .. MaxFault
      BY <1>1, <2>6 DEF StopRobot, Raise, Works
    <3>kinds. raised' \subseteq {"stop", "cancel"}
      BY <1>1, <3>2, Zenon
    <3>3. UNCHANGED <<requests, code, helpers, charger, extra>>
      BY <2>6 DEF StopRobot
    <3> QED
      BY <1>1, <3>1, <3>2, <3>kinds, <3>3 DEF requests, helpers, charger
  <2>7. CASE Cancel
    <3>1. step' \in 0 .. 9 /\ pc' = pc
      BY <1>1, <2>7, CleanupPlaces DEF Cancel
    <3>2. /\ raised' = raised \/ raised' = raised \cup {"cancel"}
          /\ faults' \in 0 .. MaxFault
      BY <1>1, <2>7 DEF Cancel, Raise, Works
    <3>kinds. raised' \subseteq {"stop", "cancel"}
      BY <1>1, <3>2, Zenon
    <3>3. output' \in {"none", "on", "off"}
      BY <1>1, <2>7 DEF Cancel
    <3>4. UNCHANGED <<requests, code, helpers, velocity, sent, confirmed, extra>>
      BY <2>7 DEF Cancel
    <3> QED
      BY <1>1, <3>1, <3>2, <3>kinds, <3>3, <3>4 DEF requests, helpers
  <2>8. CASE AskHelpers
    BY <1>1, <2>8, CleanupPlaces
       DEF AskHelpers, requests, errors, helpers, charger
  <2>9. CASE Kill
    BY <1>1, <2>9, CleanupPlaces DEF Kill, requests, errors, charger
  <2>10. CASE Exit
    BY <1>1, <1>2, <2>10 DEF Exit, requests, errors, helpers, charger
  <2>11. (\E p \in {Phases[i] : i \in DOMAIN Phases} : Running(p))
            => \E p \in PhaseNames : Running(p)
    BY PhasesByName
  <2> QED
    BY <1>4, <2>1, <2>2, <2>3, <2>4, <2>5, <2>6, <2>7, <2>8, <2>9, <2>10, <2>11
       DEF Program
<1>5. CASE Environment
  <2>1. CASE \E s \in {"SIGINT", "SIGTERM", "SIGHUP"} : Signal(s)
    BY <1>1, <2>1 DEF Signal, errors, helpers, charger
  <2>2. CASE Expire \/ HelperDrives
    BY <1>1, <2>2 DEF Expire, HelperDrives, requests, errors, helpers, charger
  <2>3. CASE \E h \in Managed : LeaderEnds(h) \/ MemberEnds(h)
    BY <1>1, <2>3 DEF LeaderEnds, MemberEnds, requests, errors, charger
  <2> QED
    BY <1>5, <2>1, <2>2, <2>3 DEF Environment
<1> QED
  BY <1>3, <1>4, <1>5 DEF Next

-----------------------------------------------------------------------------
(* What a step of each kind may do *)

(* A turn of a phase: it leaves, with success only when that is deserved,  *)
(* or goes on; only a passed guard makes the next step an act, and only a  *)
(* motion that acts may drive after the request.                           *)
LEMMA PhaseTurn ==
  ASSUME TypeOK, NEW p \in PhaseNames, Running(p)
  PROVE  /\ pc = p
         /\ UNCHANGED <<signal, expired, raised, helpers, output, sent>>
         /\ \/ /\ pc' = "cleanup" /\ step' = 0
               /\ code' = "SUCCESS" => confirmed' \/ Development
            \/ pc' \in PhaseNames /\ step' = 0 /\ code' = code
            \/ pc' = p /\ step' = 1 /\ ~Requested /\ code' = code
         /\ \/ extra' = extra
            \/ step = 1 /\ pc' = p /\ step' = 0 /\ p \in Moving /\ Requested /\ extra' = extra + 1
<1>1. CASE GuardPhase(p)
  <2>1. timedOut' \in BOOLEAN
    BY <1>1 DEF GuardPhase, TypeOK
  <2>2. FailureCode(p, timedOut') # "SUCCESS"
    BY <2>1, FailureCodes DEF TypeOK
  <2> QED
    BY <1>1, <2>2 DEF GuardPhase, Leave, errors, helpers, charger
<1>2. CASE PhaseFails(p)
  <2>1. FailureCode(p, timedOut) # "SUCCESS"
    BY FailureCodes DEF TypeOK
  <2> QED
    BY <1>2, <2>1 DEF PhaseFails, Leave, requests, helpers, charger
<1>3. CASE Move(p)
  BY <1>3 DEF Move, requests, errors, helpers, charger
<1>4. CASE Wait(p)
  BY <1>4 DEF Wait, requests, errors, helpers, charger
<1>5. CASE Succeed(p)
  <2>1. p # "verify" => NextPhase(p) \in PhaseNames
    BY NextPhaseIsPhase
  <2>2. pc = p /\ extra' = extra
        /\ UNCHANGED <<signal, expired, raised, helpers, output, sent>>
    BY <1>5 DEF Succeed, requests, errors
  <2>3. CASE p = "verify"
    BY <1>5, <2>2, <2>3 DEF Succeed, Leave
  <2>4. CASE p # "verify"
    BY <1>5, <2>1, <2>2, <2>4 DEF Succeed, Leave, Enter
  <2> QED
    BY <2>3, <2>4
<1> QED
  BY <1>1, <1>2, <1>3, <1>4, <1>5 DEF Running

(* The steps that a phase has beside its turn. *)
LEMMA PhaseActs ==
  ASSUME TypeOK, Launch \/ CommandOn \/ AlreadyCharging
  PROVE  /\ pc \in PhaseNames \ Moving
         /\ UNCHANGED <<signal, expired, raised, orphaned, extra>>
         /\ \/ pc' = pc /\ step' = 0 /\ code' = code
            \/ pc' = "cleanup" /\ step' = 0 /\ confirmed'
BY DEF Launch, CommandOn, AlreadyCharging, Leave, PhaseNames, Moving,
       requests, errors, helpers, charger

(* The way out only advances; it starts nothing and drives nothing. *)
LEMMA CleanupTurn ==
  ASSUME TypeOK, StopRobot \/ Cancel \/ AskHelpers \/ Kill \/ Exit
  PROVE  /\ pc = "cleanup"
         /\ \/ pc' = "cleanup" /\ step' = step + 1 /\ code' = code /\ step <= 8
            \/ Exit
         /\ UNCHANGED <<signal, expired, sent, confirmed, extra>>
<1>1. step \in 0 .. 9
  BY CleanupSteps DEF TypeOK
<1>2. \A name : At(name) => pc = "cleanup" /\ step <= 8
  BY <1>1, CleanupPlaces
<1>3. CASE StopRobot
  BY <1>2, <1>3 DEF StopRobot, requests, charger
<1>4. CASE Cancel
  BY <1>2, <1>4 DEF Cancel, requests
<1>5. CASE AskHelpers
  BY <1>2, <1>5 DEF AskHelpers, requests, charger
<1>6. CASE Kill
  BY <1>2, <1>6 DEF Kill, requests, charger
<1>7. CASE Exit
  BY <1>7 DEF Exit, requests, charger
<1> QED
  BY <1>3, <1>4, <1>5, <1>6, <1>7

(* The disjuncts of Program, in the three kinds. *)
LEMMA ProgramSteps ==
  ASSUME Program
  PROVE  \/ Boot
         \/ \E p \in PhaseNames : Running(p)
         \/ Launch \/ CommandOn \/ AlreadyCharging
         \/ StopRobot \/ Cancel \/ AskHelpers \/ Kill \/ Exit
BY PhasesByName DEF Program

-----------------------------------------------------------------------------
(* The parts of the invariant *)

(* A request stays a request, and its last velocity uses its guard up.     *)
LEMMA PromptKept ==
  ASSUME TypeOK, Prompt, [Next]_vars
  PROVE  Prompt'
<1>1. extra \in Nat
  BY DEF TypeOK
<1>2. CASE UNCHANGED vars
  BY <1>2 DEF vars, Prompt, Requested
<1>3. CASE Boot
  BY <1>3 DEF Boot, Enter, Prompt, Requested, Moving, requests
<1>4. ASSUME NEW p \in PhaseNames, Running(p)
      PROVE  Prompt'
  <2>1. Requested' <=> Requested
    BY <1>4, PhaseTurn DEF Requested
  <2>2. CASE extra' = extra
    <3>1. ~(pc' \in Moving /\ step' = 1) \/ ~Requested
      BY <1>4, PhaseTurn DEF Moving
    <3> QED
      BY <2>1, <2>2, <3>1 DEF Prompt
  <2>3. CASE step = 1 /\ pc' = p /\ step' = 0 /\ p \in Moving /\ Requested /\ extra' = extra + 1
    BY <1>1, <1>4, <2>1, <2>3, PhaseTurn DEF Prompt
  <2> QED
    BY <1>4, <2>2, <2>3, PhaseTurn
<1>5. CASE Launch \/ CommandOn \/ AlreadyCharging
  BY <1>5, PhaseActs DEF Prompt, Requested, Moving
<1>6. CASE StopRobot \/ Cancel \/ AskHelpers \/ Kill \/ Exit
  BY <1>6, CleanupTurn DEF Prompt, Requested, Moving, Exit
<1>7. CASE Environment
  BY <1>7 DEF Environment, Signal, Expire, HelperDrives, LeaderEnds, MemberEnds,
              Prompt, Requested, requests
<1> QED
  BY <1>2, <1>3, <1>4, <1>5, <1>6, <1>7, ProgramSteps DEF Next

(* What was switched on is switched off, or confirmed, and never both. *)
LEMMA VerdictKept ==
  ASSUME TypeOK, NothingYet, Verdict, [Next]_vars
  PROVE  Verdict'
<1>1. /\ step \in 0 .. 9 /\ output \in {"none", "on", "off"}
      /\ pc \in {"boot", "cleanup", "exited"} \cup PhaseNames
  BY CleanupSteps, PhasesByName DEF TypeOK
<1>2. CASE UNCHANGED vars
  BY <1>2 DEF vars, Verdict, After
<1>3. CASE Boot
  BY <1>3 DEF Boot, Enter, NothingYet, Verdict, After, charger
<1>4. ASSUME NEW p \in PhaseNames, Running(p)
      PROVE  Verdict'
  <2>1. output # "off"
    BY <1>4, PhaseTurn DEF Verdict, After, PhaseNames
  <2> QED
    BY <1>4, <2>1, PhaseTurn DEF Verdict, After, PhaseNames
<1>5. CASE Launch \/ CommandOn \/ AlreadyCharging
  <2>1. pc \in PhaseNames /\ output # "off"
    BY <1>5, PhaseActs DEF Verdict, After, PhaseNames
  <2>2. (output' = output \/ output' = "on") /\ (output' = "on" => sent')
    <3>1. CASE CommandOn
      BY <3>1 DEF CommandOn
    <3>2. CASE Launch \/ AlreadyCharging
      BY <3>2 DEF Launch, AlreadyCharging, Verdict, charger
    <3> QED
      BY <1>5, <3>1, <3>2
  <2>3. ~After(2)'
    BY <1>5, <2>1, PhaseActs DEF After, PhaseNames
  <2> QED
    BY <2>1, <2>2, <2>3 DEF Verdict
<1>6. CASE Cancel
  <2>1. step = 1 /\ pc = "cleanup" /\ pc' = pc /\ step' = 2
    BY <1>1, <1>6, CleanupPlaces DEF Cancel
  <2>2. output # "off"
    BY <2>1 DEF Verdict, After
  <2>3. UNCHANGED <<sent, confirmed>>
    BY <1>6 DEF Cancel
  <2>4. CASE sent /\ ~confirmed
    BY <1>6, <2>1, <2>2, <2>3, <2>4 DEF Cancel, Raise, Works, Verdict, After
  <2>5. CASE ~(sent /\ ~confirmed)
    BY <1>6, <2>1, <2>2, <2>3, <2>5 DEF Cancel, Works, Verdict, After
  <2> QED
    BY <2>4, <2>5
<1>7. CASE StopRobot \/ AskHelpers \/ Kill \/ Exit
  <2>1. UNCHANGED charger /\ pc = "cleanup"
    BY <1>7, CleanupTurn DEF StopRobot, AskHelpers, Kill, Exit
  <2>2. "cancel" \in raised => "cancel" \in raised'
    BY <1>7 DEF StopRobot, AskHelpers, Kill, Exit, Raise, Works, errors
  <2>3. After(2)' => After(2)
    <3>1. CASE Exit
      BY <3>1, CleanupSteps DEF Exit, After
    <3>2. CASE ~Exit
      <4>1. step # 1
        <5>1. At("stop") \/ At("interrupt") \/ At("terminate") \/ At("kill")
          BY <1>7, <3>2 DEF StopRobot, AskHelpers, Kill
        <5> QED
          BY <1>1, <5>1, CleanupPlaces
      <4> QED
        BY <1>1, <1>7, <3>2, <4>1, CleanupTurn DEF After
    <3> QED
      BY <3>1, <3>2
  <2>4. After(2) => After(2)'
    BY <1>1, <1>7, CleanupTurn DEF Exit, After
  <2> QED
    BY <2>1, <2>2, <2>3, <2>4 DEF Verdict, charger
<1>8. CASE Environment
  BY <1>8 DEF Environment, Signal, Expire, HelperDrives, LeaderEnds, MemberEnds,
              Verdict, After, errors, charger
<1> QED
  BY <1>2, <1>3, <1>4, <1>5, <1>6, <1>7, <1>8, ProgramSteps DEF Next

(* Success is given on the way out and lost to any step that raised.       *)
LEMMA TruthfulKept ==
  ASSUME TypeOK, NothingYet, Truthful, [Next]_vars
  PROVE  Truthful'
<1>1. /\ step \in 0 .. 9
      /\ pc \in {"boot", "cleanup", "exited"} \cup PhaseNames
  BY CleanupSteps, PhasesByName DEF TypeOK
<1>2. CASE UNCHANGED vars
  BY <1>2 DEF vars, Truthful, After
<1>3. CASE Boot
  BY <1>3 DEF Boot, Enter, NothingYet, Truthful
<1>4. ASSUME NEW p \in PhaseNames, Running(p)
      PROVE  Truthful'
  <2>1. code # "SUCCESS"
    BY <1>4, PhaseTurn DEF Truthful, After, PhaseNames
  <2> QED
    BY <1>4, <2>1, PhaseTurn DEF Truthful, After, PhaseNames
<1>5. CASE Launch \/ CommandOn \/ AlreadyCharging
  <2>1. code # "SUCCESS"
    BY <1>5, PhaseActs DEF Truthful, After, PhaseNames
  <2> QED
    BY <1>5, <2>1, PhaseActs DEF Truthful, After
<1>6. CASE Exit
  BY <1>1, <1>6 DEF Exit, Truthful, After, errors, charger
<1>7. CASE StopRobot \/ Cancel \/ AskHelpers \/ Kill
  BY <1>1, <1>6, <1>7, CleanupTurn DEF Truthful, After
<1>8. CASE Environment
  BY <1>8 DEF Environment, Signal, Expire, HelperDrives, LeaderEnds, MemberEnds,
              Truthful, After, errors, charger
<1> QED
  BY <1>2, <1>3, <1>4, <1>5, <1>6, <1>7, <1>8, ProgramSteps DEF Next

(* Members are launched with their leaders, and nothing is before the node *)
(* exists.                                                                 *)
LEMMA LaunchedKept ==
  ASSUME TypeOK, NothingYet, Launched, [Next]_vars
  PROVE  NothingYet' /\ Launched'
<1>1. /\ pc \in {"boot", "cleanup", "exited"} \cup PhaseNames
      /\ leader \in [Managed -> {"none", "up", "gone"}]
      /\ member \in [Managed -> {"none", "up", "gone"}]
  BY PhasesByName DEF TypeOK
<1>2. CASE UNCHANGED vars
  BY <1>2 DEF vars, NothingYet, Launched
<1>3. CASE Boot
  BY <1>3 DEF Boot, Enter, NothingYet, Launched, helpers
<1>4. ASSUME NEW p \in PhaseNames, Running(p)
      PROVE  NothingYet' /\ Launched'
  BY <1>4, PhaseTurn DEF NothingYet, Launched, PhaseNames, helpers
<1>5. CASE Launch
  <2>1. pc' # "boot"
    BY <1>5 DEF Launch
  <2>2. PICK h \in Managed : /\ leader' = [leader EXCEPT ![h] = "up"]
                             /\ member' = [member EXCEPT ![h] = "up"]
    BY <1>5 DEF Launch
  <2> QED
    BY <1>1, <2>1, <2>2 DEF NothingYet, Launched
<1>6. CASE CommandOn \/ AlreadyCharging
  <2>1. UNCHANGED helpers /\ pc' # "boot"
    BY <1>6 DEF CommandOn, AlreadyCharging, Leave
  <2> QED
    BY <2>1 DEF NothingYet, Launched, helpers
<1>7. CASE Kill
  <2>1. pc' # "boot"
    BY <1>7, CleanupTurn DEF Exit
  <2>2. ASSUME NEW h \in Managed, member'[h] = "up"
        PROVE  leader'[h] # "none"
    BY <1>1, <1>7, <2>2 DEF Kill, Launched
  <2> QED
    BY <2>1, <2>2 DEF NothingYet, Launched
<1>8. CASE StopRobot \/ Cancel \/ AskHelpers \/ Exit
  <2>1. UNCHANGED helpers
    BY <1>8 DEF StopRobot, Cancel, AskHelpers, Exit
  <2>2. pc' # "boot"
    BY <1>8, CleanupTurn DEF Exit
  <2> QED
    BY <2>1, <2>2 DEF NothingYet, Launched, helpers
<1>9. CASE \E s \in {"SIGINT", "SIGTERM", "SIGHUP"} : Signal(s)
  BY <1>9 DEF Signal, NothingYet, Launched, helpers, charger
<1>10. CASE Expire
  BY <1>10 DEF Expire, NothingYet, Launched, helpers
<1>11. CASE HelperDrives
  <2>1. PICK h \in Driving : member[h] = "up"
    BY <1>11 DEF HelperDrives
  <2>2. pc # "boot"
    BY <2>1 DEF NothingYet
  <2> QED
    BY <1>11, <2>2 DEF HelperDrives, NothingYet, Launched, helpers
<1>12. ASSUME NEW h \in Managed, LeaderEnds(h) \/ MemberEnds(h)
       PROVE  NothingYet' /\ Launched'
  <2>1. UNCHANGED <<pc, velocity, output, code>>
    BY <1>12 DEF LeaderEnds, MemberEnds, charger
  <2>2. \A g \in Managed : /\ member'[g] = member[g] \/ (member[g] = "up" /\ member'[g] = "gone")
                           /\ leader'[g] = leader[g] \/ leader'[g] = "gone"
    BY <1>1, <1>12 DEF LeaderEnds, MemberEnds
  <2>3. NothingYet'
    BY <2>1, <2>2 DEF NothingYet
  <2>4. ASSUME NEW g \in Managed, member'[g] = "up"
        PROVE  leader'[g] # "none"
    BY <2>2, <2>4 DEF Launched
  <2> QED
    BY <2>3, <2>4 DEF Launched
<1> QED
  BY <1>2, <1>3, <1>4, <1>5, <1>6, <1>7, <1>8, <1>9, <1>10, <1>11, <1>12,
     ProgramSteps DEF Next, Environment

(* The kill reaches every group whose leader lives.                        *)
LEMMA EndedKept ==
  ASSUME TypeOK, NothingYet, Launched, Ended, [Next]_vars
  PROVE  Ended'
<1>1. /\ step \in 0 .. 9
      /\ pc \in {"boot", "cleanup", "exited"} \cup PhaseNames
      /\ leader \in [Managed -> {"none", "up", "gone"}]
      /\ member \in [Managed -> {"none", "up", "gone"}]
  BY CleanupSteps, PhasesByName DEF TypeOK
<1>2. CASE UNCHANGED vars
  BY <1>2 DEF vars, Ended, After
<1>3. CASE Boot
  BY <1>3 DEF Boot, Enter, NothingYet, Ended, helpers
<1>4. ASSUME NEW p \in PhaseNames, Running(p)
      PROVE  Ended'
  BY <1>4, PhaseTurn DEF Ended, After, PhaseNames
<1>5. CASE Launch \/ CommandOn \/ AlreadyCharging
  BY <1>5, PhaseActs DEF Ended, After, PhaseNames
<1>6. CASE Kill
  <2>1. ASSUME ~orphaned', NEW h \in Managed
        PROVE  member'[h] # "up"
    BY <1>1, <1>6, <2>1 DEF Kill, Launched
  <2> QED
    BY <2>1 DEF Ended
<1>7. CASE StopRobot \/ Cancel \/ AskHelpers \/ Exit
  <2>1. UNCHANGED helpers /\ pc = "cleanup"
    BY <1>7, CleanupTurn DEF StopRobot, Cancel, AskHelpers, Exit
  <2>2. After(7)' => After(7)
    <3>1. CASE Exit
      BY <3>1, CleanupSteps DEF Exit, After
    <3>2. CASE ~Exit
      <4>1. step # 6
        <5>1. At("stop") \/ At("cancel") \/ At("interrupt") \/ At("terminate")
          BY <1>7, <3>2 DEF StopRobot, Cancel, AskHelpers
        <5> QED
          BY <1>1, <5>1, CleanupPlaces
      <4> QED
        BY <1>1, <1>7, <3>2, <4>1, CleanupTurn DEF After
    <3> QED
      BY <3>1, <3>2
  <2> QED
    BY <2>1, <2>2 DEF Ended, helpers
<1>8. CASE (\E s \in {"SIGINT", "SIGTERM", "SIGHUP"} : Signal(s)) \/ Expire \/ HelperDrives
  BY <1>8 DEF Signal, Expire, HelperDrives, Ended, After, helpers
<1>9. ASSUME NEW h \in Managed, LeaderEnds(h) \/ MemberEnds(h)
      PROVE  Ended'
  <2>1. UNCHANGED <<pc, step, orphaned>>
    BY <1>9 DEF LeaderEnds, MemberEnds
  <2>2. \A g \in Managed : member'[g] = member[g] \/ member'[g] = "gone"
    BY <1>1, <1>9 DEF LeaderEnds, MemberEnds
  <2> QED
    BY <2>1, <2>2 DEF Ended, After
<1> QED
  BY <1>2, <1>3, <1>4, <1>5, <1>6, <1>7, <1>8, <1>9,
     ProgramSteps DEF Next, Environment

(* A stop behind the kill leaves the robot at rest or costs an error.      *)
LEMMA HaltedKept ==
  ASSUME TypeOK, NothingYet, Ended, Halted, [Next]_vars
  PROVE  Halted'
<1>1. /\ step \in 0 .. 9 /\ faults \in Nat
      /\ pc \in {"boot", "cleanup", "exited"} \cup PhaseNames
  BY CleanupSteps, PhasesByName DEF TypeOK
<1>2. CASE UNCHANGED vars
  BY <1>2 DEF vars, Halted, After
<1>3. CASE Boot
  BY <1>3 DEF Boot, Enter, NothingYet, Halted
<1>4. ASSUME NEW p \in PhaseNames, Running(p)
      PROVE  Halted'
  BY <1>4, PhaseTurn DEF Halted, After, PhaseNames
<1>5. CASE Launch \/ CommandOn \/ AlreadyCharging
  BY <1>5, PhaseActs DEF Halted, After, PhaseNames
<1>6. CASE StopRobot
  <2>1. /\ pc = "cleanup" /\ pc' = "cleanup" /\ step' = step + 1
        /\ orphaned' = orphaned
    BY <1>6, CleanupTurn DEF StopRobot, At, helpers
  <2>2. \/ velocity' = "zero"
        \/ /\ faults' = faults + 1 /\ "stop" \in raised' /\ velocity' = velocity
    BY <1>6 DEF StopRobot, Raise
  <2>3. CASE velocity' = "zero"
    BY <2>3 DEF Halted
  <2>4. CASE faults' = faults + 1 /\ "stop" \in raised' /\ velocity' = velocity
    <3>1. faults' >= 1 /\ (faults >= 1 => faults' >= 2)
      BY <1>1, <2>4
    <3>2. After(9)' => After(8)
      BY <1>1, <2>1 DEF After
    <3> QED
      BY <2>1, <2>4, <3>1, <3>2 DEF Halted
  <2> QED
    BY <2>2, <2>3, <2>4
<1>7. CASE Cancel \/ AskHelpers \/ Kill
  <2>1. step' \in 0 .. 7 /\ pc' = "cleanup"
    <3>1. At("cancel") \/ At("interrupt") \/ At("terminate") \/ At("kill")
      BY <1>7 DEF Cancel, AskHelpers, Kill
    <3>2. step \in {1, 3, 4, 6} /\ pc = "cleanup"
      BY <1>1, <3>1, CleanupPlaces
    <3>3. step' = step + 1 /\ pc' = pc
      BY <1>7 DEF Cancel, AskHelpers, Kill
    <3> QED
      BY <3>2, <3>3
  <2> QED
    BY <1>1, <2>1 DEF Halted, After
<1>8. CASE Exit
  BY <1>1, <1>8, CleanupSteps DEF Exit, Halted, After, errors, helpers
<1>9. CASE HelperDrives
  <2>1. After(8) => After(7)
    BY <1>1 DEF After
  <2>2. After(9) => After(7)
    BY <1>1 DEF After
  <2>3. UNCHANGED <<pc, step, orphaned>> /\ \E h \in Managed : member[h] = "up"
    BY <1>9 DEF HelperDrives, helpers
  <2>4. ~orphaned => ~After(7)
    BY <2>3 DEF Ended
  <2> QED
    BY <2>1, <2>2, <2>3, <2>4 DEF Halted, After
<1>10. CASE (\E s \in {"SIGINT", "SIGTERM", "SIGHUP"} : Signal(s)) \/ Expire
  BY <1>10 DEF Signal, Expire, Halted, After, errors, helpers
<1>11. ASSUME NEW h \in Managed, LeaderEnds(h) \/ MemberEnds(h)
       PROVE  Halted'
  BY <1>11 DEF LeaderEnds, MemberEnds, Halted, After, errors
<1> QED
  BY <1>2, <1>3, <1>4, <1>5, <1>6, <1>7, <1>8, <1>9, <1>10, <1>11,
     ProgramSteps DEF Next, Environment

-----------------------------------------------------------------------------
(* The theorems *)

(* The program starts with nothing done and nothing owed. *)
LEMMA DockInit == Init => DockInv
<1> SUFFICES ASSUME Init PROVE DockInv
  OBVIOUS
<1>1. TypeOK
  <2>1. "INTERNAL_ERROR" \in Codes
    BY DEF Codes
  <2>2. faults \in 0 .. MaxFault /\ step \in 0 .. Len(Cleanup) /\ extra \in Nat
    BY CleanupSteps DEF Init
  <2>3. /\ leader \in [Managed -> {"none", "up", "gone"}]
        /\ member \in [Managed -> {"none", "up", "gone"}]
    BY DEF Init
  <2>4. /\ pc = "boot" /\ signal = "none" /\ expired = FALSE /\ timedOut = FALSE
        /\ code = "INTERNAL_ERROR" /\ raised = {} /\ orphaned = FALSE
        /\ velocity = "zero" /\ output = "none" /\ sent = FALSE /\ confirmed = FALSE
    BY DEF Init
  <2> QED
    BY <2>1, <2>2, <2>3, <2>4 DEF TypeOK
<1>2. NothingYet
  BY DEF Init, NothingYet
<1> QED
  BY <1>1, <1>2 DEF Init, DockInv, Prompt, Launched, Ended, Halted, Verdict,
                    Truthful, After

(* What each step of the way out has settled holds in every behaviour.     *)
THEOREM RunIsAccounted == Spec => []DockInv
<1>1. DockInv /\ [Next]_vars => DockInv'
  BY TypesKept, LaunchedKept, PromptKept, VerdictKept, TruthfulKept, EndedKept, HaltedKept
     DEF DockInv
<1> QED
  BY DockInit, <1>1, PTL DEF Spec

(* Exit code 0: charging was confirmed or the test distance was reached,   *)
(* and the robot stands unless an orphaned helper drove it on.             *)
THEOREM SuccessHolds == Spec => []SuccessIsTrue
<1>1. DockInv => SuccessIsTrue
  BY DEF DockInv, SuccessIsTrue, Truthful, Halted, After
<1> QED
  BY RunIsAccounted, <1>1, PTL

(* One step that raises, anywhere in the run, leaves no motion behind.     *)
THEOREM OneErrorIsSurvived == Spec => []OneErrorStillStops
<1>1. DockInv => OneErrorStillStops
  <2>1. TypeOK => faults \in Nat
    BY DEF TypeOK
  <2> QED
    BY <2>1 DEF DockInv, OneErrorStillStops, Halted, After
<1> QED
  BY RunIsAccounted, <1>1, PTL

(* At the exit the charger was left on only with a confirmed charge, and   *)
(* told to switch off only without one.                                    *)
THEOREM OutputIsSettled == Spec => []OutputFollowsVerdict
<1>1. DockInv => OutputFollowsVerdict
  BY DEF DockInv, OutputFollowsVerdict, Verdict, After
<1> QED
  BY RunIsAccounted, <1>1, PTL

(* At most one velocity follows a signal or the overall deadline.          *)
THEOREM StopsPromptly == Spec => []StopIsPrompt
<1>1. DockInv => StopIsPrompt
  BY DEF DockInv, StopIsPrompt, Prompt
<1> QED
  BY RunIsAccounted, <1>1, PTL

(* The processes that do outlive the run (NoChildOutlivesRun fails of it)  *)
(* are all of one kind: their leader had gone before the kill.             *)
THEOREM OnlyOrphansOutlive ==
  Spec => [](pc = "exited" /\ ~orphaned => \A h \in Managed : member[h] # "up")
<1>1. DockInv => (pc = "exited" /\ ~orphaned => \A h \in Managed : member[h] # "up")
  BY DEF DockInv, Ended, After
<1> QED
  BY RunIsAccounted, <1>1, PTL
=============================================================================
