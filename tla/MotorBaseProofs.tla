-------------------------- MODULE MotorBaseProofs --------------------------
(***************************************************************************)
(* What the motors drive, for any number of commands, any wheels and any   *)
(* failures of the serial line: a transaction is skipped only when the     *)
(* motors do what is wanted already, nothing moves before a command, an    *)
(* orderly end leaves the motors standing, and the published positions are *)
(* the distance travelled over every wrap of the counters.                 *)
(***************************************************************************)
EXTENDS MotorBase, TLAPS

(* What the worker compares has its type; commands are numbered in order. *)
CommandType ==
  /\ seq \in Nat /\ applied \in Nat /\ applied <= seq
  /\ pending \in Velocity /\ stale \in BOOLEAN /\ stopped \in BOOLEAN
  /\ chosen \in [velocity : Velocity, seq : Nat, late : BOOLEAN]

(* Before the first stop returned nothing was received; after the last     *)
(* one the worker is no more.                                              *)
PhasesInOrder ==
  /\ phase = "starting" => seq = 0 /\ pc = "top"
  /\ phase \in {"exited", "unstopped"} => pc = "ended"

(* What the worker remembers as applied is what the motors do.             *)
AppliedIsDriven ==
  phase \in {"running", "stopping"} =>
    /\ seq = 0 => motors = "stop"
    /\ seq # 0 /\ applied = seq /\ ~stale => motors = pending
    /\ seq # 0 /\ applied = seq /\ stopped => motors = "stop"

(* A command that is being sent was the last one when it was chosen, and   *)
(* should it fail, nothing that counts as applied is undone by it.         *)
SendingIsDue ==
  pc \in {"send top", "send middle"} =>
    /\ chosen.seq # 0 /\ chosen.seq <= seq /\ applied <= chosen.seq
    /\ chosen.late => chosen.velocity = "stop"
    /\ chosen.seq = seq /\ chosen.late => stale /\ (applied = seq => ~stopped)
    /\ chosen.seq = seq /\ ~chosen.late => chosen.velocity = pending /\ applied # seq

MotorInv == /\ CommandType /\ PhasesInOrder /\ AppliedIsDriven /\ SendingIsDue
            /\ QuietAfterExit

(* Nothing was received and the worker has not started. *)
LEMMA InitInv == Init => MotorInv
<1> SUFFICES ASSUME Init PROVE MotorInv
  OBVIOUS
<1>1. chosen \in [velocity : Velocity, seq : Nat, late : BOOLEAN]
  BY DEF Init, Velocity
<1>2. CommandType
  <2>1. seq = 0 /\ applied = 0 /\ pending = "stop" /\ stale = FALSE /\ stopped = FALSE
    BY DEF Init
  <2>2. seq \in Nat /\ applied \in Nat /\ applied <= seq
    BY <2>1
  <2>3. pending \in Velocity
    BY <2>1 DEF Velocity
  <2>4. stale \in BOOLEAN /\ stopped \in BOOLEAN
    BY <2>1
  <2>5. QED
    BY <1>1, <2>2, <2>3, <2>4 DEF CommandType
<1>3. phase = "starting" /\ seq = 0 /\ pc = "top"
  BY DEF Init
<1>4. QED
  BY <1>2, <1>3 DEF MotorInv, PhasesInOrder, AppliedIsDriven, SendingIsDue, QuietAfterExit

(* The transaction: whatever a raise leaves behind. *)
LEMMA SendStep ==
  ASSUME MotorInv, phase \notin {"starting", "failed"}, Send
  PROVE  MotorInv'
<1> USE DEF MotorInv
<1>1. PICK returned \in Returns :
        /\ Drive(chosen.velocity, returned)
        /\ applied' = IF returned THEN chosen.seq ELSE applied
        /\ stopped' = IF returned THEN chosen.late ELSE stopped
        /\ pc' \in IF ~returned THEN {"wait"}
                   ELSE IF pc = "send top" THEN {"left", "wait"} ELSE {"right"}
  BY DEF Send
<1>2. /\ pc \in {"send top", "send middle"}
      /\ UNCHANGED <<phase, pending, seq, stale, chosen>>
  BY DEF Send, command
<1>sent. seq # 0 /\ chosen.seq # 0 /\ chosen.seq \in Nat /\ chosen.seq <= seq
      /\ seq \in Nat /\ applied \in Nat /\ applied <= chosen.seq
  <2>1. seq \in Nat /\ applied \in Nat /\ chosen.seq \in Nat
    BY DEF CommandType
  <2>2. chosen.seq # 0 /\ chosen.seq <= seq /\ applied <= chosen.seq
    BY <1>2 DEF SendingIsDue
  <2>3. QED
    BY <2>1, <2>2
<1>3. pc' \in {"wait", "left", "right"}
  BY <1>1
<1>4. phase \notin {"starting", "exited", "unstopped"}
  BY <1>2 DEF PhasesInOrder
<1>5. PhasesInOrder' /\ SendingIsDue' /\ QuietAfterExit'
  BY <1>2, <1>3, <1>4 DEF PhasesInOrder, SendingIsDue, QuietAfterExit
<1>6. CASE returned
  <2>1. applied' = chosen.seq /\ stopped' = chosen.late /\ motors' = chosen.velocity
    BY <1>1, <1>6 DEF Drive
  <2>2. CommandType'
    BY <1>2, <2>1 DEF CommandType, SendingIsDue
  <2>3. AppliedIsDriven'
    <3>1. seq # 0
      BY <1>sent
    <3>2. CASE chosen.seq # seq
      BY <1>2, <2>1, <3>1, <3>2 DEF AppliedIsDriven
    <3>3. CASE chosen.seq = seq /\ chosen.late
      <4>1. stale /\ motors' = "stop"
        BY <1>2, <2>1, <3>3 DEF SendingIsDue
      <4>2. QED
        BY <1>2, <3>1, <4>1 DEF AppliedIsDriven
    <3>4. CASE chosen.seq = seq /\ ~chosen.late
      <4>1. motors' = pending /\ ~stopped'
        BY <1>2, <2>1, <3>4 DEF SendingIsDue
      <4>2. QED
        BY <1>2, <3>1, <4>1 DEF AppliedIsDriven
    <3>5. QED
      BY <3>2, <3>3, <3>4
  <2>4. QED
    BY <1>5, <2>2, <2>3
<1>7. CASE ~returned
  <2>1. applied' = applied /\ stopped' = stopped
    BY <1>1, <1>7
  <2>2. CommandType'
    BY <1>2, <2>1 DEF CommandType
  <2>3. AppliedIsDriven'
    <3>2. CASE applied # seq
      BY <1>sent, <1>2, <2>1, <3>2 DEF AppliedIsDriven
    <3>3. CASE applied = seq
      <4>1. chosen.seq = seq
        BY <1>sent, <3>3
      <4>2. stale /\ ~stopped
        <5>1. CASE chosen.late
          BY <1>2, <3>3, <4>1, <5>1 DEF SendingIsDue
        <5>2. CASE ~chosen.late
          BY <1>2, <3>3, <4>1, <5>2 DEF SendingIsDue
        <5>3. QED
          BY <5>1, <5>2
      <4>3. QED
        BY <1>sent, <1>2, <2>1, <4>2 DEF AppliedIsDriven
    <3>4. QED
      BY <3>2, <3>3
  <2>4. QED
    BY <1>5, <2>2, <2>3
<1>8. QED
  BY <1>6, <1>7

(* What is sent next is chosen only when the motors may do something else. *)
LEMMA ChooseStep ==
  ASSUME MotorInv, phase \notin {"starting", "failed"}, Choose
  PROVE  MotorInv'
<1> USE DEF MotorInv
<1>1. /\ pc \in {"top", "middle"}
      /\ UNCHANGED <<phase, pending, seq, stale, applied, stopped, motors>>
  BY DEF Choose, command
<1>2. CASE NothingToApply
  <2>1. pc' \in {"left", "wait", "right"} /\ chosen' = chosen
    BY <1>2 DEF Choose
  <2>2. phase \notin {"exited", "unstopped"}
    BY <1>1 DEF PhasesInOrder
  <2>3. QED
    BY <1>1, <2>1, <2>2 DEF CommandType, PhasesInOrder, AppliedIsDriven, SendingIsDue, QuietAfterExit
<1>3. CASE ~NothingToApply
  <2>1. /\ pc' \in {"send top", "send middle"}
        /\ chosen' = [velocity |-> IF stale THEN "stop" ELSE pending,
                      seq |-> seq, late |-> stale]
    BY <1>3 DEF Choose
  <2>2. seq # 0 /\ (applied # seq \/ (stale /\ ~stopped))
    BY <1>3 DEF NothingToApply
  <2>3. chosen' \in [velocity : Velocity, seq : Nat, late : BOOLEAN]
    BY <2>1 DEF CommandType, Velocity
  <2>4. phase \notin {"exited", "unstopped"}
    BY <1>1 DEF PhasesInOrder
  <2>5. CommandType' /\ PhasesInOrder' /\ AppliedIsDriven' /\ QuietAfterExit'
    BY <1>1, <2>1, <2>3, <2>4 DEF CommandType, PhasesInOrder, AppliedIsDriven, QuietAfterExit
  <2>6. SendingIsDue'
    <3>1. chosen'.seq = seq /\ chosen'.late = stale
      BY <2>1
    <3>2. chosen'.velocity = IF stale THEN "stop" ELSE pending
      BY <2>1
    <3>3. seq' = seq /\ seq \in Nat /\ applied' = applied /\ applied <= seq
      BY <1>1 DEF CommandType
    <3>4. seq # 0 /\ seq <= seq
      BY <2>2, <3>3
    <3>5. CASE stale
      <4>1. chosen'.late /\ chosen'.velocity = "stop" /\ stale'
        BY <1>1, <3>1, <3>2, <3>5
      <4>2. applied' = seq' => ~stopped'
        BY <1>1, <2>2
      <4>3. QED
        BY <3>1, <3>3, <3>4, <4>1, <4>2 DEF SendingIsDue
    <3>6. CASE ~stale
      <4>1. ~chosen'.late /\ chosen'.velocity = pending'
        BY <1>1, <3>1, <3>2, <3>6
      <4>2. applied' # seq'
        BY <1>1, <2>2, <3>6
      <4>3. QED
        BY <3>1, <3>3, <3>4, <4>1, <4>2 DEF SendingIsDue
    <3>7. QED
      BY <3>5, <3>6
  <2>7. QED
    BY <2>5, <2>6
<1>4. QED
  BY <1>2, <1>3

(* The rest of the worker's turn sends nothing. *)
LEMMA TurnStep ==
  ASSUME MotorInv, phase \notin {"starting", "failed"},
         (\E w \in Wheel : Query(w)) \/ Store \/ Loop
  PROVE  MotorInv'
<1> USE DEF MotorInv
<1>1. /\ UNCHANGED <<phase, pending, seq, stale, applied, stopped, chosen, motors>>
      /\ pc' \notin {"send top", "send middle"}
      /\ pc # "ended" /\ (pc' = "ended" => phase # "running")
  BY DEF Query, Store, Loop, command, Wheel
<1>2. phase \notin {"exited", "unstopped"}
  BY <1>1 DEF PhasesInOrder
<1>3. QED
  BY <1>1, <1>2 DEF CommandType, PhasesInOrder, AppliedIsDriven, SendingIsDue, QuietAfterExit

(* Construction, commands, their age and the end. *)
LEMMA ExecutorStep ==
  ASSUME MotorInv, Executor \/ CommandAges
  PROVE  MotorInv'
<1> USE DEF MotorInv
<1>1. CASE Construct
  <2>1. /\ phase = "starting" /\ seq = 0 /\ pc = "top"
        /\ UNCHANGED <<pending, seq, stale, applied, stopped, chosen, pc>>
    BY <1>1 DEF Construct, PhasesInOrder, command, worker
  <2>2. \/ phase' = "running" /\ motors' = "stop"
        \/ phase' = "failed"
    BY <1>1 DEF Construct, Drive
  <2>3. QED
    BY <2>1, <2>2 DEF CommandType, PhasesInOrder, AppliedIsDriven, SendingIsDue, QuietAfterExit
<1>2. CASE Shutdown
  <2>1. /\ phase = "running" /\ phase' = "stopping"
        /\ UNCHANGED <<pending, seq, stale, applied, stopped, chosen, pc, motors>>
    BY <1>2 DEF Shutdown, command, worker
  <2>2. QED
    BY <2>1 DEF CommandType, PhasesInOrder, AppliedIsDriven, SendingIsDue, QuietAfterExit
<1>3. CASE Destruct
  <2>1. /\ pc = "ended"
        /\ UNCHANGED <<pending, seq, stale, applied, stopped, chosen, pc>>
    BY <1>3 DEF Destruct, command, worker
  <2>2. \/ phase' = "exited" /\ motors' = "stop"
        \/ phase' = "unstopped"
    BY <1>3 DEF Destruct, Drive
  <2>3. QED
    BY <2>1, <2>2 DEF CommandType, PhasesInOrder, AppliedIsDriven, SendingIsDue, QuietAfterExit
<1>4. CASE Publish
  <2>1. UNCHANGED <<phase, pending, seq, stale, applied, stopped, chosen, pc, motors>>
    BY <1>4 DEF Publish, command, worker
  <2>2. QED
    BY <2>1 DEF CommandType, PhasesInOrder, AppliedIsDriven, SendingIsDue, QuietAfterExit
<1>5. ASSUME NEW v \in Velocity, Command(v) PROVE MotorInv'
  <2>1. /\ phase = "running" /\ pending' = v /\ seq' = seq + 1 /\ stale' = FALSE
        /\ UNCHANGED <<phase, applied, stopped, chosen, pc, motors>>
    BY <1>5 DEF Command, worker
  <2>2. applied # seq' /\ seq' # 0 /\ seq' \in Nat /\ chosen.seq \in Nat
    BY <2>1 DEF CommandType
  <2>3. CommandType'
    <3>1. applied <= seq /\ applied \in Nat /\ seq \in Nat /\ seq' = seq + 1
      BY <2>1 DEF CommandType
    <3>2. applied' \in Nat /\ applied' <= seq'
      BY <2>1, <3>1
    <3>3. stale' \in BOOLEAN /\ pending' \in Velocity
      BY <1>5, <2>1
    <3>4. QED
      BY <2>1, <2>2, <3>2, <3>3 DEF CommandType
  <2>4. SendingIsDue'
    <3>1. chosen' = chosen /\ seq' = seq + 1 /\ seq \in Nat /\ chosen.seq \in Nat
          /\ pc' = pc /\ applied' = applied
      BY <2>1, <2>2 DEF CommandType
    <3>2. CASE pc \in {"send top", "send middle"}
      <4>1. /\ chosen.seq # 0 /\ chosen.seq <= seq /\ applied <= chosen.seq
            /\ chosen.late => chosen.velocity = "stop"
        BY <3>2 DEF SendingIsDue
      <4>2. chosen'.seq <= seq' /\ chosen'.seq # seq'
        BY <3>1, <4>1
      <4>3. QED
        BY <3>1, <4>1, <4>2 DEF SendingIsDue
    <3>3. QED
      BY <3>1, <3>2 DEF SendingIsDue
  <2>5. QED
    BY <2>1, <2>2, <2>3, <2>4 DEF PhasesInOrder, AppliedIsDriven, QuietAfterExit
<1>6. CASE CommandAges
  <2>1. /\ phase = "running" /\ stale' = TRUE
        /\ UNCHANGED <<phase, pending, seq, applied, stopped, chosen, pc, motors>>
    BY <1>6 DEF CommandAges, worker
  <2>2. QED
    BY <2>1 DEF CommandType, PhasesInOrder, AppliedIsDriven, SendingIsDue, QuietAfterExit
<1>7. QED
  BY <1>1, <1>2, <1>3, <1>4, <1>5, <1>6 DEF Executor

(* Every step of the two threads and of the world keeps the invariant. *)
LEMMA InvStep == MotorInv /\ [Next]_vars => MotorInv'
<1> SUFFICES ASSUME MotorInv, [Next]_vars PROVE MotorInv'
  OBVIOUS
<1>1. CASE Worker
  BY <1>1, SendStep, ChooseStep, TurnStep DEF Worker
<1>2. CASE Executor \/ CommandAges
  BY <1>2, ExecutorStep
<1>3. CASE LineChanges \/ (\E w \in Turning : Turn(w)) \/ UNCHANGED vars
  <2>1. UNCHANGED <<phase, pending, seq, stale, applied, stopped, chosen, pc, motors>>
    BY <1>3 DEF LineChanges, Turn, vars, command, worker
  <2>2. QED
    BY <2>1 DEF MotorInv, CommandType, PhasesInOrder, AppliedIsDriven, SendingIsDue, QuietAfterExit
<1>4. QED
  BY <1>1, <1>2, <1>3 DEF Next

(* The inductive invariant of the motor node's command path. *)
THEOREM MotorInvariant == Spec => []MotorInv
  BY InitInv, InvStep, PTL DEF Spec

(* A round that sends nothing leaves the motors at what the last command,  *)
(* or its age, asks for: apply_pending_command returns early only then.    *)
THEOREM SkipsAreSafe == Spec => []SkipIsSafe
<1>1. MotorInv => SkipIsSafe
  BY DEF MotorInv, AppliedIsDriven, SkipIsSafe, NothingToApply, Wanted
<1>2. QED
  BY <1>1, MotorInvariant, PTL

(* Motors that an unclean exit left running are stopped before the node    *)
(* accepts commands, and stand until the first one.                        *)
THEOREM NothingMovesUncommanded == Spec => []NoMotionUncommanded
<1>1. MotorInv => NoMotionUncommanded
  BY DEF MotorInv, AppliedIsDriven, NoMotionUncommanded
<1>2. QED
  BY <1>1, MotorInvariant, PTL

(* The destructor's stop is the last thing the controller hears.           *)
THEOREM EndIsQuiet == Spec => []QuietAfterExit
<1>1. MotorInv => QuietAfterExit
  BY DEF MotorInv
<1>2. QED
  BY <1>1, MotorInvariant, PTL

-----------------------------------------------------------------------------
(* The encoders *)

(* Two positions less than half a counter apart. *)
Near(a, b) == 1 - Half <= a - b /\ a - b <= Half - 1

(* A wrapped position fits the counter and differs from the true one by    *)
(* whole counters.                                                         *)
LEMMA WrappedFits ==
  ASSUME NEW p \in Int
  PROVE  /\ Wrapped(p) \in Counter
         /\ \E k \in Int : Wrapped(p) = p - 2 * Half * k
<1> DEFINE d == 2 * Half
           a == p + Half
<1>1. Half \in Nat /\ Half # 0 /\ d \in Nat \ {0} /\ a \in Int
  BY CounterAssumption
<1> HIDE DEF d, a
<1>2. a % d \in 0..d-1 /\ a = d * (a \div d) + (a % d) /\ a \div d \in Int
  BY <1>1
<1>3. Wrapped(p) = (a % d) - Half
  BY DEF Wrapped, a, d
<1>4. Wrapped(p) \in Counter
  BY <1>1, <1>2, <1>3 DEF Counter, d
<1>5. Wrapped(p) = p - d * (a \div d)
  <2> DEFINE m == d * (a \div d)
  <2>1. m \in Int /\ a = m + (a % d) /\ a % d \in Int
    BY <1>1, <1>2
  <2> HIDE DEF m
  <2>2. a = p + Half
    BY DEF a
  <2>3. Wrapped(p) = p - m
    BY <1>1, <1>3, <2>1, <2>2
  <2>4. QED
    BY <2>3 DEF m
<1>6. QED
  BY <1>2, <1>4, <1>5 DEF d

(* unwrap_signed_32bit_delta undoes the wrap: the difference of two nearby *)
(* positions is computed from their counters alone.                        *)
LEMMA DeltaIsDistance ==
  ASSUME NEW p \in Int, NEW q \in Int, Near(p, q)
  PROVE  Delta(Wrapped(p), Wrapped(q)) = p - q
<1>1. PICK j \in Int : Wrapped(p) = p - 2 * Half * j
  BY WrappedFits
<1>2. PICK k \in Int : Wrapped(q) = q - 2 * Half * k
  BY WrappedFits
<1> DEFINE d == Wrapped(p) - Wrapped(q)
           n == j - k
<1>3. Half \in Nat /\ Half # 0 /\ Wrapped(p) \in Counter /\ Wrapped(q) \in Counter
  BY WrappedFits, CounterAssumption
<1>4. d = (p - q) - 2 * Half * n /\ n \in Int /\ d \in Int
  BY <1>1, <1>2, <1>3
<1>5. 1 - 2 * Half <= d /\ d <= 2 * Half - 1
  BY <1>3 DEF Counter
<1> HIDE DEF d, n
<1>6. -3 * Half < 2 * Half * n /\ 2 * Half * n < 3 * Half
  <2> DEFINE m == 2 * Half * n
  <2>1. m \in Int /\ d = (p - q) - m
    BY <1>3, <1>4
  <2> HIDE DEF m
  <2>2. -3 * Half < m /\ m < 3 * Half
    BY <1>3, <1>4, <1>5, <2>1 DEF Near
  <2>3. QED
    BY <2>2 DEF m
<1>7. n = 0 \/ n = 1 \/ n = -1
  BY <1>3, <1>4, <1>6
<1>8. Delta(Wrapped(p), Wrapped(q)) =
        IF d > Half - 1 THEN d - 2 * Half ELSE IF d < -Half THEN d + 2 * Half ELSE d
  BY DEF Delta, d
<1>9. CASE n = 0
  BY <1>3, <1>4, <1>8, <1>9 DEF Near
<1>10. CASE n = 1
  BY <1>3, <1>4, <1>8, <1>10 DEF Near
<1>11. CASE n = -1
  BY <1>3, <1>4, <1>8, <1>11 DEF Near
<1>12. QED
  BY <1>7, <1>9, <1>10, <1>11

(* Positions and counters have their types. *)
EncoderType ==
  /\ read \in [Wheel -> Int] /\ travel \in [Wheel -> Int]
  /\ sample \in [fresh : BOOLEAN, raw : [Wheel -> Counter], at : [Wheel -> Int]]
  /\ wheels \in [known : BOOLEAN, raw : [Wheel -> Counter], origin : [Wheel -> Int],
                 unwrapped : [Wheel -> Int], at : [Wheel -> Int]]

(* What is pending and what was published show the counter of their place. *)
CountersMatch ==
  \A w \in Wheel :
    /\ sample.fresh => sample.raw[w] = Wrapped(FirstCount + sample.at[w])
    /\ wheels.known => wheels.raw[w] = Wrapped(FirstCount + wheels.at[w])
    /\ ~wheels.known => wheels.unwrapped[w] = 0

(* The last read, the pending and the published sample and the wheel itself*)
(* are pairwise less than half a counter apart.                            *)
SamplesAreNear ==
  \A w \in Wheel :
    /\ Near(travel[w], read[w]) /\ Near(travel[w], sample.at[w]) /\ Near(travel[w], wheels.at[w])
    /\ Near(read[w], sample.at[w]) /\ Near(read[w], wheels.at[w])
    /\ Near(sample.at[w], wheels.at[w])

EncoderInv == EncoderType /\ CountersMatch /\ SamplesAreNear /\ PublishedIsTrue

(* Every wheel starts where it was first read. *)
LEMMA InitEncoders == Init => EncoderInv
<1> SUFFICES ASSUME Init PROVE EncoderInv
  OBVIOUS
<1> DEFINE zero == [w \in Wheel |-> 0]
<1>1. /\ read = zero /\ travel = zero
      /\ sample = [fresh |-> FALSE, raw |-> zero, at |-> zero]
      /\ wheels = [known |-> FALSE, raw |-> zero, origin |-> zero, unwrapped |-> zero, at |-> zero]
  BY DEF Init
<1>2. 0 \in Counter /\ Near(0, 0)
  BY CounterAssumption DEF Counter, Near
<1>3. zero \in [Wheel -> Int] /\ zero \in [Wheel -> Counter] /\ \A w \in Wheel : zero[w] = 0
  BY <1>2
<1> HIDE DEF zero
<1>4. EncoderType
  BY <1>1, <1>3 DEF EncoderType
<1>5. SamplesAreNear
  BY <1>1, <1>2, <1>3 DEF SamplesAreNear
<1>6. QED
  BY <1>1, <1>3, <1>4, <1>5 DEF EncoderInv, CountersMatch, PublishedIsTrue

(* Publishing adds the distance between two samples to the positions. *)
LEMMA PublishStep == ASSUME EncoderInv, Publish PROVE EncoderInv'
<1> USE DEF EncoderInv
<1> DEFINE next == IF ~wheels.known THEN wheels.unwrapped
                   ELSE [w \in Wheel |-> wheels.unwrapped[w] + Delta(sample.raw[w], wheels.raw[w])]
           first == IF wheels.known THEN wheels.origin ELSE sample.at
<1>1. /\ sample.fresh /\ UNCHANGED <<read, travel>>
      /\ sample' = [sample EXCEPT !.fresh = FALSE]
      /\ wheels' = [known |-> TRUE, raw |-> sample.raw, at |-> sample.at,
                    origin |-> first, unwrapped |-> next]
  BY DEF Publish, worker
<1>2. ASSUME NEW w \in Wheel, wheels.known
      PROVE  wheels.unwrapped[w] + Delta(sample.raw[w], wheels.raw[w]) = sample.at[w] - wheels.origin[w]
  <2>1. /\ sample.at[w] \in Int /\ wheels.at[w] \in Int /\ wheels.origin[w] \in Int
        /\ FirstCount \in Int /\ Half \in Nat
    BY CounterAssumption DEF EncoderType
  <2>2. /\ sample.raw[w] = Wrapped(FirstCount + sample.at[w])
        /\ wheels.raw[w] = Wrapped(FirstCount + wheels.at[w])
        /\ wheels.unwrapped[w] = wheels.at[w] - wheels.origin[w]
    BY <1>1, <1>2 DEF CountersMatch, PublishedIsTrue
  <2>3. Near(FirstCount + sample.at[w], FirstCount + wheels.at[w])
    <3>1. Near(sample.at[w], wheels.at[w])
      BY DEF SamplesAreNear
    <3>2. QED
      BY <2>1, <3>1 DEF Near
  <2>4. Delta(sample.raw[w], wheels.raw[w]) = sample.at[w] - wheels.at[w]
    BY <2>1, <2>2, <2>3, DeltaIsDistance
  <2>5. QED
    BY <2>1, <2>2, <2>4
<1>3. next \in [Wheel -> Int] /\ first \in [Wheel -> Int]
  <2>1. CASE wheels.known
    <3>1. \A w \in Wheel : sample.at[w] - wheels.origin[w] \in Int
      BY DEF EncoderType
    <3>2. QED
      BY <1>2, <2>1, <3>1 DEF EncoderType
  <2>2. CASE ~wheels.known
    BY <2>2 DEF EncoderType
  <2>3. QED
    BY <2>1, <2>2
<1>4. \A w \in Wheel : next[w] = sample.at[w] - first[w]
  <2>1. CASE wheels.known
    BY <1>2, <2>1
  <2>2. CASE ~wheels.known
    <3>1. \A w \in Wheel : wheels.unwrapped[w] = 0 /\ sample.at[w] \in Int
      BY <2>2 DEF CountersMatch, EncoderType
    <3>2. QED
      BY <2>2, <3>1
  <2>3. QED
    BY <2>1, <2>2
<1> HIDE DEF next, first
<1>5. /\ wheels'.known = TRUE /\ wheels'.raw = sample.raw /\ wheels'.at = sample.at
      /\ wheels'.origin = first /\ wheels'.unwrapped = next
      /\ sample'.raw = sample.raw /\ sample'.at = sample.at /\ sample'.fresh = FALSE
  BY <1>1 DEF EncoderType
<1>6. EncoderType'
  BY <1>1, <1>3 DEF EncoderType
<1>7. CountersMatch'
  BY <1>1, <1>5 DEF CountersMatch
<1>8. SamplesAreNear'
  <2>1. \A w \in Wheel : Near(sample.at[w], sample.at[w])
    BY CounterAssumption DEF EncoderType, Near
  <2>2. QED
    BY <1>1, <1>5, <2>1 DEF SamplesAreNear, Near
<1>9. PublishedIsTrue'
  BY <1>4, <1>5 DEF PublishedIsTrue
<1>10. QED
  BY <1>6, <1>7, <1>8, <1>9

(* Reading a wheel, storing both reads, and the wheels turning. *)
LEMMA MeasureStep ==
  ASSUME EncoderInv,
         (\E w \in Wheel : Query(w)) \/ Store \/ (\E w \in Turning : Turn(w))
  PROVE  EncoderInv'
<1> USE DEF EncoderInv
<1>n. \A a \in Int : Near(a, a)
  BY CounterAssumption DEF Near
<1>1. ASSUME NEW w \in Wheel, Query(w) PROVE EncoderInv'
  <2>1. UNCHANGED <<sample, wheels, travel>> /\ (read' = read \/ read' = [read EXCEPT ![w] = travel[w]])
    BY <1>1 DEF Query, encoders
  <2>2. CASE read' = [read EXCEPT ![w] = travel[w]]
    <3>1. read' \in [Wheel -> Int] /\ \A u \in Wheel : read'[u] = IF u = w THEN travel[w] ELSE read[u]
      BY <2>2 DEF EncoderType
    <3>2. EncoderType' /\ CountersMatch' /\ PublishedIsTrue'
      BY <2>1, <3>1 DEF EncoderType, CountersMatch, PublishedIsTrue
    <3>3. Near(travel[w], travel[w])
      BY <1>n DEF EncoderType
    <3>4. SamplesAreNear'
      BY <2>1, <3>1, <3>3 DEF SamplesAreNear, Near
    <3>5. QED
      BY <3>2, <3>4
  <2>3. CASE read' = read
    BY <2>1, <2>3 DEF EncoderType, CountersMatch, PublishedIsTrue, SamplesAreNear, Near
  <2>4. QED
    BY <2>1, <2>2, <2>3
<1>2. CASE Store
  <2> DEFINE raw == [w \in Wheel |-> Wrapped(FirstCount + read[w])]
  <2>1. /\ UNCHANGED <<read, wheels, travel>>
        /\ sample' = [fresh |-> TRUE, at |-> read, raw |-> raw]
    BY <1>2 DEF Store
  <2>2. raw \in [Wheel -> Counter]
    <3>1. \A w \in Wheel : FirstCount + read[w] \in Int
      BY CounterAssumption DEF EncoderType
    <3>2. QED
      BY <3>1, WrappedFits
  <2>3. \A w \in Wheel : raw[w] = Wrapped(FirstCount + read[w])
    OBVIOUS
  <2> HIDE DEF raw
  <2>4. sample'.fresh = TRUE /\ sample'.at = read /\ sample'.raw = raw
    BY <2>1
  <2>5. EncoderType'
    BY <2>1, <2>2 DEF EncoderType
  <2>6. CountersMatch' /\ PublishedIsTrue'
    BY <2>1, <2>3, <2>4 DEF CountersMatch, PublishedIsTrue
  <2>7. SamplesAreNear'
    <3>1. \A w \in Wheel : Near(read[w], read[w])
      BY <1>n DEF EncoderType
    <3>2. QED
      BY <2>1, <2>4, <3>1 DEF SamplesAreNear, Near
  <2>8. QED
    BY <2>5, <2>6, <2>7
<1>3. ASSUME NEW w \in Turning, Turn(w) PROVE EncoderInv'
  <2>1. w \in Wheel /\ UNCHANGED <<sample, wheels, read>>
    BY <1>3, CounterAssumption DEF Turn, worker, Wheel
  <2>2. PICK d \in {-1, 1} :
          /\ travel' = [travel EXCEPT ![w] = @ + d]
          /\ \A seen \in {read[w], sample.at[w], wheels.at[w]} :
               travel'[w] - seen \in 1 - Half .. Half - 1
    BY <1>3 DEF Turn
  <2>3. /\ travel' \in [Wheel -> Int] /\ travel'[w] \in Int
        /\ \A u \in Wheel \ {w} : travel'[u] = travel[u]
    BY <2>1, <2>2 DEF EncoderType
  <2>4. Near(travel'[w], read[w]) /\ Near(travel'[w], sample.at[w]) /\ Near(travel'[w], wheels.at[w])
    BY <2>1, <2>2, <2>3, CounterAssumption DEF Near, EncoderType
  <2>5. EncoderType' /\ CountersMatch' /\ PublishedIsTrue'
    BY <2>1, <2>3 DEF EncoderType, CountersMatch, PublishedIsTrue
  <2>6. SamplesAreNear'
    BY <2>1, <2>3, <2>4 DEF SamplesAreNear, Near
  <2>7. QED
    BY <2>5, <2>6
<1>4. QED
  BY <1>1, <1>2, <1>3

(* No other step touches the encoders. *)
LEMMA EncoderStep == EncoderInv /\ [Next]_vars => EncoderInv'
<1> SUFFICES ASSUME EncoderInv, [Next]_vars PROVE EncoderInv'
  OBVIOUS
<1>1. ASSUME UNCHANGED <<read, travel, sample, wheels>> PROVE EncoderInv'
  BY <1>1 DEF EncoderInv, EncoderType, CountersMatch, SamplesAreNear, PublishedIsTrue
<1>2. CASE Choose \/ Send \/ Loop \/ Construct \/ Shutdown \/ Destruct
           \/ (\E v \in Velocity : Command(v)) \/ CommandAges \/ LineChanges \/ UNCHANGED vars
  BY <1>1, <1>2 DEF Choose, Send, Loop, Construct, Shutdown, Destruct, Command, CommandAges,
     LineChanges, vars, worker, encoders
<1>3. QED
  BY <1>2, PublishStep, MeasureStep DEF Next, Executor, Worker

(* The published wheel positions are the true travel since the first       *)
(* sample, over every wrap of the counters and every lost sample.          *)
THEOREM PublishedPositionsAreTrue == Spec => []PublishedIsTrue
<1>1. EncoderInv => PublishedIsTrue
  BY DEF EncoderInv
<1>2. QED
  BY <1>1, InitEncoders, EncoderStep, PTL DEF Spec

-----------------------------------------------------------------------------
(* Types *)

Places == {"top", "send top", "left", "middle", "send middle", "right", "store", "wait", "ended"}

(* The executor's, the worker's and the world's state but the encoders'.   *)
ControlType ==
  /\ phase \in {"starting", "running", "stopping", "exited", "failed", "unstopped"}
  /\ pending \in Velocity /\ seq \in Nat /\ stale \in BOOLEAN
  /\ applied \in 0 .. seq /\ stopped \in BOOLEAN
  /\ pc \in Places
  /\ chosen \in [velocity : Velocity, seq : 0 .. seq, late : BOOLEAN]
  /\ motors \in Velocity /\ line \in {"good", "bad"}

(* A transaction leaves a velocity in the controller. *)
LEMMA DriveType ==
  ASSUME motors \in Velocity, NEW v \in Velocity, NEW returned, Drive(v, returned)
  PROVE  motors' \in Velocity
  BY DEF Drive

(* Each action keeps the control state in its type. *)
LEMMA ControlStep == ControlType /\ [Next]_vars => ControlType'
<1> SUFFICES ASSUME ControlType, [Next]_vars PROVE ControlType'
  OBVIOUS
<1> USE DEF ControlType
<1>1. ASSUME NEW next \in Places, pc' = next,
             UNCHANGED <<phase, pending, seq, stale, applied, stopped, chosen, motors, line>>
      PROVE  ControlType'
  BY <1>1
<1>2. CASE Choose
  <2>1. /\ pc' \in Places
        /\ UNCHANGED <<phase, pending, seq, stale, applied, stopped, motors, line>>
    BY <1>2 DEF Choose, command, Places
  <2>2. CASE chosen' = chosen
    BY <1>1, <2>1, <2>2
  <2>3. CASE chosen' = [velocity |-> IF stale THEN "stop" ELSE pending, seq |-> seq, late |-> stale]
    <3>1. chosen' \in [velocity : Velocity, seq : 0 .. seq, late : BOOLEAN]
      BY <2>3 DEF Velocity
    <3>2. QED
      BY <2>1, <3>1
  <2>4. QED
    BY <1>2, <2>2, <2>3 DEF Choose
<1>3. CASE Send
  <2>1. PICK returned \in Returns : Drive(chosen.velocity, returned)
    BY <1>3 DEF Send
  <2>2. motors' \in Velocity
    BY <2>1, DriveType
  <2>3. /\ pc' \in Places /\ (applied' = chosen.seq \/ applied' = applied)
        /\ (stopped' = chosen.late \/ stopped' = stopped)
        /\ UNCHANGED <<phase, pending, seq, stale, chosen, line>>
    BY <1>3 DEF Send, command, Places
  <2>4. QED
    BY <2>2, <2>3
<1>4. CASE (\E w \in Wheel : Query(w)) \/ Store \/ Loop
  <2>1. /\ pc' \in Places
        /\ UNCHANGED <<phase, pending, seq, stale, applied, stopped, chosen, motors, line>>
    BY <1>4 DEF Query, Store, Loop, command, Places
  <2>2. QED
    BY <1>1, <2>1
<1>5. CASE Construct \/ Destruct
  <2>1. \E returned \in Returns : Drive("stop", returned)
    BY <1>5 DEF Construct, Destruct
  <2>2. motors' \in Velocity
    BY <2>1, DriveType DEF Velocity
  <2>3. /\ phase' \in {"running", "failed", "exited", "unstopped"}
        /\ UNCHANGED <<pending, seq, stale, applied, stopped, pc, chosen, line>>
    BY <1>5 DEF Construct, Destruct, command, worker
  <2>4. QED
    BY <2>2, <2>3
<1>6. ASSUME NEW v \in Velocity, Command(v) PROVE ControlType'
  <2>1. /\ pending' = v /\ seq' = seq + 1 /\ stale' = FALSE
        /\ UNCHANGED <<phase, applied, stopped, pc, chosen, motors, line>>
    BY <1>6 DEF Command, worker
  <2>2. 0 .. seq \subseteq 0 .. seq' /\ seq' \in Nat
    BY <2>1
  <2>3. chosen' \in [velocity : Velocity, seq : 0 .. seq', late : BOOLEAN]
    BY <2>1, <2>2
  <2>4. QED
    BY <2>1, <2>2, <2>3
<1>7. CASE Shutdown \/ CommandAges \/ LineChanges
  <2>1. /\ phase' \in {phase, "stopping"} /\ stale' \in {stale, TRUE} /\ line' \in {line, "good", "bad"}
        /\ UNCHANGED <<pending, seq, applied, stopped, pc, chosen, motors>>
    BY <1>7 DEF Shutdown, CommandAges, LineChanges, command, worker
  <2>2. stale' \in BOOLEAN
    BY <2>1
  <2>3. QED
    BY <2>1, <2>2
<1>8. CASE Publish \/ (\E w \in Turning : Turn(w)) \/ UNCHANGED vars
  BY <1>1, <1>8 DEF Publish, Turn, vars, command, worker
<1>9. QED
  BY <1>2, <1>3, <1>4, <1>5, <1>6, <1>7, <1>8 DEF Next, Executor, Worker

(* The motor node's state keeps its type: what was applied is never newer  *)
(* than what was received, and raw positions fit the counter.              *)
THEOREM TypeCorrect == Spec => []TypeOK
<1>1. Init => ControlType
  <2> SUFFICES ASSUME Init PROVE ControlType
    OBVIOUS
  <2>1. chosen \in [velocity : Velocity, seq : 0 .. 0, late : BOOLEAN]
    BY DEF Init, Velocity
  <2>2. QED
    BY <2>1 DEF Init, ControlType, Velocity, Places
<1>2. ControlType /\ EncoderInv => TypeOK
  BY DEF ControlType, EncoderInv, EncoderType, TypeOK, Places
<1>3. QED
  BY <1>1, <1>2, ControlStep, InitEncoders, EncoderStep, PTL DEF Spec
=============================================================================
