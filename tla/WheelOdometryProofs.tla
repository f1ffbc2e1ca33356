------------------------ MODULE WheelOdometryProofs -------------------------
(***************************************************************************)
(* Proofs about the wheel odometry node: the pose counts what was          *)
(* travelled, and a sample is corrected by the orientation of its own time *)
(* exactly when that was delivered.  They hold for any delays, losses and  *)
(* time-outs that the assumption of the module allows.                     *)
(*                                                                         *)
(* The pose rests on where a sample's positions begin: two samples of      *)
(* different starts of the motor node lie a blackout apart, and no         *)
(* interval of that length is integrated.  The correction rests on the     *)
(* history: sorted, and complete but for stamps that a later one of it     *)
(* makes useless.                                                          *)
(***************************************************************************)
EXTENDS WheelOdometry, FiniteSetTheorems, SequenceTheorems, TLAPS

(* The bounds are numbers. *)
LEMMA Numbers ==
  /\ MaxClock \in Nat /\ ImuTimeout \in Nat /\ HistoryDuration \in Nat
  /\ MaxInterval \in Nat /\ MaxSpeed \in Nat /\ MaxDelay \in Nat /\ Blackout \in Nat
  /\ MaxPending \in Nat /\ MaxFault \in Nat
  /\ MaxDelay <= HistoryDuration /\ MaxInterval < Blackout
BY OdometryAssumption

Sample == [stamp : Nat, position : Int, place : Int, age : Nat]

Types ==
  /\ clock \in Nat /\ place \in Int /\ origin \in Int /\ silent \in Nat
  /\ wheelNet = None \/ wheelNet \in Sample
  /\ base \in [stamp : Nat, position : Int]
  /\ phantom \in Int /\ mark \in Int
  /\ faults \in [Fault -> Nat]

(* Where the positions of a sample, and of the baseline, begin. *)
SampleStart == wheelNet.place - wheelNet.position
BaseStart   == mark - base.position

(* Samples of two starts of the motor node are a blackout apart, and the   *)
(* clock has passed it, or is about to, before a new one is published.     *)
Origins ==
  /\ phantom = 0
  /\ faults["restart"] = 0 \/ faults["step"] = 0
  /\ faults["restart"] = 0 =>
       origin = 0 /\ BaseStart = 0 /\ (wheelNet # None => SampleStart = 0)
  /\ faults["step"] = 0 =>
       /\ base.stamp <= clock
       /\ BaseStart = origin \/ base.stamp + Blackout <= clock + silent
       /\ wheelNet # None =>
            /\ wheelNet.stamp <= clock /\ base.stamp <= wheelNet.stamp
            /\ SampleStart = origin \/ wheelNet.stamp + Blackout <= clock + silent
            /\ BaseStart = SampleStart \/ base.stamp + Blackout <= wheelNet.stamp

OdometryInv == Types /\ Origins

-----------------------------------------------------------------------------
(* The pose *)

(* Every step keeps the types. *)
LEMMA TypesKept ==
  ASSUME Types, [Next]_vars
  PROVE  Types'
<1> USE Numbers
<1>1. CASE Tick
  <2>1. wheelNet' = None \/ wheelNet' \in Sample
    BY <1>1 DEF Tick, Types, Sample
  <2>2. clock' \in Nat /\ place' \in Int /\ silent' \in Nat
    BY <1>1 DEF Tick, Types
  <2> QED
    BY <1>1, <2>1, <2>2 DEF Tick, Types, node
<1>2. CASE Encoder
  BY <1>2 DEF Encoder, Types, Sample, world, node
<1>3. CASE Orientation
  BY <1>3 DEF Orientation, Types, world, node
<1>4. CASE MotorRestarts
  BY <1>4 DEF MotorRestarts, Happens, Types, Fault, node
<1>5. CASE ClockStepsBack
  BY <1>5 DEF ClockStepsBack, Happens, Types, Fault, node
<1>6. CASE SetEnabled
  BY <1>6 DEF SetEnabled, Happens, Types, Fault, world, node
<1>7. CASE ImuCallback
  BY <1>7 DEF ImuCallback, Types, world, node
<1>8. CASE WheelCallback
  <2>1. wheelNet' = None /\ wheelNet \in Sample /\ UNCHANGED <<world, faults>>
    BY <1>8 DEF WheelCallback, Types
  <2>2. /\ base' \in [stamp : Nat, position : Int]
        /\ phantom' \in Int /\ mark' \in Int
    <3>1. CASE SwitchedOff \/ Repeats(wheelNet)
      BY <3>1 DEF SwitchedOff, Repeats, Types, node
    <3>2. CASE Distrusts(wheelNet) \/ \E yaw \in {YawAt(wheelNet.stamp)} : Starts(wheelNet, yaw)
      BY <2>1, <3>2 DEF Distrusts, Starts, Rebase, Types, Sample
    <3>3. CASE \E yaw \in {YawAt(wheelNet.stamp)} : Integrates(wheelNet, yaw)
      BY <2>1, <3>3 DEF Integrates, Rebase, Types, Sample
    <3> QED
      BY <1>8, <3>1, <3>2, <3>3 DEF WheelCallback
  <2> QED
    BY <2>1, <2>2 DEF Types, world
<1>9. CASE UNCHANGED vars
  BY <1>9 DEF vars, Types
<1> QED
  BY <1>1, <1>2, <1>3, <1>4, <1>5, <1>6, <1>7, <1>8, <1>9 DEF Next

(* The two starts of a trusted interval are the same.                      *)
LEMMA TrustedIsOneStart ==
  ASSUME Types, Origins, wheelNet # None, wheelNet.stamp > base.stamp,
         ~Implausible(wheelNet)
  PROVE  BaseStart = SampleStart
<1> USE Numbers
<1>1. wheelNet \in Sample
  BY DEF Types
<1>2. wheelNet.stamp \in Nat /\ base.stamp \in Nat
  BY <1>1 DEF Types, Sample
<1>3. wheelNet.stamp - base.stamp <= MaxInterval
  BY <1>2 DEF Implausible
<1>4. CASE faults["restart"] = 0
  BY <1>4 DEF Origins
<1>5. CASE faults["step"] = 0
  BY <1>2, <1>3, <1>5 DEF Origins
<1> QED
  BY <1>4, <1>5 DEF Origins

(* A restart, a clock step or a switch is counted. *)
LEMMA FaultsCounted ==
  ASSUME Types, NEW f \in Fault, Happens(f)
  PROVE  /\ faults'[f] = faults[f] + 1 /\ faults'[f] # 0
         /\ \A g \in Fault \ {f} : faults'[g] = faults[g]
BY DEF Happens, Types

(* As the clock goes on, what it has passed stays passed, and the time when *)
(* a silent motor node speaks again does not come closer than it was.      *)
LEMMA TimeGoesOn ==
  ASSUME NEW c \in Nat, NEW s \in Nat, NEW c2, NEW s2,
         c2 = c + 1, s2 = IF s = 0 THEN 0 ELSE s - 1, NEW t \in Nat
  PROVE  /\ t <= c => t <= c2
         /\ \A b \in Nat : t + b <= c + s => t + b <= c2 + s2
<1>1. CASE s = 0
  BY <1>1
<1>2. CASE s # 0
  BY <1>2
<1> QED
  BY <1>1, <1>2

(* No step brings two starts closer together, and none moves the pose of a *)
(* robot that stands.                                                      *)
LEMMA OriginsKept ==
  ASSUME Types, Types', Origins, [Next]_vars
  PROVE  Origins'
<1> USE Numbers
<1>0. /\ clock \in Nat /\ silent \in Nat /\ base.stamp \in Nat /\ base.position \in Int
      /\ origin \in Int /\ place \in Int /\ mark \in Int
      /\ faults["step"] \in Nat /\ faults["restart"] \in Nat
      /\ wheelNet # None => /\ wheelNet.stamp \in Nat /\ wheelNet.position \in Int
                            /\ wheelNet.place \in Int /\ wheelNet \in Sample
  BY DEF Types, Fault, Sample
<1>1. CASE Tick
  <2>1. /\ UNCHANGED <<origin, base, mark, phantom, faults>>
    BY <1>1 DEF Tick, node
  <2>2. wheelNet' # None => /\ wheelNet # None /\ wheelNet'.stamp = wheelNet.stamp
                            /\ SampleStart' = SampleStart
    BY <1>0, <1>1 DEF Tick, Sample, SampleStart
  <2>3. silent' \in Nat
    BY DEF Types
  <2>4. BaseStart' = BaseStart
    BY <2>1 DEF BaseStart
  <2> HIDE DEF SampleStart, BaseStart
  <2>5. \A t \in Nat : /\ t <= clock => t <= clock'
                       /\ t + Blackout <= clock + silent => t + Blackout <= clock' + silent'
    <3>1. clock' = clock + 1 /\ silent' = IF silent = 0 THEN 0 ELSE silent - 1
      BY <1>1 DEF Tick
    <3> QED
      BY <1>0, <3>1, TimeGoesOn
  <2>6. faults["restart"] = 0 =>
          origin' = 0 /\ BaseStart' = 0 /\ (wheelNet' # None => SampleStart' = 0)
    BY <2>1, <2>2, <2>4 DEF Origins
  <2>7. faults["step"] = 0 =>
          /\ base.stamp <= clock' /\ base.stamp = base'.stamp
          /\ BaseStart' = origin' \/ base.stamp + Blackout <= clock' + silent'
    BY <1>0, <2>1, <2>4, <2>5 DEF Origins
  <2>8. faults["step"] = 0 /\ wheelNet' # None =>
          /\ wheelNet'.stamp <= clock' /\ base'.stamp <= wheelNet'.stamp
          /\ SampleStart' = origin' \/ wheelNet'.stamp + Blackout <= clock' + silent'
          /\ BaseStart' = SampleStart' \/ base'.stamp + Blackout <= wheelNet'.stamp
    <3> SUFFICES ASSUME faults["step"] = 0, wheelNet' # None
                 PROVE  /\ wheelNet'.stamp <= clock' /\ base'.stamp <= wheelNet'.stamp
                        /\ SampleStart' = origin' \/ wheelNet'.stamp + Blackout <= clock' + silent'
                        /\ BaseStart' = SampleStart' \/ base'.stamp + Blackout <= wheelNet'.stamp
      OBVIOUS
    <3>1. wheelNet.stamp \in Nat /\ wheelNet # None
      BY <1>0, <2>2
    <3>2. wheelNet'.stamp <= clock'
      BY <2>2, <2>5, <3>1 DEF Origins
    <3>3. SampleStart' = origin' \/ wheelNet'.stamp + Blackout <= clock' + silent'
      BY <2>1, <2>2, <2>5, <3>1 DEF Origins
    <3>4. /\ base'.stamp <= wheelNet'.stamp
          /\ BaseStart' = SampleStart' \/ base'.stamp + Blackout <= wheelNet'.stamp
      BY <2>1, <2>2, <2>4, <3>1 DEF Origins
    <3> QED
      BY <3>2, <3>3, <3>4
  <2> QED
    BY <2>1, <2>6, <2>7, <2>8 DEF Origins
<1>2. CASE Encoder
  <2>1. /\ UNCHANGED <<origin, base, mark, phantom, faults, clock, silent>>
        /\ silent = 0 /\ BaseStart' = BaseStart
    BY <1>2 DEF Encoder, world, node, BaseStart
  <2>2. wheelNet'.stamp = clock /\ SampleStart' = origin
    BY <1>0, <1>2 DEF Encoder, SampleStart
  <2> HIDE DEF SampleStart, BaseStart
  <2> QED
    BY <1>0, <2>1, <2>2 DEF Origins
<1>3. CASE Orientation
  BY <1>3 DEF Orientation, world, node, Origins, BaseStart, SampleStart
<1>4. CASE MotorRestarts
  <2>1. /\ UNCHANGED <<clock, wheelNet, base, mark, phantom>> /\ silent = 0
        /\ silent' = Blackout /\ faults["step"] = 0
        /\ BaseStart' = BaseStart /\ SampleStart' = SampleStart
    BY <1>4 DEF MotorRestarts, node, BaseStart, SampleStart
  <2>2. faults'["restart"] # 0 /\ faults'["step"] = 0
    BY <1>4, <2>1, FaultsCounted DEF MotorRestarts, Fault
  <2> HIDE DEF SampleStart, BaseStart
  <2> QED
    BY <1>0, <2>1, <2>2 DEF Origins
<1>5. CASE ClockStepsBack
  <2>1. /\ UNCHANGED <<origin, wheelNet, base, mark, phantom>>
        /\ faults["restart"] = 0
        /\ BaseStart' = BaseStart /\ SampleStart' = SampleStart
    BY <1>5 DEF ClockStepsBack, node, BaseStart, SampleStart
  <2>2. faults'["restart"] = 0 /\ faults'["step"] # 0
    BY <1>5, <2>1, FaultsCounted DEF ClockStepsBack, Fault
  <2> QED
    BY <2>1, <2>2 DEF Origins
<1>6. CASE SetEnabled
  <2>1. /\ faults'["restart"] = faults["restart"] /\ faults'["step"] = faults["step"]
    BY <1>6, FaultsCounted DEF SetEnabled, Fault
  <2> QED
    BY <1>6, <2>1 DEF SetEnabled, world, node, Origins, BaseStart, SampleStart
<1>7. CASE ImuCallback
  BY <1>7 DEF ImuCallback, world, node, Origins, BaseStart, SampleStart
<1>8. CASE WheelCallback
  <2>1. /\ wheelNet' = None /\ wheelNet \in Sample /\ wheelNet # None
        /\ UNCHANGED <<clock, origin, silent, faults>>
    BY <1>0, <1>8 DEF WheelCallback, world
  <2>2. CASE SwitchedOff \/ Repeats(wheelNet)
    BY <2>1, <2>2 DEF SwitchedOff, Repeats, node, Origins, BaseStart
  <2>3. CASE Rebase(wheelNet) /\ phantom' = phantom
    <3>1. BaseStart' = SampleStart /\ base'.stamp = wheelNet.stamp
      BY <1>0, <2>1, <2>3 DEF Rebase, BaseStart, SampleStart
    <3> QED
      BY <2>1, <2>3, <3>1 DEF Origins
  <2>4. CASE \E yaw \in {YawAt(wheelNet.stamp)} : Integrates(wheelNet, yaw)
    <3>1. Rebase(wheelNet) /\ wheelNet.stamp > base.stamp /\ ~Implausible(wheelNet)
          /\ phantom' = phantom + (wheelNet.position - base.position) - (wheelNet.place - mark)
      BY <2>4 DEF Integrates
    <3>2. BaseStart = SampleStart
      BY <2>1, <3>1, TrustedIsOneStart
    <3>3. phantom' = phantom
      BY <1>0, <2>1, <3>1, <3>2 DEF BaseStart, SampleStart, Types
    <3> QED
      BY <2>3, <3>1, <3>3
  <2> QED
    BY <1>8, <2>2, <2>3, <2>4 DEF WheelCallback, Starts, Distrusts
<1>9. CASE UNCHANGED vars
  BY <1>9 DEF vars, Origins, BaseStart, SampleStart
<1> QED
  BY <1>1, <1>2, <1>3, <1>4, <1>5, <1>6, <1>7, <1>8, <1>9 DEF Next

(* The node starts with the motor node, at the same place. *)
LEMMA OdometryInit == Init => OdometryInv
BY Numbers DEF Init, OdometryInv, Types, Origins, BaseStart, Fault, None

(* Where samples begin is accounted for in every behaviour. *)
THEOREM StartsAreAccounted == Spec => []OdometryInv
<1>1. OdometryInv /\ [Next]_vars => OdometryInv'
  BY TypesKept, OriginsKept DEF OdometryInv
<1> QED
  BY OdometryInit, <1>1, PTL DEF Spec

(* The pose counts what was travelled, whatever was lost, late, started    *)
(* anew, stepped back or switched.                                         *)
THEOREM PoseCountsTravel == Spec => []PoseIsTravel
<1>1. OdometryInv => PoseIsTravel
  BY DEF OdometryInv, Origins, PoseIsTravel
<1> QED
  BY StartsAreAccounted, <1>1, PTL

-----------------------------------------------------------------------------
(* The orientation *)

Increasing(q) == \A i, j \in 1 .. Len(q) : i < j => q[i] < q[j]

(* h is sorted, holds only what was received, and lacks of that only what  *)
(* lies further back than the duration from its own oldest stamp on.       *)
Remembers(h, seen) ==
  /\ h \in Seq(Nat) /\ Increasing(h)
  /\ \A i \in 1 .. Len(h) : h[i] \in seen
  /\ \A t \in seen :
       \/ \E i \in 1 .. Len(h) : h[i] = t
       \/ h # <<>> /\ t < h[1] /\ h[1] + HistoryDuration < h[Len(h)]

(* Orientations are delivered in order, and an encoder sample is younger   *)
(* than what the history may have lost.                                    *)
InOrder ==
  /\ received \subseteq Nat /\ \A t \in received : t <= clock
  /\ imuNet \in Seq(Nat) /\ Increasing(imuNet)
  /\ \A i \in 1 .. Len(imuNet) : imuNet[i] <= clock /\ \A t \in received : t < imuNet[i]
  /\ wheelNet # None => wheelNet.stamp + wheelNet.age = clock /\ wheelNet.age <= MaxDelay
  /\ lastUsed \in Nat

HistoryInv ==
  Types /\ (faults["step"] = 0 => Remembers(history, received) /\ InOrder)

(* A set of positions with no gap before any of them is an initial part.   *)
LEMMA InitialPart ==
  ASSUME NEW n \in Nat, NEW S \in SUBSET (1 .. n),
         \A i \in S : \A j \in 1 .. i : j \in S
  PROVE  Cardinality(S) \in 0 .. n /\ S = 1 .. Cardinality(S)
<1> DEFINE k == Cardinality(S)
<1>1. IsFiniteSet(1 .. n) /\ Cardinality(1 .. n) = n
  BY FS_Interval
<1>2. IsFiniteSet(S) /\ k <= n
  BY <1>1, FS_Subset
<1>3. k \in Nat
  BY <1>2, FS_CardinalityType
<1>4. ASSUME NEW i \in S
      PROVE  i <= k
  <2>1. (1 .. i) \subseteq S /\ i \in Nat /\ i >= 1
    OBVIOUS
  <2>2. Cardinality(1 .. i) = i
    BY <2>1, FS_Interval
  <2> QED
    BY <1>2, <2>1, <2>2, FS_Subset
<1> HIDE DEF k
<1>5. S \in SUBSET (1 .. k)
  BY <1>3, <1>4
<1>6. IsFiniteSet(1 .. k) /\ Cardinality(1 .. k) = k
  BY <1>3, FS_Interval
<1>7. S = 1 .. k
  BY <1>5, <1>6, FS_Subset DEF k
<1> QED
  BY <1>2, <1>3, <1>7 DEF k

(* The stamps of a sorted history that are not after s are its first ones. *)
LEMMA PastComesFirst ==
  ASSUME NEW h \in Seq(Nat), Increasing(h), NEW s \in Nat
  PROVE  LET past == Cardinality({i \in 1 .. Len(h) : h[i] <= s})
         IN  /\ past \in 0 .. Len(h)
             /\ \A i \in 1 .. Len(h) : h[i] <= s <=> i <= past
<1> DEFINE S == {i \in 1 .. Len(h) : h[i] <= s}
<1>1. Len(h) \in Nat /\ \A i \in 1 .. Len(h) : h[i] \in Nat
  BY LenProperties, ElementOfSeq
<1>2. S \in SUBSET (1 .. Len(h))
  OBVIOUS
<1>3. ASSUME NEW i \in S, NEW j \in 1 .. i
      PROVE  j \in S
  <2>1. i \in 1 .. Len(h) /\ h[i] <= s /\ j \in 1 .. Len(h)
    BY <1>1
  <2>2. j = i \/ h[j] < h[i]
    BY <2>1 DEF Increasing
  <2>3. h[j] <= s
    BY <1>1, <2>1, <2>2
  <2> QED
    BY <2>1, <2>3
<1>4. Cardinality(S) \in 0 .. Len(h) /\ S = 1 .. Cardinality(S)
  <2> HIDE DEF S
  <2> QED
    BY <1>1, <1>2, <1>3, InitialPart
<1>5. ASSUME NEW i \in 1 .. Len(h)
      PROVE  h[i] <= s <=> i <= Cardinality(S)
  <2>1. h[i] <= s <=> i \in S
    OBVIOUS
  <2> HIDE DEF S
  <2> QED
    BY <1>1, <1>4, <2>1
<1> QED
  BY <1>4, <1>5

(* imu_callback pops only stamps that the next one makes too old.          *)
LEMMA TrimPops ==
  ASSUME NEW h \in Seq(Nat), h # <<>>
  PROVE  \E n \in 0 .. Len(h) - 1 :
           /\ Trimmed(h) = SubSeq(h, n + 1, Len(h))
           /\ n > 0 => h[n + 1] + HistoryDuration < h[Len(h)]
<1> USE Numbers
<1> DEFINE last   == Len(h)
           old(i) == i + 1 < last /\ h[last] - h[i + 1] > HistoryDuration
           fits(n) == (\A i \in 1 .. n : old(i)) /\ ~old(n + 1)
           popped == CHOOSE n \in 0 .. last : fits(n)
           S      == {i \in 1 .. last : \A j \in 1 .. i : old(j)}
<1>1. last \in Nat \ {0} /\ \A i \in 1 .. last : h[i] \in Nat
  BY LenProperties, ElementOfSeq, EmptySeq
<1>2. Trimmed(h) = SubSeq(h, popped + 1, last)
  BY DEF Trimmed
<1>3. \E n \in 0 .. last : fits(n)
  <2> DEFINE k == Cardinality(S)
  <2>1. \A i \in 1 .. last : old(i) => i + 1 < last
    OBVIOUS
  <2> HIDE DEF last, old
  <2>2. S \in SUBSET (1 .. last) /\ \A i \in S : \A j \in 1 .. i : j \in S
    BY <1>1
  <2>3. k \in 0 .. last /\ S = 1 .. k
    <3> HIDE DEF S
    <3> QED
      BY <1>1, <2>2, InitialPart
  <2>4. \A i \in 1 .. k : old(i)
    <3> SUFFICES ASSUME NEW i \in 1 .. k PROVE old(i)
      OBVIOUS
    <3>1. i \in S
      BY <2>3
    <3>2. i \in Nat /\ i \in 1 .. i
      BY <2>3
    <3> QED
      BY <3>1, <3>2
  <2>5. ~old(k + 1)
    <3> SUFFICES ASSUME old(k + 1) PROVE FALSE
      OBVIOUS
    <3>1. k + 2 < last
      BY <2>3 DEF old
    <3> HIDE DEF k
    <3>2. \A j \in 1 .. k + 1 : j \in 1 .. k \/ j = k + 1
      BY <2>3
    <3>3. k + 1 \in S
      BY <1>1, <2>3, <2>4, <3>1, <3>2
    <3> HIDE DEF S
    <3> QED
      BY <2>3, <3>3
  <2> HIDE DEF k
  <2> QED
    BY <2>3, <2>4, <2>5
<1>4. popped \in 0 .. last /\ fits(popped)
  <2> HIDE DEF fits
  <2> QED
    BY <1>3
<1> HIDE DEF popped
<1>5. CASE popped = 0
  <2>1. 0 \in 0 .. last - 1 /\ Trimmed(h) = SubSeq(h, 0 + 1, last) /\ ~(0 > 0)
    BY <1>1, <1>2, <1>5
  <2> WITNESS 0 \in 0 .. Len(h) - 1
  <2> QED
    BY <2>1
<1>6. CASE popped > 0
  <2>1. old(popped)
    BY <1>1, <1>4, <1>6
  <2>2. popped + 1 < last /\ h[popped + 1] + HistoryDuration < h[last]
    BY <1>1, <1>4, <1>6, <2>1
  <2>3. popped \in 0 .. last - 1
    BY <1>1, <1>4, <2>2
  <2> WITNESS popped \in 0 .. Len(h) - 1
  <2> QED
    BY <1>2, <2>2
<1> QED
  BY <1>1, <1>4, <1>5, <1>6

(* What is popped was useless: the history remembers as well as before.    *)
LEMMA TrimmingRemembers ==
  ASSUME NEW h, NEW seen \in SUBSET Nat, Remembers(h, seen), h # <<>>
  PROVE  Remembers(Trimmed(h), seen)
<1> USE Numbers
<1> DEFINE last == Len(h)
<1>1. h \in Seq(Nat) /\ Increasing(h) /\ last \in Nat \ {0} /\ \A i \in 1 .. last : h[i] \in Nat
  BY LenProperties, ElementOfSeq, EmptySeq DEF Remembers
<1>2. PICK n \in 0 .. last - 1 :
        /\ Trimmed(h) = SubSeq(h, n + 1, last)
        /\ n > 0 => h[n + 1] + HistoryDuration < h[last]
  BY <1>1, TrimPops
<1> DEFINE g == Trimmed(h)
<1>3. /\ g \in Seq(Nat) /\ Len(g) = last - n
      /\ \A i \in 1 .. last - n : g[i] = h[i + n]
  <2>1. n + 1 \in Int /\ last \in Int /\ \A i \in n + 1 .. last : h[i] \in Nat
    BY <1>1
  <2>2. /\ SubSeq(h, n + 1, last) \in Seq(Nat)
        /\ Len(SubSeq(h, n + 1, last)) = IF n + 1 <= last THEN last - (n + 1) + 1 ELSE 0
        /\ \A i \in 1 .. last - (n + 1) + 1 : SubSeq(h, n + 1, last)[i] = h[(n + 1) + i - 1]
    BY <2>1, SubSeqProperties
  <2> HIDE DEF last
  <2>3. Len(g) = last - n /\ last - (n + 1) + 1 = last - n
    BY <1>1, <1>2, <2>2
  <2>4. ASSUME NEW i \in 1 .. last - n
        PROVE  g[i] = h[i + n]
    <3>1. (n + 1) + i - 1 = i + n
      BY <1>1
    <3>2. g[i] = h[(n + 1) + i - 1]
      BY <1>2, <2>2, <2>3
    <3> QED
      BY <3>1, <3>2
  <2> QED
    BY <1>2, <2>2, <2>3, <2>4
<1> HIDE DEF g
<1>4. g # <<>> /\ g[1] = h[n + 1] /\ g[Len(g)] = h[last]
  <2>1. 1 \in 1 .. last - n /\ last - n \in 1 .. last - n /\ 1 + n = n + 1
        /\ (last - n) + n = last /\ last - n # 0
    BY <1>1
  <2>2. g[1] = h[1 + n] /\ g[last - n] = h[(last - n) + n]
    BY <1>3, <2>1
  <2>3. g # <<>>
    BY <1>3, <2>1, EmptySeq
  <2> QED
    BY <1>3, <2>1, <2>2, <2>3
<1>5. Increasing(g)
  <2> SUFFICES ASSUME NEW i \in 1 .. Len(g), NEW j \in 1 .. Len(g), i < j
               PROVE  g[i] < g[j]
    BY DEF Increasing
  <2>1. i + n \in 1 .. last /\ j + n \in 1 .. last /\ i + n < j + n
    BY <1>1, <1>3
  <2>2. g[i] = h[i + n] /\ g[j] = h[j + n]
    BY <1>3
  <2> QED
    BY <1>1, <2>1, <2>2 DEF Increasing
<1>6. ASSUME NEW i \in 1 .. Len(g)
      PROVE  g[i] \in seen
  <2>1. i + n \in 1 .. last /\ g[i] = h[i + n]
    BY <1>1, <1>3
  <2> QED
    BY <2>1 DEF Remembers
<1>7. ASSUME NEW t \in seen
      PROVE  \/ \E i \in 1 .. Len(g) : g[i] = t
             \/ t < g[1] /\ g[1] + HistoryDuration < g[Len(g)]
  <2>1. CASE \E i \in 1 .. last : h[i] = t
    <3>1. PICK i \in 1 .. last : h[i] = t
      BY <2>1
    <3>2. CASE i > n
      <4>1. i - n \in 1 .. Len(g) /\ (i - n) + n = i
        BY <1>1, <1>3, <3>2
      <4> QED
        BY <1>3, <3>1, <4>1
    <3>3. CASE i <= n
      <4>1. i < n + 1 /\ n + 1 \in 1 .. last /\ n > 0
        BY <1>1, <3>3
      <4>2. t < h[n + 1]
        BY <1>1, <3>1, <4>1 DEF Increasing
      <4> QED
        BY <1>2, <1>4, <4>1, <4>2
    <3> QED
      BY <1>1, <3>2, <3>3
  <2>2. CASE t < h[1] /\ h[1] + HistoryDuration < h[last]
    <3>1. h[1] <= h[n + 1] /\ h[1] \in Nat /\ h[n + 1] \in Nat
      <4>1. n = 0 \/ h[1] < h[n + 1]
        BY <1>1 DEF Increasing
      <4>2. 1 \in 1 .. last /\ n + 1 \in 1 .. last
        BY <1>1
      <4> QED
        BY <1>1, <4>1, <4>2
    <3>2. h[n + 1] + HistoryDuration < h[last]
      BY <1>1, <1>2, <2>2
    <3>3. t < h[n + 1]
      BY <2>2, <3>1
    <3> QED
      BY <1>4, <3>2, <3>3
  <2> QED
    BY <2>1, <2>2 DEF Remembers
<1> QED
  BY <1>3, <1>4, <1>5, <1>6, <1>7 DEF Remembers, g

(* A stamp that is newer than everything seen may be appended.             *)
LEMMA AppendingRemembers ==
  ASSUME NEW h, NEW seen \in SUBSET Nat, Remembers(h, seen),
         NEW x \in Nat, \A t \in seen : t < x
  PROVE  Remembers(Append(h, x), seen \cup {x}) /\ Append(h, x) # <<>>
<1> USE Numbers
<1> DEFINE g == Append(h, x)
<1>1. h \in Seq(Nat) /\ Increasing(h) /\ Len(h) \in Nat /\ \A i \in 1 .. Len(h) : h[i] \in Nat
  BY LenProperties, ElementOfSeq DEF Remembers
<1>2. /\ g \in Seq(Nat) /\ g # <<>> /\ Len(g) = Len(h) + 1
      /\ \A i \in 1 .. Len(h) : g[i] = h[i]
      /\ g[Len(h) + 1] = x
  BY <1>1, AppendProperties
<1> HIDE DEF g
<1>3. \A i \in 1 .. Len(g) : i \in 1 .. Len(h) \/ i = Len(h) + 1
  BY <1>1, <1>2
<1>4. ASSUME NEW i \in 1 .. Len(g), NEW j \in 1 .. Len(g), i < j
      PROVE  g[i] < g[j]
  <2>1. i \in 1 .. Len(h)
    BY <1>1, <1>2, <1>4
  <2>2. g[i] = h[i]
    BY <1>2, <2>1
  <2>3. CASE j \in 1 .. Len(h)
    BY <1>1, <1>2, <1>4, <2>1, <2>2, <2>3 DEF Increasing
  <2>4. CASE j = Len(h) + 1
    BY <1>2, <2>1, <2>2, <2>4 DEF Remembers
  <2> QED
    BY <1>3, <2>3, <2>4
<1>5. \A i \in 1 .. Len(g) : g[i] \in seen \cup {x}
  BY <1>2, <1>3 DEF Remembers
<1>6. ASSUME NEW t \in seen \cup {x}
      PROVE  \/ \E i \in 1 .. Len(g) : g[i] = t
             \/ t < g[1] /\ g[1] + HistoryDuration < g[Len(g)]
  <2>1. CASE t = x
    BY <1>1, <1>2, <2>1
  <2>2. CASE t \in seen /\ \E i \in 1 .. Len(h) : h[i] = t
    <3>1. PICK i \in 1 .. Len(h) : h[i] = t
      BY <2>2
    <3>2. i \in 1 .. Len(g) /\ g[i] = t
      BY <1>1, <1>2, <3>1
    <3> QED
      BY <3>2
  <2>3. CASE t \in seen /\ h # <<>> /\ t < h[1] /\ h[1] + HistoryDuration < h[Len(h)]
    <3>1. 1 \in 1 .. Len(h) /\ Len(h) \in 1 .. Len(h)
      BY <1>1, <2>3, EmptySeq
    <3>2. h[Len(h)] < x /\ h[1] \in Nat /\ h[Len(h)] \in Nat
      BY <1>1, <3>1 DEF Remembers
    <3>3. g[1] = h[1] /\ g[Len(g)] = x
      BY <1>2, <3>1
    <3>4. h[1] + HistoryDuration < x
      BY <2>3, <3>2
    <3> QED
      BY <2>3, <3>3, <3>4
  <2> QED
    BY <2>1, <2>2, <2>3 DEF Remembers
<1> QED
  BY <1>2, <1>4, <1>5, <1>6 DEF Remembers, Increasing, g

(* The yaw of a sample is newer than the last one used exactly when a      *)
(* measurement of the sample's time was received that says so.             *)
LEMMA YawIsOfItsTime ==
  ASSUME Types, Remembers(history, received), InOrder, wheelNet # None
  PROVE  LET s    == wheelNet.stamp
             past == {t \in received : t <= s /\ s - t <= ImuTimeout}
             next == {t \in received : t > s /\ t - s <= ImuTimeout}
         IN  /\ YawAt(s) \in Nat
             /\ YawAt(s) > lastUsed
                  <=> \/ \E t \in past : t > lastUsed
                      \/ past # {} /\ next # {} /\ s > lastUsed
<1> USE Numbers
<1> DEFINE h    == history
           s    == wheelNet.stamp
           p    == Cardinality({i \in 1 .. Len(h) : h[i] <= s})
           past == {t \in received : t <= s /\ s - t <= ImuTimeout}
           next == {t \in received : t > s /\ t - s <= ImuTimeout}
<1> SUFFICES /\ YawAt(s) \in Nat
             /\ YawAt(s) > lastUsed
                  <=> \/ \E t \in past : t > lastUsed
                      \/ past # {} /\ next # {} /\ s > lastUsed
  OBVIOUS
<1>1. /\ h \in Seq(Nat) /\ Increasing(h) /\ Len(h) \in Nat
      /\ \A i \in 1 .. Len(h) : h[i] \in Nat /\ h[i] \in received
      /\ lastUsed \in Nat /\ received \subseteq Nat
  BY LenProperties, ElementOfSeq DEF Remembers, InOrder
<1>2. s \in Nat /\ clock \in Nat /\ s <= clock /\ clock <= s + HistoryDuration
  BY DEF Types, Sample, InOrder
<1>3. p \in 0 .. Len(h) /\ \A i \in 1 .. Len(h) : h[i] <= s <=> i <= p
  BY <1>1, <1>2, PastComesFirst
<1>4. YawAt(s) = IF p = 0 THEN 0
                 ELSE IF s - h[p] > ImuTimeout THEN 0
                 ELSE IF p < Len(h) /\ h[p + 1] - s <= ImuTimeout THEN s
                 ELSE h[p]
  BY DEF YawAt
<1> HIDE DEF p, s, h
\* what the history lost is older than its oldest stamp, and that than s
<1>5. ASSUME NEW t \in received, ~\E i \in 1 .. Len(h) : h[i] = t
      PROVE  1 \in 1 .. Len(h) /\ t < h[1] /\ h[1] <= s
  <2>1. h # <<>> /\ t < h[1] /\ h[1] + HistoryDuration < h[Len(h)]
    BY <1>5 DEF Remembers, h
  <2>2. 1 \in 1 .. Len(h) /\ Len(h) \in 1 .. Len(h)
    BY <1>1, <2>1, EmptySeq
  <2>3. h[Len(h)] <= clock /\ h[1] \in Nat /\ h[Len(h)] \in Nat
    BY <1>1, <2>2 DEF InOrder
  <2>4. h[1] <= s
    BY <1>2, <2>1, <2>3
  <2> QED
    BY <2>1, <2>2, <2>4
<1>6. CASE p = 0
  <2>1. ASSUME NEW t \in past
        PROVE  FALSE
    <3>1. CASE \E i \in 1 .. Len(h) : h[i] = t
      BY <1>1, <1>3, <1>6, <3>1
    <3>2. CASE ~\E i \in 1 .. Len(h) : h[i] = t
      BY <1>3, <1>5, <1>6, <3>2
    <3> QED
      BY <3>1, <3>2
  <2>2. YawAt(s) = 0 /\ past = {}
    BY <1>4, <1>6, <2>1
  <2> HIDE DEF past, next
  <2> QED
    BY <1>1, <2>2
<1>7. CASE p # 0
  <2>1. p \in 1 .. Len(h) /\ h[p] \in Nat /\ h[p] <= s /\ h[p] \in received
    BY <1>1, <1>3, <1>7
  <2>2. ASSUME NEW t \in received, t <= s
        PROVE  t <= h[p]
    <3>1. CASE \E i \in 1 .. Len(h) : h[i] = t
      <4>1. PICK i \in 1 .. Len(h) : h[i] = t
        BY <3>1
      <4>2. i <= p
        BY <1>3, <2>2, <4>1
      <4>3. i = p \/ h[i] < h[p]
        BY <1>1, <2>1, <4>2 DEF Increasing
      <4> QED
        BY <1>1, <2>1, <4>1, <4>3
    <3>2. CASE ~\E i \in 1 .. Len(h) : h[i] = t
      <4>1. t < h[1] /\ 1 \in 1 .. Len(h)
        BY <1>5, <3>2
      <4>2. p = 1 \/ h[1] < h[p]
        BY <1>1, <2>1, <4>1 DEF Increasing
      <4> QED
        BY <1>1, <2>1, <4>1, <4>2
    <3> QED
      BY <3>1, <3>2
  <2>3. CASE s - h[p] > ImuTimeout
    <3>1. past = {}
      <4> SUFFICES ASSUME NEW t \in past PROVE FALSE
        OBVIOUS
      <4>1. t \in received /\ t \in Nat /\ t <= s /\ s - t <= ImuTimeout
        BY <1>1
      <4> QED
        BY <1>2, <2>1, <2>2, <2>3, <4>1
    <3>2. YawAt(s) = 0
      BY <1>4, <1>7, <2>3
    <3> HIDE DEF past, next
    <3> QED
      BY <1>1, <3>1, <3>2
  <2>4. CASE ~(s - h[p] > ImuTimeout)
    <3>1. h[p] \in past
      BY <1>2, <2>1, <2>4
    <3>2. CASE p < Len(h) /\ h[p + 1] - s <= ImuTimeout
      <4>1. p + 1 \in 1 .. Len(h) /\ ~(p + 1 <= p)
        BY <2>1, <3>2
      <4>2. h[p + 1] > s /\ h[p + 1] \in received
        BY <1>1, <1>2, <1>3, <4>1
      <4>3. h[p + 1] \in next
        BY <3>2, <4>2
      <4>4. YawAt(s) = s
        BY <1>4, <1>7, <2>4, <3>2
      <4>5. \A t \in past : t \in Nat /\ t <= s
        BY <1>1
      <4> HIDE DEF past, next
      <4> QED
        BY <1>1, <1>2, <3>1, <4>3, <4>4, <4>5
    <3>3. CASE ~(p < Len(h) /\ h[p + 1] - s <= ImuTimeout)
      <4>1. next = {}
        <5> SUFFICES ASSUME NEW t \in next PROVE FALSE
          OBVIOUS
        <5>1. t \in received /\ t \in Nat /\ t > s /\ t - s <= ImuTimeout
          BY <1>1
        <5>2. \E i \in 1 .. Len(h) : h[i] = t
          <6>1. ~(t < h[1] /\ 1 \in 1 .. Len(h) /\ h[1] <= s)
            BY <1>1, <1>2, <5>1
          <6> QED
            BY <1>5, <5>1, <6>1
        <5>3. PICK i \in 1 .. Len(h) : h[i] = t
          BY <5>2
        <5>4. i > p
          BY <1>2, <1>3, <2>1, <5>1, <5>3
        <5>5. p + 1 \in 1 .. Len(h) /\ (i = p + 1 \/ p + 1 < i)
          BY <1>1, <2>1, <5>4
        <5>6. h[p + 1] <= t /\ h[p + 1] \in Nat
          BY <1>1, <5>1, <5>3, <5>5 DEF Increasing
        <5>7. p < Len(h) /\ h[p + 1] - s <= ImuTimeout
          BY <1>1, <1>2, <2>1, <5>1, <5>5, <5>6
        <5> QED
          BY <3>3, <5>7
      <4>2. YawAt(s) = h[p]
        BY <1>4, <1>7, <2>4, <3>3
      <4>3. \A t \in past : t \in Nat /\ t <= h[p]
        BY <1>1, <2>2
      <4>4. YawAt(s) > lastUsed <=> \E t \in past : t > lastUsed
        <5> HIDE DEF past
        <5> QED
          BY <1>1, <2>1, <3>1, <4>2, <4>3
      <4>5. YawAt(s) \in Nat
        BY <2>1, <4>2
      <4> HIDE DEF past, next
      <4> QED
        BY <4>1, <4>4, <4>5
    <3> QED
      BY <3>2, <3>3
  <2> QED
    BY <2>3, <2>4
<1> QED
  BY <1>6, <1>7

(* No step loses an orientation that a sample to come may need, and none   *)
(* brings one out of order, unless the clock steps back.                   *)
LEMMA HistoryKept ==
  ASSUME HistoryInv, [Next]_vars
  PROVE  HistoryInv'
<1> USE Numbers
<1>1. Types /\ Types'
  BY TypesKept DEF HistoryInv
<1> SUFFICES ASSUME faults'["step"] = 0
             PROVE  Remembers(history, received)' /\ InOrder'
  BY <1>1 DEF HistoryInv
<1>2. faults["step"] = 0 /\ ~ClockStepsBack
  <2>1. CASE UNCHANGED faults
    <3>1. ~ClockStepsBack
      <4> SUFFICES ASSUME ClockStepsBack PROVE FALSE
        OBVIOUS
      <4> QED
        BY <1>1, <2>1, FaultsCounted DEF ClockStepsBack, Fault
    <3> QED
      BY <2>1, <3>1
  <2>2. CASE MotorRestarts \/ SetEnabled
    <3>1. faults["step"] = 0
      BY <1>1, <2>2, FaultsCounted DEF MotorRestarts, SetEnabled, Fault
    <3>2. ~ClockStepsBack
      <4> SUFFICES ASSUME ClockStepsBack PROVE FALSE
        OBVIOUS
      <4> QED
        BY <1>1, FaultsCounted DEF ClockStepsBack, Fault
    <3> QED
      BY <3>1, <3>2
  <2>3. CASE ClockStepsBack
    BY <1>1, <2>3, FaultsCounted DEF ClockStepsBack, Fault
  <2> QED
    BY <2>1, <2>2, <2>3
    DEF Next, Tick, Encoder, Orientation, ImuCallback, WheelCallback, vars
<1>3. /\ Remembers(history, received) /\ InOrder /\ clock \in Nat
      /\ wheelNet # None => wheelNet \in Sample /\ wheelNet.stamp \in Nat /\ wheelNet.age \in Nat
  BY <1>1, <1>2 DEF HistoryInv, Types, Sample
<1>4. CASE Tick
  <2>1. UNCHANGED <<history, received, imuNet, lastUsed>> /\ clock' = clock + 1
    BY <1>4 DEF Tick, node
  <2>2. wheelNet' # None => /\ wheelNet # None /\ wheelNet'.stamp = wheelNet.stamp
                            /\ wheelNet'.age = wheelNet.age + 1 /\ wheelNet.age < MaxDelay
    BY <1>3, <1>4 DEF Tick, Sample
  <2>3. wheelNet' # None => wheelNet'.stamp + wheelNet'.age = clock' /\ wheelNet'.age <= MaxDelay
    BY <1>3, <2>1, <2>2 DEF InOrder
  <2>4. received \subseteq Nat /\ \A i \in 1 .. Len(imuNet) : imuNet[i] \in Nat
    BY <1>3, ElementOfSeq DEF InOrder
  <2>5. /\ \A t \in received : t <= clock'
        /\ \A i \in 1 .. Len(imuNet) : imuNet[i] <= clock'
    BY <1>3, <2>1, <2>4 DEF InOrder
  <2> QED
    BY <1>3, <2>1, <2>3, <2>5 DEF InOrder
<1>5. CASE Encoder
  <2>1. /\ UNCHANGED <<history, received, imuNet, lastUsed, clock>>
        /\ wheelNet'.stamp = clock /\ wheelNet'.age = 0
    BY <1>5 DEF Encoder, node, world
  <2>2. wheelNet'.stamp + wheelNet'.age = clock' /\ wheelNet'.age <= MaxDelay
    BY <1>3, <2>1
  <2> QED
    BY <1>3, <2>1, <2>2 DEF InOrder
<1>6. CASE Orientation
  <2>1. /\ UNCHANGED <<history, received, wheelNet, lastUsed, clock>>
        /\ imuNet' = Append(imuNet, clock)
        /\ clock \notin received /\ \A i \in 1 .. Len(imuNet) : imuNet[i] # clock
    BY <1>6 DEF Orientation, node, world
  <2>2. /\ imuNet \in Seq(Nat) /\ Len(imuNet) \in Nat /\ received \subseteq Nat
        /\ \A i \in 1 .. Len(imuNet) : imuNet[i] \in Nat /\ imuNet[i] < clock
        /\ \A t \in received : t < clock
    BY <1>3, <2>1, LenProperties, ElementOfSeq DEF InOrder
  <2>3. /\ imuNet' \in Seq(Nat) /\ Len(imuNet') = Len(imuNet) + 1
        /\ \A i \in 1 .. Len(imuNet) : imuNet'[i] = imuNet[i]
        /\ imuNet'[Len(imuNet) + 1] = clock
    BY <1>3, <2>1, <2>2, AppendProperties
  <2>4. \A i \in 1 .. Len(imuNet') : i \in 1 .. Len(imuNet) \/ i = Len(imuNet) + 1
    BY <2>2, <2>3
  <2>5. Increasing(imuNet')
    <3> SUFFICES ASSUME NEW i \in 1 .. Len(imuNet'), NEW j \in 1 .. Len(imuNet'), i < j
                 PROVE  imuNet'[i] < imuNet'[j]
      BY DEF Increasing
    <3>1. i \in 1 .. Len(imuNet)
      BY <2>2, <2>3
    <3>2. CASE j \in 1 .. Len(imuNet)
      BY <1>3, <2>3, <3>1, <3>2 DEF InOrder, Increasing
    <3>3. CASE j = Len(imuNet) + 1
      BY <2>2, <2>3, <3>1, <3>3
    <3> QED
      BY <2>4, <3>2, <3>3
  <2>6. \A i \in 1 .. Len(imuNet') : imuNet'[i] <= clock /\ \A t \in received : t < imuNet'[i]
    <3> SUFFICES ASSUME NEW i \in 1 .. Len(imuNet')
                 PROVE  imuNet'[i] <= clock /\ \A t \in received : t < imuNet'[i]
      OBVIOUS
    <3>1. CASE i \in 1 .. Len(imuNet)
      BY <1>3, <2>3, <3>1 DEF InOrder
    <3>2. CASE i = Len(imuNet) + 1
      BY <1>3, <2>2, <2>3, <3>2
    <3> QED
      BY <2>4, <3>1, <3>2
  <2> QED
    BY <1>3, <2>1, <2>3, <2>5, <2>6 DEF InOrder
<1>7. CASE MotorRestarts \/ SetEnabled \/ UNCHANGED vars
  BY <1>3, <1>7 DEF MotorRestarts, SetEnabled, vars, InOrder, node, world
<1>8. CASE ImuCallback
  <2> DEFINE x == Head(imuNet)
  <2>1. /\ UNCHANGED <<wheelNet, lastUsed, clock>>
        /\ imuNet # <<>> /\ imuNet' = Tail(imuNet) /\ received' = received \cup {x}
        /\ history' = IF history # <<>> /\ x <= history[Len(history)] THEN history
                      ELSE Trimmed(Append(history, x))
    BY <1>8 DEF ImuCallback, node, world
  <2>2. /\ imuNet \in Seq(Nat) /\ Len(imuNet) \in Nat \ {0} /\ x = imuNet[1] /\ x \in Nat
        /\ \A i \in 1 .. Len(imuNet) : imuNet[i] \in Nat
    BY <1>3, <2>1, LenProperties, ElementOfSeq, EmptySeq DEF InOrder
  <2>3. x <= clock /\ (\A t \in received : t < x) /\ received \in SUBSET Nat
    BY <1>3, <2>2 DEF InOrder
  <2>4. Len(imuNet') = Len(imuNet) - 1 /\ imuNet' \in Seq(Nat)
        /\ \A i \in 1 .. Len(imuNet') : imuNet'[i] = imuNet[i + 1]
    BY <2>1, <2>2, HeadTailProperties
  <2> HIDE DEF x
  <2>5. history' = Trimmed(Append(history, x))
    <3>1. ASSUME history # <<>>
          PROVE  ~(x <= history[Len(history)])
      <4>1. history \in Seq(Nat) /\ Len(history) \in 1 .. Len(history)
        BY <1>3, <3>1, EmptySeq DEF Remembers
      <4>2. history[Len(history)] \in received /\ history[Len(history)] \in Nat
        BY <1>3, <4>1, ElementOfSeq DEF Remembers
      <4> QED
        BY <2>2, <2>3, <4>2
    <3> QED
      BY <2>1, <3>1
  <2>6. Remembers(history', received')
    <3>1. /\ Remembers(Append(history, x), received \cup {x})
          /\ Append(history, x) # <<>>
      BY <1>3, <2>2, <2>3, AppendingRemembers
    <3>2. received \cup {x} \in SUBSET Nat
      BY <2>2, <2>3
    <3> QED
      BY <2>1, <2>5, <3>1, <3>2, TrimmingRemembers
  <2>7. \A i \in 1 .. Len(imuNet') :
          imuNet'[i] <= clock /\ \A t \in received \cup {x} : t < imuNet'[i]
    <3> SUFFICES ASSUME NEW i \in 1 .. Len(imuNet')
                 PROVE  imuNet'[i] <= clock /\ \A t \in received \cup {x} : t < imuNet'[i]
      OBVIOUS
    <3>1. i + 1 \in 1 .. Len(imuNet) /\ 1 \in 1 .. Len(imuNet) /\ 1 < i + 1
          /\ imuNet'[i] = imuNet[i + 1]
      BY <2>2, <2>4
    <3>2. x < imuNet[i + 1]
      BY <1>3, <2>2, <3>1 DEF InOrder, Increasing
    <3> QED
      BY <1>3, <3>1, <3>2 DEF InOrder
  <2>8. Increasing(imuNet')
    <3> SUFFICES ASSUME NEW i \in 1 .. Len(imuNet'), NEW j \in 1 .. Len(imuNet'), i < j
                 PROVE  imuNet'[i] < imuNet'[j]
      BY DEF Increasing
    <3>1. /\ i + 1 \in 1 .. Len(imuNet) /\ j + 1 \in 1 .. Len(imuNet) /\ i + 1 < j + 1
          /\ imuNet'[i] = imuNet[i + 1] /\ imuNet'[j] = imuNet[j + 1]
      BY <2>2, <2>4
    <3> QED
      BY <1>3, <3>1 DEF InOrder, Increasing
  <2>9. received' \subseteq Nat /\ \A t \in received' : t <= clock
    BY <1>3, <2>1, <2>2, <2>3 DEF InOrder
  <2> QED
    BY <1>3, <2>1, <2>4, <2>6, <2>7, <2>8, <2>9 DEF InOrder
<1>9. CASE WheelCallback
  <2>1. UNCHANGED <<history, received, imuNet, clock>> /\ wheelNet' = None /\ wheelNet # None
    BY <1>9 DEF WheelCallback, world
  <2>2. YawAt(wheelNet.stamp) \in Nat
    BY <1>1, <1>3, <2>1, YawIsOfItsTime
  <2>3. lastUsed' \in Nat
    BY <1>3, <1>9, <2>2
    DEF WheelCallback, SwitchedOff, Starts, Repeats, Distrusts, Integrates, InOrder, node
  <2> QED
    BY <1>3, <2>1, <2>3 DEF InOrder
<1> QED
  BY <1>2, <1>4, <1>5, <1>6, <1>7, <1>8, <1>9 DEF Next

(* The history is kept in every behaviour. *)
THEOREM OrientationsAreRemembered == Spec => []HistoryInv
<1>1. Init => HistoryInv
  <2> SUFFICES ASSUME Init PROVE HistoryInv
    OBVIOUS
  <2>1. Types
    BY OdometryInit DEF OdometryInv
  <2>2. <<>> \in Seq(Nat) /\ Len(<<>>) = 0
    BY EmptySeq
  <2> QED
    BY <2>1, <2>2, Numbers DEF Init, HistoryInv, Remembers, InOrder, Increasing
<1> QED
  BY <1>1, HistoryKept, PTL DEF Spec

(* A sample is corrected by the orientation of its own time, exactly when  *)
(* one that is newer than the last one used was delivered.                 *)
THEOREM CorrectionsAreOfTheirTime == Spec => OrientationIsOfItsTime
<1> DEFINE Corrects ==
             known /\ enabled /\ wheelNet # None /\ base' # base /\ faults["step"] = 0
               /\ ~Implausible(wheelNet)
           Rightly ==
             LET s    == wheelNet.stamp
                 past == {t \in received : t <= s /\ s - t <= ImuTimeout}
                 next == {t \in received : t > s /\ t - s <= ImuTimeout}
             IN  lastUsed' > lastUsed
                   <=> \/ \E t \in past : t > lastUsed
                       \/ past # {} /\ next # {} /\ s > lastUsed
<1>1. ASSUME HistoryInv, [Next]_vars, Corrects
      PROVE  Rightly
  <2>1. Types /\ Remembers(history, received) /\ InOrder
    BY <1>1 DEF HistoryInv
  <2>2. WheelCallback
    BY <1>1 DEF Next, Tick, Encoder, Orientation, MotorRestarts, ClockStepsBack, SetEnabled,
                ImuCallback, vars, node
  <2> DEFINE y == YawAt(wheelNet.stamp)
  <2>3. Integrates(wheelNet, y)
    BY <1>1, <2>2 DEF WheelCallback, SwitchedOff, Starts, Repeats, Distrusts, node
  <2>4. lastUsed' = IF y > lastUsed THEN y ELSE lastUsed
    BY <2>3 DEF Integrates
  <2>5. y \in Nat /\ lastUsed \in Nat
    BY <1>1, <2>1, YawIsOfItsTime DEF InOrder
  <2>6. lastUsed' > lastUsed <=> y > lastUsed
    <3> HIDE DEF y
    <3> QED
      BY <2>4, <2>5
  <2> QED
    BY <1>1, <2>1, <2>6, YawIsOfItsTime
<1>2. HistoryInv /\ [Next]_vars => [Corrects => Rightly]_vars
  BY <1>1
<1>3. [][Corrects => Rightly]_vars => OrientationIsOfItsTime
  BY PTL DEF OrientationIsOfItsTime
<1> QED
  BY <1>2, <1>3, OrientationsAreRemembered, PTL DEF Spec
=============================================================================
