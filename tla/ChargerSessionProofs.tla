------------------------ MODULE ChargerSessionProofs ------------------------
(***************************************************************************)
(* Proofs about the charging session: the invariant and the four action    *)
(* properties its run checks, for any levels and any thresholds.           *)
(*                                                                         *)
(* A callback is a chain of Modbus transactions, and the operators that    *)
(* model it map a node and a charger to a set of outcomes.  The first      *)
(* lemmas say of each operator what its outcomes keep and what they        *)
(* change; the steps of the specification then follow from them.           *)
(***************************************************************************)
EXTENDS ChargerSession, TLAPS

USE LevelsAssumption

(* What a session rests on. *)
Session(n) ==
  n.charging => /\ n.wfails < FAIL_THRESHOLD
                /\ n.ready /\ ~n.latched /\ n.cset \in 1..n.ceiling

(* What holds of the node's memory between two callbacks. *)
Sound(n) ==
  /\ n \in Node /\ n.low < LOW_CURRENT_MAX_COUNT
  /\ n.ready => n.open
  /\ Session(n)

(* As many of the last readings as the node has counted were good ones.    *)
Backed ==
  node.charging =>
    /\ node.good <= Len(seen)
    /\ \A i \in 1..Len(seen) : i > Len(seen) - node.good => seen[i] = "good"

ChargeInv == TypeOK /\ Sound(node) /\ Backed

-----------------------------------------------------------------------------
(* The operators on the node's memory *)

(* The smaller of two levels is one of them and above neither. *)
LEMMA AtMostIsLeast ==
  ASSUME NEW a \in Int, NEW b \in Int
  PROVE  /\ AtMost(a, b) = a \/ AtMost(a, b) = b
         /\ AtMost(a, b) <= a /\ AtMost(a, b) <= b
BY DEF AtMost

(* What a session is judged by. *)
SameSetting(m, n) ==
  /\ m.open = n.open /\ m.ready = n.ready /\ m.monitor = n.monitor
  /\ m.latched = n.latched /\ m.cset = n.cset /\ m.ceiling = n.ceiling
  /\ m.waited = n.waited /\ m.wfails = n.wfails /\ m.fails = n.fails

SameSession(m, n) ==
  /\ m.charging = n.charging /\ m.ramping = n.ramping
  /\ m.limit = n.limit /\ m.lastGood = n.lastGood

(* A reading that was lost, and one that was taken, change only what the   *)
(* node has measured.                                                      *)
LEMMA ObservedNode ==
  ASSUME NEW n \in Node, NEW s, s = Lost \/ s \in Charger
  PROVE  /\ Invalidate(n) \in Node /\ SameSetting(Invalidate(n), n) /\ SameSession(Invalidate(n), n)
         /\ Invalidate(n).good = 0 /\ Invalidate(n).low = 0
         /\ Accept(n, s) \in Node /\ SameSetting(Accept(n, s), n) /\ SameSession(Accept(n, s), n)
         /\ Accept(n, s).good = n.good \/ Accept(n, s).good = 0
         /\ Accept(n, s).low = n.low \/ Accept(n, s).low = 0
         /\ Observe(n, s) \in Node /\ SameSetting(Observe(n, s), n) /\ SameSession(Observe(n, s), n)
<1>0. 0 \in Level /\ 0 \in 0..GOOD_CURRENT_MIN_COUNT /\ 0 \in 0..LOW_CURRENT_MAX_COUNT
  BY DEF Level
<1>1. Invalidate(n) \in Node
  BY <1>0 DEF Invalidate, Node
<1>2. SameSetting(Invalidate(n), n) /\ SameSession(Invalidate(n), n)
  BY DEF Invalidate, Node, SameSetting, SameSession
<1>3. Invalidate(n).good = 0 /\ Invalidate(n).low = 0
  BY DEF Invalidate, Node
<1>4. Accept(n, s) \in Node
  <2> DEFINE on == IF s.on THEN "on" ELSE "off"
  <2>1. on \in {"on", "off", "unknown"}
    OBVIOUS
  <2>2. Accept(n, s) = [n EXCEPT !.fresh = TRUE, !.output = on,
                                 !.good = IF ~n.fresh THEN 0 ELSE @,
                                 !.candidate = IF ~n.fresh THEN 0 ELSE @,
                                 !.low = IF ~n.fresh THEN 0 ELSE @]
    BY DEF Accept
  <2> HIDE DEF on
  <2> QED
    BY <1>0, <2>1, <2>2 DEF Node
<1>5. SameSetting(Accept(n, s), n) /\ SameSession(Accept(n, s), n)
  BY DEF Accept, Node, SameSetting, SameSession
<1>6. /\ Accept(n, s).good = n.good \/ Accept(n, s).good = 0
      /\ Accept(n, s).low = n.low \/ Accept(n, s).low = 0
  BY DEF Accept, Node
<1> QED
  BY <1>1, <1>2, <1>3, <1>4, <1>5, <1>6 DEF Observe

(* What a stop clears before it talks to the charger. *)
LEMMA EndedNode ==
  ASSUME NEW n \in Node
  PROVE  /\ Ended(n) \in Node /\ SameSetting(Ended(n), n) /\ Ended(n).limit = n.limit
         /\ ~Ended(n).charging /\ Ended(n).low = 0
<1>1. 0 \in Level /\ 0 \in 0..GOOD_CURRENT_MIN_COUNT /\ 0 \in 0..LOW_CURRENT_MAX_COUNT
  BY DEF Level
<1>2. Ended(n) \in Node
  BY <1>1 DEF Ended, Node
<1>3. /\ SameSetting(Ended(n), n) /\ Ended(n).limit = n.limit
      /\ ~Ended(n).charging /\ Ended(n).low = 0
  BY DEF Ended, Node, SameSetting
<1> QED
  BY <1>2, <1>3

(* A latched node differs in nothing else. *)
LEMMA LatchedNode ==
  ASSUME NEW n \in Node
  PROVE  /\ Latch(n) \in Node /\ Latch(n).latched
         /\ \A m \in Node : SameSetting(m, Latch(n)) =>
              /\ m.open = n.open /\ m.ready = n.ready /\ m.latched /\ m.ceiling = n.ceiling
         /\ Latch(n).low = n.low
<1>1. Latch(n) \in Node /\ Latch(n).latched /\ Latch(n).low = n.low
  BY DEF Latch, Node
<1>2. Latch(n).open = n.open /\ Latch(n).ready = n.ready /\ Latch(n).ceiling = n.ceiling
  BY DEF Latch, Node
<1> QED
  BY <1>1, <1>2 DEF SameSetting

-----------------------------------------------------------------------------
(* The transactions *)

(* A write of OFF leaves the output off, or the charger as it was. *)
LEMMA OffWritten ==
  ASSUME NEW c \in Charger, NEW x \in Written({c}, "on", FALSE)
  PROVE  x \in Charger /\ (x = c \/ ~x.on)
BY DEF Written, Charger

(* Nothing but the charger's own registers is read. *)
LEMMA ReadingIsTrue ==
  ASSUME NEW c \in Charger, NEW s \in Readings(c)
  PROVE  s = c \/ s = Lost
BY DEF Readings

(* The fields by which the outcomes of a stop are known. *)
StopEffect(n, c, m, x) ==
  /\ m \in Node /\ SameSetting(m, n) /\ ~m.charging /\ m.low = 0
  /\ x \in Charger /\ (x = c \/ ~x.on)

(* A stop ends the session whatever the charger does, and confirms only an *)
(* output that is off.                                                     *)
LEMMA StopOutcome ==
  ASSUME NEW n \in Node, NEW c \in Charger, NEW o \in Stop(n, c)
  PROVE  StopEffect(n, c, o.n, o.c) /\ (o.confirmed => ~o.c.on)
<1>1. CASE ~n.open
  <2>1. o = [n |-> Ended(n), c |-> c, confirmed |-> FALSE]
    BY <1>1 DEF Stop
  <2> QED
    BY <2>1, EndedNode DEF StopEffect
<1>2. CASE n.open
  <2> DEFINE Outcomes(x) == {[n |-> Observe(Ended(n), s), c |-> x,
                              confirmed |-> a /\ s # Lost /\ ~s.on] :
                               s \in Readings(x), a \in Acknowledged}
  <2>0. Stop(n, c) = UNION {Outcomes(x) : x \in Written({c}, "on", FALSE)}
    BY <1>2 DEF Stop
  <2> HIDE DEF Outcomes
  <2>1. PICK x \in Written({c}, "on", FALSE) : o \in Outcomes(x)
    BY <2>0
  <2>2. x \in Charger /\ (x = c \/ ~x.on)
    BY <2>1, OffWritten
  <2>3. PICK s \in Readings(x), a \in Acknowledged :
             o = [n |-> Observe(Ended(n), s), c |-> x,
                  confirmed |-> a /\ s # Lost /\ ~s.on]
    BY <2>1 DEF Outcomes
  <2>4. s = Lost \/ s \in Charger
    BY <2>2, ReadingIsTrue
  <2>5. /\ Ended(n) \in Node /\ SameSetting(Ended(n), n)
        /\ ~Ended(n).charging /\ Ended(n).low = 0
    BY EndedNode
  <2> DEFINE e == Ended(n)
             m == Observe(e, s)
  <2>6. /\ m \in Node /\ SameSetting(m, e) /\ m.charging = e.charging
    BY <2>4, <2>5, ObservedNode DEF SameSession
  <2>7. m.low = 0
    BY <2>4, <2>5, ObservedNode DEF Observe
  <2>8. o.n = m /\ o.c = x /\ (o.confirmed => s # Lost /\ ~s.on)
    BY <2>3
  <2> HIDE DEF m, e
  <2>9. SameSetting(m, n)
    BY <2>5, <2>6 DEF SameSetting, e
  <2>10. ~m.charging
    BY <2>5, <2>6 DEF e
  <2>11. o.confirmed => ~o.c.on
    BY <2>2, <2>8, ReadingIsTrue
  <2> QED
    BY <2>2, <2>6, <2>7, <2>8, <2>9, <2>10, <2>11 DEF StopEffect
<1> QED
  BY <1>1, <1>2

(* The same for the callers that do not look at the confirmation. *)
LEMMA StoppedOutcome ==
  ASSUME NEW n \in Node, NEW c \in Charger, NEW o \in Stopped(n, c)
  PROVE  StopEffect(n, c, o[1], o[2])
<1>1. PICK p \in Stop(n, c) : o = <<p.n, p.c>>
  BY DEF Stopped
<1> QED
  BY <1>1, StopOutcome

(* A success leaves the output on at the checked settings; a failure that  *)
(* leaves it on had either found it on or checked the settings as well.    *)
LEMMA ConfigureOutcome ==
  ASSUME NEW c \in Charger, NEW i \in Level
  PROVE  /\ \A x \in ConfigureSucceeds(c, i) : x \in Charger /\ x.on /\ Matches(x, i)
         /\ \A x \in ConfigureFails(c, i) : x \in Charger /\ (~c.on /\ x.on => Matches(x, i))
<1>1. \A x \in OffFirst(c) : x \in Charger /\ (x = c \/ ~x.on)
  BY OffWritten DEF OffFirst
<1>2. \A x \in VoltageSet(c) : x \in Charger /\ ~x.on
  <2> DEFINE Quiet == {x \in OffFirst(c) : ~x.on}
  <2>1. \A x \in Quiet : x \in Charger /\ ~x.on
    BY <1>1
  <2>2. VoltageSet(c) = Written(Quiet, "vok", TRUE)
    BY DEF VoltageSet
  <2> HIDE DEF Quiet
  <2>3. ASSUME NEW x \in Written(Quiet, "vok", TRUE)
        PROVE  x \in Charger /\ ~x.on
    BY <2>1 DEF Written, Charger
  <2> QED
    BY <2>2, <2>3
<1>3. \A x \in CurrentSet(c, i) : x \in Charger /\ ~x.on
  <2>1. ASSUME NEW x \in Written(VoltageSet(c), "iset", i)
        PROVE  x \in Charger /\ ~x.on
    BY <1>2 DEF Written, Charger
  <2> QED
    BY <2>1 DEF CurrentSet
<1>4. \A x \in OutputOn(c, i) : x \in Charger /\ Matches(x, i)
  <2> DEFINE Checked == {x \in CurrentSet(c, i) : Matches(x, i)}
  <2>1. \A x \in Checked : x \in Charger /\ Matches(x, i)
    BY <1>3
  <2>2. OutputOn(c, i) = Written(Checked, "on", TRUE)
    BY DEF OutputOn
  <2> HIDE DEF Checked
  <2>3. ASSUME NEW x \in Written(Checked, "on", TRUE)
        PROVE  x \in Charger /\ Matches(x, i)
    BY <2>1 DEF Written, Charger, Matches
  <2> QED
    BY <2>2, <2>3
<1>5. \A x \in ConfigureFails(c, i) : x \in OffFirst(c) \/ x \in VoltageSet(c)
                                        \/ x \in CurrentSet(c, i) \/ x \in OutputOn(c, i)
  BY DEF ConfigureFails
<1>6. \A x \in ConfigureSucceeds(c, i) : x \in Charger /\ x.on /\ Matches(x, i)
  BY <1>4 DEF ConfigureSucceeds
<1>7. ASSUME NEW x \in ConfigureFails(c, i)
      PROVE  x \in Charger /\ (~c.on /\ x.on => Matches(x, i))
  BY <1>1, <1>2, <1>3, <1>4, <1>5
<1> QED
  BY <1>6, <1>7

(* The node after a success: the new setting, nothing measured at it yet.  *)
LEMMA ConfiguredNode ==
  ASSUME NEW n \in Node, NEW i \in Level
  PROVE  /\ Configured(n, i) \in Node
         /\ Configured(n, i).cset = i /\ Configured(n, i).waited = 0
         /\ Configured(n, i).low = 0 /\ Configured(n, i).good = 0
         /\ Configured(n, i).wfails = 0
         /\ Configured(n, i).charging = n.charging /\ Configured(n, i).open = n.open
         /\ Configured(n, i).ready = n.ready /\ Configured(n, i).latched = n.latched
         /\ Configured(n, i).ceiling = n.ceiling
<1> DEFINE m == [n EXCEPT !.cset = i]
           s == [on |-> TRUE, iset |-> i, vok |-> TRUE]
           a == Accept(m, s)
<1>1. 0 \in Level /\ 0 \in 0..GOOD_CURRENT_MIN_COUNT /\ 0 \in 0..LOW_CURRENT_MAX_COUNT
      /\ 0 \in 0..FAIL_THRESHOLD /\ 0 \in 0..2
  BY DEF Level
<1>2. s \in Charger
  BY DEF Charger
<1>3. /\ m \in Node /\ m.cset = i /\ m.charging = n.charging /\ m.open = n.open
      /\ m.ready = n.ready /\ m.latched = n.latched /\ m.ceiling = n.ceiling
  BY DEF Node
<1>4. Configured(n, i) = [a EXCEPT !.waited = 0, !.low = 0, !.good = 0,
                                   !.candidate = 0, !.wfails = 0]
  BY DEF Configured
<1> HIDE DEF m, s
<1>5. a \in Node /\ SameSetting(a, m) /\ a.charging = m.charging
  BY <1>2, <1>3, ObservedNode DEF SameSession
<1> HIDE DEF a
<1>6. /\ a.cset = i /\ a.charging = n.charging /\ a.open = n.open
      /\ a.ready = n.ready /\ a.latched = n.latched /\ a.ceiling = n.ceiling
  BY <1>3, <1>5 DEF SameSetting
<1>7. Configured(n, i) \in Node
  BY <1>1, <1>4, <1>5 DEF Node
<1> QED
  BY <1>4, <1>5, <1>6, <1>7 DEF Node

-----------------------------------------------------------------------------
(* The callback of the status timer *)

(* A protective stop leaves a latched node, and an output that it did not  *)
(* turn on.                                                                *)
LEMMA ProtectiveStop ==
  ASSUME NEW n \in Node, n.ready => n.open, NEW c \in Charger,
         NEW o \in Stopped(Latch(n), c)
  PROVE  /\ Sound(o[1]) /\ ~o[1].charging /\ o[1].latched
         /\ o[1].ceiling = n.ceiling
         /\ o[2] \in Charger /\ (o[2] = c \/ ~o[2].on)
<1>1. Latch(n) \in Node
  BY LatchedNode
<1>2. StopEffect(Latch(n), c, o[1], o[2])
  BY <1>1, StoppedOutcome
<1>3. /\ o[1].open = n.open /\ o[1].ready = n.ready /\ o[1].latched
      /\ o[1].ceiling = n.ceiling
  BY <1>2, LatchedNode DEF StopEffect
<1> QED
  BY <1>2, <1>3 DEF StopEffect, Sound, Session

(* What the charger half of the status timer makes of a node n and a       *)
(* charger c when it has read s.                                           *)
Effect(n, c, s, m, x) ==
  /\ Sound(m) /\ x \in Charger
  /\ n.latched => m.latched
  /\ ~c.on /\ x.on => Matches(x, AtMost(Start, m.ceiling))
  /\ m.charging =>
       /\ n.charging
       /\ \/ m.ceiling = n.ceiling /\ m.cset = n.cset
          \/ m.ceiling < n.cset /\ m.cset < n.cset
       /\ \/ m.good = 0
          \/ m.good = n.good /\ m.waited = n.waited /\ n.waited = 0
          \/ /\ s # Lost /\ s.on /\ flow
             /\ m.good <= n.good + 1 /\ m.waited = n.waited /\ n.waited >= 1

(* Lost current is recovered from below the level it was lost at, or the   *)
(* session ends.                                                           *)
LEMMA LowIsRecovered ==
  ASSUME NEW n \in Node, n.ready => n.open, Session(n), n.charging,
         NEW c \in Charger, NEW o \in HandleLow(n, c)
  PROVE  /\ Sound(o[1]) /\ o[2] \in Charger /\ ~n.latched
         /\ ~c.on /\ o[2].on => Matches(o[2], AtMost(Start, o[1].ceiling))
         /\ o[1].charging =>
              o[1].ceiling < n.cset /\ o[1].cset < n.cset /\ o[1].good = 0
<1>1. ~n.latched /\ n.ready
  BY DEF Session
<1>2. CASE n.lastGood = 0 \/ n.lastGood >= n.cset
  <2>1. o \in Stopped(Latch(n), c)
    BY <1>2 DEF HandleLow
  <2> QED
    BY <1>1, <2>1, ProtectiveStop
<1>3. CASE ~(n.lastGood = 0 \/ n.lastGood >= n.cset)
  <2> DEFINE m == [n EXCEPT !.limit = n.lastGood, !.ceiling = n.lastGood]
             i == AtMost(Start, n.lastGood)
             success == {<<[Configured(m, i) EXCEPT !.ramping = i < m.ceiling], x>> :
                           x \in ConfigureSucceeds(c, i)}
             failure == UNION {Stopped(Latch(m), x) : x \in ConfigureFails(c, i)}
  <2>1. HandleLow(n, c) = success \cup failure
    BY <1>3 DEF HandleLow
  <2>2. n.lastGood \in Level /\ n.cset \in Level
    BY DEF Node
  <2>3. n.lastGood \in Nat /\ n.lastGood # 0 /\ n.lastGood < n.cset
    BY <1>3, <2>2 DEF Level
  <2>4. i \in Level /\ i \in 1..n.lastGood
    BY <2>2, <2>3 DEF AtMost, Level
  <2>5. /\ m \in Node /\ m.ceiling = n.lastGood /\ m.charging /\ m.open = n.open
        /\ m.ready /\ ~m.latched
    BY <1>1, <2>2 DEF Node
  <2> HIDE DEF m
  <2>6. CASE o \in success
    <3> DEFINE k == Configured(m, i)
    <3>1. PICK x \in ConfigureSucceeds(c, i) :
               o = <<[k EXCEPT !.ramping = i < m.ceiling], x>>
      BY <2>6
    <3>2. x \in Charger /\ Matches(x, i)
      BY <2>4, ConfigureOutcome
    <3>3. /\ k \in Node /\ k.cset = i /\ k.low = 0 /\ k.good = 0 /\ k.wfails = 0
          /\ k.charging /\ k.ready /\ k.open = n.open /\ ~k.latched /\ k.ceiling = n.lastGood
      BY <2>4, <2>5, ConfiguredNode
    <3> HIDE DEF k, i
    <3>4. o[1] = [k EXCEPT !.ramping = i < m.ceiling] /\ o[2] = x
      BY <3>1
    <3>5. /\ o[1] \in Node /\ o[1].cset = i /\ o[1].low = 0 /\ o[1].good = 0
          /\ o[1].wfails = 0 /\ o[1].ready /\ o[1].open = n.open /\ ~o[1].latched
          /\ o[1].ceiling = n.lastGood
      BY <3>3, <3>4 DEF Node
    <3>6. Sound(o[1])
      BY <1>1, <2>4, <3>5 DEF Sound, Session
    <3>7. o[1].ceiling < n.cset /\ o[1].cset < n.cset
      BY <2>2, <2>3, <2>4, <3>5 DEF Level
    <3> QED
      BY <1>1, <3>2, <3>4, <3>5, <3>6, <3>7 DEF i
  <2>7. CASE o \in failure
    <3>1. PICK x \in ConfigureFails(c, i) : o \in Stopped(Latch(m), x)
      BY <2>7
    <3>2. x \in Charger /\ (~c.on /\ x.on => Matches(x, i))
      BY <2>4, ConfigureOutcome
    <3>3. /\ Sound(o[1]) /\ ~o[1].charging /\ o[1].ceiling = n.lastGood
          /\ o[2] \in Charger /\ (o[2] = x \/ ~o[2].on)
      BY <1>1, <2>5, <3>1, <3>2, ProtectiveStop
    <3> QED
      BY <1>1, <3>2, <3>3
  <2> QED
    BY <2>1, <2>6, <2>7
<1> QED
  BY <1>2, <1>3

(* A good reading counts one at most, and proves no more than the setting. *)
LEMMA Remembered ==
  ASSUME NEW n \in Node
  PROVE  /\ Remember(n) \in Node /\ SameSetting(Remember(n), n)
         /\ Remember(n).charging = n.charging /\ Remember(n).low = n.low
         /\ Remember(n).good <= n.good + 1
<1> DEFINE count == AtMost(IF n.candidate = n.cset THEN n.good + 1 ELSE 1,
                           GOOD_CURRENT_MIN_COUNT)
           proven == count >= GOOD_CURRENT_MIN_COUNT
<1>1. n.good \in 0..GOOD_CURRENT_MIN_COUNT /\ n.cset \in Level
  BY DEF Node
<1>2. count \in 0..GOOD_CURRENT_MIN_COUNT /\ count <= n.good + 1
  BY <1>1 DEF AtMost
<1>3. Remember(n) = [n EXCEPT !.candidate = n.cset, !.good = count,
                              !.lastGood = IF proven THEN n.cset ELSE @,
                              !.limit = IF proven THEN n.cset ELSE @]
  BY DEF Remember
<1> HIDE DEF count, proven
<1>4. Remember(n) \in Node
  BY <1>1, <1>2, <1>3 DEF Node
<1> QED
  BY <1>2, <1>3, <1>4 DEF Node, SameSetting

(* A reading at the present setting, once it has settled. *)
LEMMA SettledEffect ==
  ASSUME NEW n, Sound(n), n.charging, n.waited >= 1,
         NEW c \in Charger, NEW s, s # Lost, s.on,
         NEW o \in CheckSettled(n, c)
  PROVE  Effect(n, c, s, o[1], o[2])
<1>1. /\ n \in Node /\ n.low \in Nat /\ n.low < LOW_CURRENT_MAX_COUNT
      /\ n.ready /\ n.open /\ ~n.latched /\ n.wfails < FAIL_THRESHOLD
      /\ n.cset \in 1..n.ceiling
  BY DEF Sound, Session, Node
<1>2. CASE flow
  <2> DEFINE m == [n EXCEPT !.low = 0]
             k == Remember(m)
  <2>1. o = <<k, c>>
    BY <1>2 DEF CheckSettled
  <2>2. 0 \in 0..LOW_CURRENT_MAX_COUNT
    OBVIOUS
  <2>3. /\ m \in Node /\ SameSetting(m, n) /\ m.charging /\ m.low = 0 /\ m.good = n.good
    BY <1>1, <2>2 DEF Node, SameSetting
  <2>4. /\ k \in Node /\ SameSetting(k, m) /\ k.charging /\ k.low = 0
        /\ k.good <= n.good + 1
    <3> HIDE DEF m
    <3> QED
      BY <2>3, Remembered
  <2> HIDE DEF m, k
  <2>5. SameSetting(k, n)
    BY <2>3, <2>4 DEF SameSetting
  <2>6. Sound(k)
    BY <1>1, <2>4, <2>5 DEF Sound, Session, SameSetting
  <2>7. k.waited = n.waited /\ k.ceiling = n.ceiling /\ k.cset = n.cset
    BY <2>5 DEF SameSetting
  <2> QED
    BY <1>1, <1>2, <2>1, <2>4, <2>6, <2>7 DEF Effect
<1>3. CASE ~flow
  <2> DEFINE m == [n EXCEPT !.low = @ + 1, !.good = 0, !.candidate = 0]
  <2>1. n.low + 1 \in 0..LOW_CURRENT_MAX_COUNT /\ 0 \in Level /\ 0 \in 0..GOOD_CURRENT_MIN_COUNT
    BY <1>1 DEF Level
  <2>2. m \in Node /\ m.low = n.low + 1 /\ m.good = 0
    BY <1>1, <2>1 DEF Node
  <2>3. /\ m.charging /\ m.ready /\ m.open /\ ~m.latched /\ m.wfails = n.wfails
        /\ m.cset = n.cset /\ m.ceiling = n.ceiling
    BY <1>1 DEF Node
  <2>4. CheckSettled(n, c) = IF m.low >= LOW_CURRENT_MAX_COUNT THEN HandleLow(m, c) ELSE {<<m, c>>}
    BY <1>3 DEF CheckSettled
  <2> HIDE DEF m
  <2>5. Session(m)
    BY <1>1, <2>3 DEF Session
  <2>6. CASE m.low >= LOW_CURRENT_MAX_COUNT
    <3>1. /\ Sound(o[1]) /\ o[2] \in Charger
          /\ ~c.on /\ o[2].on => Matches(o[2], AtMost(Start, o[1].ceiling))
          /\ o[1].charging =>
               o[1].ceiling < m.cset /\ o[1].cset < m.cset /\ o[1].good = 0
      BY <2>2, <2>3, <2>4, <2>5, <2>6, LowIsRecovered
    <3> QED
      BY <1>1, <2>3, <3>1 DEF Effect
  <2>7. CASE ~(m.low >= LOW_CURRENT_MAX_COUNT)
    <3>1. o = <<m, c>>
      BY <2>4, <2>7
    <3>2. m.low < LOW_CURRENT_MAX_COUNT
      BY <1>1, <2>2, <2>7
    <3> QED
      BY <1>1, <2>2, <2>3, <2>5, <3>1, <3>2 DEF Effect, Sound
  <2> QED
    BY <2>6, <2>7
<1> QED
  BY <1>2, <1>3

(* The protection, after a reading that was taken. *)
LEMMA ProtectEffect ==
  ASSUME NEW n, Sound(n), NEW c \in Charger, NEW s, s # Lost,
         NEW o \in Protect(n, c, s)
  PROVE  Effect(n, c, s, o[1], o[2])
<1>1. n \in Node /\ (n.ready => n.open)
  BY DEF Sound
<1>2. CASE ~n.charging /\ s.on
  <2>1. StopEffect(n, c, o[1], o[2])
    BY <1>1, <1>2, StoppedOutcome DEF Protect
  <2> QED
    BY <1>1, <2>1 DEF StopEffect, SameSetting, Effect, Sound, Session
<1>3. CASE ~n.charging /\ ~s.on
  BY <1>3 DEF Protect, Effect
<1>4. CASE n.charging /\ (~s.on \/ ~Matches(s, n.cset))
  <2>1. o \in Stopped(Latch(n), c)
    BY <1>4 DEF Protect
  <2> QED
    BY <1>1, <2>1, ProtectiveStop DEF Effect
<1>5. CASE n.charging /\ s.on /\ Matches(s, n.cset) /\ n.waited >= 1
  BY <1>5, SettledEffect DEF Protect
<1>6. CASE n.charging /\ s.on /\ Matches(s, n.cset) /\ ~(n.waited >= 1)
  <2>1. n.waited = 0
    BY <1>1, <1>6 DEF Node
  <2>2. o = <<n, c>>
    BY <1>6 DEF Protect
  <2> QED
    BY <1>6, <2>1, <2>2 DEF Effect
<1> QED
  BY <1>2, <1>3, <1>4, <1>5, <1>6

(* A reading that was lost ends the session, or what was counted for it.   *)
LEMMA LostEffect ==
  ASSUME NEW n, Sound(n), NEW c \in Charger, NEW s,
         NEW o \in LostReading(n, c)
  PROVE  Effect(n, c, s, o[1], o[2])
<1> DEFINE p == [n EXCEPT !.fails = AtMost(@ + 1, FAIL_THRESHOLD)]
           m == Invalidate(p)
<1>1. n \in Node /\ (n.ready => n.open) /\ n.fails \in 0..FAIL_THRESHOLD
  BY DEF Sound, Node
<1>2. AtMost(n.fails + 1, FAIL_THRESHOLD) \in 0..FAIL_THRESHOLD
  BY <1>1 DEF AtMost
<1>3. /\ p \in Node /\ p.open = n.open /\ p.ready = n.ready /\ p.latched = n.latched
      /\ p.cset = n.cset /\ p.ceiling = n.ceiling /\ p.wfails = n.wfails
      /\ p.charging = n.charging
  BY <1>1, <1>2 DEF Node
<1>4. LostReading(n, c) = IF m.fails >= FAIL_THRESHOLD THEN Undocked(m, c) ELSE {<<m, c>>}
  BY DEF LostReading
<1> HIDE DEF p
<1>5. m \in Node /\ SameSetting(m, p) /\ m.charging = p.charging /\ m.good = 0 /\ m.low = 0
  BY <1>3, ObservedNode DEF SameSession
<1> HIDE DEF m
<1>6. /\ m.open = n.open /\ m.ready = n.ready /\ m.latched = n.latched
      /\ m.cset = n.cset /\ m.ceiling = n.ceiling /\ m.wfails = n.wfails
      /\ m.charging = n.charging
  BY <1>3, <1>5 DEF SameSetting
<1>7. CASE m.fails >= FAIL_THRESHOLD
  <2>1. PICK q \in Stop(Latch(m), c) :
             o = <<[Invalidate(q.n) EXCEPT !.open = FALSE, !.ready = FALSE], q.c>>
    BY <1>4, <1>7 DEF Undocked
  <2>2. Latch(m) \in Node
    BY <1>5, LatchedNode
  <2>3. StopEffect(Latch(m), c, q.n, q.c)
    BY <2>2, StopOutcome
  <2>4. /\ q.n \in Node /\ q.n.latched /\ ~q.n.charging
        /\ q.c \in Charger /\ (q.c = c \/ ~q.c.on)
    BY <1>5, <2>3, LatchedNode DEF StopEffect
  <2> DEFINE k == Invalidate(q.n)
  <2>5. k \in Node /\ k.latched /\ ~k.charging /\ k.low = 0
    BY <2>4, ObservedNode DEF SameSetting, SameSession
  <2>6. o[1] = [k EXCEPT !.open = FALSE, !.ready = FALSE] /\ o[2] = q.c
    BY <2>1
  <2> HIDE DEF k
  <2>7. o[1] \in Node /\ o[1].latched /\ ~o[1].charging /\ o[1].low = 0 /\ ~o[1].ready
    BY <2>5, <2>6 DEF Node
  <2>8. Sound(o[1])
    BY <2>7 DEF Sound, Session
  <2> QED
    BY <2>4, <2>6, <2>7, <2>8 DEF Effect
<1>8. CASE ~(m.fails >= FAIL_THRESHOLD)
  <2>1. o = <<m, c>>
    BY <1>4, <1>8
  <2>2. Sound(m)
    BY <1>5, <1>6 DEF Sound, Session
  <2> QED
    BY <1>5, <1>6, <2>1, <2>2 DEF Effect
<1> QED
  BY <1>7, <1>8

(* The whole charger half. *)
LEMMA ChargerHalf ==
  ASSUME NEW n, Sound(n), NEW c \in Charger, NEW s \in Readings(c),
         NEW o \in CheckCharger(n, c, s)
  PROVE  Effect(n, c, s, o[1], o[2])
<1>1. n \in Node /\ (n.charging => n.ready)
  BY DEF Sound, Session
<1>2. CASE ~n.ready
  BY <1>1, <1>2 DEF CheckCharger, Effect
<1>3. CASE n.ready /\ s = Lost
  BY <1>3, LostEffect DEF CheckCharger
<1>4. CASE n.ready /\ s # Lost
  <2> DEFINE p == [n EXCEPT !.fails = 0]
             a == Accept(p, s)
  <2>1. s \in Charger
    BY <1>4, ReadingIsTrue
  <2>2. 0 \in 0..FAIL_THRESHOLD
    OBVIOUS
  <2>3. /\ p \in Node /\ p.open = n.open /\ p.ready = n.ready /\ p.latched = n.latched
        /\ p.cset = n.cset /\ p.ceiling = n.ceiling /\ p.wfails = n.wfails
        /\ p.charging = n.charging /\ p.waited = n.waited /\ p.good = n.good /\ p.low = n.low
    BY <1>1, <2>2 DEF Node
  <2>4. o \in Protect(a, c, s)
    BY <1>4 DEF CheckCharger
  <2> HIDE DEF p
  <2>5. /\ a \in Node /\ SameSetting(a, p) /\ a.charging = p.charging
        /\ a.good = p.good \/ a.good = 0
        /\ a.low = p.low \/ a.low = 0
    BY <2>1, <2>3, ObservedNode DEF SameSession
  <2> HIDE DEF a
  <2>6. /\ a.open = n.open /\ a.ready = n.ready /\ a.latched = n.latched
        /\ a.cset = n.cset /\ a.ceiling = n.ceiling /\ a.wfails = n.wfails
        /\ a.charging = n.charging /\ a.waited = n.waited
    BY <2>3, <2>5 DEF SameSetting
  <2>7. a.low < LOW_CURRENT_MAX_COUNT
    BY <2>3, <2>5 DEF Sound
  <2>8. Sound(a)
    BY <2>5, <2>6, <2>7 DEF Sound, Session
  <2>9. Effect(a, c, s, o[1], o[2])
    BY <1>4, <2>4, <2>8, ProtectEffect
  <2>10. a.good = n.good \/ (a.good = 0 /\ n.good \in Nat)
    BY <1>1, <2>3, <2>5 DEF Node
  <2> DEFINE m == o[1]
  <2>11. m.charging => \/ m.good = 0
                       \/ m.good = n.good /\ m.waited = n.waited /\ n.waited = 0
                       \/ /\ s # Lost /\ s.on /\ flow
                          /\ m.good <= n.good + 1 /\ m.waited = n.waited /\ n.waited >= 1
    <3>1. m \in Node /\ a \in Node /\ n \in Node
      BY <1>1, <2>5, <2>9 DEF Effect, Sound
    <3>2. m.good \in Nat /\ a.good \in Nat /\ n.good \in Nat
      BY <3>1 DEF Node
    <3> QED
      BY <2>6, <2>9, <2>10, <3>2 DEF Effect
  <2> QED
    BY <2>6, <2>9, <2>11 DEF Effect
<1> QED
  BY <1>2, <1>3, <1>4

(* The sensor half ends a session that has no sensor, or changes only      *)
(* which sensor there is.                                                  *)
LEMMA SensorHalf ==
  ASSUME NEW n, Sound(n), NEW c \in Charger, NEW sensor,
         NEW o \in CheckSensor(n, c, sensor)
  PROVE  /\ Sound(o[1]) /\ o[2] \in Charger /\ (o[2] = c \/ ~o[2].on)
         /\ n.latched => o[1].latched
         /\ o[1].ceiling = n.ceiling
         /\ o[1].charging => /\ n.charging /\ o[1].cset = n.cset
                             /\ o[1].good = n.good /\ o[1].waited = n.waited
<1> DEFINE m == [n EXCEPT !.monitor = sensor # "error"]
<1>1. n \in Node
  BY DEF Sound
<1>2. /\ m \in Node /\ m.open = n.open /\ m.ready = n.ready /\ m.latched = n.latched
      /\ m.cset = n.cset /\ m.ceiling = n.ceiling /\ m.wfails = n.wfails
      /\ m.charging = n.charging /\ m.waited = n.waited /\ m.good = n.good /\ m.low = n.low
  BY <1>1 DEF Node
<1>3. o \in IF sensor # "ok" /\ n.charging THEN Stopped(Latch(m), c) ELSE {<<m, c>>}
  BY DEF CheckSensor
<1> HIDE DEF m
<1>4. m.ready => m.open
  BY <1>2 DEF Sound
<1>5. CASE sensor # "ok" /\ n.charging
  <2>1. o \in Stopped(Latch(m), c)
    BY <1>3, <1>5
  <2> QED
    BY <1>2, <1>4, <2>1, ProtectiveStop
<1>6. CASE ~(sensor # "ok" /\ n.charging)
  <2>1. o = <<m, c>>
    BY <1>3, <1>6
  <2>2. Sound(m)
    BY <1>2 DEF Sound, Session
  <2> QED
    BY <1>2, <2>1, <2>2
<1> QED
  BY <1>5, <1>6

-----------------------------------------------------------------------------
(* The steps *)

(* What the action properties say of a single step. *)
RaiseStep ==
  node.charging /\ node'.charging /\ node'.cset > node.cset
    => /\ Len(seen) = GOOD_CURRENT_MIN_COUNT
       /\ \A i \in 1..GOOD_CURRENT_MIN_COUNT : seen[i] = "good"
OnStep ==
  ~charger.on /\ charger'.on => Matches(charger', AtMost(Start, node'.ceiling))
LatchStep ==
  node.latched /\ ~node'.latched => ~charger'.on \/ node' = InitNode
LossStep ==
  node.charging /\ node'.charging /\ node'.ceiling # node.ceiling
    => node'.ceiling < node.cset

Steps == ChargeInv' /\ RaiseStep /\ LatchStep /\ LossStep

(* A step after which there is no session, or a new one, owes nothing to   *)
(* the readings of the last one.                                           *)
LEMMA OtherSession ==
  ASSUME Sound(node'), charger' \in Charger, flow' \in BOOLEAN, link' \in {"good", "bad"},
         seen' = <<>>, recovered' = 0, ~(node.charging /\ node'.charging),
         node'.charging => node'.good = 0
  PROVE  ChargeInv' /\ RaiseStep /\ LossStep
<1>1. seen' \in Seq({"good", "bad"}) /\ Len(seen') = 0
  OBVIOUS
<1>2. 0 \in Level
  BY DEF Level
<1>3. TypeOK'
  BY <1>1, <1>2 DEF TypeOK, Sound
<1>4. Backed'
  BY <1>1 DEF Backed
<1> QED
  BY <1>3, <1>4 DEF ChargeInv, RaiseStep, LossStep

(* ON: a verified start, or a latched stop. *)
LEMMA CommandOnStep ==
  ASSUME ChargeInv, CommandOn
  PROVE  Steps /\ OnStep
<1> DEFINE top == IF node.limit = 0 THEN Target ELSE AtMost(Target, node.limit)
           n == [node EXCEPT !.ceiling = top]
           i == AtMost(Start, top)
<1>1. /\ node \in Node /\ Sound(node) /\ charger \in Charger
      /\ flow' \in BOOLEAN /\ link' \in {"good", "bad"}
  BY DEF ChargeInv, TypeOK, CommandOn, environment
<1>2. ~node.latched /\ node.ready /\ node.open /\ ~node.charging
  BY <1>1 DEF CommandOn, MayStart, Sound
<1>3. node.limit \in Level
  BY <1>1 DEF Node
<1>4. top \in Level /\ top # 0
  BY <1>3 DEF AtMost, Level
<1>5. i \in Level /\ i \in 1..top
  <2> HIDE DEF top
  <2> QED
    BY <1>4 DEF AtMost, Level
<1>6. /\ n \in Node /\ n.ceiling = top /\ n.open /\ n.ready /\ ~n.latched /\ ~n.charging
  <2> HIDE DEF top
  <2> QED
    BY <1>1, <1>2, <1>4 DEF Node
<1>7. \/ /\ charger' \in ConfigureSucceeds(charger, i)
         /\ node' = SessionStarted(n, i)
      \/ \E c \in ConfigureFails(charger, i) : Becomes(Stopped(Latch(n), c))
  BY DEF CommandOn
<1>8. seen' = <<>> /\ recovered' = 0
  BY DEF CommandOn
<1> HIDE DEF n, i, top
<1>9. CASE charger' \in ConfigureSucceeds(charger, i) /\ node' = SessionStarted(n, i)
  <2> DEFINE k == Configured(n, i)
  <2>1. charger' \in Charger /\ Matches(charger', i)
    BY <1>1, <1>5, <1>9, ConfigureOutcome
  <2>2. /\ k \in Node /\ k.cset = i /\ k.low = 0 /\ k.good = 0 /\ k.wfails = 0
        /\ k.ready /\ k.open /\ ~k.latched /\ k.ceiling = top
    BY <1>5, <1>6, ConfiguredNode
  <2>3. node' = [k EXCEPT !.charging = TRUE, !.ramping = i < n.ceiling,
                          !.fails = 0, !.lastGood = 0]
    BY <1>9 DEF SessionStarted
  <2>4. 0 \in Level /\ 0 \in 0..FAIL_THRESHOLD
    BY DEF Level
  <2> HIDE DEF k
  <2>5. /\ node' \in Node /\ node'.cset = i /\ node'.low = 0 /\ node'.good = 0
        /\ node'.wfails = 0 /\ node'.ready /\ node'.open /\ ~node'.latched
        /\ node'.ceiling = top
    <3> DEFINE up == i < n.ceiling
    <3>1. up \in BOOLEAN
      OBVIOUS
    <3>2. node' = [k EXCEPT !.charging = TRUE, !.ramping = up, !.fails = 0, !.lastGood = 0]
      BY <2>3
    <3> HIDE DEF up
    <3>3. node' \in Node
      BY <2>2, <2>4, <3>1, <3>2 DEF Node
    <3> QED
      BY <2>2, <3>2, <3>3 DEF Node
  <2>6. Sound(node')
    BY <1>5, <2>5 DEF Sound, Session
  <2>7. ChargeInv' /\ RaiseStep /\ LossStep
    BY <1>1, <1>2, <1>8, <2>1, <2>5, <2>6, OtherSession
  <2> QED
    BY <1>2, <2>1, <2>5, <2>7 DEF Steps, OnStep, LatchStep, i
<1>10. CASE \E c \in ConfigureFails(charger, i) : Becomes(Stopped(Latch(n), c))
  <2>0. PICK c \in ConfigureFails(charger, i) : Becomes(Stopped(Latch(n), c))
    BY <1>10
  <2>1. PICK o \in Stopped(Latch(n), c) : node' = o[1] /\ charger' = o[2]
    BY <2>0 DEF Becomes
  <2>2. c \in Charger /\ (~charger.on /\ c.on => Matches(c, i))
    BY <1>1, <1>5, ConfigureOutcome
  <2>3. /\ Sound(node') /\ ~node'.charging /\ node'.ceiling = top
        /\ charger' \in Charger /\ (charger' = c \/ ~charger'.on)
    BY <1>6, <2>1, <2>2, ProtectiveStop
  <2>4. ChargeInv' /\ RaiseStep /\ LossStep
    BY <1>1, <1>8, <2>3, OtherSession
  <2> QED
    BY <1>2, <2>2, <2>3, <2>4 DEF Steps, OnStep, LatchStep, i
<1> QED
  BY <1>7, <1>9, <1>10

(* OFF: the session ends, and a latch goes only with the output. *)
LEMMA CommandOffStep ==
  ASSUME ChargeInv, CommandOff
  PROVE  Steps /\ OnStep
<1>1. /\ node \in Node /\ Sound(node) /\ charger \in Charger
      /\ flow' \in BOOLEAN /\ link' \in {"good", "bad"}
      /\ seen' = <<>> /\ recovered' = 0
  BY DEF ChargeInv, TypeOK, CommandOff, environment
<1>2. PICK o \in Stop(node, charger) :
           /\ node' = IF o.confirmed THEN [o.n EXCEPT !.latched = FALSE] ELSE o.n
           /\ charger' = o.c
  BY DEF CommandOff
<1>3. StopEffect(node, charger, o.n, o.c) /\ (o.confirmed => ~o.c.on)
  BY <1>1, StopOutcome
<1>4. /\ o.n \in Node /\ ~o.n.charging /\ o.n.low = 0 /\ (o.n.ready => o.n.open)
      /\ o.n.latched = node.latched
      /\ charger' \in Charger /\ (charger' = charger \/ ~charger'.on)
  BY <1>1, <1>2, <1>3 DEF StopEffect, SameSetting, Sound
<1>5. /\ node' \in Node /\ ~node'.charging /\ node'.low = 0 /\ (node'.ready => node'.open)
      /\ node'.latched = node.latched \/ o.confirmed
  <2>1. CASE o.confirmed
    BY <1>2, <1>4, <2>1 DEF Node
  <2>2. CASE ~o.confirmed
    BY <1>2, <1>4, <2>2
  <2> QED
    BY <2>1, <2>2
<1>6. Sound(node')
  BY <1>5 DEF Sound, Session
<1>7. ChargeInv' /\ RaiseStep /\ LossStep
  BY <1>1, <1>4, <1>5, <1>6, OtherSession
<1>8. LatchStep
  BY <1>2, <1>3, <1>5 DEF LatchStep
<1> QED
  BY <1>4, <1>7, <1>8 DEF Steps, OnStep

(* Taking a charger over turns nothing on and starts no session. *)
LEMMA PollStep ==
  ASSUME ChargeInv, Poll
  PROVE  Steps /\ OnStep
<1> DEFINE n == [node EXCEPT !.open = TRUE]
           r == [n EXCEPT !.ready = TRUE, !.fails = 0]
<1>1. /\ node \in Node /\ Sound(node) /\ charger \in Charger /\ TypeOK /\ ~node.ready
      /\ flow' = flow /\ link' = link /\ seen' = seen /\ recovered' = recovered
  BY DEF ChargeInv, TypeOK, Poll, environment
<1>2. ~node.charging /\ node.low < LOW_CURRENT_MAX_COUNT
  BY <1>1 DEF Sound, Session
<1>3. 0 \in 0..FAIL_THRESHOLD
  OBVIOUS
<1>4. /\ n \in Node /\ ~n.charging /\ n.low = node.low /\ n.open /\ n.latched = node.latched
      /\ r \in Node /\ ~r.charging /\ r.low = node.low /\ r.open /\ r.latched = node.latched
  BY <1>1, <1>2, <1>3 DEF Node
<1>5. \/ node' = [node EXCEPT !.open = FALSE] /\ charger' = charger
      \/ node' = Accept(r, charger) /\ charger' = charger
      \/ /\ charger.on /\ charger' \in Written({charger}, "on", FALSE)
         /\ \E s \in Readings(charger') :
              node' = n \/ (s # Lost /\ node' = Accept(r, s))
  BY DEF Poll
<1> HIDE DEF n, r
<1>6. charger' \in Charger /\ (charger' = charger \/ ~charger'.on)
  BY <1>1, <1>5, OffWritten
<1>7. \A s \in Charger : LET a == Accept(r, s) IN
        a \in Node /\ ~a.charging /\ a.low < LOW_CURRENT_MAX_COUNT /\ a.open
        /\ a.latched = node.latched
  <2> TAKE s \in Charger
  <2> DEFINE a == Accept(r, s)
  <2>0. r \in Node
    BY <1>4
  <2>1. a \in Node /\ SameSetting(a, r) /\ SameSession(a, r) /\ (a.low = r.low \/ a.low = 0)
    BY <2>0, ObservedNode
  <2> HIDE DEF a
  <2>2. a.low < LOW_CURRENT_MAX_COUNT /\ a.open /\ a.latched = node.latched
    BY <1>2, <1>4, <2>1 DEF SameSetting
  <2>3. ~a.charging
    BY <1>4, <2>1 DEF SameSession
  <2> QED
    BY <2>1, <2>2, <2>3 DEF a
<1>8. /\ node' \in Node /\ ~node'.charging /\ node'.low < LOW_CURRENT_MAX_COUNT
      /\ node'.ready => node'.open
      /\ node'.latched = node.latched
  <2>1. CASE node' = [node EXCEPT !.open = FALSE]
    BY <1>1, <1>2, <2>1 DEF Node
  <2>2. CASE node' = n
    BY <1>2, <1>4, <2>2
  <2>3. CASE \E s \in Charger : node' = Accept(r, s)
    BY <1>7, <2>3
  <2> QED
    BY <1>1, <1>5, <1>6, <2>1, <2>2, <2>3, ReadingIsTrue
<1>9. Sound(node')
  BY <1>8 DEF Sound, Session
<1>10. TypeOK' /\ Backed'
  BY <1>1, <1>6, <1>8 DEF TypeOK, Backed
<1> QED
  BY <1>2, <1>6, <1>8, <1>9, <1>10
     DEF Steps, OnStep, ChargeInv, RaiseStep, LatchStep, LossStep

(* The setting goes up one step on proven readings, or the write failed.   *)
LEMMA RampUpStep ==
  ASSUME ChargeInv, RampUp
  PROVE  Steps /\ OnStep
<1> DEFINE next == NextLevel
           n == [node EXCEPT !.wfails = @ + 1]
<1>1. /\ node \in Node /\ Sound(node) /\ charger \in Charger /\ TypeOK /\ Backed
      /\ flow' = flow /\ link' = link /\ recovered' = recovered
  BY DEF ChargeInv, TypeOK, RampUp, environment
<1>2. /\ node.charging /\ node.ready /\ node.open /\ ~node.latched
      /\ node.wfails < FAIL_THRESHOLD /\ node.cset \in 1..node.ceiling
      /\ node.low < LOW_CURRENT_MAX_COUNT
      /\ node.good >= GOOD_CURRENT_MIN_COUNT
  BY <1>1 DEF RampUp, Sound, Session
<1>3. /\ node.ceiling \in Level /\ node.wfails \in 0..FAIL_THRESHOLD
      /\ node.good \in 0..GOOD_CURRENT_MIN_COUNT
  BY <1>1 DEF Node
<1>4. next \in Level /\ next \in 1..node.ceiling
  BY <1>2, <1>3 DEF NextLevel, AtMost, Level
<1>5. node.wfails + 1 \in 0..FAIL_THRESHOLD
  BY <1>2, <1>3
<1>6. /\ n \in Node /\ n.charging /\ n.ready /\ n.open /\ ~n.latched
      /\ n.wfails = node.wfails + 1 /\ n.cset = node.cset /\ n.ceiling = node.ceiling
      /\ n.low = node.low /\ n.good = node.good
  BY <1>1, <1>2, <1>5 DEF Node
<1>7. \A c \in Written({charger}, "iset", next) : c \in Charger /\ c.on = charger.on
  <2> HIDE DEF next
  <2> QED
    BY <1>1, <1>4 DEF Written, Charger
<1>8. RaiseStep
  <2>1. Len(seen) \in Nat /\ Len(seen) <= GOOD_CURRENT_MIN_COUNT
    BY <1>1 DEF TypeOK
  <2>2. Len(seen) = GOOD_CURRENT_MIN_COUNT /\ node.good = GOOD_CURRENT_MIN_COUNT
    BY <1>1, <1>2, <1>3, <2>1 DEF Backed
  <2> QED
    BY <1>1, <1>2, <2>2 DEF Backed, RaiseStep
<1>9. \/ /\ charger' \in Written({charger}, "iset", next)
         /\ node' = [node EXCEPT !.wfails = 0, !.cset = next, !.waited = 0,
                                 !.good = 0, !.candidate = 0, !.low = 0,
                                 !.ramping = next < node.ceiling]
         /\ seen' = <<>>
      \/ /\ seen' = seen
         /\ \E c \in Written({charger}, "iset", next) :
              IF n.wfails >= FAIL_THRESHOLD
              THEN Becomes(Stopped(Latch(n), c))
              ELSE node' = n /\ charger' = c
  BY DEF RampUp
<1> HIDE DEF n, next
<1>10. CASE /\ charger' \in Written({charger}, "iset", next)
            /\ node' = [node EXCEPT !.wfails = 0, !.cset = next, !.waited = 0,
                                    !.good = 0, !.candidate = 0, !.low = 0,
                                    !.ramping = next < node.ceiling]
            /\ seen' = <<>>
  <2> DEFINE up == next < node.ceiling
  <2>1. 0 \in Level /\ 0 \in 0..FAIL_THRESHOLD /\ 0 \in 0..2 /\ 0 \in 0..GOOD_CURRENT_MIN_COUNT
        /\ 0 \in 0..LOW_CURRENT_MAX_COUNT /\ up \in BOOLEAN
    BY DEF Level
  <2>2. node' = [node EXCEPT !.wfails = 0, !.cset = next, !.waited = 0,
                             !.good = 0, !.candidate = 0, !.low = 0, !.ramping = up]
    BY <1>10
  <2> HIDE DEF up
  <2>3. node' \in Node
    BY <1>1, <1>4, <2>1, <2>2 DEF Node
  <2>4. /\ node'.low = 0 /\ node'.wfails = 0 /\ node'.cset = next /\ node'.good = 0
        /\ node'.ready /\ node'.open /\ ~node'.latched /\ node'.ceiling = node.ceiling
    BY <1>1, <1>2, <2>2 DEF Node
  <2>5. Sound(node')
    BY <1>4, <2>3, <2>4 DEF Sound, Session
  <2>6. charger' \in Charger /\ charger'.on = charger.on
    BY <1>7, <1>10
  <2>7. seen' \in Seq({"good", "bad"}) /\ Len(seen') = 0
    BY <1>10
  <2>8. TypeOK' /\ Backed'
    BY <1>1, <2>3, <2>4, <2>6, <2>7 DEF TypeOK, Backed
  <2> QED
    BY <1>2, <1>8, <2>4, <2>5, <2>6, <2>8
       DEF Steps, OnStep, ChargeInv, LatchStep, LossStep
<1>11. ASSUME NEW c \in Written({charger}, "iset", next), seen' = seen,
              IF n.wfails >= FAIL_THRESHOLD
              THEN Becomes(Stopped(Latch(n), c))
              ELSE node' = n /\ charger' = c
       PROVE  Steps /\ OnStep
  <2>1. c \in Charger /\ c.on = charger.on
    BY <1>7
  <2>2. CASE n.wfails >= FAIL_THRESHOLD
    <3>1. PICK o \in Stopped(Latch(n), c) : node' = o[1] /\ charger' = o[2]
      BY <1>11, <2>2 DEF Becomes
    <3>2. /\ Sound(node') /\ ~node'.charging
          /\ charger' \in Charger /\ (charger' = c \/ ~charger'.on)
      BY <1>6, <2>1, <3>1, ProtectiveStop
    <3>3. TypeOK' /\ Backed'
      BY <1>1, <1>11, <3>2 DEF TypeOK, Backed, Sound
    <3> QED
      BY <1>2, <1>8, <2>1, <3>2, <3>3 DEF Steps, OnStep, ChargeInv, LatchStep, LossStep
  <2>3. CASE ~(n.wfails >= FAIL_THRESHOLD)
    <3>1. node' = n /\ charger' = c
      BY <1>11, <2>3
    <3>2. node'.wfails < FAIL_THRESHOLD
      BY <1>3, <1>6, <2>3, <3>1
    <3>3. Sound(node')
      BY <1>2, <1>6, <3>1, <3>2 DEF Sound, Session
    <3>4. TypeOK' /\ Backed'
      BY <1>1, <1>2, <1>6, <1>11, <2>1, <3>1 DEF TypeOK, Backed
    <3> QED
      BY <1>2, <1>6, <1>8, <2>1, <3>1, <3>3, <3>4
         DEF Steps, OnStep, ChargeInv, LatchStep, LossStep
  <2> QED
    BY <2>2, <2>3
<1> QED
  BY <1>9, <1>10, <1>11

(* The readings that are kept when one more is taken: the last ones. *)
LEMMA ReadingsKept ==
  ASSUME NEW q \in Seq({"good", "bad"}), Len(q) <= GOOD_CURRENT_MIN_COUNT,
         NEW r \in {"good", "bad"}
  PROVE  LET kept == IF Len(q) < GOOD_CURRENT_MIN_COUNT THEN q ELSE Tail(q)
             p == Append(kept, r)
         IN  /\ p \in Seq({"good", "bad"}) /\ p[Len(p)] = r
             /\ Len(q) < GOOD_CURRENT_MIN_COUNT =>
                  Len(p) = Len(q) + 1 /\ \A i \in 1..Len(q) : p[i] = q[i]
             /\ Len(q) = GOOD_CURRENT_MIN_COUNT =>
                  Len(p) = Len(q) /\ \A i \in 1..Len(q) - 1 : p[i] = q[i + 1]
<1>1. Len(q) \in Nat
  OBVIOUS
<1>2. CASE Len(q) < GOOD_CURRENT_MIN_COUNT
  BY <1>1, <1>2
<1>3. CASE Len(q) = GOOD_CURRENT_MIN_COUNT
  <2> DEFINE k == Tail(q)
  <2>1. Len(q) > 0
    BY <1>3
  <2>2. k \in Seq({"good", "bad"}) /\ Len(k) = Len(q) - 1
        /\ \A i \in 1..Len(k) : k[i] = q[i + 1]
    BY <2>1
  <2> HIDE DEF k
  <2>3. LET p == Append(k, r)
        IN  /\ p \in Seq({"good", "bad"}) /\ p[Len(p)] = r
            /\ Len(p) = Len(q) /\ \A i \in 1..Len(q) - 1 : p[i] = q[i + 1]
    BY <1>1, <2>2
  <2> QED
    BY <1>3, <2>3 DEF k
<1> QED
  BY <1>1, <1>2, <1>3

(* A good reading more backs a count of one more. *)
LEMMA OneMoreBacked ==
  ASSUME NEW q \in Seq({"good", "bad"}), Len(q) <= GOOD_CURRENT_MIN_COUNT,
         NEW g \in Nat, NEW h \in 0..GOOD_CURRENT_MIN_COUNT, h <= g + 1,
         g <= Len(q), \A i \in 1..Len(q) : i > Len(q) - g => q[i] = "good",
         NEW p, p = Append(IF Len(q) < GOOD_CURRENT_MIN_COUNT THEN q ELSE Tail(q), "good")
  PROVE  h <= Len(p) /\ \A i \in 1..Len(p) : i > Len(p) - h => p[i] = "good"
<1>1. /\ p \in Seq({"good", "bad"}) /\ p[Len(p)] = "good"
      /\ Len(q) < GOOD_CURRENT_MIN_COUNT =>
           Len(p) = Len(q) + 1 /\ \A i \in 1..Len(q) : p[i] = q[i]
      /\ Len(q) = GOOD_CURRENT_MIN_COUNT =>
           Len(p) = Len(q) /\ \A i \in 1..Len(q) - 1 : p[i] = q[i + 1]
  BY ReadingsKept
<1>2. Len(q) \in Nat /\ Len(p) \in Nat
  BY <1>1
<1>3. CASE Len(q) < GOOD_CURRENT_MIN_COUNT
  <2>1. h <= Len(p)
    BY <1>1, <1>2, <1>3
  <2>2. ASSUME NEW i \in 1..Len(p), i > Len(p) - h
        PROVE  p[i] = "good"
    <3>1. CASE i = Len(p)
      BY <1>1, <3>1
    <3>2. CASE i # Len(p)
      <4>1. i \in 1..Len(q) /\ i > Len(q) - g
        BY <1>1, <1>2, <1>3, <2>2, <3>2
      <4> QED
        BY <1>1, <1>3, <4>1
    <3> QED
      BY <3>1, <3>2
  <2> QED
    BY <2>1, <2>2
<1>4. CASE Len(q) = GOOD_CURRENT_MIN_COUNT
  <2>1. h <= Len(p)
    BY <1>1, <1>2, <1>4
  <2>2. ASSUME NEW i \in 1..Len(p), i > Len(p) - h
        PROVE  p[i] = "good"
    <3>1. CASE i = Len(p)
      BY <1>1, <3>1
    <3>2. CASE i # Len(p)
      <4>1. i \in 1..Len(q) - 1 /\ i + 1 \in 1..Len(q) /\ i + 1 > Len(q) - g
        BY <1>1, <1>2, <1>4, <2>2, <3>2
      <4> QED
        BY <1>1, <1>4, <4>1
    <3> QED
      BY <3>1, <3>2
  <2> QED
    BY <2>1, <2>2
<1> QED
  BY <1>2, <1>3, <1>4

(* The status timer: protection, then the sensor, on one reading. *)
LEMMA StatusTimerStep ==
  ASSUME ChargeInv, StatusTimer
  PROVE  Steps /\ OnStep
<1>1. /\ node \in Node /\ Sound(node) /\ charger \in Charger /\ TypeOK /\ Backed
  BY DEF ChargeInv, TypeOK
<1>2. PICK s \in Readings(charger), sensor \in {"ok", "range", "error"} :
        \E o \in CheckCharger(node, charger, s) :
          /\ Becomes(CheckSensor(o[1], o[2], sensor))
          /\ LET reading == IF s # Lost /\ s.on /\ flow THEN "good" ELSE "bad"
                 kept == IF Len(seen) < GOOD_CURRENT_MIN_COUNT THEN seen ELSE Tail(seen)
             IN  seen' = IF ~node'.charging \/ node'.waited < node.waited THEN <<>>
                         ELSE IF node.waited = 0 THEN seen ELSE Append(kept, reading)
          /\ recovered' = IF node'.ceiling # node.ceiling THEN node'.ceiling ELSE recovered
          /\ UNCHANGED environment
  BY DEF StatusTimer
<1> DEFINE reading == IF s # Lost /\ s.on /\ flow THEN "good" ELSE "bad"
           kept == IF Len(seen) < GOOD_CURRENT_MIN_COUNT THEN seen ELSE Tail(seen)
<1>3. PICK o \in CheckCharger(node, charger, s) :
          /\ Becomes(CheckSensor(o[1], o[2], sensor))
          /\ seen' = IF ~node'.charging \/ node'.waited < node.waited THEN <<>>
                     ELSE IF node.waited = 0 THEN seen ELSE Append(kept, reading)
          /\ recovered' = IF node'.ceiling # node.ceiling THEN node'.ceiling ELSE recovered
          /\ UNCHANGED environment
  BY <1>2
<1>4. reading \in {"good", "bad"}
  OBVIOUS
<1>5. Effect(node, charger, s, o[1], o[2])
  BY <1>1, ChargerHalf
<1> DEFINE m == o[1]
           x == o[2]
<1>6. Sound(m) /\ x \in Charger
  BY <1>5 DEF Effect
<1>7. PICK p \in CheckSensor(m, x, sensor) : node' = p[1] /\ charger' = p[2]
  BY <1>3 DEF Becomes
<1> HIDE DEF m, x
<1>8. /\ Sound(node') /\ charger' \in Charger /\ (charger' = x \/ ~charger'.on)
      /\ m.latched => node'.latched
      /\ node'.ceiling = m.ceiling
      /\ node'.charging => /\ m.charging /\ node'.cset = m.cset
                           /\ node'.good = m.good /\ node'.waited = m.waited
  BY <1>6, <1>7, SensorHalf
<1>9. Effect(node, charger, s, m, x)
  BY <1>5 DEF m, x
<1>10. OnStep
  BY <1>8, <1>9 DEF Effect, OnStep
<1>11. LatchStep
  BY <1>8, <1>9 DEF Effect, LatchStep
<1>12. node'.charging =>
         /\ node.charging
         /\ \/ node'.ceiling = node.ceiling /\ node'.cset = node.cset
            \/ node'.ceiling < node.cset /\ node'.cset < node.cset
         /\ \/ node'.good = 0
            \/ node'.good = node.good /\ node'.waited = node.waited /\ node.waited = 0
            \/ /\ s # Lost /\ s.on /\ flow
               /\ node'.good <= node.good + 1 /\ node'.waited = node.waited /\ node.waited >= 1
  BY <1>8, <1>9 DEF Effect
<1>13. LossStep
  BY <1>12 DEF LossStep
<1>14. /\ node' \in Node /\ node'.ceiling \in Level /\ node'.cset \in Nat /\ node.cset \in Nat
       /\ node.waited \in 0..2 /\ node'.waited \in 0..2
       /\ node.good \in Nat /\ node'.good \in 0..GOOD_CURRENT_MIN_COUNT
  BY <1>1, <1>8 DEF Sound, Node, Level
<1>15. RaiseStep
  <2>1. node'.charging => ~(node'.cset > node.cset)
    BY <1>12, <1>14
  <2> QED
    BY <2>1 DEF RaiseStep
<1>16. seen \in Seq({"good", "bad"}) /\ Len(seen) \in Nat /\ Len(seen) <= GOOD_CURRENT_MIN_COUNT
  BY <1>1 DEF TypeOK
<1>17. seen' \in Seq({"good", "bad"}) /\ Len(seen') <= GOOD_CURRENT_MIN_COUNT
  <2> HIDE DEF reading
  <2>1. CASE seen' = <<>>
    <3>1. <<>> \in Seq({"good", "bad"}) /\ Len(<<>>) = 0
      OBVIOUS
    <3> QED
      BY <2>1, <3>1
  <2>3. CASE seen' = seen
    BY <1>16, <2>3
  <2>2. CASE seen' = Append(kept, reading)
    BY <1>4, <1>16, <2>2, ReadingsKept
  <2> HIDE DEF kept
  <2> QED
    BY <1>3, <2>1, <2>2, <2>3
<1>18. recovered' \in Level /\ flow' \in BOOLEAN /\ link' \in {"good", "bad"}
  BY <1>1, <1>3, <1>14 DEF TypeOK, environment
<1>19. TypeOK'
  BY <1>8, <1>14, <1>17, <1>18 DEF TypeOK
<1>20. Backed'
  <2> SUFFICES ASSUME node'.charging
               PROVE  /\ node'.good <= Len(seen')
                      /\ \A i \in 1..Len(seen') : i > Len(seen') - node'.good => seen'[i] = "good"
    BY DEF Backed
  <2>1. node.charging /\ Len(seen') \in Nat
    BY <1>12, <1>17
  <2>2. CASE node'.good = 0
    BY <2>1, <2>2
  <2>3. CASE node'.good = node.good /\ node'.waited = node.waited /\ node.waited = 0
    <3>1. seen' = seen
      BY <1>3, <2>3
    <3> QED
      BY <1>1, <2>1, <2>3, <3>1 DEF Backed
  <2>4. CASE /\ s # Lost /\ s.on /\ flow
             /\ node'.good <= node.good + 1 /\ node'.waited = node.waited /\ node.waited >= 1
    <3>1. reading = "good"
      BY <2>4
    <3>2. ~(node'.waited < node.waited) /\ node.waited # 0
      BY <1>14, <2>4
    <3>3. seen' = Append(kept, "good")
      BY <1>3, <3>1, <3>2
    <3>4. /\ node.good <= Len(seen)
          /\ \A i \in 1..Len(seen) : i > Len(seen) - node.good => seen[i] = "good"
      BY <1>1, <2>1 DEF Backed
    <3> QED
      BY <1>14, <1>16, <2>4, <3>3, <3>4, OneMoreBacked
  <2> QED
    BY <1>12, <2>2, <2>3, <2>4
<1> QED
  BY <1>8, <1>10, <1>11, <1>13, <1>15, <1>19, <1>20 DEF Steps, ChargeInv

(* The rest of the world touches the session only by restarting the node.  *)
LEMMA WorldStep ==
  ASSUME ChargeInv, World
  PROVE  Steps
<1>1. /\ node \in Node /\ Sound(node) /\ charger \in Charger /\ TypeOK /\ Backed
  BY DEF ChargeInv, TypeOK
<1>2. CASE TimePasses
  <2>1. \/ node.waited < 2 /\ node' = [node EXCEPT !.waited = @ + 1]
        \/ node' = [node EXCEPT !.fresh = FALSE]
    BY <1>2 DEF TimePasses
  <2>2. node.waited \in 0..2
    BY <1>1 DEF Node
  <2>3. node' \in Node
    <3>1. CASE node.waited < 2 /\ node' = [node EXCEPT !.waited = @ + 1]
      <4>1. node.waited + 1 \in 0..2
        BY <2>2, <3>1
      <4> QED
        BY <1>1, <3>1, <4>1 DEF Node
    <3>2. CASE node' = [node EXCEPT !.fresh = FALSE]
      BY <1>1, <3>2 DEF Node
    <3> QED
      BY <2>1, <3>1, <3>2
  <2>4. /\ node'.charging = node.charging /\ node'.ready = node.ready /\ node'.open = node.open
        /\ node'.latched = node.latched /\ node'.cset = node.cset
        /\ node'.ceiling = node.ceiling /\ node'.wfails = node.wfails
        /\ node'.low = node.low /\ node'.good = node.good
    BY <1>1, <2>1 DEF Node
  <2>5. Sound(node')
    BY <1>1, <2>3, <2>4 DEF Sound, Session
  <2>6. TypeOK' /\ Backed'
    BY <1>1, <1>2, <2>3, <2>4 DEF TimePasses, TypeOK, Backed, environment
  <2>7. node.cset \in Nat
    BY <1>1 DEF Node, Level
  <2> QED
    BY <2>4, <2>5, <2>6, <2>7 DEF Steps, ChargeInv, RaiseStep, LatchStep, LossStep
<1>3. CASE ChargerChanges \/ FlowChanges \/ LinkChanges
  <2>1. node' = node /\ seen' = seen /\ recovered' = recovered
    BY <1>3 DEF ChargerChanges, FlowChanges, LinkChanges
  <2>2. charger' \in Charger
    <3>1. CASE ChargerChanges
      <4>1. charger' = [charger EXCEPT !.on = ~@] \/ charger' = Foreign(charger.on)
        BY <3>1 DEF ChargerChanges
      <4>2. [charger EXCEPT !.on = ~@] \in Charger
        BY <1>1 DEF Charger
      <4>3. Foreign(charger.on) \in Charger
        BY <1>1 DEF Foreign, Charger, Level
      <4> QED
        BY <4>1, <4>2, <4>3
    <3>2. CASE FlowChanges \/ LinkChanges
      BY <1>1, <3>2 DEF FlowChanges, LinkChanges
    <3> QED
      BY <1>3, <3>1, <3>2
  <2>3. flow' \in BOOLEAN /\ link' \in {"good", "bad"}
    <3>1. flow \in BOOLEAN /\ link \in {"good", "bad"}
      BY <1>1 DEF TypeOK
    <3>2. CASE ChargerChanges
      BY <3>1, <3>2 DEF ChargerChanges, environment
    <3>3. CASE FlowChanges
      BY <3>1, <3>3 DEF FlowChanges
    <3>4. CASE LinkChanges
      BY <3>1, <3>4 DEF LinkChanges
    <3> QED
      BY <1>3, <3>2, <3>3, <3>4
  <2>4. node.cset \in Nat
    BY <1>1 DEF Node, Level
  <2> QED
    BY <1>1, <2>1, <2>2, <2>3, <2>4
       DEF Steps, ChargeInv, TypeOK, Backed, RaiseStep, LatchStep, LossStep
<1>4. CASE Restart
  <2>1. node' = InitNode /\ seen' = <<>> /\ recovered' = 0 /\ flow' = flow /\ link' = link
    BY <1>4 DEF Restart
  <2>2. charger' \in Charger
    <3>1. ASSUME NEW o \in Stop(node, charger), charger' = o.c
          PROVE  charger' \in Charger
      BY <1>1, <3>1, StopOutcome DEF StopEffect
    <3> QED
      BY <1>1, <1>4, <3>1 DEF Restart
  <2>3. InitNode \in Node
    BY DEF InitNode, Node, Level
  <2>4. ~node'.charging /\ ~node'.ready /\ node'.low = 0
    BY <2>1 DEF InitNode
  <2>5. Sound(node')
    BY <2>1, <2>3, <2>4 DEF Sound, Session
  <2>6. ChargeInv' /\ RaiseStep /\ LossStep
    BY <1>1, <2>1, <2>2, <2>4, <2>5, OtherSession DEF TypeOK
  <2> QED
    BY <2>1, <2>6 DEF Steps, LatchStep
<1> QED
  BY <1>2, <1>3, <1>4 DEF World

-----------------------------------------------------------------------------
(* The theorems *)

(* Every step of the specification, by its kind. *)
LEMMA EveryStep ==
  ASSUME ChargeInv, [Next]_vars
  PROVE  Steps /\ (Callback => OnStep)
<1>1. CASE Callback
  BY <1>1, CommandOnStep, CommandOffStep, PollStep, RampUpStep, StatusTimerStep DEF Callback
<1>2. ASSUME World
      PROVE  Steps /\ (Callback => OnStep)
  BY <1>1, <1>2, WorldStep
<1>3. ASSUME UNCHANGED vars
      PROVE  Steps /\ (Callback => OnStep)
  <2>1. node.cset \in Nat
    BY DEF ChargeInv, TypeOK, Node, Level
  <2> QED
    BY <1>1, <1>3, <2>1 DEF vars, Steps, ChargeInv, TypeOK, Backed, RaiseStep, LatchStep, LossStep
<1> QED
  BY <1>1, <1>2, <1>3 DEF Next

(* The node starts without a charger and without a session. *)
LEMMA ChargeInit == Init => ChargeInv
<1> SUFFICES ASSUME Init PROVE ChargeInv
  OBVIOUS
<1>1. node = InitNode /\ seen = <<>> /\ recovered = 0
      /\ flow \in BOOLEAN /\ link \in {"good", "bad"}
  BY DEF Init
<1>2. InitNode \in Node
  BY DEF InitNode, Node, Level
<1>3. ~node.charging /\ ~node.ready /\ node.low = 0
  BY <1>1 DEF InitNode
<1>4. charger \in Charger
  BY DEF Init, Foreign, Charger, Level
<1>5. seen \in Seq({"good", "bad"}) /\ Len(seen) = 0 /\ recovered \in Level
  BY <1>1 DEF Level
<1> QED
  BY <1>1, <1>2, <1>3, <1>4, <1>5 DEF ChargeInv, TypeOK, Sound, Session, Backed

(* Types, sound memory and counted readings hold in every behaviour.       *)
THEOREM SessionsAreAccounted == Spec => []ChargeInv
<1>1. ChargeInv /\ [Next]_vars => ChargeInv'
  BY EveryStep DEF Steps
<1> QED
  BY ChargeInit, <1>1, PTL DEF Spec

(* A session has its charger, no latched fault and a level in its bounds.  *)
THEOREM SessionHolds == Spec => []SessionIsSound
<1>1. ChargeInv => SessionIsSound
  BY DEF ChargeInv, Sound, Session, SessionIsSound
<1> QED
  BY SessionsAreAccounted, <1>1, PTL

(* No current is raised on fewer good readings than the code asks for.     *)
THEOREM RaisesAreProven == Spec => RaiseIsProven
<1>1. ChargeInv /\ [Next]_vars =>
        [node.charging /\ node'.charging /\ node'.cset > node.cset
           => /\ Len(seen) = GOOD_CURRENT_MIN_COUNT
              /\ \A i \in 1..GOOD_CURRENT_MIN_COUNT : seen[i] = "good"]_vars
  BY EveryStep DEF Steps, RaiseStep
<1> QED
  BY SessionsAreAccounted, <1>1, PTL DEF Spec, RaiseIsProven

(* No callback turns the output on at settings it has not read back.       *)
THEOREM OnsAreVerified == Spec => OnIsVerified
<1>1. ChargeInv /\ [Next]_vars =>
        [~charger.on /\ charger'.on /\ Callback =>
           Matches(charger', AtMost(Start, node'.ceiling))]_vars
  BY EveryStep DEF OnStep
<1> QED
  BY SessionsAreAccounted, <1>1, PTL DEF Spec, OnIsVerified

(* A latched fault goes only with the output or with the process.          *)
THEOREM LatchesNeedOff == Spec => LatchNeedsOff
<1>1. ChargeInv /\ [Next]_vars =>
        [node.latched /\ ~node'.latched => ~charger'.on \/ node' = InitNode]_vars
  BY EveryStep DEF Steps, LatchStep
<1> QED
  BY SessionsAreAccounted, <1>1, PTL DEF Spec, LatchNeedsOff

(* A session that outlives a loss has a ceiling below the level lost.      *)
THEOREM LossesLowerCeiling == Spec => LossLowersCeiling
<1>1. ChargeInv /\ [Next]_vars =>
        [node.charging /\ node'.charging /\ node'.ceiling # node.ceiling
           => node'.ceiling < node.cset]_vars
  BY EveryStep DEF Steps, LossStep
<1> QED
  BY SessionsAreAccounted, <1>1, PTL DEF Spec, LossLowersCeiling
=============================================================================
