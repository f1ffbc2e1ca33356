---------------------------- MODULE DriversProofs ----------------------------
(***************************************************************************)
(* Proofs about driver nodes, for every set of cameras and all times: a    *)
(* gimbal that moves is under a watchdog that gets its turn in time, and   *)
(* start angles are reported only of cameras that took them; the AHRS      *)
(* publishes no measurement twice; a scan of the LiDAR is new and one      *)
(* revolution.                                                             *)
(*                                                                         *)
(* The bound on the watchdog rests on what one turn of the executor can    *)
(* still wait for, its debt: a wait of the command in hand, its further    *)
(* attempts and cameras, and the callbacks of the turn that will wait.     *)
(* No step makes it grow by more than the clock goes on, and a new turn,   *)
(* with a debt of its own, begins with the watchdog when that is due.      *)
(*                                                                         *)
(* A scan is followed from the device to the buffer it is collected in:    *)
(* behind a request nothing but its answer and samples comes, so a scan    *)
(* command finds no other scan under way, and what comes after its header  *)
(* stays in order, without a gap but for what was lost.                    *)
(***************************************************************************)
EXTENDS MCDrivers, FiniteSetTheorems, SequenceTheorems, TLAPS

-----------------------------------------------------------------------------
(* Gimbal: what is acknowledged *)

(* Reported start angles were sent and taken, as every acknowledgement of  *)
(* them was.                                                               *)
Acknowledged ==
  /\ reported \subseteq executed
  /\ \A c : <<c, "angles">> \in acks => c \in executed

-----------------------------------------------------------------------------
(* Gimbal: what a turn of the executor may wait *)

Cameras   == Cardinality(Camera)
PerCamera == Retries * AckTimeout
Cost(n)   == n * PerCamera

(* How many cameras the callbacks of T will ask. *)
Centers(T)  == {c \in Camera : <<c, "center">> \in T}
Startups(T) == IF Gimbal!StartupTimer \in T THEN Cameras ELSE 0
Tasks(T)    == Cardinality(Centers(T)) + Startups(T)

(* Finite sets are the same for the node's module as for this one. *)
LEMMA SameCounting ==
  \A S : /\ Gimbal!IsFiniteSet(S) <=> IsFiniteSet(S)
         /\ Gimbal!Cardinality(S) = Cardinality(S)
<1>1. \A S : Gimbal!IsFiniteSet(S) <=> IsFiniteSet(S)
  BY Zenon DEF Gimbal!IsFiniteSet, IsFiniteSet
<1>2. \A S : Gimbal!Cardinality(S) = Cardinality(S)
  BY Zenon DEF Gimbal!Cardinality, Cardinality
<1> QED
  BY <1>1, <1>2

(* The parameters are numbers. *)
LEMMA GimbalNumbers ==
  /\ IsFiniteSet(Camera) /\ Cameras \in Nat
  /\ CameraOrder \in Seq(Camera) /\ Len(CameraOrder) = Cameras
  /\ Timeout \in Nat \ {0} /\ StepDuration \in Nat \ {0}
  /\ AckTimeout \in Nat \ {0} /\ Retries \in Nat \ {0}
  /\ StartDelay \in Nat /\ Settle \in Nat
BY GimbalAssumption, SameCounting, FS_CardinalityType DEF Gimbal!Parameters, Cameras

(* What cameras cost together, and that the bound is twice the cost of all. *)
LEMMA Costs ==
  /\ PerCamera \in Nat \ {0} /\ Cost(0) = 0 /\ Cost(1) = PerCamera
  /\ \A m, n \in Nat : /\ Cost(m) \in Nat /\ Cost(m + n) = Cost(m) + Cost(n)
                       /\ m <= n => Cost(m) <= Cost(n)
  /\ Gimbal!LatestStop = Cost(Cameras) + Cost(Cameras)
<1>1. PerCamera \in Nat \ {0}
  BY GimbalNumbers DEF PerCamera
<1>2. Cost(0) = 0 /\ Cost(1) = PerCamera
  BY <1>1 DEF Cost
<1>3. ASSUME NEW m \in Nat, NEW n \in Nat
      PROVE  Cost(m) \in Nat /\ Cost(m + n) = Cost(m) + Cost(n)
  BY <1>1 DEF Cost
<1>4. ASSUME NEW m \in Nat, NEW n \in Nat, m <= n
      PROVE  Cost(m) <= Cost(n)
  <2>1. n - m \in Nat /\ n = m + (n - m)
    BY <1>4
  <2>2. Cost(n) = Cost(m) + Cost(n - m) /\ Cost(m) \in Nat /\ Cost(n - m) \in Nat
    BY <1>3, <2>1
  <2> QED
    BY <2>2
<1>5. Gimbal!LatestStop = Cost(Cameras) + Cost(Cameras)
  <2>1. Gimbal!LatestStop = 2 * Cameras * Retries * AckTimeout
    BY SameCounting DEF Gimbal!LatestStop, Cameras
  <2>2. Cost(Cameras) = Cameras * (Retries * AckTimeout)
    BY DEF Cost, PerCamera
  <2> QED
    BY <2>1, <2>2, GimbalNumbers
<1> QED
  BY <1>1, <1>2, <1>3, <1>4, <1>5

(* Costs, and what some attempts take, are numbers. *)
LEMMA CostsAreNumbers ==
  /\ \A n \in Nat : Cost(n) \in Nat
  /\ \A n \in Nat : n * AckTimeout \in Nat
  /\ \A n \in Nat : n + AckTimeout \in Nat
  /\ Gimbal!LatestStop \in Nat
<1>1. AckTimeout \in Nat
  BY GimbalNumbers
<1>2. \A n \in Nat : n * AckTimeout \in Nat /\ n + AckTimeout \in Nat
  BY <1>1
<1>3. \A n \in Nat : Cost(n) \in Nat
  BY Costs
<1>4. Gimbal!LatestStop \in Nat
  <2>1. Cost(Cameras) \in Nat
    BY <1>3, GimbalNumbers
  <2>2. Gimbal!LatestStop = Cost(Cameras) + Cost(Cameras)
    BY Costs
  <2> QED
    BY <2>1, <2>2
<1> QED
  BY <1>2, <1>3, <1>4

(* No turn asks a camera more than twice. *)
LEMMA TasksAreFew ==
  ASSUME NEW T
  PROVE  /\ IsFiniteSet(Centers(T)) /\ Cardinality(Centers(T)) \in Nat
         /\ Startups(T) \in Nat /\ Tasks(T) \in Nat
         /\ Cost(Tasks(T)) \in Nat /\ Cost(Tasks(T)) <= Gimbal!LatestStop
<1>1. Centers(T) \in SUBSET Camera
  BY DEF Centers
<1>2. IsFiniteSet(Centers(T)) /\ Cardinality(Centers(T)) <= Cameras
  BY <1>1, GimbalNumbers, FS_Subset DEF Cameras
<1>3. Cardinality(Centers(T)) \in Nat
  BY <1>2, FS_CardinalityType
<1>4. Startups(T) \in Nat /\ Startups(T) <= Cameras
  BY GimbalNumbers DEF Startups
<1>5. Tasks(T) \in Nat /\ Cameras + Cameras \in Nat /\ Tasks(T) <= Cameras + Cameras
  BY <1>2, <1>3, <1>4, GimbalNumbers DEF Tasks
<1>6. Cost(Tasks(T)) <= Cost(Cameras) + Cost(Cameras)
  BY <1>5, GimbalNumbers, Costs
<1> QED
  BY <1>2, <1>3, <1>4, <1>5, <1>6, Costs

(* A callback that begins is no longer one of those to come. *)
LEMMA TaskBegins ==
  ASSUME NEW T
  PROVE  /\ \A c \in Camera : <<c, "center">> \in T =>
              Cost(Tasks(T)) = Cost(Tasks(T \ {<<c, "center">>})) + PerCamera
         /\ Gimbal!StartupTimer \in T =>
              Cost(Tasks(T)) = Cost(Tasks(T \ {Gimbal!StartupTimer})) + Cost(Cameras)
<1>0. \A c \in Camera : <<c, "center">> # Gimbal!StartupTimer
  BY DEF Gimbal!StartupTimer
<1>1. ASSUME NEW c \in Camera, <<c, "center">> \in T
      PROVE  Cost(Tasks(T)) = Cost(Tasks(T \ {<<c, "center">>})) + PerCamera
  <2> DEFINE U == T \ {<<c, "center">>}
  <2>1. Centers(U) = Centers(T) \ {c} /\ c \in Centers(T)
    BY <1>1 DEF Centers
  <2>2. Startups(U) = Startups(T)
    BY <1>0 DEF Startups
  <2> HIDE DEF U
  <2>3. Cardinality(Centers(U)) = Cardinality(Centers(T)) - 1
    BY <2>1, TasksAreFew, FS_RemoveElement
  <2>4. Tasks(T) = Tasks(U) + 1
    BY <2>2, <2>3, TasksAreFew DEF Tasks
  <2>5. Cost(Tasks(T)) = Cost(Tasks(U)) + Cost(1)
    BY <2>4, TasksAreFew, Costs
  <2> QED
    BY <2>5, Costs DEF U
<1>2. ASSUME Gimbal!StartupTimer \in T
      PROVE  Cost(Tasks(T)) = Cost(Tasks(T \ {Gimbal!StartupTimer})) + Cost(Cameras)
  <2> DEFINE U == T \ {Gimbal!StartupTimer}
  <2>1. Centers(U) = Centers(T)
    BY <1>0 DEF Centers
  <2>2. Startups(U) = 0 /\ Startups(T) = Cameras
    BY <1>2 DEF Startups
  <2> HIDE DEF U
  <2>3. Tasks(T) = Tasks(U) + Cameras
    BY <2>1, <2>2, TasksAreFew, GimbalNumbers DEF Tasks
  <2>4. Cost(Tasks(T)) = Cost(Tasks(U)) + Cost(Cameras)
    BY <2>3, TasksAreFew, GimbalNumbers, Costs
  <2> QED
    BY <2>4 DEF U
<1> QED
  BY <1>1, <1>2

(* A callback that does not wait makes no difference. *)
LEMMA OthersCostNothing ==
  ASSUME NEW T, NEW t, t # Gimbal!StartupTimer, \A c \in Camera : t # <<c, "center">>
  PROVE  Tasks(T \ {t}) = Tasks(T)
BY DEF Tasks, Centers, Startups

-----------------------------------------------------------------------------
(* Gimbal: the debt of a turn *)

Call == [callback : (Camera \X {"center"}) \cup {Gimbal!StartupTimer},
         command : {"center", "angles"}, began : Nat, left : Seq(Camera), tries : Nat,
         waits : BOOLEAN, until : Nat]

(* What command d can still wait at time n, and a turn T that it holds.    *)
Ahead(d, n) == IF d.until > n THEN d.until - n ELSE 0
Asks(d)     == IF d.left = <<>> THEN 0 ELSE d.tries * AckTimeout + Cost(Len(d.left) - 1)
Rest(d, n)  == IF d = Gimbal!Idle THEN 0 ELSE Ahead(d, n) + Asks(d)
Later(d, T) == IF d = Gimbal!Idle THEN T ELSE T \ {d.callback}
Debt(d, T, n) == Rest(d, n) + Cost(Tasks(Later(d, T)))

(* What a command may still ask is a number. *)
LEMMA AsksAreNumbers ==
  ASSUME NEW d \in Call
  PROVE  Asks(d) \in Nat
<1>1. d.tries \in Nat /\ d.left \in Seq(Camera)
  BY DEF Call
<1>2. CASE d.left = <<>>
  BY <1>2 DEF Asks
<1>3. CASE d.left # <<>>
  <2>1. Len(d.left) - 1 \in Nat
    BY <1>1, <1>3, EmptySeq
  <2>2. Cost(Len(d.left) - 1) \in Nat
    BY <2>1, CostsAreNumbers
  <2>3. d.tries * AckTimeout \in Nat
    BY <1>1, CostsAreNumbers
  <2> QED
    BY <1>3, <2>2, <2>3 DEF Asks
<1> QED
  BY <1>2, <1>3

(* A debt is a number, and only a command in hand takes it past the bound. *)
LEMMA Debts ==
  ASSUME NEW d, d = Gimbal!Idle \/ d \in Call, NEW n \in Nat, NEW T
  PROVE  /\ Rest(d, n) \in Nat /\ Debt(d, T, n) \in Nat
         /\ d = Gimbal!Idle => /\ Debt(d, T, n) = Cost(Tasks(T))
                               /\ Debt(d, T, n) <= Gimbal!LatestStop
         /\ d # Gimbal!Idle => Debt(d, T, n) = Rest(d, n) + Cost(Tasks(T \ {d.callback}))
<1>1. \A U : Cost(Tasks(U)) \in Nat /\ Cost(Tasks(U)) <= Gimbal!LatestStop
  BY TasksAreFew
<1>2. CASE d = Gimbal!Idle
  BY <1>1, <1>2 DEF Rest, Later, Debt
<1>3. CASE d # Gimbal!Idle
  <2>1. d.until \in Nat
    BY <1>3 DEF Call
  <2>2. Ahead(d, n) \in Nat
    BY <2>1 DEF Ahead
  <2>3. Asks(d) \in Nat
    BY <1>3, AsksAreNumbers
  <2>4. Rest(d, n) \in Nat
    BY <1>3, <2>2, <2>3 DEF Rest
  <2>5. Debt(d, T, n) = Rest(d, n) + Cost(Tasks(T \ {d.callback}))
    BY <1>3 DEF Debt, Later
  <2> QED
    BY <1>1, <1>3, <2>4, <2>5
<1> QED
  BY <1>2, <1>3

(* Once a wait has ended, and as it begins, no more is owed than before.   *)
LEMMA NextAsk ==
  ASSUME NEW d \in Call, d.left # <<>>, NEW n \in Nat
  PROVE  LET next == [d EXCEPT !.left = Tail(@), !.tries = Retries, !.waits = FALSE]
         IN  /\ next \in Call /\ next # Gimbal!Idle /\ next.callback = d.callback
             /\ Rest(next, n) <= Rest(d, n)
<1> DEFINE next == [d EXCEPT !.left = Tail(@), !.tries = Retries, !.waits = FALSE]
<1>1. d.left \in Seq(Camera) /\ d.tries \in Nat /\ d.until \in Nat
  BY DEF Call
<1>2. Tail(d.left) \in Seq(Camera) /\ Len(Tail(d.left)) = Len(d.left) - 1
  BY <1>1, HeadTailProperties
<1>3. next \in Call
  BY <1>2, GimbalNumbers DEF Call
<1>4. /\ next.left = Tail(d.left) /\ next.tries = Retries /\ next.until = d.until
      /\ next.callback = d.callback /\ next.command = d.command
  BY DEF Call
<1>5. d # Gimbal!Idle /\ next # Gimbal!Idle
  BY <1>3 DEF Call, Gimbal!Idle
<1> HIDE DEF next
<1>6. Ahead(next, n) = Ahead(d, n) /\ Ahead(d, n) \in Nat
  BY <1>1, <1>4 DEF Ahead
<1>7. Len(d.left) - 1 \in Nat
  BY <1>1, EmptySeq
<1>8. Asks(d) \in Nat /\ Cost(Len(d.left) - 1) <= Asks(d) /\ Cost(Len(d.left) - 1) \in Nat
  <2>1. Cost(Len(d.left) - 1) \in Nat
    BY <1>7, CostsAreNumbers
  <2>2. d.tries * AckTimeout \in Nat
    BY <1>1, CostsAreNumbers
  <2> QED
    BY <2>1, <2>2 DEF Asks
<1>9. Asks(next) \in Nat /\ Asks(next) <= Cost(Len(d.left) - 1)
  <2>1. CASE next.left = <<>>
    BY <1>8, <2>1 DEF Asks
  <2>2. CASE next.left # <<>>
    <3>1. Len(next.left) - 1 \in Nat /\ Len(d.left) - 1 = (Len(next.left) - 1) + 1
      BY <1>1, <1>2, <1>4, <2>2, EmptySeq
    <3>2. Cost(Len(d.left) - 1) = Cost(Len(next.left) - 1) + PerCamera
      BY <3>1, Costs
    <3>3. Asks(next) = PerCamera + Cost(Len(next.left) - 1)
      BY <1>4, <2>2 DEF Asks, PerCamera
    <3>4. Cost(Len(next.left) - 1) \in Nat
      BY <3>1, CostsAreNumbers
    <3>5. PerCamera \in Nat
      BY Costs
    <3> QED
      BY <3>2, <3>3, <3>4, <3>5
  <2> QED
    BY <2>1, <2>2
<1>10. Rest(next, n) <= Rest(d, n)
  BY <1>5, <1>6, <1>8, <1>9 DEF Rest
<1> QED
  BY <1>3, <1>4, <1>5, <1>10 DEF next

(* An attempt trades one of the attempts left for its wait. *)
LEMMA NextAttempt ==
  ASSUME NEW d \in Call, d.left # <<>>, d.tries > 0, NEW n \in Nat
  PROVE  LET next == [d EXCEPT !.tries = d.tries - 1, !.waits = TRUE, !.until = n + AckTimeout]
         IN  /\ next \in Call /\ next # Gimbal!Idle /\ next.callback = d.callback
             /\ Rest(next, n) <= Rest(d, n)
<1> DEFINE next == [d EXCEPT !.tries = d.tries - 1, !.waits = TRUE, !.until = n + AckTimeout]
<1>1. d.left \in Seq(Camera) /\ d.tries \in Nat /\ d.until \in Nat /\ d.tries - 1 \in Nat
  BY DEF Call
<1>2. next \in Call
  <2>1. n + AckTimeout \in Nat
    BY CostsAreNumbers
  <2> QED
    BY <1>1, <2>1 DEF Call
<1>3. /\ next.left = d.left /\ next.tries = d.tries - 1 /\ next.until = n + AckTimeout
      /\ next.callback = d.callback
  BY DEF Call
<1>4. d # Gimbal!Idle /\ next # Gimbal!Idle
  BY <1>2 DEF Call, Gimbal!Idle
<1> HIDE DEF next
<1>5. Ahead(next, n) = AckTimeout /\ Ahead(d, n) \in Nat
  BY <1>1, <1>3, GimbalNumbers DEF Ahead
<1>6. Cost(Len(d.left) - 1) \in Nat
  <2>1. Len(d.left) - 1 \in Nat
    BY <1>1, EmptySeq
  <2> QED
    BY <2>1, CostsAreNumbers
<1>7. d.tries * AckTimeout = (d.tries - 1) * AckTimeout + AckTimeout
      /\ (d.tries - 1) * AckTimeout \in Nat
  BY <1>1, GimbalNumbers
<1>8. /\ Asks(next) = (d.tries - 1) * AckTimeout + Cost(Len(d.left) - 1)
      /\ Asks(d) = d.tries * AckTimeout + Cost(Len(d.left) - 1)
  BY <1>3 DEF Asks
<1>9. Rest(next, n) <= Rest(d, n)
  <2>1. Rest(next, n) = AckTimeout + ((d.tries - 1) * AckTimeout + Cost(Len(d.left) - 1))
    BY <1>4, <1>5, <1>8 DEF Rest
  <2>2. Rest(d, n) = Ahead(d, n) + (d.tries * AckTimeout + Cost(Len(d.left) - 1))
    BY <1>4, <1>8 DEF Rest
  <2> DEFINE p == d.tries * AckTimeout
             q == (d.tries - 1) * AckTimeout
             r == Cost(Len(d.left) - 1)
  <2>3. p = q + AckTimeout /\ q \in Nat /\ r \in Nat
    BY <1>6, <1>7
  <2> HIDE DEF p, q, r
  <2>4. AckTimeout + (q + r) <= Ahead(d, n) + (p + r)
    BY <1>5, <2>3, GimbalNumbers
  <2> QED
    BY <2>1, <2>2, <2>4 DEF p, q, r
<1> QED
  BY <1>2, <1>3, <1>4, <1>9 DEF next

-----------------------------------------------------------------------------
(* Gimbal: the watchdog *)

Deadlines == [Camera -> [Gimbal!Axis -> Nat]]
Switches  == [Camera -> [Gimbal!Axis -> BOOLEAN]]

GimbalTypes ==
  /\ now \in Nat
  /\ doing = Gimbal!Idle \/ doing \in Call
  /\ deadline \in Deadlines /\ driven \in Switches /\ missed \in Switches

(* What nobody watches stands, or its stop did not arrive. *)
Watched(dl, dr, ms) ==
  \A c \in Camera, a \in Gimbal!Axis : dl[c][a] = 0 /\ dr[c][a] => ms[c][a]

(* At time n no deadline has passed, or none by as much as the bound.      *)
OnTime(dl, n) == \A c \in Camera, a \in Gimbal!Axis : dl[c][a] # 0 => n < dl[c][a]
InTime(dl, n) ==
  \A c \in Camera, a \in Gimbal!Axis : dl[c][a] # 0 => n < dl[c][a] + Gimbal!LatestStop

GimbalInv ==
  /\ GimbalTypes
  /\ Watched(deadline, driven, missed)
  /\ ~due => OnTime(deadline, now)
  /\ Gimbal!WatchdogTimer \in turn => doing = Gimbal!Idle /\ InTime(deadline, now)
  /\ Gimbal!WatchdogTimer \notin turn => InTime(deadline, now + Debt(doing, turn, now))

(* One axis gets a deadline v, 0 for none; without one it stands, or its   *)
(* stop missed.                                                            *)
SetsAxis(c, a, v, dr, ms) ==
  /\ v = 0 /\ dr => ms
  /\ deadline' = [deadline EXCEPT ![c][a] = v]
  /\ driven' = [driven EXCEPT ![c][a] = dr]
  /\ missed' = [missed EXCEPT ![c][a] = ms]

AxesWatched ==
  /\ deadline' \in Deadlines /\ driven' \in Switches /\ missed' \in Switches
  /\ Watched(deadline', driven', missed')

OthersStay(v) ==
  \A x \in Camera, b \in Gimbal!Axis :
    deadline'[x][b] = deadline[x][b] \/ deadline'[x][b] = v

(* The other axes stay as they are. *)
LEMMA AxisSet ==
  ASSUME GimbalTypes, Watched(deadline, driven, missed),
         NEW c \in Camera, NEW a \in Gimbal!Axis, NEW v \in Nat,
         NEW dr \in BOOLEAN, NEW ms \in BOOLEAN, SetsAxis(c, a, v, dr, ms)
  PROVE  AxesWatched /\ OthersStay(v)
<1>0. /\ v = 0 /\ dr => ms
      /\ deadline' = [deadline EXCEPT ![c][a] = v]
      /\ driven' = [driven EXCEPT ![c][a] = dr]
      /\ missed' = [missed EXCEPT ![c][a] = ms]
  BY DEF SetsAxis
<1>1. deadline' \in Deadlines /\ driven' \in Switches /\ missed' \in Switches
  BY <1>0 DEF GimbalTypes, Deadlines, Switches
<1>2. ASSUME NEW x \in Camera, NEW b \in Gimbal!Axis
      PROVE  \/ /\ deadline'[x][b] = deadline[x][b]
                /\ driven'[x][b] = driven[x][b] /\ missed'[x][b] = missed[x][b]
             \/ deadline'[x][b] = v /\ driven'[x][b] = dr /\ missed'[x][b] = ms
  BY <1>0 DEF GimbalTypes, Deadlines, Switches
<1>3. Watched(deadline', driven', missed')
  <2> SUFFICES ASSUME NEW x \in Camera, NEW b \in Gimbal!Axis,
                      deadline'[x][b] = 0, driven'[x][b]
               PROVE  missed'[x][b]
    BY DEF Watched
  <2>1. CASE deadline'[x][b] = v /\ driven'[x][b] = dr /\ missed'[x][b] = ms
    BY <1>0, <2>1, Zenon
  <2>2. CASE /\ deadline'[x][b] = deadline[x][b]
             /\ driven'[x][b] = driven[x][b] /\ missed'[x][b] = missed[x][b]
    BY <2>2, Zenon DEF Watched
  <2> QED
    BY <1>2, <2>1, <2>2, Zenon
<1> QED
  BY <1>1, <1>2, <1>3 DEF AxesWatched, OthersStay

(* Whatever a message asks of an axis, it stays watched. *)
LEMMA Commands ==
  ASSUME GimbalTypes, Watched(deadline, driven, missed),
         NEW c \in Camera, NEW a \in Gimbal!Axis, NEW until \in Nat \ {0},
         Gimbal!Stops(c, a) \/ Gimbal!Drives(c, a, until) \/ Gimbal!Refused(c, a)
  PROVE  /\ AxesWatched
         /\ \A x \in Camera, b \in Gimbal!Axis :
              \/ deadline'[x][b] = deadline[x][b]
              \/ deadline'[x][b] = 0
              \/ deadline'[x][b] = until
<1>0. driven[c][a] \in BOOLEAN /\ 0 \in Nat /\ until \in Nat /\ until # 0
  BY DEF GimbalTypes, Switches
<1>1. PICK d \in BOOLEAN : d = driven[c][a]
  BY <1>0
<1>2. \/ SetsAxis(c, a, 0, FALSE, FALSE) \/ SetsAxis(c, a, 0, d, TRUE)
      \/ SetsAxis(c, a, until, TRUE, FALSE) \/ SetsAxis(c, a, until, d, TRUE)
  <2>1. CASE Gimbal!Stops(c, a)
    <3>1. PICK misses \in SUBSET {a} : Gimbal!Commanded(c, a, FALSE, misses)
      BY <2>1 DEF Gimbal!Stops
    <3>2. CASE misses = {}
      BY <2>1, <3>1, <3>2 DEF Gimbal!Stops, Gimbal!Commanded, SetsAxis
    <3>3. CASE misses # {}
      BY <1>1, <2>1, <3>1, <3>3 DEF Gimbal!Stops, Gimbal!Commanded, SetsAxis
    <3> QED
      BY <3>2, <3>3
  <2>2. CASE Gimbal!Drives(c, a, until)
    <3>1. PICK misses \in SUBSET {a} : Gimbal!Commanded(c, a, TRUE, misses)
      BY <2>2 DEF Gimbal!Drives
    <3>2. CASE misses = {}
      BY <1>0, <2>2, <3>1, <3>2 DEF Gimbal!Drives, Gimbal!Commanded, SetsAxis
    <3>3. CASE misses # {}
      BY <1>1, <2>2, <3>1, <3>3 DEF Gimbal!Drives, Gimbal!Commanded, SetsAxis
    <3> QED
      BY <3>2, <3>3
  <2>3. CASE Gimbal!Refused(c, a)
    <3>1. PICK misses \in SUBSET {a} :
            /\ driven' = [driven EXCEPT ![c][a] = IF misses = {} THEN FALSE ELSE @]
            /\ missed' = [missed EXCEPT ![c][a] = misses # {}]
      BY <2>3 DEF Gimbal!Refused
    <3>2. CASE misses = {}
      BY <2>3, <3>1, <3>2 DEF Gimbal!Refused, SetsAxis
    <3>3. CASE misses # {}
      BY <1>1, <2>3, <3>1, <3>3 DEF Gimbal!Refused, SetsAxis
    <3> QED
      BY <3>2, <3>3
  <2> QED
    BY <2>1, <2>2, <2>3
<1>3. d \in BOOLEAN
  BY <1>1
<1>4. AxesWatched /\ (OthersStay(0) \/ OthersStay(until))
  BY <1>0, <1>2, <1>3, AxisSet, Zenon
<1> QED
  BY <1>4 DEF OthersStay

(* A stop of several axes leaves the others as they are. *)
LEMMA SeveralStop ==
  ASSUME GimbalTypes, Watched(deadline, driven, missed),
         NEW set, NEW misses, Gimbal!StopsAll(set, misses)
  PROVE  /\ AxesWatched
         /\ \A x \in Camera, b \in Gimbal!Axis :
              deadline'[x][b] = IF <<x, b>> \in set THEN 0 ELSE deadline[x][b]
<1>1. /\ deadline' = [c \in Camera |-> [a \in Gimbal!Axis |->
           IF <<c, a>> \in set THEN 0 ELSE deadline[c][a]]]
      /\ driven' = [c \in Camera |-> [a \in Gimbal!Axis |->
           driven[c][a] /\ <<c, a>> \notin set \ misses]]
      /\ missed' = [c \in Camera |-> [a \in Gimbal!Axis |->
           IF <<c, a>> \in set THEN <<c, a>> \in misses ELSE missed[c][a]]]
  BY DEF Gimbal!StopsAll
<1>2. deadline' \in Deadlines
  BY <1>1 DEF GimbalTypes, Deadlines
<1>3. driven' \in Switches /\ missed' \in Switches
  <2>1. \A c \in Camera, a \in Gimbal!Axis :
          (driven[c][a] /\ <<c, a>> \notin set \ misses) \in BOOLEAN
    OBVIOUS
  <2>2. \A c \in Camera, a \in Gimbal!Axis : missed[c][a] \in BOOLEAN
    BY DEF GimbalTypes, Switches
  <2>3. \A c \in Camera, a \in Gimbal!Axis :
          (IF <<c, a>> \in set THEN <<c, a>> \in misses ELSE missed[c][a]) \in BOOLEAN
    <3> SUFFICES ASSUME NEW c \in Camera, NEW a \in Gimbal!Axis
                 PROVE  (IF <<c, a>> \in set THEN <<c, a>> \in misses ELSE missed[c][a]) \in BOOLEAN
      OBVIOUS
    <3>1. CASE <<c, a>> \in set
      BY <3>1
    <3>2. CASE <<c, a>> \notin set
      BY <2>2, <3>2
    <3> QED
      BY <3>1, <3>2
  <2>4. driven' \in Switches
    BY <1>1, <2>1, Zenon DEF Switches
  <2>5. missed' \in Switches
    BY <1>1, <2>3, Zenon DEF Switches
  <2> QED
    BY <2>4, <2>5
<1>4. ASSUME NEW c \in Camera, NEW a \in Gimbal!Axis
      PROVE  /\ deadline'[c][a] = IF <<c, a>> \in set THEN 0 ELSE deadline[c][a]
             /\ driven'[c][a] <=> driven[c][a] /\ <<c, a>> \notin set \ misses
             /\ missed'[c][a] <=> IF <<c, a>> \in set THEN <<c, a>> \in misses ELSE missed[c][a]
  BY <1>1 DEF GimbalTypes, Switches
<1>5. Watched(deadline', driven', missed')
  BY <1>4 DEF Watched
<1> QED
  BY <1>2, <1>3, <1>4, <1>5 DEF AxesWatched

(* A callback that runs comes after the watchdog, and while nothing waits. *)
LEMMA RunsUnwatched ==
  ASSUME GimbalInv, NEW t, Gimbal!Runs(t), t # Gimbal!WatchdogTimer
  PROVE  /\ doing = Gimbal!Idle /\ Gimbal!WatchdogTimer \notin turn
         /\ InTime(deadline, now + Cost(Tasks(turn)))
         /\ Cost(Tasks(turn)) \in Nat /\ Cost(Tasks(turn)) <= Gimbal!LatestStop
<1>1. /\ doing = Gimbal!Idle /\ Gimbal!WatchdogTimer \notin turn
      /\ InTime(deadline, now + Debt(doing, turn, now))
  BY DEF Gimbal!Runs, GimbalInv
<1>2. now \in Nat
  BY DEF GimbalInv, GimbalTypes
<1>3. Debt(doing, turn, now) = Cost(Tasks(turn))
  BY <1>1, <1>2, Debts
<1> QED
  BY <1>1, <1>3, TasksAreFew

(* Deadlines end, are renewed, or stay. *)
Renewed(until) ==
  \A x \in Camera, b \in Gimbal!Axis :
    \/ deadline'[x][b] = deadline[x][b]
    \/ deadline'[x][b] = 0
    \/ deadline'[x][b] = until

(* What is renewed is met as what was there before. *)
LEMMA StillInTime ==
  ASSUME GimbalTypes, AxesWatched, NEW until \in Nat, Renewed(until), NEW n \in Nat
  PROVE  /\ OnTime(deadline, n) /\ n < until => OnTime(deadline', n)
         /\ InTime(deadline, n) /\ n < until + Gimbal!LatestStop => InTime(deadline', n)
<1>1. ASSUME NEW x \in Camera, NEW b \in Gimbal!Axis
      PROVE  deadline[x][b] \in Nat /\ deadline'[x][b] \in Nat
  BY DEF GimbalTypes, AxesWatched, Deadlines
<1>2. ASSUME OnTime(deadline, n), n < until
      PROVE  OnTime(deadline', n)
  BY <1>1, <1>2 DEF OnTime, Renewed
<1>3. ASSUME InTime(deadline, n), n < until + Gimbal!LatestStop
      PROVE  InTime(deadline', n)
  BY <1>1, <1>3 DEF InTime, Renewed
<1> QED
  BY <1>2, <1>3

(* A message that moves or stops an axis and asks for no acknowledgement.  *)
LEMMA MessageKeeps ==
  ASSUME GimbalInv, NEW c \in Camera, NEW topic \in {"move", "cmd_vel", "zoom"},
         NEW a \in Gimbal!Axis, NEW until \in Nat, until > now,
         Gimbal!Runs(<<c, topic>>),
         Gimbal!Stops(c, a) \/ Gimbal!Drives(c, a, until) \/ Gimbal!Refused(c, a),
         Gimbal!Returns(<<c, topic>>), UNCHANGED due
  PROVE  GimbalInv'
<1>0. GimbalTypes /\ now \in Nat /\ until \in Nat \ {0} /\ Watched(deadline, driven, missed)
  BY DEF GimbalInv, GimbalTypes
<1>1. <<c, topic>> # Gimbal!WatchdogTimer /\ <<c, topic>> # Gimbal!StartupTimer
      /\ \A x \in Camera : <<c, topic>> # <<x, "center">>
  BY DEF Gimbal!WatchdogTimer, Gimbal!StartupTimer
<1> DEFINE w == Cost(Tasks(turn))
<1>2. /\ doing = Gimbal!Idle /\ Gimbal!WatchdogTimer \notin turn
      /\ InTime(deadline, now + w) /\ w \in Nat /\ w <= Gimbal!LatestStop
  BY <1>1, RunsUnwatched
<1>3. turn' = turn \ {<<c, topic>>} /\ now' = now /\ doing' = doing /\ due' = due
  BY DEF Gimbal!Returns
<1>4. AxesWatched /\ Renewed(until)
  BY <1>0, Commands DEF Renewed
<1>5. GimbalTypes' /\ Watched(deadline', driven', missed')
  BY <1>0, <1>3, <1>4 DEF GimbalTypes, AxesWatched
<1>6. ~due' => OnTime(deadline', now')
  BY <1>0, <1>3, <1>4, StillInTime DEF GimbalInv
<1>7. Debt(doing', turn', now') = w
  <2>1. Tasks(turn') = Tasks(turn)
    BY <1>1, <1>3, OthersCostNothing
  <2>2. Debt(doing', turn', now') = Cost(Tasks(turn'))
    <3>1. doing' = Gimbal!Idle /\ now' \in Nat
      BY <1>0, <1>2, <1>3
    <3> QED
      BY <3>1, Debts
  <2> QED
    BY <2>1, <2>2
<1>8. InTime(deadline', now' + Debt(doing', turn', now'))
  <2> HIDE DEF w
  <2>1. Gimbal!LatestStop \in Nat
    BY CostsAreNumbers
  <2>2. now + w \in Nat /\ now + w < until + Gimbal!LatestStop
    BY <1>0, <1>2, <2>1
  <2>3. InTime(deadline', now + w)
    BY <1>0, <1>2, <1>4, <2>2, StillInTime
  <2> QED
    BY <1>3, <1>7, <2>3
<1> QED
  BY <1>2, <1>3, <1>5, <1>6, <1>8 DEF GimbalInv

(* Who is in time is so with less to wait, and who is on time may wait.    *)
LEMMA Waiting ==
  ASSUME NEW dl \in Deadlines, NEW n \in Nat, NEW w \in Nat
  PROVE  /\ InTime(dl, n + w) => \A m \in Nat : m <= n + w => InTime(dl, m)
         /\ OnTime(dl, n) /\ w <= Gimbal!LatestStop => InTime(dl, n + w)
<1>1. \A x \in Camera, b \in Gimbal!Axis : dl[x][b] \in Nat
  BY DEF Deadlines
<1>2. Gimbal!LatestStop \in Nat
  BY CostsAreNumbers
<1>3. ASSUME InTime(dl, n + w), NEW m \in Nat, m <= n + w
      PROVE  InTime(dl, m)
  BY <1>1, <1>2, <1>3 DEF InTime
<1>4. ASSUME OnTime(dl, n), w <= Gimbal!LatestStop
      PROVE  InTime(dl, n + w)
  BY <1>1, <1>2, <1>4 DEF InTime, OnTime
<1> QED
  BY <1>3, <1>4

(* The command in hand goes on and owes no more. *)
LEMMA WaitGoesOn ==
  ASSUME GimbalInv, doing \in Call, doing # Gimbal!Idle,
         doing' \in Call, doing' # Gimbal!Idle, doing'.callback = doing.callback,
         Rest(doing', now) <= Rest(doing, now),
         UNCHANGED <<now, due, turn, deadline, driven, missed>>
  PROVE  GimbalInv'
<1>0. now \in Nat /\ deadline \in Deadlines /\ GimbalTypes'
  BY DEF GimbalInv, GimbalTypes
<1>1. Gimbal!WatchdogTimer \notin turn /\ InTime(deadline, now + Debt(doing, turn, now))
  BY DEF GimbalInv
<1> DEFINE e == doing'
           w == Cost(Tasks(turn \ {doing.callback}))
<1>2. /\ Debt(doing, turn, now) = Rest(doing, now) + w /\ Debt(doing, turn, now) \in Nat
      /\ Rest(doing, now) \in Nat
  BY <1>0, Debts
<1>3. Debt(e, turn, now) = Rest(e, now) + w /\ Debt(e, turn, now) \in Nat /\ Rest(e, now) \in Nat
  <2> HIDE DEF e
  <2>1. e \in Call /\ e # Gimbal!Idle /\ e.callback = doing.callback
    BY DEF e
  <2> QED
    BY <1>0, <2>1, Debts
<1>4. w \in Nat
  BY TasksAreFew
<1> HIDE DEF w
<1>5. now + Debt(e, turn, now) <= now + Debt(doing, turn, now) /\ now + Debt(e, turn, now) \in Nat
  BY <1>0, <1>2, <1>3, <1>4
<1>6. InTime(deadline, now + Debt(e, turn, now))
  BY <1>0, <1>1, <1>2, <1>5, Waiting
<1> QED
  BY <1>0, <1>1, <1>6 DEF GimbalInv

(* Attempts, answers and time-outs go on with the command in hand. *)
LEMMA AsksKeep ==
  ASSUME GimbalInv,
         Gimbal!Attempt \/ Gimbal!Receive \/ Gimbal!TimesOut \/ Gimbal!AttemptRefused
  PROVE  GimbalInv'
<1>1. /\ doing # Gimbal!Idle /\ doing.left # <<>>
      /\ UNCHANGED <<now, due, turn, deadline, driven, missed>>
  BY DEF Gimbal!Attempt, Gimbal!Receive, Gimbal!TimesOut, Gimbal!AttemptRefused,
         Gimbal!Asking, Gimbal!quiet, Gimbal!axes
<1>2. doing \in Call /\ now \in Nat /\ Rest(doing, now) \in Nat
  BY <1>1, Debts DEF GimbalInv, GimbalTypes
<1>3. CASE doing' = doing
  BY <1>1, <1>2, <1>3, WaitGoesOn
<1>4. CASE doing' = Gimbal!NextCamera
  <2>1. /\ doing' \in Call /\ doing' # Gimbal!Idle /\ doing'.callback = doing.callback
        /\ Rest(doing', now) <= Rest(doing, now)
    BY <1>1, <1>2, <1>4, NextAsk DEF Gimbal!NextCamera
  <2> QED
    BY <1>1, <1>2, <2>1, WaitGoesOn
<1>5. CASE Gimbal!Attempt
  <2>1. /\ doing.tries > 0
        /\ doing' = [doing EXCEPT !.tries = doing.tries - 1, !.waits = TRUE,
                                  !.until = now + AckTimeout]
    BY <1>5 DEF Gimbal!Attempt, Gimbal!AttemptsLeft
  <2>2. /\ doing' \in Call /\ doing' # Gimbal!Idle /\ doing'.callback = doing.callback
        /\ Rest(doing', now) <= Rest(doing, now)
    BY <1>1, <1>2, <2>1, NextAttempt
  <2> QED
    BY <1>1, <1>2, <2>2, WaitGoesOn
<1>6. CASE doing' = [doing EXCEPT !.waits = FALSE]
  <2>1. /\ doing' \in Call /\ doing' # Gimbal!Idle /\ doing'.callback = doing.callback
        /\ doing'.left = doing.left /\ doing'.tries = doing.tries /\ doing'.until = doing.until
    BY <1>2, <1>6 DEF Call, Gimbal!Idle
  <2>2. Rest(doing', now) = Rest(doing, now)
    BY <1>1, <2>1 DEF Rest, Ahead, Asks
  <2> QED
    BY <1>1, <1>2, <2>1, <2>2, WaitGoesOn
<1> QED
  BY <1>3, <1>4, <1>5, <1>6 DEF Gimbal!Receive, Gimbal!TimesOut, Gimbal!AttemptRefused

(* A centring begins with a stop of the motion. *)
LEMMA OnCenterKeeps ==
  ASSUME GimbalInv, NEW c \in Camera, Gimbal!OnCenter(c)
  PROVE  GimbalInv'
<1> DEFINE t == <<c, "center">>
           w == Cost(Tasks(turn \ {t}))
<1>0. GimbalTypes /\ now \in Nat /\ Watched(deadline, driven, missed)
      /\ now + 1 \in Nat \ {0} /\ "motion" \in Gimbal!Axis
  BY DEF GimbalInv, GimbalTypes, Gimbal!Axis
<1>1. t # Gimbal!WatchdogTimer /\ t # Gimbal!StartupTimer
  BY DEF Gimbal!WatchdogTimer, Gimbal!StartupTimer
<1>2. t \in turn /\ UNCHANGED <<now, due, turn>>
  BY DEF Gimbal!OnCenter, Gimbal!Runs
<1>3. /\ doing = Gimbal!Idle /\ Gimbal!WatchdogTimer \notin turn
      /\ InTime(deadline, now + Cost(Tasks(turn)))
      /\ Cost(Tasks(turn)) \in Nat /\ Cost(Tasks(turn)) <= Gimbal!LatestStop
  BY <1>1, RunsUnwatched DEF Gimbal!OnCenter
<1>4. AxesWatched /\ Renewed(now + 1)
  BY <1>0, Commands DEF Gimbal!OnCenter, Renewed
<1>5. /\ doing' = [callback |-> t, command |-> "center", began |-> now, left |-> <<c>>,
                   tries |-> Retries, waits |-> FALSE, until |-> 0]
  BY DEF Gimbal!OnCenter, Gimbal!Begins
<1>6. doing' \in Call /\ doing' # Gimbal!Idle
  <2>1. doing' \in Call
    BY <1>0, <1>5, GimbalNumbers DEF Call
  <2> QED
    BY <2>1 DEF Call, Gimbal!Idle
<1>7. Debt(doing', turn, now) = Cost(Tasks(turn))
  <2>1. Ahead(doing', now) = 0
    BY <1>0, <1>5 DEF Ahead
  <2>2. doing'.left = <<c>> /\ doing'.left # <<>> /\ Len(doing'.left) - 1 = 0
        /\ doing'.tries = Retries /\ doing'.callback = t
    BY <1>5
  <2>3. Asks(doing') = PerCamera
    BY <2>2, Costs DEF Asks, PerCamera
  <2>4. Rest(doing', now) = PerCamera
    BY <1>6, <2>1, <2>3, Costs DEF Rest
  <2>5. Debt(doing', turn, now) = PerCamera + w
    BY <1>6, <2>2, <2>4 DEF Debt, Later
  <2>6. Cost(Tasks(turn)) = w + PerCamera /\ w \in Nat
    BY <1>2, TaskBegins, TasksAreFew
  <2> HIDE DEF w
  <2> QED
    BY <2>5, <2>6, Costs
<1>8. GimbalTypes' /\ Watched(deadline', driven', missed')
  BY <1>0, <1>2, <1>4, <1>6 DEF GimbalTypes, AxesWatched
<1>9. ~due' => OnTime(deadline', now')
  BY <1>0, <1>2, <1>4, StillInTime DEF GimbalInv
<1>10. InTime(deadline', now' + Debt(doing', turn', now'))
  <2>1. Gimbal!LatestStop \in Nat
    BY CostsAreNumbers
  <2>2. now + Cost(Tasks(turn)) \in Nat
        /\ now + Cost(Tasks(turn)) < (now + 1) + Gimbal!LatestStop
    BY <1>0, <1>3, <2>1
  <2>3. InTime(deadline', now + Cost(Tasks(turn)))
    BY <1>0, <1>3, <1>4, <2>2, StillInTime
  <2> QED
    BY <1>2, <1>7, <2>3
<1> QED
  BY <1>2, <1>3, <1>8, <1>9, <1>10 DEF GimbalInv

(* The start-up begins with the first camera. *)
LEMMA InitializeGimbalsKeeps ==
  ASSUME GimbalInv, Gimbal!InitializeGimbals
  PROVE  GimbalInv'
<1> DEFINE t == Gimbal!StartupTimer
           w == Cost(Tasks(turn \ {t}))
<1>0. GimbalTypes /\ now \in Nat /\ deadline \in Deadlines
  BY DEF GimbalInv, GimbalTypes
<1>1. t # Gimbal!WatchdogTimer
  BY DEF Gimbal!WatchdogTimer, Gimbal!StartupTimer
<1>2. t \in turn /\ UNCHANGED <<now, due, turn, deadline, driven, missed>>
  BY DEF Gimbal!InitializeGimbals, Gimbal!Runs, Gimbal!axes
<1>3. /\ doing = Gimbal!Idle /\ Gimbal!WatchdogTimer \notin turn
      /\ InTime(deadline, now + Cost(Tasks(turn)))
      /\ Cost(Tasks(turn)) \in Nat /\ Cost(Tasks(turn)) <= Gimbal!LatestStop
  BY <1>1, RunsUnwatched DEF Gimbal!InitializeGimbals
<1>4. PICK k \in {"center", "angles"} :
        doing' = [callback |-> t, command |-> k, began |-> now, left |-> CameraOrder,
                  tries |-> Retries, waits |-> FALSE, until |-> 0]
  BY DEF Gimbal!InitializeGimbals, Gimbal!Begins
<1>5. doing' \in Call /\ doing' # Gimbal!Idle
  <2>1. doing' \in Call
    BY <1>0, <1>4, GimbalNumbers DEF Call
  <2> QED
    BY <2>1 DEF Call, Gimbal!Idle
<1>6. Rest(doing', now) = Cost(Cameras)
  <2>1. Ahead(doing', now) = 0
    BY <1>0, <1>4 DEF Ahead
  <2>2. doing'.left = CameraOrder /\ doing'.tries = Retries
    BY <1>4
  <2>3. Cameras \in Nat /\ (CameraOrder = <<>> => Cameras = 0)
        /\ (CameraOrder # <<>> => Cameras - 1 \in Nat /\ Cameras = (Cameras - 1) + 1)
    BY GimbalNumbers, EmptySeq
  <2>4. Asks(doing') = Cost(Cameras)
    <3>1. CASE CameraOrder = <<>>
      BY <2>2, <2>3, <3>1, Costs DEF Asks
    <3>2. CASE CameraOrder # <<>>
      <4>1. Asks(doing') = PerCamera + Cost(Cameras - 1)
        BY <2>2, <3>2, GimbalNumbers DEF Asks, PerCamera
      <4>2. Cost(Cameras) = Cost(Cameras - 1) + PerCamera
        BY <2>3, <3>2, Costs
      <4>3. PerCamera \in Nat /\ Cost(Cameras - 1) \in Nat
        BY <2>3, <3>2, Costs
      <4> QED
        BY <4>1, <4>2, <4>3
    <3> QED
      BY <3>1, <3>2
  <2>5. Cost(Cameras) \in Nat
    BY GimbalNumbers, CostsAreNumbers
  <2> QED
    BY <1>5, <2>1, <2>4, <2>5 DEF Rest
<1>7. Debt(doing', turn, now) = Cost(Tasks(turn))
  <2>1. doing'.callback = t
    BY <1>4
  <2>2. Debt(doing', turn, now) = Cost(Cameras) + w
    BY <1>5, <1>6, <2>1 DEF Debt, Later
  <2>3. Cost(Tasks(turn)) = w + Cost(Cameras) /\ w \in Nat
    BY <1>2, TaskBegins, TasksAreFew
  <2> HIDE DEF w
  <2>4. Cost(Cameras) \in Nat
    BY GimbalNumbers, CostsAreNumbers
  <2> QED
    BY <2>2, <2>3, <2>4
<1>8. GimbalTypes'
  BY <1>0, <1>2, <1>5 DEF GimbalTypes
<1>9. InTime(deadline', now' + Debt(doing', turn', now'))
  BY <1>2, <1>3, <1>7
<1> QED
  BY <1>2, <1>3, <1>8, <1>9 DEF GimbalInv

(* The executor begins a turn, with the watchdog if that is due. *)
LEMMA SpinKeeps ==
  ASSUME GimbalInv, Gimbal!Spin
  PROVE  GimbalInv'
<1> DEFINE w == Cost(Tasks(turn'))
<1>0. GimbalTypes /\ now \in Nat /\ deadline \in Deadlines
  BY DEF GimbalInv, GimbalTypes
<1>1. /\ doing = Gimbal!Idle /\ turn = {}
      /\ UNCHANGED <<now, due, doing, deadline, driven, missed>>
  BY DEF Gimbal!Spin, Gimbal!axes
<1>2. ~due => Gimbal!WatchdogTimer \notin turn'
  <2>1. PICK few \in SUBSET (Camera \X Gimbal!Topic) :
          turn' = few \cup {t \in {Gimbal!WatchdogTimer} : due}
                      \cup {t \in {Gimbal!StartupTimer} : Gimbal!StartupDue}
    BY DEF Gimbal!Spin
  <2>2. Gimbal!WatchdogTimer # Gimbal!StartupTimer
        /\ Gimbal!WatchdogTimer \notin Camera \X Gimbal!Topic
    BY DEF Gimbal!WatchdogTimer, Gimbal!StartupTimer
  <2> QED
    BY <2>1, <2>2
<1>3. due => Gimbal!WatchdogTimer \in turn'
  BY DEF Gimbal!Spin
<1>4. InTime(deadline, now)
  <2>1. Debt(doing, turn, now) \in Nat
    BY <1>0, <1>1, Debts
  <2>2. InTime(deadline, now + Debt(doing, turn, now))
    BY <1>1 DEF GimbalInv
  <2>3. now <= now + Debt(doing, turn, now)
    BY <1>0, <2>1
  <2> QED
    BY <1>0, <2>1, <2>2, <2>3, Waiting
<1>5. ASSUME ~due
      PROVE  InTime(deadline, now + Debt(doing, turn', now))
  <2>1. Debt(doing, turn', now) = w /\ w \in Nat /\ w <= Gimbal!LatestStop
    BY <1>0, <1>1, Debts, TasksAreFew
  <2>2. OnTime(deadline, now)
    BY <1>5 DEF GimbalInv
  <2> HIDE DEF w
  <2> QED
    BY <1>0, <2>1, <2>2, Waiting
<1> QED
  BY <1>0, <1>1, <1>2, <1>3, <1>4, <1>5 DEF GimbalInv, GimbalTypes

(* Time goes on while the command in hand waits, or between turns. *)
LEMMA TickKeeps ==
  ASSUME GimbalInv, Gimbal!Tick
  PROVE  GimbalInv'
<1>0. GimbalTypes /\ now \in Nat /\ deadline \in Deadlines /\ Gimbal!LatestStop \in Nat
  BY CostsAreNumbers DEF GimbalInv, GimbalTypes
<1>1. /\ now' = now + 1 /\ due' = TRUE
      /\ UNCHANGED <<turn, doing, deadline, driven, missed>>
  BY DEF Gimbal!Tick, Gimbal!axes
<1>2. now + 1 \in Nat /\ GimbalTypes'
  BY <1>0, <1>1 DEF GimbalTypes
<1>3. CASE doing # Gimbal!Idle /\ now < doing.until
  <2> DEFINE w == Cost(Tasks(turn \ {doing.callback}))
  <2>1. doing \in Call /\ doing.until \in Nat
    BY <1>0, <1>3 DEF GimbalTypes, Call
  <2>2. Ahead(doing, now) \in Nat /\ Ahead(doing, now + 1) \in Nat
        /\ Ahead(doing, now) = 1 + Ahead(doing, now + 1)
    BY <1>0, <1>3, <2>1 DEF Ahead
  <2>3. /\ Rest(doing, now) = Ahead(doing, now) + Asks(doing)
        /\ Rest(doing, now + 1) = Ahead(doing, now + 1) + Asks(doing)
    BY <1>3 DEF Rest
  <2>4. /\ Debt(doing, turn, now) = Rest(doing, now) + w
        /\ Debt(doing, turn, now + 1) = Rest(doing, now + 1) + w
        /\ Rest(doing, now) \in Nat /\ Rest(doing, now + 1) \in Nat /\ w \in Nat
    BY <1>0, <1>2, <1>3, <2>1, Debts, TasksAreFew
  <2>5. Asks(doing) \in Nat
    BY <2>1, AsksAreNumbers
  <2> HIDE DEF w
  <2>6. (now + 1) + Debt(doing, turn, now + 1) = now + Debt(doing, turn, now)
    BY <1>0, <2>2, <2>3, <2>4, <2>5
  <2>7. Gimbal!WatchdogTimer \notin turn /\ InTime(deadline, now + Debt(doing, turn, now))
    BY <1>3 DEF GimbalInv
  <2> QED
    BY <1>1, <1>2, <2>6, <2>7 DEF GimbalInv
<1>4. CASE doing = Gimbal!Idle /\ turn = {} /\ ~due
  <2>1. OnTime(deadline, now)
    BY <1>4 DEF GimbalInv
  <2>2. Debt(doing, turn, now + 1) = Cost(Tasks({}))
    BY <1>2, <1>4, Debts
  <2>3. Cost(Tasks({})) = 0
    <3>1. Centers({}) = {} /\ Startups({}) = 0
      BY DEF Centers, Startups
    <3>2. Tasks({}) = 0
      BY <3>1, FS_EmptySet DEF Tasks
    <3> QED
      BY <3>2, Costs
  <2>4. Camera # {} => Gimbal!LatestStop >= 1
    <3> SUFFICES ASSUME Camera # {}
                 PROVE  Gimbal!LatestStop >= 1
      OBVIOUS
    <3>1. Cameras \in Nat /\ Cameras # 0
      BY GimbalNumbers, FS_EmptySet DEF Cameras
    <3>2. Cost(1) <= Cost(Cameras)
      BY <3>1, Costs
    <3>3. Cost(Cameras) \in Nat
      BY <3>1, CostsAreNumbers
    <3> QED
      BY <3>2, <3>3, Costs
  <2>5. InTime(deadline, now + 1)
    <3>1. \A x \in Camera, b \in Gimbal!Axis : deadline[x][b] \in Nat
      BY <1>0 DEF Deadlines
    <3> QED
      BY <1>0, <2>1, <2>4, <3>1 DEF OnTime, InTime
  <2>6. (now + 1) + Debt(doing, turn, now + 1) = now + 1
    BY <1>2, <2>2, <2>3
  <2> QED
    BY <1>1, <1>2, <1>4, <2>5, <2>6 DEF GimbalInv
<1> QED
  BY <1>3, <1>4 DEF Gimbal!Tick

(* The watchdog stops whatever has expired. *)
LEMMA WatchdogKeeps ==
  ASSUME GimbalInv, Gimbal!Watchdog
  PROVE  GimbalInv'
<1> DEFINE w == Cost(Tasks(turn'))
<1>0. GimbalTypes /\ now \in Nat /\ deadline \in Deadlines
      /\ Watched(deadline, driven, missed)
  BY DEF GimbalInv, GimbalTypes
<1>1. /\ doing = Gimbal!Idle /\ UNCHANGED <<now, doing>>
      /\ turn' = turn \ {Gimbal!WatchdogTimer}
  BY DEF Gimbal!Watchdog, Gimbal!Runs, Gimbal!Returns
<1>2. PICK misses \in SUBSET Gimbal!Expired : Gimbal!StopsAll(Gimbal!Expired, misses)
  BY DEF Gimbal!Watchdog
<1>3. AxesWatched
      /\ \A x \in Camera, b \in Gimbal!Axis :
           deadline'[x][b] = IF <<x, b>> \in Gimbal!Expired THEN 0 ELSE deadline[x][b]
  BY <1>0, <1>2, SeveralStop
<1>4. GimbalTypes' /\ deadline' \in Deadlines
  BY <1>0, <1>1, <1>3 DEF GimbalTypes, AxesWatched
<1>5. OnTime(deadline', now)
  <2> SUFFICES ASSUME NEW x \in Camera, NEW b \in Gimbal!Axis, deadline'[x][b] # 0
               PROVE  now < deadline'[x][b]
    BY DEF OnTime
  <2>1. <<x, b>> \notin Gimbal!Expired /\ deadline'[x][b] = deadline[x][b]
    BY <1>3
  <2>2. ~(now >= deadline[x][b])
    BY <2>1 DEF Gimbal!Expired
  <2>3. deadline[x][b] \in Nat
    BY <1>0 DEF Deadlines
  <2> QED
    BY <1>0, <2>1, <2>2, <2>3
<1>6. InTime(deadline', now + Debt(doing, turn', now))
  <2>1. Debt(doing, turn', now) = w /\ w \in Nat /\ w <= Gimbal!LatestStop
    BY <1>0, <1>1, Debts, TasksAreFew
  <2> HIDE DEF w
  <2> QED
    BY <1>0, <1>4, <1>5, <2>1, Waiting
<1> QED
  BY <1>1, <1>3, <1>4, <1>5, <1>6 DEF GimbalInv, AxesWatched

(* The end of a callback takes it from the turn, and what it asked is paid. *)
LEMMA DoneKeeps ==
  ASSUME GimbalInv, Gimbal!Done
  PROVE  GimbalInv'
<1> DEFINE w == Cost(Tasks(turn \ {doing.callback}))
<1>0. GimbalTypes /\ now \in Nat /\ deadline \in Deadlines
      /\ Watched(deadline, driven, missed)
  BY DEF GimbalInv, GimbalTypes
<1>1. /\ doing # Gimbal!Idle /\ doing' = Gimbal!Idle /\ turn' = turn \ {doing.callback}
      /\ UNCHANGED <<now, due, deadline, driven, missed>>
  BY DEF Gimbal!Done, Gimbal!axes
<1>2. Gimbal!WatchdogTimer \notin turn /\ InTime(deadline, now + Debt(doing, turn, now))
  BY <1>1 DEF GimbalInv
<1>3. Debt(doing, turn, now) = Rest(doing, now) + w /\ Rest(doing, now) \in Nat
      /\ Debt(doing, turn, now) \in Nat
  BY <1>0, <1>1, Debts DEF GimbalTypes
<1>4. w \in Nat
  BY TasksAreFew
<1>5. Debt(Gimbal!Idle, turn', now) = w
  BY <1>0, <1>1, Debts
<1>6. GimbalTypes'
  BY <1>0, <1>1 DEF GimbalTypes
<1> HIDE DEF w
<1>7. now + w \in Nat /\ now + w <= now + Debt(doing, turn, now)
  BY <1>0, <1>3, <1>4
<1>8. InTime(deadline, now + w)
  BY <1>0, <1>2, <1>3, <1>7, Waiting
<1> QED
  BY <1>0, <1>1, <1>2, <1>5, <1>6, <1>8 DEF GimbalInv

(* The end of the node stops everything. *)
LEMMA DestroyNodeKeeps ==
  ASSUME GimbalInv, Gimbal!DestroyNode
  PROVE  GimbalInv'
<1>0. GimbalTypes /\ now \in Nat /\ Watched(deadline, driven, missed)
  BY DEF GimbalInv, GimbalTypes
<1>1. doing' = Gimbal!Idle /\ turn' = {} /\ UNCHANGED <<now, due>>
  BY DEF Gimbal!DestroyNode
<1>2. PICK misses \in SUBSET (Camera \X Gimbal!Axis) :
        Gimbal!StopsAll(Camera \X Gimbal!Axis, misses)
  BY DEF Gimbal!DestroyNode
<1>3. AxesWatched
      /\ \A x \in Camera, b \in Gimbal!Axis :
           deadline'[x][b] = IF <<x, b>> \in Camera \X Gimbal!Axis THEN 0 ELSE deadline[x][b]
  BY <1>0, <1>2, SeveralStop
<1>4. \A x \in Camera, b \in Gimbal!Axis : deadline'[x][b] = 0
  BY <1>3
<1>5. GimbalTypes'
  BY <1>0, <1>1, <1>3 DEF GimbalTypes, AxesWatched
<1> QED
  BY <1>1, <1>3, <1>4, <1>5 DEF GimbalInv, AxesWatched, OnTime, InTime

(* Every step of the node keeps the gimbals watched. *)
LEMMA GimbalKept ==
  ASSUME GimbalInv, [Gimbal!Next]_(Gimbal!vars)
  PROVE  GimbalInv'
<1>1. CASE Gimbal!Tick
  BY <1>1, TickKeeps
<1>2. CASE Gimbal!Spin
  BY <1>2, SpinKeeps
<1>3. CASE Gimbal!Watchdog
  BY <1>3, WatchdogKeeps
<1>4. CASE Gimbal!InitializeGimbals
  BY <1>4, InitializeGimbalsKeeps
<1>5. CASE Gimbal!Callback
  <2>0. /\ now \in Nat /\ {"motion", "zoom"} = Gimbal!Axis
        /\ now + StepDuration \in Nat /\ now + StepDuration > now
        /\ now + Timeout \in Nat /\ now + Timeout > now
    BY GimbalNumbers DEF GimbalInv, GimbalTypes, Gimbal!Axis
  <2>1. PICK c \in Camera :
          Gimbal!OnMove(c) \/ Gimbal!OnVelocity(c) \/ Gimbal!OnZoom(c) \/ Gimbal!OnCenter(c)
    BY <1>5 DEF Gimbal!Callback
  <2>2. CASE Gimbal!OnMove(c)
    BY <2>0, <2>2, MessageKeeps DEF Gimbal!OnMove
  <2>3. CASE Gimbal!OnVelocity(c)
    BY <2>0, <2>3, MessageKeeps DEF Gimbal!OnVelocity
  <2>4. CASE Gimbal!OnZoom(c)
    BY <2>0, <2>4, MessageKeeps DEF Gimbal!OnZoom
  <2>5. CASE Gimbal!OnCenter(c)
    BY <2>5, OnCenterKeeps
  <2> QED
    BY <2>1, <2>2, <2>3, <2>4, <2>5
<1>6. CASE Gimbal!Attempt \/ Gimbal!Receive \/ Gimbal!TimesOut \/ Gimbal!AttemptRefused
  BY <1>6, AsksKeep
<1>7. CASE Gimbal!Done
  BY <1>7, DoneKeeps
<1>8. CASE Gimbal!DestroyNode
  BY <1>8, DestroyNodeKeeps
<1>9. CASE UNCHANGED Gimbal!vars
  BY <1>9 DEF Gimbal!vars, GimbalInv, GimbalTypes
<1> QED
  BY <1>1, <1>2, <1>3, <1>4, <1>5, <1>6, <1>7, <1>8, <1>9 DEF Gimbal!Next

(* At the start nothing moves. *)
LEMMA GimbalStarts ==
  ASSUME Gimbal!Init
  PROVE  GimbalInv /\ Acknowledged
<1>1. /\ now = 0 /\ turn = {} /\ doing = Gimbal!Idle
      /\ acks = {} /\ reported = {}
      /\ deadline = [c \in Camera |-> [a \in Gimbal!Axis |-> 0]]
      /\ driven = [c \in Camera |-> [a \in Gimbal!Axis |-> FALSE]]
      /\ missed = [c \in Camera |-> [a \in Gimbal!Axis |-> FALSE]]
  BY DEF Gimbal!Init, Gimbal!PerAxis
<1>2. GimbalTypes /\ \A c \in Camera, a \in Gimbal!Axis : deadline[c][a] = 0 /\ ~driven[c][a]
  BY <1>1 DEF GimbalTypes, Deadlines, Switches
<1> QED
  BY <1>1, <1>2 DEF GimbalInv, Acknowledged, Watched, OnTime, InTime

(* What the property asks follows. *)
LEMMA GimbalIsWatched ==
  ASSUME GimbalInv
  PROVE  MovesUnderWatch
<1>0. now \in Nat /\ deadline \in Deadlines /\ Watched(deadline, driven, missed)
  BY DEF GimbalInv, GimbalTypes
<1>1. InTime(deadline, now)
  <2>1. CASE Gimbal!WatchdogTimer \in turn
    BY <2>1 DEF GimbalInv
  <2>2. CASE Gimbal!WatchdogTimer \notin turn
    <3>1. Debt(doing, turn, now) \in Nat
      BY Debts DEF GimbalInv, GimbalTypes
    <3>2. now <= now + Debt(doing, turn, now)
      BY <1>0, <3>1
    <3> QED
      BY <1>0, <2>2, <3>1, <3>2, Waiting DEF GimbalInv
  <2> QED
    BY <2>1, <2>2
<1> QED
  BY <1>0, <1>1 DEF MovesUnderWatch, Gimbal!MovesUnderWatch, Watched, InTime

-----------------------------------------------------------------------------
(* Gimbal: the acknowledgements *)

(* Only an acknowledgement of the start angles reports them, and a camera  *)
(* sends one when it has taken them.                                       *)
LEMMA AcknowledgedKept ==
  ASSUME Acknowledged, [Gimbal!Next]_(Gimbal!vars)
  PROVE  Acknowledged'
<1>1. CASE Gimbal!Attempt
  <2>1. /\ UNCHANGED reported
        /\ \/ /\ acks' = acks \cup {<<Gimbal!Asked, doing.command>>}
              /\ executed' = executed \cup {c \in {Gimbal!Asked} : doing.command = "angles"}
           \/ UNCHANGED <<acks, executed>>
    BY <1>1 DEF Gimbal!Attempt
  <2> QED
    BY <2>1 DEF Acknowledged
<1>2. CASE Gimbal!Receive
  <2>1. PICK k \in Gimbal!Acked :
          /\ <<Gimbal!Asked, k>> \in acks /\ acks' = acks \ {<<Gimbal!Asked, k>>}
          /\ IF k = doing.command
             THEN reported' = reported \cup {c \in {Gimbal!Asked} : doing.command = "angles"}
             ELSE UNCHANGED reported
    BY <1>2 DEF Gimbal!Receive, Gimbal!Answers
  <2>2. UNCHANGED executed
    BY <1>2 DEF Gimbal!Receive
  <2>3. reported' \subseteq executed
    BY <2>1 DEF Acknowledged
  <2> QED
    BY <2>1, <2>2, <2>3 DEF Acknowledged
<1>3. CASE UNCHANGED <<acks, executed, reported>>
  BY <1>3 DEF Acknowledged
<1>4. CASE ~Gimbal!Attempt /\ ~Gimbal!Receive
  <2>1. UNCHANGED <<acks, executed, reported>>
    BY <1>4 DEF Gimbal!Next, Gimbal!vars, Gimbal!Tick, Gimbal!Spin, Gimbal!Watchdog,
       Gimbal!InitializeGimbals, Gimbal!Callback, Gimbal!OnMove, Gimbal!OnVelocity,
       Gimbal!OnZoom, Gimbal!OnCenter, Gimbal!Returns, Gimbal!TimesOut,
       Gimbal!AttemptRefused, Gimbal!Done, Gimbal!DestroyNode, Gimbal!answer
  <2> QED
    BY <2>1, <1>3
<1> QED
  BY <1>1, <1>2, <1>4

-----------------------------------------------------------------------------
(* Gimbal: the theorems *)

(* The drivers together do to the gimbal only what its node does. *)
THEOREM GimbalNodeRuns == DriversSpec => Gimbal!Spec
<1>1. DriversInit => Gimbal!Init
  BY DEF DriversInit
<1>2. ASSUME [DriversNext]_<<driver, vars, ahrs, gimbal, lidar>>
      PROVE  [Gimbal!Next]_(Gimbal!vars)
  <2>1. CASE GimbalRuns
    BY <2>1 DEF GimbalRuns
  <2>2. CASE UNCHANGED gimbal
    BY <2>2 DEF gimbal, Gimbal!vars
  <2>3. GimbalRuns \/ UNCHANGED gimbal
    BY <1>2 DEF DriversNext, OdometryRuns, AhrsRuns, LidarRuns
  <2> QED
    BY <2>1, <2>2, <2>3
<1>3. [DriversNext]_<<driver, vars, ahrs, gimbal, lidar>> => [Gimbal!Next]_(Gimbal!vars)
  BY <1>2
<1> QED
  BY <1>1, <1>3, PTL DEF DriversSpec, Gimbal!Spec

(* What the node knows of its gimbals, at all times: whatever moves is     *)
(* watched, a late deadline is one that the watchdog has in its turn, and  *)
(* what the turn still waits leaves that in time (GimbalState, _watchdog,  *)
(* send_command_with_ack).                                                 *)
THEOREM GimbalsAreWatched == DriversSpec => []GimbalInv
<1>1. Gimbal!Init => GimbalInv
  BY GimbalStarts
<1>2. GimbalInv /\ [Gimbal!Next]_(Gimbal!vars) => GimbalInv'
  BY GimbalKept
<1> QED
  BY <1>1, <1>2, GimbalNodeRuns, PTL DEF Gimbal!Spec

(* Whatever number of cameras, retries and waits there is: an axis that    *)
(* moves and that nobody renews is stopped within the bound of its         *)
(* deadline, unless its stop did not reach the camera (_watchdog,          *)
(* destroy_node).                                                          *)
THEOREM MotionsAreWatched == DriversSpec => []MovesUnderWatch
<1>1. GimbalInv => MovesUnderWatch
  BY GimbalIsWatched
<1> QED
  BY <1>1, GimbalsAreWatched, PTL

(* Start angles are reported only of cameras that took them, however many  *)
(* acknowledgements of other commands are under way (startup_set_angles).  *)
THEOREM ReportedAnglesWereSet == DriversSpec => []AnglesWereSet
<1>1. Gimbal!Init => Acknowledged
  BY GimbalStarts
<1>2. Acknowledged /\ [Gimbal!Next]_(Gimbal!vars) => Acknowledged'
  BY AcknowledgedKept
<1>3. Acknowledged => AnglesWereSet
  BY DEF Acknowledged, AnglesWereSet, Gimbal!AnglesWereSet
<1> QED
  BY <1>1, <1>2, <1>3, GimbalNodeRuns, PTL DEF Gimbal!Spec

-----------------------------------------------------------------------------
(* AHRS: what a message holds.  A packet that comes later is one of a      *)
(* later cycle, so a message with a later stamp holds a later measurement; *)
(* what was published, the copies and the messages of the reader are three *)
(* states of the same messages, in this order.                             *)

RawMsg   == [stamp : Nat, acc : Nat, gyr : Nat]
DataMsg  == [stamp : Nat, deg : Nat, yaw : Nat]
MagMsg   == [stamp : Nat, mag : Nat]
Messages == [raw : RawMsg, data : DataMsg, mag : MagMsg]

RawGrows(o, n) ==
  /\ n.stamp >= o.stamp /\ n.acc >= o.acc /\ n.gyr >= o.gyr
  /\ n.stamp # o.stamp => n.acc > o.acc \/ n.gyr > o.gyr
DataGrows(o, n) ==
  /\ n.stamp >= o.stamp /\ n.deg >= o.deg /\ n.yaw >= o.yaw
  /\ n.stamp # o.stamp => n.deg > o.deg
MagGrows(o, n) ==
  /\ n.stamp >= o.stamp /\ n.mag >= o.mag
  /\ n.stamp # o.stamp => n.mag > o.mag
Grows(o, n) == RawGrows(o.raw, n.raw) /\ DataGrows(o.data, n.data) /\ MagGrows(o.mag, n.mag)

(* The yaw of the same packet as the angles. *)
OnePacket(m) == m.data.yaw = m.data.deg

(* Everything in m came with one of the first s packets. *)
Before(m, s) ==
  /\ m.raw.stamp <= s /\ m.data.stamp <= s /\ m.mag.stamp <= s
  /\ 4 * m.raw.acc + 1 <= s + 4 /\ 4 * m.raw.gyr + 2 <= s + 4
  /\ 4 * m.data.deg + 3 <= s + 4 /\ 4 * m.mag.mag + 4 <= s + 4

(* The reader holds the last packet that was sent. *)
InHand ==
  /\ sent \in Nat \ {0} /\ packet.stamp = sent /\ packet.cycle \in Nat
  /\ \/ packet.kind = "ACC" /\ 4 * packet.cycle + 1 = sent + 4
     \/ packet.kind = "GYO" /\ 4 * packet.cycle + 2 = sent + 4
     \/ packet.kind = "DEG" /\ 4 * packet.cycle + 3 = sent + 4
     \/ packet.kind = "MAG" /\ 4 * packet.cycle + 4 = sent + 4

AhrsTypes ==
  /\ sent \in Nat
  /\ message \in Messages /\ copy \in Messages /\ published \in Messages
  /\ thread \in [Ahrs!Thread -> {"off", "loop", "busy", "ended"}]

AhrsInv ==
  /\ AhrsTypes
  /\ thread["reader"] = "busy" => InHand /\ Before(message, sent - 1)
  /\ thread["reader"] # "busy" => Before(message, sent)
  /\ OnePacket(message) /\ OnePacket(copy)
  /\ Grows(published, copy) /\ Grows(copy, message)
  /\ \A m \in Ahrs!Message : lastStamp[m] = published[m].stamp

(* Growth is transitive, and nothing has grown to itself. *)
LEMMA Growth ==
  /\ \A o \in Messages : Grows(o, o)
  /\ \A o, m, n \in Messages : Grows(o, m) /\ Grows(m, n) => Grows(o, n)
<1>1. ASSUME NEW o \in Messages
      PROVE  Grows(o, o)
  BY DEF Grows, RawGrows, DataGrows, MagGrows, Messages, RawMsg, DataMsg, MagMsg
<1>2. ASSUME NEW o \in Messages, NEW m \in Messages, NEW n \in Messages,
             Grows(o, m), Grows(m, n)
      PROVE  Grows(o, n)
  <2>1. RawGrows(o.raw, n.raw)
    BY <1>2 DEF Grows, RawGrows, Messages, RawMsg
  <2>2. DataGrows(o.data, n.data)
    BY <1>2 DEF Grows, DataGrows, Messages, DataMsg
  <2>3. MagGrows(o.mag, n.mag)
    BY <1>2 DEF Grows, MagGrows, Messages, MagMsg
  <2> QED
    BY <2>1, <2>2, <2>3 DEF Grows
<1> QED
  BY <1>1, <1>2

(* What came first is also before what comes after. *)
LEMMA BeforeGoesOn ==
  ASSUME NEW m \in Messages, NEW s \in Int, NEW r \in Int, s <= r, Before(m, s)
  PROVE  Before(m, r)
BY DEF Before, Messages, RawMsg, DataMsg, MagMsg

(* The reader takes the next packet, or the one after it. *)
LEMMA ReceiveKeeps ==
  ASSUME AhrsInv, Ahrs!Receive
  PROVE  AhrsInv'
<1>1. /\ thread["reader"] # "busy" /\ thread' = [thread EXCEPT !["reader"] = "busy"]
      /\ UNCHANGED <<message, copy, lastStamp, published>>
  BY DEF Ahrs!Receive, Ahrs!output
<1>2. PICK n \in {sent + 1, sent + 2} :
        /\ sent' = n
        /\ packet' = [kind  |-> Ahrs!Cycle[((n - 1) % 4) + 1],
                      cycle |-> ((n - 1) \div 4) + 1, stamp |-> n]
  BY DEF Ahrs!Receive
<1>3. n \in Nat \ {0} /\ sent \in Nat /\ sent <= n - 1 /\ n - 1 \in Int
  BY <1>2 DEF AhrsInv, AhrsTypes
<1> DEFINE i == ((n - 1) % 4) + 1
           k == ((n - 1) \div 4) + 1
<1>4. i \in 1..4 /\ k \in Nat /\ 4 * k + i = n + 4
  BY <1>3
<1>5. packet'.kind = Ahrs!Cycle[i] /\ packet'.cycle = k /\ packet'.stamp = n
  BY <1>2
<1> HIDE DEF i, k
<1>6. InHand'
  BY <1>2, <1>3, <1>4, <1>5 DEF InHand, Ahrs!Cycle
<1>7. Before(message, n - 1)
  BY <1>1, <1>3, BeforeGoesOn DEF AhrsInv, AhrsTypes
<1>8. AhrsTypes' /\ thread'["reader"] = "busy"
  BY <1>1, <1>2, <1>3 DEF AhrsInv, AhrsTypes, Ahrs!Thread
<1> QED
  BY <1>1, <1>2, <1>6, <1>7, <1>8 DEF AhrsInv

(* The reader stores it, which makes the message grow. *)
LEMMA StoreKeeps ==
  ASSUME AhrsInv, Ahrs!Store
  PROVE  AhrsInv'
<1>1. /\ thread["reader"] = "busy" /\ thread' = [thread EXCEPT !["reader"] = "loop"]
      /\ UNCHANGED <<sent, copy, lastStamp, published>>
  BY DEF Ahrs!Store, Ahrs!output
<1>2. InHand /\ Before(message, sent - 1) /\ sent \in Nat \ {0} /\ message \in Messages
      /\ OnePacket(message)
  BY <1>1 DEF AhrsInv, AhrsTypes, InHand
<1> DEFINE n == packet.stamp
           k == packet.cycle
<1>3. n = sent /\ k \in Nat
  BY <1>2 DEF InHand
<1>4. /\ message' \in Messages /\ Before(message', sent) /\ OnePacket(message')
      /\ Grows(message, message')
  <2>1. CASE packet.kind = "ACC" /\ 4 * k + 1 = sent + 4
    <3>1. message' = [message EXCEPT !.raw.stamp = n, !.raw.acc = k]
      BY <2>1 DEF Ahrs!Store
    <3>2. message' \in Messages
      BY <1>2, <1>3, <3>1 DEF Messages, RawMsg
    <3>3. /\ message'.data = message.data /\ message'.mag = message.mag
          /\ message'.raw.stamp = sent /\ message'.raw.acc = k
          /\ message'.raw.gyr = message.raw.gyr
      BY <1>2, <1>3, <3>1 DEF Messages, RawMsg
    <3> HIDE DEF n, k
    <3> QED
      BY <1>2, <1>3, <2>1, <3>2, <3>3
      DEF Before, OnePacket, Grows, RawGrows, DataGrows, MagGrows, Messages, RawMsg, DataMsg,
          MagMsg
  <2>2. CASE packet.kind = "GYO" /\ 4 * k + 2 = sent + 4
    <3>1. message' = [message EXCEPT !.raw.stamp = n, !.raw.gyr = k]
      BY <2>2 DEF Ahrs!Store
    <3>2. message' \in Messages
      BY <1>2, <1>3, <3>1 DEF Messages, RawMsg
    <3>3. /\ message'.data = message.data /\ message'.mag = message.mag
          /\ message'.raw.stamp = sent /\ message'.raw.gyr = k
          /\ message'.raw.acc = message.raw.acc
      BY <1>2, <1>3, <3>1 DEF Messages, RawMsg
    <3> HIDE DEF n, k
    <3> QED
      BY <1>2, <1>3, <2>2, <3>2, <3>3
      DEF Before, OnePacket, Grows, RawGrows, DataGrows, MagGrows, Messages, RawMsg, DataMsg,
          MagMsg
  <2>3. CASE packet.kind = "DEG" /\ 4 * k + 3 = sent + 4
    <3>1. message' = [message EXCEPT !.data = [stamp |-> n, deg |-> k, yaw |-> k]]
      BY <2>3 DEF Ahrs!Store
    <3>2. message' \in Messages
      BY <1>2, <1>3, <3>1 DEF Messages, DataMsg
    <3>3. /\ message'.raw = message.raw /\ message'.mag = message.mag
          /\ message'.data.stamp = sent /\ message'.data.deg = k /\ message'.data.yaw = k
      BY <1>2, <1>3, <3>1 DEF Messages
    <3> HIDE DEF n, k
    <3> QED
      BY <1>2, <1>3, <2>3, <3>2, <3>3
      DEF Before, OnePacket, Grows, RawGrows, DataGrows, MagGrows, Messages, RawMsg, DataMsg,
          MagMsg
  <2>4. CASE packet.kind = "MAG" /\ 4 * k + 4 = sent + 4
    <3>1. message' = [message EXCEPT !.mag = [stamp |-> n, mag |-> k]]
      BY <2>4 DEF Ahrs!Store
    <3>2. message' \in Messages
      BY <1>2, <1>3, <3>1 DEF Messages, MagMsg
    <3>3. /\ message'.raw = message.raw /\ message'.data = message.data
          /\ message'.mag.stamp = sent /\ message'.mag.mag = k
      BY <1>2, <1>3, <3>1 DEF Messages
    <3> HIDE DEF n, k
    <3> QED
      BY <1>2, <1>3, <2>4, <3>2, <3>3
      DEF Before, OnePacket, Grows, RawGrows, DataGrows, MagGrows, Messages, RawMsg, DataMsg,
          MagMsg
  <2> QED
    BY <1>2, <2>1, <2>2, <2>3, <2>4 DEF InHand
<1>5. Grows(copy', message')
  <2>1. copy \in Messages /\ Grows(copy, message)
    BY DEF AhrsInv, AhrsTypes
  <2> QED
    BY <1>1, <1>2, <1>4, <2>1, Growth
<1>6. AhrsTypes' /\ thread'["reader"] # "busy"
  BY <1>1, <1>4 DEF AhrsInv, AhrsTypes, Ahrs!Thread
<1> QED
  BY <1>1, <1>4, <1>5, <1>6 DEF AhrsInv

(* The publisher copies the messages. *)
LEMMA CopyKeeps ==
  ASSUME AhrsInv, Ahrs!Copy
  PROVE  AhrsInv'
<1>1. /\ copy' = message /\ thread' = [thread EXCEPT !["publisher"] = "busy"]
      /\ UNCHANGED <<sent, packet, message, lastStamp, published>>
  BY DEF Ahrs!Copy
<1>2. Grows(published, message) /\ Grows(message, message)
  BY Growth DEF AhrsInv, AhrsTypes
<1>3. AhrsTypes' /\ thread'["reader"] = thread["reader"]
  BY <1>1 DEF AhrsInv, AhrsTypes, Ahrs!Thread
<1> QED
  BY <1>1, <1>2, <1>3 DEF AhrsInv, InHand

(* What one publishing may do. *)
Fresh(old, new, count, counts) ==
  \A m \in Ahrs!Message :
    counts[m] # count[m] =>
      /\ \A f \in DOMAIN new[m] : new[m][f] >= old[m][f]
      /\ \E f \in DOMAIN new[m] \ {"stamp"} : new[m][f] > old[m][f]
      /\ m = "data" => new[m].yaw = new[m].deg

(* Published are the copies that have grown since. *)
LEMMA PublishKeeps ==
  ASSUME AhrsInv, Ahrs!Publish
  PROVE  AhrsInv' /\ Fresh(published, published', times, times')
<1>1. /\ published' = [m \in Ahrs!Message |-> IF Ahrs!Due(m) THEN copy[m] ELSE published[m]]
      /\ lastStamp' = [m \in Ahrs!Message |-> IF Ahrs!Due(m) THEN copy[m].stamp ELSE lastStamp[m]]
      /\ times' = [m \in Ahrs!Message |-> IF Ahrs!Due(m) THEN times[m] + 1 ELSE times[m]]
      /\ thread' = [thread EXCEPT !["publisher"] = "loop"]
      /\ UNCHANGED <<sent, packet, message, copy>>
  BY DEF Ahrs!Publish
<1>2. /\ published \in Messages /\ copy \in Messages /\ Grows(published, copy)
      /\ OnePacket(copy)
      /\ \A m \in Ahrs!Message : lastStamp[m] = published[m].stamp
  BY DEF AhrsInv, AhrsTypes
<1>3. \A m \in Ahrs!Message :
        /\ published'[m] = IF Ahrs!Due(m) THEN copy[m] ELSE published[m]
        /\ Ahrs!Due(m) => copy[m].stamp # published[m].stamp
        /\ times'[m] # times[m] => Ahrs!Due(m)
        /\ lastStamp'[m] = published'[m].stamp
  BY <1>1, <1>2 DEF Ahrs!Due
<1>4. /\ published'.raw = copy.raw \/ published'.raw = published.raw
      /\ published'.data = copy.data \/ published'.data = published.data
      /\ published'.mag = copy.mag \/ published'.mag = published.mag
  BY <1>3 DEF Ahrs!Message
<1>5. published' \in Messages
  BY <1>1, <1>2 DEF Messages, Ahrs!Message
<1>6. Grows(published', copy)
  <2>1. Grows(copy, copy)
    BY <1>2, Growth
  <2> QED
    BY <1>2, <1>4, <2>1 DEF Grows
<1>7. Fresh(published, published', times, times')
  <2> SUFFICES ASSUME NEW m \in Ahrs!Message, times'[m] # times[m]
               PROVE  /\ \A f \in DOMAIN published'[m] : published'[m][f] >= published[m][f]
                      /\ \E f \in DOMAIN published'[m] \ {"stamp"} :
                           published'[m][f] > published[m][f]
                      /\ m = "data" => published'[m].yaw = published'[m].deg
    BY DEF Fresh
  <2>1. published'[m] = copy[m] /\ copy[m].stamp # published[m].stamp
    BY <1>3
  <2>2. CASE m = "raw"
    <3>1. RawGrows(published.raw, copy.raw) /\ copy.raw \in RawMsg /\ published.raw \in RawMsg
      BY <1>2 DEF Grows, Messages
    <3>2. DOMAIN copy.raw = {"stamp", "acc", "gyr"}
      BY <3>1 DEF RawMsg
    <3> QED
      BY <2>1, <2>2, <3>1, <3>2 DEF RawGrows
  <2>3. CASE m = "data"
    <3>1. DataGrows(published.data, copy.data) /\ copy.data \in DataMsg
          /\ published.data \in DataMsg
      BY <1>2 DEF Grows, Messages
    <3>2. DOMAIN copy.data = {"stamp", "deg", "yaw"}
      BY <3>1 DEF DataMsg
    <3> QED
      BY <1>2, <2>1, <2>3, <3>1, <3>2 DEF DataGrows, OnePacket
  <2>4. CASE m = "mag"
    <3>1. MagGrows(published.mag, copy.mag) /\ copy.mag \in MagMsg /\ published.mag \in MagMsg
      BY <1>2 DEF Grows, Messages
    <3>2. DOMAIN copy.mag = {"stamp", "mag"}
      BY <3>1 DEF MagMsg
    <3> QED
      BY <2>1, <2>4, <3>1, <3>2 DEF MagGrows
  <2> QED
    BY <2>2, <2>3, <2>4 DEF Ahrs!Message
<1>8. AhrsTypes' /\ thread'["reader"] = thread["reader"]
  BY <1>1, <1>5 DEF AhrsInv, AhrsTypes, Ahrs!Thread
<1>9. Grows(published', copy') /\ \A m \in Ahrs!Message : lastStamp'[m] = published'[m].stamp
  BY <1>1, <1>3, <1>6
<1> QED
  BY <1>1, <1>7, <1>8, <1>9 DEF AhrsInv, InHand

(* The steps of main, and the end of a loop, leave the messages alone. *)
LEMMA AhrsRests ==
  ASSUME AhrsInv, UNCHANGED <<sent, packet, message, copy, lastStamp, published>>,
         \/ UNCHANGED thread
         \/ thread' = [thread EXCEPT !["reader"] = "loop"] /\ thread["reader"] # "busy"
         \/ \E s \in {"loop", "ended"} : thread' = [thread EXCEPT !["publisher"] = s]
         \/ thread' = [thread EXCEPT !["reader"] = "ended"] /\ thread["reader"] # "busy"
  PROVE  AhrsInv'
<1>1. AhrsTypes' /\ (thread'["reader"] = "busy" <=> thread["reader"] = "busy")
  BY DEF AhrsInv, AhrsTypes, Ahrs!Thread
<1> QED
  BY <1>1 DEF AhrsInv, InHand

(* The reader starts once. *)
Parked == main = "constructor" => thread["reader"] = "off"

(* It is parked until then. *)
LEMMA ParkedKept ==
  ASSUME AhrsInv, Parked, [Ahrs!Next]_(Ahrs!vars)
  PROVE  Parked'
<1>1. CASE main' = "constructor"
  <2>1. main = "constructor"
    BY <1>1 DEF Ahrs!Next, Ahrs!vars, Ahrs!SetupFails, Ahrs!StartReading, Ahrs!StartPubing,
       Ahrs!Shutdown, Ahrs!StopReading, Ahrs!JoinReader, Ahrs!StopPubing,
       Ahrs!StopStreamAndDisconnect, Ahrs!Ends, Ahrs!ends, Ahrs!Receive, Ahrs!Store,
       Ahrs!Copy, Ahrs!Publish
  <2>2. UNCHANGED main /\ thread["reader"] = "off"
    BY <1>1, <2>1 DEF Parked
  <2>3. thread'["reader"] = thread["reader"]
    BY <2>1, <2>2 DEF AhrsInv, AhrsTypes, Ahrs!Thread, Ahrs!Next, Ahrs!vars,
       Ahrs!SetupFails, Ahrs!StartReading, Ahrs!StartPubing,
       Ahrs!Shutdown, Ahrs!StopReading, Ahrs!JoinReader, Ahrs!StopPubing,
       Ahrs!StopStreamAndDisconnect, Ahrs!Ends, Ahrs!Receive, Ahrs!Store, Ahrs!Copy,
       Ahrs!Publish
  <2> QED
    BY <2>2, <2>3 DEF Parked
<1>2. CASE main' # "constructor"
  BY <1>2 DEF Parked
<1> QED
  BY <1>1, <1>2

(* Every step of the node: only Publish publishes. *)
LEMMA AhrsStep ==
  ASSUME AhrsInv, Parked, [Ahrs!Next]_(Ahrs!vars)
  PROVE  AhrsInv' /\ Fresh(published, published', times, times')
<1>1. CASE Ahrs!Receive
  BY <1>1, ReceiveKeeps DEF Fresh, Ahrs!Receive, Ahrs!output
<1>2. CASE Ahrs!Store
  BY <1>2, StoreKeeps DEF Fresh, Ahrs!Store, Ahrs!output
<1>3. CASE Ahrs!Copy
  BY <1>3, CopyKeeps DEF Fresh, Ahrs!Copy
<1>4. CASE Ahrs!Publish
  BY <1>4, PublishKeeps
<1>5. CASE ~Ahrs!Receive /\ ~Ahrs!Store /\ ~Ahrs!Copy /\ ~Ahrs!Publish
  <2>1. UNCHANGED <<sent, packet, message, copy, lastStamp, published, times>>
    BY <1>5 DEF Ahrs!Next, Ahrs!vars, Ahrs!SetupFails, Ahrs!StartReading, Ahrs!StartPubing,
       Ahrs!Shutdown, Ahrs!StopReading, Ahrs!JoinReader, Ahrs!StopPubing,
       Ahrs!StopStreamAndDisconnect, Ahrs!Ends, Ahrs!output
  <2>2. \/ UNCHANGED thread \/ Ahrs!StartReading \/ Ahrs!StartPubing
        \/ \E t \in Ahrs!Thread : Ahrs!Ends(t)
    BY <1>5 DEF Ahrs!Next, Ahrs!vars, Ahrs!SetupFails, Ahrs!Shutdown, Ahrs!StopReading,
       Ahrs!JoinReader, Ahrs!StopPubing, Ahrs!StopStreamAndDisconnect
  <2>3. AhrsInv'
    <3>1. CASE UNCHANGED thread
      BY <2>1, <3>1, AhrsRests
    <3>2. CASE Ahrs!StartReading
      BY <2>1, <3>2, AhrsRests DEF Ahrs!StartReading, Parked
    <3>3. CASE Ahrs!StartPubing
      <4>1. UNCHANGED thread \/ thread' = [thread EXCEPT !["publisher"] = "loop"]
        BY <3>3 DEF Ahrs!StartPubing, AhrsInv, AhrsTypes, Ahrs!Thread
      <4> QED
        BY <2>1, <4>1, AhrsRests
    <3>4. ASSUME NEW t \in Ahrs!Thread, Ahrs!Ends(t)
          PROVE  AhrsInv'
      BY <2>1, <3>4, AhrsRests DEF Ahrs!Ends, Ahrs!Thread
    <3> QED
      BY <2>2, <3>1, <3>2, <3>3, <3>4
  <2> QED
    BY <2>1, <2>3 DEF Fresh
<1> QED
  BY <1>1, <1>2, <1>3, <1>4, <1>5

(* The drivers together do to the AHRS only what its node does. *)
THEOREM AhrsNodeRuns == DriversSpec => Ahrs!Spec
<1>1. DriversInit => Ahrs!Init
  BY DEF DriversInit
<1>2. ASSUME [DriversNext]_<<driver, vars, ahrs, gimbal, lidar>>
      PROVE  [Ahrs!Next]_(Ahrs!vars)
  <2>1. CASE AhrsRuns
    BY <2>1 DEF AhrsRuns
  <2>2. CASE UNCHANGED ahrs
    BY <2>2 DEF ahrs, Ahrs!vars
  <2>3. AhrsRuns \/ UNCHANGED ahrs
    BY <1>2 DEF DriversNext, OdometryRuns, GimbalRuns, LidarRuns
  <2> QED
    BY <2>1, <2>2, <2>3
<1>3. [DriversNext]_<<driver, vars, ahrs, gimbal, lidar>> => [Ahrs!Next]_(Ahrs!vars)
  BY <1>2
<1> QED
  BY <1>1, <1>3, PTL DEF DriversSpec, Ahrs!Spec

(* However the reader and the publisher take turns, and whichever packets  *)
(* are lost: a message is published only with a measurement newer than any *)
(* it was published with, and a yaw with the orientation of its own packet *)
(* (publish_only_on_new_data).                                             *)
THEOREM MeasurementsAreNotRepeated == DriversSpec => NothingRepeated
<1>1. Ahrs!Init => AhrsInv /\ Parked
  <2> SUFFICES ASSUME Ahrs!Init
               PROVE  AhrsInv /\ Parked
    OBVIOUS
  <2>1. /\ sent = 0 /\ message = Ahrs!Empty /\ copy = Ahrs!Empty /\ published = Ahrs!Empty
        /\ thread = [t \in Ahrs!Thread |-> "off"]
        /\ lastStamp = [m \in Ahrs!Message |-> 0]
    BY DEF Ahrs!Init
  <2>2. AhrsTypes /\ thread["reader"] = "off"
    BY <2>1 DEF AhrsTypes, Ahrs!Empty, Ahrs!Thread, Messages, RawMsg, DataMsg, MagMsg
  <2>3. Before(message, sent) /\ OnePacket(message)
    BY <2>1 DEF Before, OnePacket, Ahrs!Empty
  <2>4. Grows(published, copy) /\ Grows(copy, message)
    BY <2>1, <2>2, Growth DEF AhrsTypes
  <2>5. \A m \in Ahrs!Message : lastStamp[m] = published[m].stamp
    BY <2>1 DEF Ahrs!Empty, Ahrs!Message
  <2> QED
    BY <2>1, <2>2, <2>3, <2>4, <2>5 DEF AhrsInv, Parked
<1>2. (AhrsInv /\ Parked) /\ [Ahrs!Next]_(Ahrs!vars) => (AhrsInv /\ Parked)'
  BY AhrsStep, ParkedKept
<1>3. Ahrs!Spec => [](AhrsInv /\ Parked)
  BY <1>1, <1>2, PTL DEF Ahrs!Spec
<1>4. (AhrsInv /\ Parked) /\ [Ahrs!Next]_(Ahrs!vars)
        => [Fresh(published, published', times, times')]_(Ahrs!vars)
  BY AhrsStep
<1>5. [Fresh(published, published', times, times')]_(Ahrs!vars)
        => [\A m \in Ahrs!Message :
              LET old == published[m]
                  new == published'[m]
              IN  times'[m] # times[m] =>
                    /\ \A f \in DOMAIN new : new[f] >= old[f]
                    /\ \E f \in DOMAIN new \ {"stamp"} : new[f] > old[f]
                    /\ m = "data" => new.yaw = new.deg]_(Ahrs!vars)
  BY DEF Fresh
<1> QED
  BY <1>3, <1>4, <1>5, AhrsNodeRuns, PTL DEF Ahrs!Spec, NothingRepeated, Ahrs!NothingRepeated

-----------------------------------------------------------------------------
(* LiDAR: what is on the line *)

AnswerKinds == {"device", "board", "health", "conf"}
Measured    == [kind : {"sample"}, start : Nat, position : Nat]
Decoded     == Measured \cup [kind : AnswerKinds]
Item        == Decoded \cup [kind : {"header"}]

IsMeasured(item) == item.kind = "sample"
IsHeader(item)   == item.kind = "header"
IsAnswer(item)   == item.kind \in AnswerKinds

LidarTypes ==
  /\ starts \in Nat /\ position \in Nat /\ available \in {-1, 0, 1}
  /\ lost \in SUBSET Nat
  /\ unpacking \in BOOLEAN /\ looping \in BOOLEAN /\ ready \in BOOLEAN
  /\ request \in {"idle", "locked", "waiting"}
  /\ request # "idle" => pc \in DOMAIN Lidar!Asks
  /\ answered \in AnswerKinds \cup {Lidar!None}
  /\ outgoing \in Seq(AnswerKinds \cup {"stop", "scan"})
  /\ incoming \in Seq(Item)
  /\ decoder = <<>> \/ decoder \in Decoded \X {"checks", "commits"}
  /\ buffers \in [0..1 -> Seq(Measured)]
  /\ delivered \in Seq(Measured)

(* What the decoder holds, what is between the threads and the device, and   *)
(* where the decoder takes what comes for samples.                           *)
HoldsSample == decoder # <<>> /\ IsMeasured(decoder[1])
HoldsAnswer == decoder # <<>> /\ IsAnswer(decoder[1])
ScanAhead   == \E i \in 1..Len(outgoing) : outgoing[i] = "scan"
HeaderAhead == \E i \in 1..Len(incoming) : IsHeader(incoming[i])
OnlySamples == outgoing = <<>> /\ \A i \in 1..Len(incoming) : IsMeasured(incoming[i])

(* No scan is under way, and none will be before the next scan command. *)
Quiet == ~ScanAhead /\ ~HeaderAhead /\ ~looping /\ ~HoldsSample

(* Behind a request, and behind its answer, nothing but samples comes. *)
OneAnswer ==
  /\ \A i \in 1..Len(outgoing) : outgoing[i] \in AnswerKinds =>
       /\ request = "waiting" /\ answered = Lidar!None /\ i = Len(outgoing) /\ ~HoldsAnswer
       /\ \A j \in 1..Len(incoming) : ~IsAnswer(incoming[j])
  /\ \A i \in 1..Len(incoming) : IsAnswer(incoming[i]) =>
       /\ request = "waiting" /\ answered = Lidar!None /\ outgoing = <<>> /\ ~HoldsAnswer
       /\ \A j \in 1..Len(incoming) : i < j => IsMeasured(incoming[j])
  /\ HoldsAnswer => request = "waiting" /\ answered = Lidar!None /\ OnlySamples /\ ~looping
  /\ answered # Lidar!None => request = "waiting" /\ OnlySamples /\ Quiet /\ ~HoldsAnswer

(* A start is asked for, and given, in the quiet. *)
StartsInQuiet == pc \in {"mode", "speed", "scan"} => Quiet

(* One scan begins at a time, and with nothing of the one before it. *)
OneStart ==
  /\ ScanAhead => ~HeaderAhead /\ ~looping
  /\ HeaderAhead => ~looping
  /\ \A i, j \in 1..Len(outgoing) : outgoing[i] = "scan" /\ outgoing[j] = "scan" => i = j
  /\ \A i, j \in 1..Len(incoming) :
       IsHeader(incoming[i]) /\ IsHeader(incoming[j]) => i = j
  /\ ScanAhead \/ HeaderAhead => buffers = Lidar!Empty /\ available = -1 /\ ~HoldsSample

LineInv == LidarTypes /\ OneAnswer /\ StartsInQuiet /\ OneStart

-----------------------------------------------------------------------------
(* LiDAR: what becomes of a measurement *)

(* The next samples the decoder takes for ones of this scan. *)
InLoop(i) == looping \/ \E j \in 1..i - 1 : IsHeader(incoming[j])
Flies(i)  == i \in 1..Len(incoming) /\ IsMeasured(incoming[i]) /\ InLoop(i)

Current(sample) ==
  sample.start = starts /\ sample.position < position /\ sample.position \notin lost

Collected == buffers[Lidar!Operating]
LastIn    == Collected[Len(Collected)].position
FirstIn   == Collected[1].position

(* They are of this scan and come in order, behind what the decoder holds,   *)
(* and that behind what was collected.                                       *)
InOrder ==
  /\ \A i : Flies(i) =>
       /\ Current(incoming[i])
       /\ \A j : Flies(j) /\ i < j => incoming[i].position < incoming[j].position
       /\ HoldsSample => decoder[1].position < incoming[i].position
       /\ Collected # <<>> => LastIn < incoming[i].position
  /\ HoldsSample =>
       Current(decoder[1]) /\ (Collected # <<>> => LastIn < decoder[1].position)
  /\ HeaderAhead \/ looping \/ HoldsSample \/ Collected # <<>> =>
       \A p \in lost : p < position

(* A measurement that is on its way, or was the last to be collected. *)
UnderWay(p) ==
  \/ \E i : Flies(i) /\ incoming[i].position = p
  \/ HoldsSample /\ decoder[1].position = p
  \/ Collected # <<>> /\ LastIn = p

(* While the unpacker is on, what follows one of them is one or was lost;    *)
(* what the decoder commits follows, but for the lost, what was collected.   *)
NoneMissing ==
  unpacking =>
    /\ HoldsSample \/ Collected # <<>> => looping
    /\ \A x, p \in Nat : UnderWay(x) /\ x < p /\ p < position => p \in lost \/ UnderWay(p)

NoneBetween ==
  HoldsSample /\ decoder[2] = "commits" /\ Collected # <<>> =>
    \A p \in Nat : LastIn < p /\ p < decoder[1].position => p \in lost

(* What is collected: one revolution, or more where its end was lost. *)
Collects ==
  Collected # <<>> =>
    /\ \A i \in 1..Len(Collected) :
         Current(Collected[i]) /\ FirstIn <= Collected[i].position
                               /\ Collected[i].position <= LastIn
    /\ FirstIn + Len(Collected) <= LastIn + 1
    /\ Lidar!IsSync(Collected[1]) /\ \A i \in 2..Len(Collected) : ~Lidar!IsSync(Collected[i])
    /\ FirstIn + Samples \notin lost =>
         \A p \in Nat : FirstIn <= p /\ p <= LastIn => p \in lost \/ p \in Lidar!Positions(Collected)

FlightInv == InOrder /\ NoneMissing /\ NoneBetween /\ Collects

-----------------------------------------------------------------------------
(* LiDAR: what is handed over *)

Whole(scan) ==
  /\ scan # <<>> /\ Lidar!IsSync(scan[1])
  /\ \A i \in 1..Len(scan) : scan[i].start = starts
  /\ scan[1].position + Samples < position
  /\ scan[1].position + Samples \notin lost =>
       Lidar!Positions(scan) = (scan[1].position..scan[1].position + Samples - 1) \ lost

HandOver ==
  /\ available >= 0 =>
       Whole(Lidar!Available) /\ Collected # <<>> /\ Lidar!Available[1].position < FirstIn
  /\ ready \/ pc = "grabs" => available >= 0
  /\ delivered # <<>> => delivered[1].start <= starts
  /\ delivered # <<>> /\ delivered[1].start = starts =>
       /\ available >= 0
       /\ delivered = Lidar!Available \/ delivered[1].position < Lidar!Available[1].position

LidarInv == LineInv /\ FlightInv /\ HandOver
(* Every request asks for a kind of answer, and only asking for the speed   *)
(* leads on to the scan without one (startScanExpress).                     *)
LEMMA AsksTable ==
  \A s \in DOMAIN Lidar!Asks :
    /\ Lidar!Asks[s].of \in AnswerKinds
    /\ s \notin {"stop", "scan", "loop", "grabs", "spin", "ended"}
    /\ Lidar!Asks[s].no \in {"mode", "speed", "scan"} => s = "speed"
BY DEF Lidar!Asks, Lidar!ConnectAsks, Lidar!NodeAsks, Lidar!StartAsks, AnswerKinds
-----------------------------------------------------------------------------
(* LiDAR: the types *)

(* An item of the line is a sample, a header or an answer. *)
LEMMA ItemKinds ==
  \A item \in Item :
    /\ item.kind \in AnswerKinds \cup {"sample", "header"}
    /\ IsMeasured(item) => item \in Measured
    /\ ~(IsMeasured(item) /\ IsAnswer(item)) /\ ~(IsHeader(item) /\ IsAnswer(item))
    /\ ~(IsMeasured(item) /\ IsHeader(item))
    /\ ~IsHeader(item) => item \in Decoded
BY DEF Item, Decoded, Measured, AnswerKinds, IsMeasured, IsHeader, IsAnswer

(* Two buffers with nothing in them. *)
LEMMA EmptyBuffers ==
  Lidar!Empty \in [0..1 -> Seq(Measured)] /\ Lidar!Empty[0] = <<>> /\ Lidar!Empty[1] = <<>>
BY DEF Lidar!Empty

(* The buffers are two, the one that is collected in and, once a scan is    *)
(* complete, the one that is available (_getOperationBufferID_locked).      *)
LEMMA OperatingTypes ==
  ASSUME LidarTypes
  PROVE  /\ Lidar!Operating \in 0..1 /\ 1 - Lidar!Operating \in 0..1 /\ Collected \in Seq(Measured)
         /\ available >= 0 => available \in 0..1 /\ Lidar!Available \in Seq(Measured)
                              /\ Lidar!Operating = 1 - available /\ available = 1 - Lidar!Operating
BY DEF LidarTypes, Lidar!Operating, Collected, Lidar!Available

(* What is stored are measurements (pushScanNodeData). *)
LEMMA StoredTypes ==
  ASSUME NEW b \in Seq(Measured), NEW sample \in Measured
  PROVE  Lidar!Stored(b, sample) \in Seq(Measured)
<1>1. CASE b = <<>> /\ ~Lidar!IsSync(sample)
  BY <1>1 DEF Lidar!Stored
<1>2. CASE ~(b = <<>> /\ ~Lidar!IsSync(sample)) /\ Len(b) < Capacity
  BY <1>2 DEF Lidar!Stored
<1>3. CASE ~(b = <<>> /\ ~Lidar!IsSync(sample)) /\ ~(Len(b) < Capacity)
  <2>1. Lidar!Stored(b, sample) = [b EXCEPT ![Len(b)] = sample]
    BY <1>3 DEF Lidar!Stored
  <2>2. [b EXCEPT ![Len(b)] = sample] \in Seq(Measured)
    <3>1. Len(b) \in 1..Len(b)
      BY <1>3, LidarAssumption DEF Lidar!Parameters
    <3> QED
      BY <3>1, ExceptSeq
  <2> QED
    BY <2>1, <2>2
<1> QED
  BY <1>1, <1>2, <1>3

(* What arrives is an item like those before it. *)
LEMMA ArrivalTypes ==
  ASSUME LidarTypes, NEW item \in Item
  PROVE  /\ Lidar!Received(item) \in Seq(Item)
         /\ Lidar!MayArrive(item) => incoming' \in Seq(Item)
<1>1. Lidar!Received(item) \in Seq(Item)
  BY DEF LidarTypes, Lidar!Received
<1> QED
  BY <1>1 DEF LidarTypes, Lidar!MayArrive

(* Every step keeps the types. *)
LEMMA TypesKept ==
  ASSUME LidarTypes, pc = "grabs" => available >= 0, Lidar!Next
  PROVE  LidarTypes'
<1> USE DEF LidarTypes
<1>1. CASE Lidar!Prepare
  BY <1>1 DEF Lidar!Prepare, Lidar!DisableDataGrabbing, Lidar!answer, Lidar!holder,
     Lidar!scans, Lidar!serial, Lidar!device
<1>2. CASE Lidar!Request
  <2>1. Lidar!Asks[pc].of \in AnswerKinds
    BY <1>2, AsksTable DEF Lidar!Request
  <2> QED
    BY <1>2, <2>1 DEF Lidar!Request, Lidar!Transmit, Lidar!mode, Lidar!holder, Lidar!scans,
       Lidar!device
<1>3. CASE Lidar!Answered
  BY <1>3 DEF Lidar!Answered, Lidar!mode, Lidar!holder, Lidar!scans, Lidar!serial, Lidar!device
<1>4. CASE Lidar!TimesOut
  BY <1>4 DEF Lidar!TimesOut, Lidar!answer, Lidar!mode, Lidar!holder, Lidar!scans,
     Lidar!serial, Lidar!device
<1>5. CASE Lidar!Stops \/ Lidar!Exits
  <2>1. request = "idle"
    BY <1>5, AsksTable DEF Lidar!Stops, Lidar!Exits
  <2>2. outgoing' = Append(outgoing, "stop") /\ unpacking' = FALSE /\ looping' = FALSE
        /\ answered' = Lidar!None /\ request' = request
        /\ UNCHANGED <<decoder, Lidar!holder, Lidar!scans, incoming, Lidar!device>>
    BY <1>5 DEF Lidar!Stops, Lidar!Exits, Lidar!Stop, Lidar!DisableDataGrabbing, Lidar!Transmit
  <2>3. outgoing' \in Seq(AnswerKinds \cup {"stop", "scan"})
    BY <2>2
  <2> QED
    BY <2>1, <2>2, <2>3 DEF Lidar!holder, Lidar!scans, Lidar!device
<1>6. CASE Lidar!StartScan
  <2>1. request = "idle"
    BY <1>6, AsksTable DEF Lidar!StartScan
  <2>2. outgoing' = Append(outgoing, "scan") /\ unpacking' = TRUE /\ answered' = Lidar!None
        /\ buffers' = Lidar!Empty /\ available' = -1 /\ ready' = FALSE /\ starts' = starts + 1
        /\ UNCHANGED <<request, looping, decoder, delivered, incoming, Lidar!device>>
    BY <1>6 DEF Lidar!StartScan, Lidar!ResetHolder, Lidar!Transmit
  <2>3. outgoing' \in Seq(AnswerKinds \cup {"stop", "scan"}) /\ buffers' \in [0..1 -> Seq(Measured)]
    BY <2>2, EmptyBuffers
  <2>4. starts' \in Nat
    BY <2>2
  <2>5. answered' \in AnswerKinds \cup {Lidar!None}
    BY <2>2
  <2> QED
    BY <2>1, <2>2, <2>3, <2>4, <2>5 DEF Lidar!device
<1>7. CASE Lidar!Signalled \/ Lidar!GrabTimesOut \/ Lidar!SpinSome
  <2>1. request = "idle"
    BY <1>7, AsksTable DEF Lidar!Signalled, Lidar!GrabTimesOut, Lidar!SpinSome
  <2> QED
    BY <1>7, <2>1 DEF Lidar!Signalled, Lidar!GrabTimesOut, Lidar!SpinSome, Lidar!answer,
       Lidar!mode, Lidar!holder, Lidar!scans, Lidar!serial, Lidar!device
<1>8. CASE Lidar!Grab
  <2>1. request = "idle"
    BY <1>8, AsksTable DEF Lidar!Grab
  <2>2. Lidar!Available \in Seq(Measured)
    BY <1>8, OperatingTypes DEF Lidar!Grab
  <2> QED
    BY <1>8, <2>1, <2>2 DEF Lidar!Grab, Lidar!answer, Lidar!mode, Lidar!holder, Lidar!serial,
       Lidar!device
<1>9. CASE Lidar!Decode
  <2>1. Head(incoming) \in Item /\ Tail(incoming) \in Seq(Item)
    BY <1>9 DEF Lidar!Decode, Lidar!Takes
  <2>2. decoder' = <<>> \/ decoder' \in Decoded \X {"checks", "commits"}
    BY <1>9, <2>1, ItemKinds DEF Lidar!Decode, Lidar!Takes, IsHeader
  <2> QED
    BY <1>9, <2>1, <2>2 DEF Lidar!Decode, Lidar!Takes, Lidar!main, Lidar!answer,
       Lidar!holder, Lidar!scans, Lidar!device
<1>10. CASE Lidar!Check
  BY <1>10 DEF Lidar!Check, Lidar!main, Lidar!answer, Lidar!mode, Lidar!holder, Lidar!scans,
     Lidar!serial, Lidar!device
<1>11. CASE Lidar!SetResult
  <2>1. decoder[1] \in Decoded /\ ~IsMeasured(decoder[1]) /\ request # "locked"
    BY <1>11 DEF Lidar!SetResult, Lidar!Commits, IsMeasured
  <2>2. decoder[1].kind \in AnswerKinds \cup {Lidar!None}
    BY <2>1 DEF Decoded, Measured, IsMeasured
  <2> QED
    BY <1>11, <2>2 DEF Lidar!SetResult, Lidar!Commits, Lidar!main, Lidar!mode, Lidar!holder,
       Lidar!scans, Lidar!serial, Lidar!device
<1>12. CASE Lidar!Push
  <2>1. decoder[1] \in Measured
    BY <1>12 DEF Lidar!Push, Lidar!Commits, Decoded, AnswerKinds
  <2>2. buffers' \in [0..1 -> Seq(Measured)] /\ available' \in {-1, 0, 1} /\ ready' \in BOOLEAN
    <3>1. CASE Lidar!PushScanNodeData(decoder[1])
      <4>1. buffers[Lidar!Operating] \in Seq(Measured) /\ Lidar!Operating \in 0..1 /\ 1 - Lidar!Operating \in 0..1
        BY OperatingTypes DEF Collected
      <4>2. Lidar!Stored(buffers[Lidar!Operating], decoder[1]) \in Seq(Measured) /\ <<decoder[1]>> \in Seq(Measured)
        BY <2>1, <4>1, StoredTypes
      <4> QED
        BY <3>1, <4>1, <4>2 DEF Lidar!PushScanNodeData
    <3>2. CASE UNCHANGED Lidar!holder
      BY <3>2 DEF Lidar!holder
    <3> QED
      BY <1>12, <3>1, <3>2 DEF Lidar!Push
  <2> QED
    BY <1>12, <2>2 DEF Lidar!Push, Lidar!Commits, Lidar!main, Lidar!answer, Lidar!mode,
       Lidar!scans, Lidar!serial, Lidar!device
<1>13. CASE Lidar!Obey
  <2>1. Tail(outgoing) \in Seq(AnswerKinds \cup {"stop", "scan"})
        /\ Head(outgoing) \in AnswerKinds \cup {"stop", "scan"}
    BY <1>13 DEF Lidar!Obey
  <2>2. incoming' \in Seq(Item) /\ position' \in Nat /\ lost' \in SUBSET Nat
    <3>1. CASE Head(outgoing) = "stop"
      BY <1>13, <3>1 DEF Lidar!Obey
    <3>2. CASE Head(outgoing) = "scan"
      <4>1. [kind |-> "header"] \in Item
        BY DEF Item
      <4>2. position' \in 0..Samples - 1 /\ lost' = {} /\ Lidar!MayArrive([kind |-> "header"])
        BY <1>13, <3>2 DEF Lidar!Obey
      <4>3. incoming' \in Seq(Item)
        BY <4>1, <4>2, ArrivalTypes
      <4> QED
        BY <4>2, <4>3, LidarAssumption DEF Lidar!Parameters
    <3>3. CASE Head(outgoing) \in AnswerKinds
      <4>1. [kind |-> Head(outgoing)] \in Item
        BY <3>3 DEF Item, Decoded
      <4>2. Lidar!MayArrive([kind |-> Head(outgoing)]) /\ UNCHANGED Lidar!device
        BY <1>13, <3>3 DEF Lidar!Obey, AnswerKinds
      <4>3. incoming' \in Seq(Item)
        BY <4>1, <4>2, ArrivalTypes
      <4> QED
        BY <4>2, <4>3 DEF Lidar!device
    <3> QED
      BY <2>1, <3>1, <3>2, <3>3
  <2> QED
    BY <1>13, <2>1, <2>2 DEF Lidar!Obey, Lidar!main, Lidar!answer, Lidar!mode, Lidar!holder,
       Lidar!scans
<1>14. CASE Lidar!CommandLost
  <2>1. outgoing' \in Seq(AnswerKinds \cup {"stop", "scan"})
    BY <1>14 DEF Lidar!CommandLost
  <2> QED
    BY <1>14, <2>1 DEF Lidar!CommandLost, Lidar!main, Lidar!answer, Lidar!mode, Lidar!holder,
       Lidar!scans, Lidar!device
<1>15. CASE Lidar!Measure
  <2>1. Lidar!Sample(position) \in Item
    BY DEF Lidar!Sample, Item, Decoded, Measured
  <2>2. incoming' \in Seq(Item)
    BY <1>15, <2>1, ArrivalTypes DEF Lidar!Measure
  <2>3. lost' = lost \/ lost' = lost \cup {position}
    BY <1>15 DEF Lidar!Measure
  <2>4. lost \cup {position} \in SUBSET Nat /\ position + 1 \in Nat /\ position' = position + 1
    BY <1>15 DEF Lidar!Measure
  <2> QED
    BY <1>15, <2>2, <2>3, <2>4 DEF Lidar!Measure, Lidar!main, Lidar!answer, Lidar!mode,
       Lidar!holder, Lidar!scans
<1> QED
  BY <1>1, <1>2, <1>3, <1>4, <1>5, <1>6, <1>7, <1>8, <1>9, <1>10, <1>11, <1>12, <1>13,
     <1>14, <1>15 DEF Lidar!Next
-----------------------------------------------------------------------------
(* LiDAR: requests, answers and the start of a scan *)

(* Outside a request, none is under way. *)
LEMMA IdleOutsideRequests ==
  ASSUME LineInv, pc \in {"stop", "loop", "scan", "spin", "grabs"}
  PROVE  request = "idle"
BY AsksTable DEF LineInv, LidarTypes

(* Before a command is sent nothing is answered: the line is clear of       *)
(* requests and answers.                                                    *)
LEMMA NothingAsked ==
  ASSUME LineInv, request # "waiting"
  PROVE  /\ \A i \in 1..Len(outgoing) : outgoing[i] \notin AnswerKinds
         /\ \A i \in 1..Len(incoming) : ~IsAnswer(incoming[i])
         /\ ~HoldsAnswer /\ answered = Lidar!None
BY DEF LineInv, OneAnswer

(* A command is sent behind all others; a scan command only in the quiet. *)
LEMMA LineAfterSend ==
  ASSUME LineInv, NEW command \in AnswerKinds \cup {"stop", "scan"}, request # "waiting",
         outgoing' = Append(outgoing, command), answered' = Lidar!None,
         UNCHANGED <<incoming, decoder>>,
         command \in AnswerKinds => request' = "waiting",
         looping' = looping \/ looping' = FALSE,
         \/ command # "scan" /\ UNCHANGED <<buffers, available>>
         \/ command = "scan" /\ Quiet /\ buffers' = Lidar!Empty /\ available' = -1,
         pc' \in {"mode", "speed", "scan"} => Quiet /\ command # "scan"
  PROVE  OneAnswer' /\ StartsInQuiet' /\ OneStart'
<1> USE DEF LineInv, LidarTypes
<1>1. /\ Len(outgoing') = Len(outgoing) + 1 /\ outgoing'[Len(outgoing) + 1] = command
      /\ \A i \in 1..Len(outgoing) : outgoing'[i] = outgoing[i]
  OBVIOUS
<1>2. HoldsAnswer' = HoldsAnswer /\ HoldsSample' = HoldsSample /\ HeaderAhead' = HeaderAhead
  BY DEF HoldsAnswer, HoldsSample, HeaderAhead, IsAnswer, IsMeasured, IsHeader
<1>3. ScanAhead' => ScanAhead \/ command = "scan"
  BY <1>1 DEF ScanAhead
<1>4. OneAnswer'
  <2>1. \A i \in 1..Len(outgoing') : outgoing'[i] \in AnswerKinds =>
          i = Len(outgoing') /\ request' = "waiting"
    BY <1>1, NothingAsked
  <2>2. \A i \in 1..Len(incoming') : ~IsAnswer(incoming'[i])
    BY NothingAsked
  <2> QED
    BY <1>2, <2>1, <2>2, NothingAsked DEF OneAnswer
<1>5. StartsInQuiet'
  BY <1>2, <1>3 DEF StartsInQuiet, Quiet
<1>6. OneStart'
  <2>1. \A i, j \in 1..Len(incoming') : IsHeader(incoming'[i]) /\ IsHeader(incoming'[j]) => i = j
    BY DEF OneStart
  <2>2. \A i, j \in 1..Len(outgoing') : outgoing'[i] = "scan" /\ outgoing'[j] = "scan" => i = j
    BY <1>1 DEF OneStart, Quiet, ScanAhead
  <2>3. CASE command # "scan"
    BY <1>2, <1>3, <2>1, <2>2, <2>3 DEF OneStart
  <2>4. CASE command = "scan"
    BY <1>2, <1>3, <2>1, <2>2, <2>4 DEF OneStart, Quiet
  <2> QED
    BY <2>3, <2>4
<1> QED
  BY <1>4, <1>5, <1>6

(* What the main thread does without sending leaves the line as it is. *)
LEMMA LineAfterMain ==
  ASSUME LineInv, UNCHANGED <<outgoing, incoming, decoder, buffers, available>>,
         looping' = looping \/ looping' = FALSE,
         \/ UNCHANGED <<request, answered>>
         \/ request # "waiting" /\ UNCHANGED answered
         \/ answered' = Lidar!None /\ OnlySamples /\ ~HoldsAnswer,
         pc' \in {"mode", "speed", "scan"} => Quiet
  PROVE  OneAnswer' /\ StartsInQuiet' /\ OneStart'
<1> USE DEF LineInv, LidarTypes
<1>1. /\ HoldsAnswer' = HoldsAnswer /\ HoldsSample' = HoldsSample
      /\ HeaderAhead' = HeaderAhead /\ ScanAhead' = ScanAhead
  BY DEF HoldsAnswer, HoldsSample, HeaderAhead, ScanAhead, IsAnswer, IsMeasured, IsHeader
<1>2. Quiet => Quiet'
  BY <1>1 DEF Quiet
<1>3. OneAnswer'
  <2>1. CASE UNCHANGED <<request, answered>>
    BY <1>1, <1>2, <2>1 DEF OneAnswer, OnlySamples
  <2>2. CASE request # "waiting" /\ UNCHANGED answered
    BY <1>1, <2>2, NothingAsked DEF OneAnswer
  <2>3. CASE answered' = Lidar!None /\ OnlySamples /\ ~HoldsAnswer
    BY <1>1, <2>3, ItemKinds DEF OneAnswer, OnlySamples
  <2> QED
    BY <2>1, <2>2, <2>3
<1>4. StartsInQuiet'
  BY <1>2 DEF StartsInQuiet
<1>5. OneStart'
  BY <1>1 DEF OneStart
<1> QED
  BY <1>3, <1>4, <1>5

(* The decoder takes the next item of the line. *)
LEMMA LineAfterDecode ==
  ASSUME LineInv, Lidar!Decode
  PROVE  OneAnswer' /\ StartsInQuiet' /\ OneStart'
<1> USE DEF LineInv, LidarTypes
<1> DEFINE item == incoming[1]
<1>1. /\ item \in Item /\ Len(incoming) # 0 /\ incoming # <<>>
      /\ Len(incoming') = Len(incoming) - 1
      /\ \A i \in 1..Len(incoming') : incoming'[i] = incoming[i + 1] /\ i + 1 \in 1..Len(incoming)
      /\ ~HoldsSample /\ ~HoldsAnswer
  BY DEF Lidar!Decode, Lidar!Takes, HoldsSample, HoldsAnswer
<1>2. /\ looping' = (looping \/ IsHeader(item))
      /\ UNCHANGED <<pc, request, answered, outgoing, buffers, available>>
  BY DEF Lidar!Decode, Lidar!Takes, IsHeader, Lidar!main, Lidar!answer, Lidar!holder
<1>3. /\ IsHeader(item) => decoder' = <<>>
      /\ IsMeasured(item) => decoder' = IF looping THEN <<item, "checks">> ELSE <<>>
      /\ IsAnswer(item) => decoder' = IF looping THEN <<>> ELSE <<item, "checks">>
  BY ItemKinds, <1>1 DEF Lidar!Decode, Lidar!Takes, IsHeader, IsMeasured, IsAnswer
<1>4. HoldsSample' => IsMeasured(item) /\ looping
  BY <1>1, <1>3, ItemKinds DEF HoldsSample, IsMeasured, IsHeader, IsAnswer
<1>5. HoldsAnswer' => IsAnswer(item) /\ ~looping
  BY <1>1, <1>3, ItemKinds DEF HoldsAnswer, IsMeasured, IsHeader, IsAnswer
<1>6. ScanAhead' = ScanAhead /\ (HeaderAhead' => HeaderAhead)
  BY <1>1, <1>2 DEF ScanAhead, HeaderAhead
<1>7. IsHeader(item) => HeaderAhead /\ ~HeaderAhead' /\ ~ScanAhead
  <2>1. SUFFICES ASSUME IsHeader(item) PROVE HeaderAhead /\ ~HeaderAhead' /\ ~ScanAhead
    OBVIOUS
  <2>2. HeaderAhead
    BY <1>1, <2>1 DEF HeaderAhead
  <2>3. \A i \in 1..Len(incoming) : IsHeader(incoming[i]) => i = 1
    BY <1>1, <2>1 DEF OneStart
  <2>4. ~HeaderAhead'
    BY <1>1, <2>3 DEF HeaderAhead
  <2> QED
    BY <2>2, <2>4 DEF OneStart
<1>8. OneAnswer'
  <2>1. \A i \in 1..Len(outgoing') : outgoing'[i] \in AnswerKinds =>
          /\ request' = "waiting" /\ answered' = Lidar!None /\ i = Len(outgoing') /\ ~HoldsAnswer'
          /\ \A j \in 1..Len(incoming') : ~IsAnswer(incoming'[j])
    BY <1>1, <1>2, <1>5 DEF OneAnswer
  <2>2. \A i \in 1..Len(incoming') : IsAnswer(incoming'[i]) =>
          /\ request' = "waiting" /\ answered' = Lidar!None /\ outgoing' = <<>>
          /\ \A j \in 1..Len(incoming') : i < j => IsMeasured(incoming'[j])
    <3> SUFFICES ASSUME NEW i \in 1..Len(incoming'), IsAnswer(incoming'[i])
                 PROVE  /\ request' = "waiting" /\ answered' = Lidar!None /\ outgoing' = <<>>
                        /\ \A j \in 1..Len(incoming') : i < j => IsMeasured(incoming'[j])
      OBVIOUS
    <3>1. i + 1 \in 1..Len(incoming) /\ IsAnswer(incoming[i + 1])
      BY <1>1
    <3>2. /\ request = "waiting" /\ answered = Lidar!None /\ outgoing = <<>>
          /\ \A j \in 1..Len(incoming) : i + 1 < j => IsMeasured(incoming[j])
      BY <3>1 DEF OneAnswer
    <3>3. ASSUME NEW j \in 1..Len(incoming'), i < j
          PROVE  IsMeasured(incoming'[j])
      <4>1. j + 1 \in 1..Len(incoming) /\ i + 1 < j + 1 /\ incoming'[j] = incoming[j + 1]
        BY <1>1, <3>3
      <4> QED
        BY <3>2, <4>1
    <3> QED
      BY <1>2, <3>2, <3>3
  <2>3. \A i \in 1..Len(incoming') : IsAnswer(incoming'[i]) => ~HoldsAnswer'
    <3> SUFFICES ASSUME NEW i \in 1..Len(incoming'), IsAnswer(incoming'[i]), IsAnswer(item)
                 PROVE  FALSE
      BY <1>5
    <3>1. i + 1 \in 1..Len(incoming) /\ 1 \in 1..Len(incoming) /\ IsAnswer(incoming[i + 1])
      BY <1>1
    <3>2. IsMeasured(incoming[i + 1])
      BY <1>1, <3>1 DEF OneAnswer
    <3> QED
      BY <3>1, <3>2, ItemKinds
  <2>4. HoldsAnswer' => request' = "waiting" /\ answered' = Lidar!None /\ OnlySamples' /\ ~looping'
    BY <1>1, <1>2, <1>5, ItemKinds DEF OneAnswer, OnlySamples
  <2>5. answered' # Lidar!None => request' = "waiting" /\ OnlySamples' /\ Quiet' /\ ~HoldsAnswer'
    <3> SUFFICES ASSUME answered # Lidar!None
                 PROVE  request' = "waiting" /\ OnlySamples' /\ Quiet' /\ ~HoldsAnswer'
      BY <1>2
    <3>1. request = "waiting" /\ OnlySamples /\ Quiet /\ IsMeasured(item)
      BY <1>1 DEF OneAnswer, OnlySamples
    <3> QED
      BY <1>1, <1>2, <1>4, <1>5, <1>6, <3>1, ItemKinds DEF OnlySamples, Quiet
  <2> QED
    BY <2>1, <2>2, <2>3, <2>4, <2>5 DEF OneAnswer
<1>9. StartsInQuiet'
  BY <1>2, <1>4, <1>6, <1>7 DEF StartsInQuiet, Quiet
<1>10. OneStart'
  <2>1. ASSUME NEW i \in 1..Len(incoming'), NEW j \in 1..Len(incoming'),
               IsHeader(incoming'[i]), IsHeader(incoming'[j])
        PROVE  i = j
    <3>1. i + 1 \in 1..Len(incoming) /\ j + 1 \in 1..Len(incoming)
          /\ IsHeader(incoming[i + 1]) /\ IsHeader(incoming[j + 1])
      BY <1>1, <2>1
    <3>2. i + 1 = j + 1
      BY <3>1 DEF OneStart
    <3> QED
      BY <3>2
  <2>2. \A i, j \in 1..Len(outgoing') : outgoing'[i] = "scan" /\ outgoing'[j] = "scan" => i = j
    BY <1>2 DEF OneStart
  <2> QED
    BY <1>2, <1>4, <1>6, <1>7, <2>1, <2>2 DEF OneStart
<1> QED
  BY <1>8, <1>9, <1>10

(* What the decoder holds it keeps or drops. *)
LEMMA LineAfterCheck ==
  ASSUME LineInv, Lidar!Check
  PROVE  OneAnswer' /\ StartsInQuiet' /\ OneStart'
<1> USE DEF LineInv, LidarTypes
<1>1. UNCHANGED <<pc, request, answered, looping, outgoing, incoming, buffers, available>>
  BY DEF Lidar!Check, Lidar!main, Lidar!answer, Lidar!mode, Lidar!holder, Lidar!serial
<1>2. (HoldsAnswer' => HoldsAnswer) /\ (HoldsSample' => HoldsSample)
  BY DEF Lidar!Check, HoldsAnswer, HoldsSample
<1>3. ScanAhead' = ScanAhead /\ HeaderAhead' = HeaderAhead
  BY <1>1 DEF ScanAhead, HeaderAhead
<1>4. (OnlySamples => OnlySamples') /\ (Quiet => Quiet')
  BY <1>1, <1>2, <1>3 DEF Quiet, OnlySamples
<1> QED
  BY <1>1, <1>2, <1>3, <1>4 DEF OneAnswer, OneStart, StartsInQuiet

(* An answer is handed over when nothing but samples is left on the line,   *)
(* and no scan under way.                                                   *)
LEMMA LineAfterSetResult ==
  ASSUME LineInv, Lidar!SetResult
  PROVE  OneAnswer' /\ StartsInQuiet' /\ OneStart'
<1> USE DEF LineInv, LidarTypes
<1>1. UNCHANGED <<pc, request, looping, outgoing, incoming, buffers, available>> /\ decoder' = <<>>
  BY DEF Lidar!SetResult, Lidar!Commits, Lidar!main, Lidar!mode, Lidar!holder, Lidar!serial
<1>2. ~HoldsAnswer' /\ ~HoldsSample' /\ HoldsAnswer
  BY <1>1, ItemKinds DEF Lidar!SetResult, Lidar!Commits, HoldsAnswer, HoldsSample, Decoded,
     IsAnswer, AnswerKinds, Measured
<1>3. ScanAhead' = ScanAhead /\ HeaderAhead' = HeaderAhead
  BY <1>1 DEF ScanAhead, HeaderAhead
<1>4. OnlySamples /\ request = "waiting" /\ ~looping
  BY <1>2 DEF OneAnswer
<1>5. ~ScanAhead /\ ~HeaderAhead /\ OnlySamples' /\ Quiet'
  BY <1>1, <1>2, <1>3, <1>4, ItemKinds DEF OnlySamples, ScanAhead, HeaderAhead, Quiet
<1> QED
  BY <1>1, <1>2, <1>3, <1>4, <1>5, ItemKinds DEF OneAnswer, OneStart, StartsInQuiet, OnlySamples

(* A sample is pushed while the decoder takes everything for samples. *)
LEMMA LineAfterPush ==
  ASSUME LineInv, Lidar!Push
  PROVE  OneAnswer' /\ StartsInQuiet' /\ OneStart'
<1> USE DEF LineInv, LidarTypes
<1>1. UNCHANGED <<pc, request, answered, looping, outgoing, incoming>> /\ decoder' = <<>>
  BY DEF Lidar!Push, Lidar!Commits, Lidar!main, Lidar!answer, Lidar!mode, Lidar!serial
<1>2. ~HoldsAnswer' /\ ~HoldsSample' /\ HoldsSample
  BY <1>1 DEF Lidar!Push, Lidar!Commits, HoldsAnswer, HoldsSample, IsMeasured
<1>3. ScanAhead' = ScanAhead /\ HeaderAhead' = HeaderAhead
  BY <1>1 DEF ScanAhead, HeaderAhead
<1>4. ~ScanAhead /\ ~HeaderAhead
  BY <1>2 DEF OneStart
<1>5. OnlySamples => OnlySamples'
  BY <1>1 DEF OnlySamples
<1> QED
  BY <1>1, <1>2, <1>3, <1>4, <1>5 DEF OneAnswer, OneStart, StartsInQuiet, Quiet

(* What arrives comes behind what there is. *)
LEMMA ArrivalAppends ==
  ASSUME LidarTypes, NEW item \in Item,
         incoming' = incoming \/ incoming' = Append(incoming, item)
  PROVE  /\ \A i \in 1..Len(incoming) : i \in 1..Len(incoming') /\ incoming'[i] = incoming[i]
         /\ \A i \in 1..Len(incoming') :
              i \in 1..Len(incoming) \/ (i = Len(incoming) + 1 /\ incoming'[i] = item)
         /\ incoming' = Append(incoming, item) =>
              Len(incoming') = Len(incoming) + 1 /\ incoming'[Len(incoming) + 1] = item
         /\ Len(incoming) \in Nat /\ Len(incoming') \in Nat
<1> USE DEF LidarTypes
<1>1. CASE incoming' = incoming
  <2>1. Append(incoming, item) # incoming
    <3>1. Len(Append(incoming, item)) = Len(incoming) + 1
      OBVIOUS
    <3> QED
      BY <3>1
  <2> QED
    BY <1>1, <2>1
<1>2. CASE incoming' = Append(incoming, item)
  BY <1>2
<1> QED
  BY <1>1, <1>2

(* A command is taken from the line, obeyed or lost; what it brings comes   *)
(* behind everything else.                                                  *)
LEMMA LineAfterTaken ==
  ASSUME LineInv, outgoing # <<>>, outgoing' = Tail(outgoing),
         UNCHANGED <<pc, request, answered, looping, decoder, buffers, available>>,
         NEW item \in Item,
         incoming' = incoming \/ incoming' = Append(incoming, item),
         \/ IsMeasured(item)
         \/ IsAnswer(item) /\ item.kind = outgoing[1]
         \/ IsHeader(item) /\ outgoing[1] = "scan"
  PROVE  OneAnswer' /\ StartsInQuiet' /\ OneStart'
<1> USE DEF LineInv, LidarTypes
<1>1. /\ Len(outgoing') = Len(outgoing) - 1 /\ Len(outgoing) \in Nat /\ 1 \in 1..Len(outgoing)
      /\ \A i \in 1..Len(outgoing') : outgoing'[i] = outgoing[i + 1] /\ i + 1 \in 1..Len(outgoing)
  OBVIOUS
<1>3. /\ \A i \in 1..Len(incoming) : i \in 1..Len(incoming') /\ incoming'[i] = incoming[i]
      /\ Len(incoming) \in Nat /\ Len(incoming') \in Nat
  BY ArrivalAppends
<1>4. \A i \in 1..Len(incoming') :
        i \in 1..Len(incoming) \/ (i = Len(incoming) + 1 /\ incoming'[i] = item)
  BY ArrivalAppends
<1>5. HoldsAnswer' = HoldsAnswer /\ HoldsSample' = HoldsSample
  BY DEF HoldsAnswer, HoldsSample
<1>6. ScanAhead' => ScanAhead
  BY <1>1 DEF ScanAhead
<1>7. HeaderAhead' => HeaderAhead \/ IsHeader(item)
  BY <1>3, <1>4 DEF HeaderAhead
<1>8. answered = Lidar!None /\ ~HoldsAnswer /\ ~(\E i \in 1..Len(incoming) : IsAnswer(incoming[i]))
  BY DEF OneAnswer, OnlySamples
<1>9. IsHeader(item) => ScanAhead /\ ~ScanAhead'
  <2>1. SUFFICES ASSUME IsHeader(item) PROVE ScanAhead /\ ~ScanAhead'
    OBVIOUS
  <2>2. outgoing[1] = "scan"
    BY <2>1, ItemKinds
  <2>3. \A i \in 1..Len(outgoing) : outgoing[i] = "scan" => i = 1
    BY <1>1, <2>2 DEF OneStart
  <2> QED
    BY <1>1, <2>2, <2>3 DEF ScanAhead
<1>10. IsAnswer(item) => request = "waiting" /\ outgoing' = <<>> /\ Len(outgoing') = 0
  <2>1. SUFFICES ASSUME IsAnswer(item) PROVE request = "waiting" /\ outgoing' = <<>> /\ Len(outgoing') = 0
    OBVIOUS
  <2>2. outgoing[1] \in AnswerKinds
    BY <2>1, ItemKinds DEF IsAnswer
  <2>3. request = "waiting" /\ 1 = Len(outgoing)
    BY <1>1, <2>2 DEF OneAnswer
  <2> QED
    BY <1>1, <2>3
<1>11. OneAnswer'
  <2>1. ASSUME NEW i \in 1..Len(outgoing'), outgoing'[i] \in AnswerKinds
        PROVE  /\ request' = "waiting" /\ answered' = Lidar!None /\ i = Len(outgoing') /\ ~HoldsAnswer'
               /\ \A j \in 1..Len(incoming') : ~IsAnswer(incoming'[j])
    <3>1. request = "waiting" /\ i + 1 = Len(outgoing)
      BY <1>1, <2>1 DEF OneAnswer
    <3>2. ~IsAnswer(item)
      BY <1>10, <2>1
    <3>3. \A j \in 1..Len(incoming') : ~IsAnswer(incoming'[j])
      BY <1>3, <1>4, <1>8, <3>2
    <3>4. i = Len(outgoing')
      <4>1. Len(outgoing') = Len(outgoing) - 1 /\ Len(outgoing) \in Nat /\ i \in Int
        BY <1>1
      <4> HIDE DEF LineInv, LidarTypes
      <4> QED
        BY <3>1, <4>1
    <3> QED
      BY <1>5, <1>8, <3>1, <3>3, <3>4
  <2>2. ASSUME NEW i \in 1..Len(incoming'), IsAnswer(incoming'[i])
        PROVE  /\ request' = "waiting" /\ answered' = Lidar!None /\ outgoing' = <<>> /\ ~HoldsAnswer'
               /\ \A j \in 1..Len(incoming') : i < j => IsMeasured(incoming'[j])
    <3>1. i = Len(incoming) + 1 /\ IsAnswer(item)
      BY <1>3, <1>4, <1>8, <2>2
    <3>2. ASSUME NEW j \in 1..Len(incoming') PROVE ~(i < j)
      BY <1>3, <1>4, <3>1
    <3> QED
      BY <1>5, <1>8, <1>10, <3>1, <3>2
  <2> QED
    BY <1>5, <1>8, <2>1, <2>2 DEF OneAnswer
<1>12. StartsInQuiet'
  BY <1>5, <1>6, <1>7, <1>9 DEF StartsInQuiet, Quiet
<1>13. OneStart'
  <2>1. ASSUME NEW i \in 1..Len(outgoing'), NEW j \in 1..Len(outgoing'),
               outgoing'[i] = "scan", outgoing'[j] = "scan"
        PROVE  i = j
    <3>1. i + 1 \in 1..Len(outgoing) /\ j + 1 \in 1..Len(outgoing)
          /\ outgoing[i + 1] = "scan" /\ outgoing[j + 1] = "scan"
      BY <1>1, <2>1
    <3>2. i + 1 = j + 1
      BY <3>1 DEF OneStart
    <3> QED
      BY <3>2
  <2>2. ASSUME NEW i \in 1..Len(incoming'), NEW j \in 1..Len(incoming'),
               IsHeader(incoming'[i]), IsHeader(incoming'[j])
        PROVE  i = j
    <3>1. CASE IsHeader(item)
      <4>1. ~HeaderAhead
        BY <1>9, <3>1 DEF OneStart
      <4> QED
        BY <1>3, <1>4, <2>2, <4>1 DEF HeaderAhead
    <3>2. CASE ~IsHeader(item)
      BY <1>3, <1>4, <2>2, <3>2 DEF OneStart
    <3> QED
      BY <3>1, <3>2
  <2> QED
    BY <1>5, <1>6, <1>7, <1>9, <2>1, <2>2 DEF OneStart
<1> QED
  BY <1>11, <1>12, <1>13

(* A measurement comes behind everything else. *)
LEMMA LineAfterMeasure ==
  ASSUME LineInv, Lidar!Measure
  PROVE  OneAnswer' /\ StartsInQuiet' /\ OneStart'
<1> USE DEF LineInv, LidarTypes
<1> DEFINE item == Lidar!Sample(position)
<1>1. UNCHANGED <<pc, request, answered, looping, outgoing, decoder, buffers, available>>
  BY DEF Lidar!Measure, Lidar!main, Lidar!answer, Lidar!mode, Lidar!holder
<1>2. item \in Item /\ IsMeasured(item)
  BY DEF Lidar!Sample, Item, Decoded, Measured, IsMeasured
<1>3. incoming' = incoming \/ incoming' = Append(incoming, item)
  BY DEF Lidar!Measure, Lidar!Received
<1> HIDE DEF item
<1>5. \A i \in 1..Len(incoming) : i \in 1..Len(incoming') /\ incoming'[i] = incoming[i]
  BY <1>2, <1>3, ArrivalAppends
<1>6. \A i \in 1..Len(incoming') :
        i \in 1..Len(incoming) \/ (i = Len(incoming) + 1 /\ incoming'[i] = item)
  BY <1>2, <1>3, ArrivalAppends
<1>7. HoldsAnswer' = HoldsAnswer /\ HoldsSample' = HoldsSample /\ ScanAhead' = ScanAhead
  BY <1>1 DEF HoldsAnswer, HoldsSample, ScanAhead
<1>8. HeaderAhead' = HeaderAhead
  BY <1>2, <1>5, <1>6, ItemKinds DEF HeaderAhead
<1>9. (OnlySamples => OnlySamples') /\ (Quiet => Quiet')
  BY <1>1, <1>2, <1>5, <1>6, <1>7, <1>8 DEF Quiet, OnlySamples
<1>10. \A i \in 1..Len(incoming') : ~IsMeasured(incoming'[i]) =>
         i \in 1..Len(incoming) /\ incoming'[i] = incoming[i]
  BY <1>2, <1>5, <1>6
<1>11. OneAnswer'
  <2>1. ASSUME NEW i \in 1..Len(outgoing), outgoing[i] \in AnswerKinds
        PROVE  /\ request = "waiting" /\ answered = Lidar!None /\ i = Len(outgoing) /\ ~HoldsAnswer
               /\ \A j \in 1..Len(incoming') : ~IsAnswer(incoming'[j])
    <3>1. \A j \in 1..Len(incoming) : ~IsAnswer(incoming[j])
      BY <2>1 DEF OneAnswer
    <3>2. ~IsAnswer(item)
      BY <1>2, ItemKinds
    <3>3. \A j \in 1..Len(incoming') : ~IsAnswer(incoming'[j])
      BY <1>5, <1>6, <3>1, <3>2
    <3> QED
      BY <2>1, <3>3 DEF OneAnswer
  <2>2. ASSUME NEW i \in 1..Len(incoming'), IsAnswer(incoming'[i])
        PROVE  /\ request = "waiting" /\ answered = Lidar!None /\ outgoing = <<>> /\ ~HoldsAnswer
               /\ \A j \in 1..Len(incoming') : i < j => IsMeasured(incoming'[j])
    <3>1. i \in 1..Len(incoming) /\ IsAnswer(incoming[i])
      BY <1>2, <1>5, <1>6, <2>2, ItemKinds
    <3> QED
      BY <1>2, <1>5, <1>6, <3>1 DEF OneAnswer
  <2> QED
    BY <1>1, <1>7, <1>9, <2>1, <2>2 DEF OneAnswer
<1>12. OneStart'
  <2>1. ASSUME NEW i \in 1..Len(incoming'), NEW j \in 1..Len(incoming'),
               IsHeader(incoming'[i]), IsHeader(incoming'[j])
        PROVE  i = j
    <3>1. ~IsHeader(item)
      BY <1>2, ItemKinds
    <3>2. i \in 1..Len(incoming) /\ j \in 1..Len(incoming)
          /\ IsHeader(incoming[i]) /\ IsHeader(incoming[j])
      BY <1>5, <1>6, <2>1, <3>1
    <3> QED
      BY <3>2 DEF OneStart
  <2> QED
    BY <1>1, <1>7, <1>8, <2>1 DEF OneStart
<1> QED
  BY <1>1, <1>9, <1>11, <1>12 DEF StartsInQuiet

(* Every step keeps answers with their requests and starts in the quiet. *)
LEMMA LineKept ==
  ASSUME LineInv, pc = "grabs" => available >= 0, ~Late, Lidar!Next
  PROVE  LineInv'
<1>1. LidarTypes'
  BY TypesKept DEF LineInv
<1> SUFFICES OneAnswer' /\ StartsInQuiet' /\ OneStart'
  BY <1>1 DEF LineInv
<1>2. CASE Lidar!Prepare
  <2>1. pc' \in {"mode", "speed", "scan"} => Quiet
    BY <1>2 DEF Lidar!Prepare, LineInv, StartsInQuiet
  <2> QED
    BY <1>2, <2>1, LineAfterMain
       DEF Lidar!Prepare, Lidar!DisableDataGrabbing, Lidar!answer, Lidar!holder, Lidar!scans,
          Lidar!serial, Lidar!device
<1>3. CASE Lidar!Request
  <2>1. Lidar!Asks[pc].of \in AnswerKinds /\ request = "locked"
    BY <1>3, AsksTable DEF Lidar!Request, LineInv, LidarTypes
  <2>2. pc' \in {"mode", "speed", "scan"} => Quiet /\ Lidar!Asks[pc].of # "scan"
    BY <1>3, <2>1 DEF Lidar!Request, LineInv, StartsInQuiet, AnswerKinds
  <2>3. /\ outgoing' = Append(outgoing, Lidar!Asks[pc].of) /\ answered' = Lidar!None
        /\ request' = "waiting" /\ looping' = looping /\ Lidar!Asks[pc].of # "scan"
        /\ UNCHANGED <<incoming, decoder, buffers, available>>
    BY <1>3, <2>1 DEF Lidar!Request, Lidar!Transmit, Lidar!mode, Lidar!holder, AnswerKinds
  <2> QED
    BY <2>1, <2>2, <2>3, LineAfterSend
<1>4. CASE Lidar!Answered
  <2>1. OnlySamples /\ Quiet /\ ~HoldsAnswer
    BY <1>4 DEF Lidar!Answered, LineInv, LidarTypes, OneAnswer
  <2>2. /\ UNCHANGED <<outgoing, incoming, decoder, buffers, available>>
        /\ looping' = looping /\ answered' = Lidar!None
    BY <1>4 DEF Lidar!Answered, Lidar!mode, Lidar!holder, Lidar!serial
  <2> QED
    BY <2>1, <2>2, LineAfterMain
<1>5. CASE Lidar!TimesOut
  <2>1. /\ UNCHANGED <<outgoing, incoming, decoder, buffers, available>> /\ looping' = looping
        /\ outgoing = <<>> /\ incoming = <<>> /\ decoder = <<>> /\ answered' = answered
        /\ answered = Lidar!None /\ request = "waiting" /\ pc' = Lidar!Asks[pc].no
    BY <1>5 DEF Lidar!TimesOut, Lidar!answer, Lidar!mode, Lidar!holder, Lidar!serial
  <2>2. OnlySamples /\ ~HoldsAnswer
    BY <2>1 DEF OnlySamples, HoldsAnswer
  <2>3. pc' \in {"mode", "speed", "scan"} => Quiet
    BY <2>1, AsksTable DEF LineInv, LidarTypes, StartsInQuiet
  <2> QED
    BY <2>1, <2>2, <2>3, LineAfterMain
<1>6. CASE Lidar!Stops \/ Lidar!Exits
  <2>1. request = "idle"
    BY <1>6, IdleOutsideRequests DEF Lidar!Stops, Lidar!Exits
  <2>2. /\ outgoing' = Append(outgoing, "stop") /\ answered' = Lidar!None /\ looping' = FALSE
        /\ UNCHANGED <<incoming, decoder, buffers, available>>
        /\ pc' \in {"support", "ended"}
    BY <1>6 DEF Lidar!Stops, Lidar!Exits, Lidar!Stop, Lidar!DisableDataGrabbing,
       Lidar!Transmit, Lidar!holder
  <2> QED
    BY <2>1, <2>2, LineAfterSend DEF AnswerKinds
<1>7. CASE Lidar!StartScan
  <2>1. request = "idle" /\ Quiet
    BY <1>7, IdleOutsideRequests DEF Lidar!StartScan, LineInv, StartsInQuiet
  <2>2. /\ outgoing' = Append(outgoing, "scan") /\ answered' = Lidar!None /\ looping' = looping
        /\ buffers' = Lidar!Empty /\ available' = -1 /\ pc' = "loop"
        /\ UNCHANGED <<incoming, decoder>>
    BY <1>7 DEF Lidar!StartScan, Lidar!ResetHolder, Lidar!Transmit
  <2> QED
    BY <2>1, <2>2, LineAfterSend DEF AnswerKinds
<1>8. CASE Lidar!Signalled \/ Lidar!GrabTimesOut \/ Lidar!Grab \/ Lidar!SpinSome
  <2>1. /\ UNCHANGED <<outgoing, incoming, decoder, buffers, available, request, answered>>
        /\ looping' = looping /\ pc' \in {"grabs", "spin", "loop", "restart"}
    BY <1>8 DEF Lidar!Signalled, Lidar!GrabTimesOut, Lidar!Grab, Lidar!SpinSome,
       Lidar!answer, Lidar!mode, Lidar!holder, Lidar!serial
  <2> QED
    BY <2>1, LineAfterMain
<1>9. CASE Lidar!Decode
  BY <1>9, LineAfterDecode
<1>10. CASE Lidar!Check
  BY <1>10, LineAfterCheck
<1>11. CASE Lidar!SetResult
  BY <1>11, LineAfterSetResult
<1>12. CASE Lidar!Push
  BY <1>12, LineAfterPush
<1>13. CASE Lidar!Obey
  <2>1. /\ outgoing # <<>> /\ outgoing' = Tail(outgoing)
        /\ UNCHANGED <<pc, request, answered, looping, decoder, buffers, available>>
        /\ outgoing[1] \in AnswerKinds \cup {"stop", "scan"}
    BY <1>13 DEF Lidar!Obey, Lidar!main, Lidar!answer, Lidar!mode, Lidar!holder, LineInv,
       LidarTypes
  <2>2. CASE outgoing[1] = "stop"
    <3>1. incoming' = incoming
      BY <1>13, <2>2 DEF Lidar!Obey
    <3>2. PICK item \in Item : IsMeasured(item)
      <4> DEFINE m == [kind |-> "sample", start |-> 0, position |-> 0]
      <4>1. m \in Item /\ IsMeasured(m)
        BY DEF Item, Decoded, Measured, IsMeasured
      <4> QED
        BY <4>1
    <3> QED
      BY <2>1, <3>1, <3>2, LineAfterTaken
  <2>3. CASE outgoing[1] = "scan"
    <3> DEFINE item == [kind |-> "header"]
    <3>1. item \in Item /\ IsHeader(item)
      BY DEF Item, IsHeader
    <3>2. incoming' = incoming \/ incoming' = Append(incoming, item)
      BY <1>13, <2>3 DEF Lidar!Obey, Lidar!MayArrive, Lidar!Received
    <3> HIDE DEF item
    <3> QED
      BY <2>1, <2>3, <3>1, <3>2, LineAfterTaken
  <2>4. CASE outgoing[1] \in AnswerKinds
    <3> DEFINE item == [kind |-> outgoing[1]]
    <3>1. item \in Item /\ IsAnswer(item) /\ item.kind = outgoing[1]
      BY <2>4 DEF Item, Decoded, IsAnswer
    <3>2. incoming' = incoming \/ incoming' = Append(incoming, item)
      BY <1>13, <2>4 DEF Lidar!Obey, Lidar!MayArrive, Lidar!Received, AnswerKinds
    <3> HIDE DEF item
    <3> QED
      BY <2>1, <3>1, <3>2, LineAfterTaken
  <2> QED
    BY <2>1, <2>2, <2>3, <2>4
<1>14. CASE Lidar!CommandLost
  <2>1. /\ outgoing # <<>> /\ outgoing' = Tail(outgoing) /\ incoming' = incoming
        /\ UNCHANGED <<pc, request, answered, looping, decoder, buffers, available>>
    BY <1>14 DEF Lidar!CommandLost, Lidar!main, Lidar!answer, Lidar!mode, Lidar!holder
  <2>2. PICK item \in Item : IsMeasured(item)
    <3> DEFINE m == [kind |-> "sample", start |-> 0, position |-> 0]
    <3>1. m \in Item /\ IsMeasured(m)
      BY DEF Item, Decoded, Measured, IsMeasured
    <3> QED
      BY <3>1
  <2> QED
    BY <2>1, <2>2, LineAfterTaken
<1>15. CASE Lidar!Measure
  BY <1>15, LineAfterMeasure
<1> QED
  BY <1>2, <1>3, <1>4, <1>5, <1>6, <1>7, <1>8, <1>9, <1>10, <1>11, <1>12, <1>13, <1>14, <1>15,
     Zenon DEF Lidar!Next

-----------------------------------------------------------------------------
(* LiDAR: measurements keep their order, and none is missing *)

(* A revolution fits into a buffer. *)
LEMMA RevolutionFits == Samples \in Nat \ {0} /\ Capacity \in Nat /\ Samples <= Capacity
BY LidarAssumption DEF Lidar!Parameters

(* Two sync samples are a revolution apart. *)
LEMMA Revolutions ==
  ASSUME NEW a \in Nat, NEW b \in Nat, a % Samples = 0, b % Samples = 0, a < b
  PROVE  a + Samples <= b
<1> DEFINE k == a \div Samples
<1> DEFINE m == b \div Samples
<1>1. k \in Int /\ m \in Int /\ a = Samples * k /\ b = Samples * m
  BY RevolutionFits
<1> HIDE DEF k, m
<1>2. k < m
  BY <1>1, RevolutionFits
<1>3. Samples * (k + 1) <= Samples * m
  BY <1>1, <1>2, RevolutionFits
<1> QED
  BY <1>1, <1>3, RevolutionFits

(* A revolution behind a sync sample comes the next. *)
LEMMA NextRevolution ==
  ASSUME NEW a \in Nat, a % Samples = 0
  PROVE  (a + Samples) % Samples = 0
<1> DEFINE k == a \div Samples
<1>1. k \in Int /\ a = Samples * k
  BY RevolutionFits
<1> HIDE DEF k
<1>2. a + Samples = Samples * (k + 1)
  BY <1>1, RevolutionFits
<1> DEFINE r == (a + Samples) % Samples
<1> DEFINE q == (a + Samples) \div Samples
<1>3. r \in 0..Samples - 1 /\ q \in Int /\ a + Samples = Samples * q + r
  BY RevolutionFits
<1> HIDE DEF r, q
<1>4. r = Samples * (k + 1 - q)
  BY <1>1, <1>2, <1>3, RevolutionFits
<1>5. r = 0
  BY <1>1, <1>3, <1>4, RevolutionFits
<1> QED
  BY <1>5 DEF r

(* What is under way and what is collected are measurements. *)
LEMMA CollectedTypes ==
  ASSUME LidarTypes
  PROVE  /\ Collected \in Seq(Measured) /\ Len(Collected) \in Nat
         /\ \A i \in 1..Len(Collected) : Collected[i].position \in Nat
         /\ Collected # <<>> => /\ LastIn \in Nat /\ FirstIn \in Nat
                                /\ 1 \in 1..Len(Collected) /\ Len(Collected) \in 1..Len(Collected)
         /\ \A i : Flies(i) => incoming[i] \in Measured /\ incoming[i].position \in Nat
         /\ HoldsSample => decoder[1] \in Measured /\ decoder[1].position \in Nat
         /\ lost \in SUBSET Nat /\ position \in Nat
<1>1. Collected \in Seq(Measured)
  BY OperatingTypes
<1>2. \A i : Flies(i) => incoming[i] \in Measured
  BY ItemKinds DEF Flies, LidarTypes
<1>3. HoldsSample => decoder[1] \in Measured
  BY DEF HoldsSample, LidarTypes, IsMeasured, Decoded, AnswerKinds
<1>4. \A m \in Measured : m.position \in Nat
  BY DEF Measured
<1>5. Collected # <<>> => 1 \in 1..Len(Collected) /\ Len(Collected) \in 1..Len(Collected)
  BY <1>1
<1>6. Collected # <<>> => LastIn \in Nat /\ FirstIn \in Nat
  BY <1>1, <1>4, <1>5 DEF LastIn, FirstIn
<1> QED
  BY <1>1, <1>2, <1>3, <1>4, <1>5, <1>6 DEF LidarTypes

(* Without a change to the buffers, what is collected and available stays. *)
LEMMA SameCollected ==
  ASSUME UNCHANGED <<buffers, available>>
  PROVE  /\ Collected' = Collected /\ LastIn' = LastIn /\ FirstIn' = FirstIn
         /\ Lidar!Positions(Collected)' = Lidar!Positions(Collected)
         /\ UNCHANGED Lidar!Available
BY DEF Collected, LastIn, FirstIn, Lidar!Operating, Lidar!Positions, Lidar!Available

(* A step keeps the order if it brings no sample and, while the unpacker is *)
(* on, takes none away.                                                     *)
LEMMA FlightAsItWas ==
  ASSUME FlightInv, UNCHANGED <<starts, position, lost, buffers, available>>,
         \A i : Flies(i)' => Flies(i) /\ incoming'[i] = incoming[i],
         HoldsSample' => HoldsSample /\ decoder' = decoder,
         HeaderAhead' => HeaderAhead, looping' => looping,
         \/ ~unpacking'
         \/ /\ unpacking /\ looping' = looping
            /\ \A i : Flies(i) => Flies(i)' /\ incoming'[i] = incoming[i]
            /\ HoldsSample => HoldsSample' /\ decoder' = decoder
  PROVE  FlightInv'
<1> USE DEF FlightInv
<1>1. /\ Collected' = Collected /\ LastIn' = LastIn /\ FirstIn' = FirstIn
      /\ Lidar!Positions(Collected)' = Lidar!Positions(Collected)
  BY SameCollected
<1>2. \A s : Current(s)' <=> Current(s)
  BY DEF Current
<1>3. InOrder'
  <2>1. ASSUME NEW i, Flies(i)'
        PROVE  /\ Current(incoming[i])' /\ incoming'[i] = incoming[i]
               /\ \A j : Flies(j)' /\ i < j => incoming[i]'.position < incoming[j]'.position
               /\ HoldsSample' => decoder'[1].position < incoming[i]'.position
               /\ Collected' # <<>> => LastIn' < incoming[i]'.position
    <3>1. Flies(i) /\ incoming'[i] = incoming[i]
      BY <2>1
    <3>2. Current(incoming[i])'
      BY <3>1 DEF InOrder, Current
    <3>3. \A j : Flies(j)' /\ i < j => incoming[i]'.position < incoming[j]'.position
      BY <3>1 DEF InOrder
    <3> QED
      BY <1>1, <3>1, <3>2, <3>3 DEF InOrder
  <2>2. HoldsSample' =>
          Current(decoder[1])' /\ (Collected' # <<>> => LastIn' < decoder'[1].position)
    BY <1>1 DEF InOrder, Current
  <2>3. HeaderAhead' \/ looping' \/ HoldsSample' \/ Collected' # <<>> =>
          \A p \in lost' : p < position'
    BY <1>1 DEF InOrder
  <2> QED
    BY <2>1, <2>2, <2>3 DEF InOrder
<1>4. NoneMissing'
  <2> SUFFICES ASSUME unpacking' PROVE NoneMissing'
    BY DEF NoneMissing
  <2>1. \A p : UnderWay(p)' <=> UnderWay(p)
    BY <1>1 DEF UnderWay
  <2> QED
    BY <1>1, <2>1 DEF NoneMissing
<1>5. NoneBetween'
  BY <1>1 DEF NoneBetween
<1>6. Collects'
  BY <1>1 DEF Collects, Current, Lidar!IsSync
<1> QED
  BY <1>3, <1>4, <1>5, <1>6

(* A sample that is wanted follows what was collected but for the lost, and *)
(* one that is not wanted is dropped with the unpacker off (onSampleData).  *)
LEMMA FlightAfterCheck ==
  ASSUME LidarTypes, FlightInv, Lidar!Check
  PROVE  FlightInv'
<1>1. /\ UNCHANGED <<starts, position, lost, buffers, available, incoming, looping, unpacking>>
      /\ decoder # <<>>
      /\ decoder' = IF Lidar!Wanted(decoder[1]) THEN <<decoder[1], "commits">> ELSE <<>>
  BY DEF Lidar!Check, Lidar!mode, Lidar!holder, Lidar!scans, Lidar!serial, Lidar!device
<1>2. /\ Collected' = Collected /\ LastIn' = LastIn /\ FirstIn' = FirstIn
      /\ Lidar!Positions(Collected)' = Lidar!Positions(Collected)
  BY <1>1, SameCollected
<1>3. /\ \A i : Flies(i)' <=> Flies(i)
      /\ HeaderAhead' = HeaderAhead
  BY <1>1 DEF Flies, InLoop, HeaderAhead
<1>4. CASE ~HoldsSample
  <2>1. ~HoldsSample'
    BY <1>1, <1>4 DEF HoldsSample
  <2>2. \/ ~unpacking' \/ unpacking
    BY <1>1
  <2> QED
    BY <1>1, <1>3, <1>4, <2>1, <2>2, FlightAsItWas
<1>5. CASE HoldsSample /\ ~unpacking
  <2>1. ~HoldsSample'
    BY <1>1, <1>5 DEF HoldsSample, Lidar!Wanted, IsMeasured
  <2> QED
    BY <1>1, <1>3, <1>5, <2>1, FlightAsItWas
<1>6. CASE HoldsSample /\ unpacking
  <2>1. HoldsSample' /\ decoder'[1] = decoder[1] /\ decoder' # <<>>
    BY <1>1, <1>6 DEF HoldsSample, Lidar!Wanted, IsMeasured
  <2>2. \A p : UnderWay(p)' <=> UnderWay(p)
    BY <1>1, <1>2, <1>3, <1>6, <2>1 DEF UnderWay
  <2>3. \A s : Current(s)' <=> Current(s)
    BY <1>1 DEF Current
  <2>4. InOrder'
    BY <1>1, <1>2, <1>3, <1>6, <2>1 DEF FlightInv, InOrder, Current
  <2>5. NoneMissing'
    BY <1>1, <1>2, <1>6, <2>1, <2>2 DEF FlightInv, NoneMissing
  <2>6. NoneBetween'
    <3> SUFFICES ASSUME Collected # <<>>, NEW p \in Nat, LastIn < p, p < decoder[1].position
                 PROVE  p \in lost
      BY <1>1, <1>2, <2>1 DEF NoneBetween
    <3>1. LastIn \in Nat /\ decoder[1].position \in Nat
      BY <1>6, CollectedTypes
    <3>2. UnderWay(LastIn) /\ p < position
      BY <1>6, <3>1, CollectedTypes DEF UnderWay, FlightInv, InOrder, Current
    <3>3. p \in lost \/ UnderWay(p)
      BY <1>6, <3>1, <3>2 DEF FlightInv, NoneMissing
    <3>4. ~UnderWay(p)
      <4>1. ASSUME NEW i, Flies(i) PROVE incoming[i].position # p
        BY <1>6, <3>1, <4>1, CollectedTypes DEF FlightInv, InOrder
      <4> QED
        BY <3>1, <4>1 DEF UnderWay
    <3> QED
      BY <3>3, <3>4
  <2>7. Collects'
    BY <1>1, <1>2 DEF FlightInv, Collects, Current, Lidar!IsSync
  <2> QED
    BY <2>4, <2>5, <2>6, <2>7 DEF FlightInv
<1> QED
  BY <1>4, <1>5, <1>6

(* The decoder takes samples in the order of the line. *)
LEMMA FlightAfterDecode ==
  ASSUME LineInv, FlightInv, Lidar!Decode
  PROVE  FlightInv'
<1> DEFINE item == incoming[1]
<1>1. /\ UNCHANGED <<starts, position, lost, buffers, available, unpacking>>
      /\ item \in Item /\ Len(incoming) \in Nat /\ 1 \in 1..Len(incoming)
      /\ Len(incoming') = Len(incoming) - 1
      /\ \A i \in 1..Len(incoming') : incoming'[i] = incoming[i + 1]
      /\ ~HoldsSample
  BY DEF Lidar!Decode, Lidar!Takes, HoldsSample, LineInv, LidarTypes, Lidar!holder,
     Lidar!scans, Lidar!device
<1>2. looping' = (looping \/ IsHeader(item))
  BY DEF Lidar!Decode, Lidar!Takes, IsHeader, LineInv, LidarTypes
<1>3. /\ IsHeader(item) => decoder' = <<>>
      /\ IsMeasured(item) => decoder' = IF looping THEN <<item, "checks">> ELSE <<>>
      /\ IsAnswer(item) => decoder' = IF looping THEN <<>> ELSE <<item, "checks">>
  BY ItemKinds, <1>1 DEF Lidar!Decode, Lidar!Takes, IsHeader, IsMeasured, IsAnswer, LineInv,
     LidarTypes
<1>4. HoldsSample' <=> Flies(1)
  <2>1. Flies(1) <=> IsMeasured(item) /\ looping
    BY <1>1 DEF Flies, InLoop
  <2>2. HoldsSample' <=> IsMeasured(item) /\ looping
    BY <1>1, <1>3, ItemKinds DEF HoldsSample, IsMeasured, IsHeader, IsAnswer
  <2> QED
    BY <2>1, <2>2
<1>5. HoldsSample' => decoder'[1] = item /\ decoder'[2] # "commits" /\ looping
  BY <1>1, <1>3, ItemKinds DEF HoldsSample, IsMeasured, IsHeader, IsAnswer
<1>6. \A i \in Nat \ {0} : Flies(i)' <=> Flies(i + 1)
  <2> SUFFICES ASSUME NEW i \in Nat \ {0} PROVE Flies(i)' <=> Flies(i + 1)
    OBVIOUS
  <2>1. i \in 1..Len(incoming') <=> i + 1 \in 1..Len(incoming)
    BY <1>1
  <2> SUFFICES ASSUME i \in 1..Len(incoming') PROVE Flies(i)' <=> Flies(i + 1)
    BY <2>1 DEF Flies
  <2>2. InLoop(i)' <=> InLoop(i + 1)
    <3>1. ASSUME NEW j \in 1..i - 1, IsHeader(incoming'[j])
          PROVE  \E k \in 1..(i + 1) - 1 : IsHeader(incoming[k])
      <4>1. j + 1 \in 1..(i + 1) - 1 /\ IsHeader(incoming[j + 1])
        BY <1>1, <3>1
      <4> QED
        BY <4>1
    <3>2. ASSUME NEW k \in 1..(i + 1) - 1, IsHeader(incoming[k])
          PROVE  IsHeader(item) \/ \E j \in 1..i - 1 : IsHeader(incoming'[j])
      <4>1. CASE k = 1
        BY <3>2, <4>1
      <4>2. CASE k # 1
        <5>1. k - 1 \in 1..i - 1 /\ k - 1 \in 1..Len(incoming') /\ (k - 1) + 1 = k
          BY <1>1, <4>2
        <5>2. IsHeader(incoming'[k - 1])
          BY <1>1, <3>2, <5>1
        <5> QED
          BY <5>1, <5>2
      <4> QED
        BY <4>1, <4>2
    <3>3. IsHeader(item) => \E k \in 1..(i + 1) - 1 : IsHeader(incoming[k])
      <4>1. 1 \in 1..(i + 1) - 1
        OBVIOUS
      <4> QED
        BY <4>1
    <3> QED
      BY <1>2, <3>1, <3>2, <3>3 DEF InLoop
  <2>3. IsMeasured(incoming'[i]) <=> IsMeasured(incoming[i + 1])
    BY <1>1
  <2> QED
    BY <2>1, <2>2, <2>3 DEF Flies
<1>7. \A i : Flies(i) => i \in Nat \ {0}
  BY <1>1 DEF Flies
<1>8. \A i : Flies(i)' => i \in Nat \ {0} /\ Flies(i + 1) /\ incoming'[i] = incoming[i + 1]
  <2>1. \A i : Flies(i)' => i \in Nat \ {0} /\ i \in 1..Len(incoming')
    BY <1>1 DEF Flies
  <2> QED
    BY <1>1, <1>6, <2>1
<1>9. \A i : Flies(i) => i = 1 \/ (i - 1 \in Nat \ {0} /\ Flies(i - 1)' /\ incoming'[i - 1] = incoming[i])
  <2> SUFFICES ASSUME NEW i, Flies(i), i # 1
               PROVE  i - 1 \in Nat \ {0} /\ Flies(i - 1)' /\ incoming'[i - 1] = incoming[i]
    OBVIOUS
  <2>1. i - 1 \in Nat \ {0} /\ (i - 1) + 1 = i
    BY <1>7
  <2>2. Flies(i - 1)'
    BY <1>6, <2>1
  <2> QED
    BY <1>8, <2>1, <2>2
<1>10. /\ Collected' = Collected /\ LastIn' = LastIn /\ FirstIn' = FirstIn
       /\ Lidar!Positions(Collected)' = Lidar!Positions(Collected)
  BY <1>1, SameCollected
<1>11. \A s : Current(s)' <=> Current(s)
  BY <1>1 DEF Current
<1>12. InOrder'
  <2>1. ASSUME NEW i, Flies(i)'
        PROVE  /\ Current(incoming[i])'
               /\ \A j : Flies(j)' /\ i < j => incoming'[i].position < incoming'[j].position
               /\ HoldsSample' => decoder'[1].position < incoming'[i].position
               /\ Collected' # <<>> => LastIn' < incoming'[i].position
    <3>1. i \in Nat \ {0} /\ Flies(i + 1) /\ incoming'[i] = incoming[i + 1]
      BY <1>8, <2>1
    <3>2. Current(incoming[i])'
      BY <1>1, <3>1 DEF FlightInv, InOrder, Current
    <3>3. ASSUME NEW j, Flies(j)', i < j
          PROVE  incoming'[i].position < incoming'[j].position
      <4>1. j \in Nat \ {0} /\ Flies(j + 1) /\ incoming'[j] = incoming[j + 1] /\ i + 1 < j + 1
        BY <1>8, <3>1, <3>3
      <4> QED
        BY <3>1, <4>1 DEF FlightInv, InOrder
    <3>4. ASSUME HoldsSample' PROVE decoder'[1].position < incoming'[i].position
      <4>1. Flies(1) /\ decoder'[1] = item /\ 1 < i + 1
        BY <1>4, <1>5, <3>1, <3>4
      <4> QED
        BY <3>1, <4>1 DEF FlightInv, InOrder
    <3>5. Collected' # <<>> => LastIn' < incoming'[i].position
      BY <1>10, <3>1 DEF FlightInv, InOrder
    <3> QED
      BY <3>2, <3>3, <3>4, <3>5
  <2>2. HoldsSample' =>
          Current(decoder[1])' /\ (Collected' # <<>> => LastIn' < decoder'[1].position)
    BY <1>1, <1>4, <1>5, <1>10 DEF FlightInv, InOrder, Current
  <2>3. HeaderAhead' \/ looping' \/ HoldsSample' \/ Collected' # <<>> =>
          \A p \in lost' : p < position'
    <3>1. HeaderAhead' => HeaderAhead
      <4> SUFFICES ASSUME NEW i \in 1..Len(incoming'), IsHeader(incoming'[i]) PROVE HeaderAhead
        BY DEF HeaderAhead
      <4>1. i + 1 \in 1..Len(incoming) /\ IsHeader(incoming[i + 1])
        BY <1>1
      <4> QED
        BY <4>1 DEF HeaderAhead
    <3>2. IsHeader(item) => HeaderAhead
      BY <1>1 DEF HeaderAhead
    <3> QED
      BY <1>1, <1>2, <1>5, <1>10, <3>1, <3>2 DEF FlightInv, InOrder
  <2> QED
    BY <2>1, <2>2, <2>3 DEF InOrder
<1>13. NoneMissing'
  <2>1. \A p : UnderWay(p)' <=> UnderWay(p)
    <3> SUFFICES ASSUME NEW p PROVE UnderWay(p)' <=> UnderWay(p)
      OBVIOUS
    <3>1. (\E i : Flies(i) /\ incoming[i].position = p) =>
            \/ \E i : Flies(i)' /\ incoming'[i].position = p
            \/ HoldsSample' /\ decoder'[1].position = p
      <4> SUFFICES ASSUME NEW i, Flies(i), incoming[i].position = p
                   PROVE  \/ \E k : Flies(k)' /\ incoming'[k].position = p
                          \/ HoldsSample' /\ decoder'[1].position = p
        OBVIOUS
      <4>1. CASE i = 1
        BY <1>4, <1>5, <4>1
      <4>2. CASE i # 1
        <5>1. Flies(i - 1)' /\ incoming'[i - 1].position = p
          BY <1>9, <4>2
        <5> QED
          BY <5>1
      <4> QED
        BY <4>1, <4>2
    <3>2. (\E i : Flies(i)' /\ incoming'[i].position = p) =>
            \E i : Flies(i) /\ incoming[i].position = p
      BY <1>8
    <3>3. HoldsSample' /\ decoder'[1].position = p => \E i : Flies(i) /\ incoming[i].position = p
      BY <1>4, <1>5
    <3> QED
      BY <1>1, <1>10, <3>1, <3>2, <3>3 DEF UnderWay
  <2>2. looping => looping'
    BY <1>2
  <2> QED
    BY <1>1, <1>5, <1>10, <2>1, <2>2 DEF FlightInv, NoneMissing
<1>14. NoneBetween'
  BY <1>5 DEF NoneBetween
<1>15. Collects'
  BY <1>1, <1>10 DEF FlightInv, Collects, Current, Lidar!IsSync
<1> QED
  BY <1>12, <1>13, <1>14, <1>15 DEF FlightInv

(* What arrives changes nothing for what came before. *)
LEMMA FliesAfterArrival ==
  ASSUME LidarTypes, NEW item \in Item, UNCHANGED looping,
         incoming' = incoming \/ incoming' = Append(incoming, item)
  PROVE  /\ \A i : Flies(i) => Flies(i)' /\ incoming'[i] = incoming[i]
         /\ \A i : Flies(i)' =>
              \/ Flies(i) /\ incoming'[i] = incoming[i]
              \/ /\ i = Len(incoming) + 1 /\ incoming'[i] = item
                 /\ IsMeasured(item) /\ (looping \/ HeaderAhead)
         /\ HeaderAhead => HeaderAhead'
         /\ HeaderAhead' => HeaderAhead \/ IsHeader(item)
<1>1. /\ \A i \in 1..Len(incoming) : i \in 1..Len(incoming') /\ incoming'[i] = incoming[i]
      /\ Len(incoming) \in Nat /\ Len(incoming') \in Nat
  BY ArrivalAppends
<1>2. \A i \in 1..Len(incoming') :
        i \in 1..Len(incoming) \/ (i = Len(incoming) + 1 /\ incoming'[i] = item)
  BY ArrivalAppends
<1>3. \A i \in 1..Len(incoming) : InLoop(i)' <=> InLoop(i)
  <2> SUFFICES ASSUME NEW i \in 1..Len(incoming) PROVE InLoop(i)' <=> InLoop(i)
    OBVIOUS
  <2>1. \A j \in 1..i - 1 : incoming'[j] = incoming[j]
    BY <1>1
  <2> QED
    BY <2>1 DEF InLoop
<1>4. ASSUME NEW n, n = Len(incoming) + 1, InLoop(n)'
      PROVE  looping \/ HeaderAhead
  <2>1. \A j \in 1..n - 1 : j \in 1..Len(incoming) /\ incoming'[j] = incoming[j]
    BY <1>1, <1>4
  <2> QED
    BY <1>4, <2>1 DEF InLoop, HeaderAhead
<1>5. \A i : Flies(i) => Flies(i)' /\ incoming'[i] = incoming[i]
  BY <1>1, <1>3 DEF Flies
<1>6. ASSUME NEW i, Flies(i)'
      PROVE  \/ Flies(i) /\ incoming'[i] = incoming[i]
             \/ /\ i = Len(incoming) + 1 /\ incoming'[i] = item
                /\ IsMeasured(item) /\ (looping \/ HeaderAhead)
  <2>1. i \in 1..Len(incoming') /\ IsMeasured(incoming'[i]) /\ InLoop(i)'
    BY <1>6 DEF Flies
  <2>2. CASE i \in 1..Len(incoming)
    BY <1>1, <1>3, <2>1, <2>2 DEF Flies
  <2>3. CASE i = Len(incoming) + 1 /\ incoming'[i] = item
    BY <1>4, <2>1, <2>3
  <2> QED
    BY <1>2, <2>1, <2>2, <2>3
<1>7. HeaderAhead => HeaderAhead'
  BY <1>1 DEF HeaderAhead
<1>8. HeaderAhead' => HeaderAhead \/ IsHeader(item)
  BY <1>1, <1>2 DEF HeaderAhead
<1> QED
  BY <1>5, <1>6, <1>7, <1>8

(* A measurement comes behind all of its scan, or is lost. *)
LEMMA FlightAfterMeasure ==
  ASSUME LineInv, FlightInv, Lidar!Measure
  PROVE  FlightInv'
<1> DEFINE item == Lidar!Sample(position)
<1>1. /\ UNCHANGED <<starts, buffers, available, unpacking, looping, decoder>>
      /\ position' = position + 1
      /\ \/ incoming' = Append(incoming, item) /\ lost' = lost
         \/ incoming' = incoming /\ lost' = lost \cup {position}
  BY DEF Lidar!Measure, Lidar!main, Lidar!answer, Lidar!mode, Lidar!holder, Lidar!scans,
     Lidar!Received
<1>2. /\ item \in Item /\ IsMeasured(item) /\ ~IsHeader(item)
      /\ item.start = starts /\ item.position = position
  <2>1. item \in Item /\ IsMeasured(item)
    BY DEF Lidar!Sample, Item, Decoded, Measured, IsMeasured, LineInv, LidarTypes
  <2> QED
    BY <2>1, ItemKinds DEF Lidar!Sample
<1> HIDE DEF item
<1>3. position \in Nat /\ lost \in SUBSET Nat /\ LidarTypes
  BY DEF LineInv, LidarTypes
<1>4. /\ \A i : Flies(i) => Flies(i)' /\ incoming'[i] = incoming[i]
      /\ \A i : Flies(i)' =>
           \/ Flies(i) /\ incoming'[i] = incoming[i]
           \/ i = Len(incoming) + 1 /\ incoming'[i] = item /\ (looping \/ HeaderAhead)
      /\ HeaderAhead' <=> HeaderAhead
  <2>1. incoming' = incoming \/ incoming' = Append(incoming, item)
    BY <1>1
  <2> QED
    BY <1>1, <1>2, <1>3, <2>1, FliesAfterArrival
<1>5. /\ Collected' = Collected /\ LastIn' = LastIn /\ FirstIn' = FirstIn
      /\ Lidar!Positions(Collected)' = Lidar!Positions(Collected)
  BY <1>1, SameCollected
<1>6. HoldsSample' = HoldsSample
  BY <1>1 DEF HoldsSample
<1>8. looping \/ HeaderAhead => \A p \in lost : p < position
  BY DEF FlightInv, InOrder
<1>9. /\ \A i : Flies(i) => incoming[i].position \in Nat /\ Current(incoming[i])
                            /\ incoming[i].position < position
      /\ HoldsSample => decoder[1].position \in Nat /\ Current(decoder[1])
                        /\ decoder[1].position < position
      /\ Collected # <<>> => LastIn \in Nat /\ LastIn < position /\ FirstIn \in Nat
  <2>1. \A i : Flies(i) => incoming[i].position \in Nat /\ Current(incoming[i])
    BY <1>3, CollectedTypes DEF FlightInv, InOrder
  <2>2. HoldsSample => decoder[1].position \in Nat /\ Current(decoder[1])
    BY <1>3, CollectedTypes DEF FlightInv, InOrder
  <2>3. Collected # <<>> => LastIn \in Nat /\ FirstIn \in Nat /\ Current(Collected[Len(Collected)])
    BY <1>3, CollectedTypes DEF FlightInv, Collects
  <2> QED
    BY <2>1, <2>2, <2>3 DEF Current, LastIn
<1>10. InOrder'
  <2>1. ASSUME NEW i, Flies(i)'
        PROVE  /\ Current(incoming[i])'
               /\ \A j : Flies(j)' /\ i < j => incoming'[i].position < incoming'[j].position
               /\ HoldsSample' => decoder'[1].position < incoming'[i].position
               /\ Collected' # <<>> => LastIn' < incoming'[i].position
    <3>1. CASE Flies(i) /\ incoming'[i] = incoming[i]
      <4>1. Current(incoming[i])'
        BY <1>1, <1>3, <1>9, <3>1 DEF Current
      <4>2. \A j : Flies(j)' /\ i < j => incoming'[i].position < incoming'[j].position
        BY <1>2, <1>4, <1>9, <3>1 DEF FlightInv, InOrder
      <4> QED
        BY <1>1, <1>5, <1>6, <3>1, <4>1, <4>2 DEF FlightInv, InOrder
    <3>2. CASE i = Len(incoming) + 1 /\ incoming'[i] = item /\ (looping \/ HeaderAhead)
      <4>1. incoming' = Append(incoming, item) /\ lost' = lost
        <5>1. ASSUME incoming' = incoming PROVE FALSE
          BY <2>1, <3>2, <5>1, <1>3 DEF Flies, LidarTypes
        <5> QED
          BY <1>1, <5>1
      <4>2. Current(incoming[i])'
        <5>1. position \notin lost'
          BY <1>3, <1>8, <3>2, <4>1
        <5> QED
          BY <1>1, <1>2, <1>3, <3>2, <5>1 DEF Current
      <4>3. \A j : Flies(j)' => j \in 1..Len(incoming) + 1
        BY <1>3, <4>1 DEF Flies, LidarTypes
      <4>4. \A j : Flies(j)' => ~(i < j)
        BY <1>3, <3>2, <4>3 DEF LidarTypes
      <4> QED
        BY <1>1, <1>2, <1>5, <1>6, <1>9, <3>2, <4>2, <4>4
    <3> QED
      BY <1>4, <2>1, <3>1, <3>2
  <2>2. HoldsSample' =>
          Current(decoder[1])' /\ (Collected' # <<>> => LastIn' < decoder'[1].position)
    <3>1. HoldsSample => Current(decoder[1])'
      BY <1>1, <1>3, <1>9 DEF Current
    <3> QED
      BY <1>1, <1>5, <1>6, <3>1 DEF FlightInv, InOrder
  <2>3. HeaderAhead' \/ looping' \/ HoldsSample' \/ Collected' # <<>> =>
          \A p \in lost' : p < position'
    <3>1. HeaderAhead \/ looping \/ HoldsSample \/ Collected # <<>> => \A p \in lost : p < position
      BY DEF FlightInv, InOrder
    <3>2. \A p \in lost' : p \in Nat /\ (p \in lost \/ p = position)
      BY <1>1, <1>3
    <3> QED
      BY <1>1, <1>3, <1>4, <1>5, <1>6, <3>1, <3>2
  <2> QED
    BY <2>1, <2>2, <2>3 DEF InOrder
<1>11. NoneMissing'
  <2> SUFFICES ASSUME unpacking PROVE NoneMissing'
    BY <1>1 DEF NoneMissing
  <2>1. \A p : UnderWay(p) => UnderWay(p)'
    BY <1>1, <1>4, <1>5, <1>6 DEF UnderWay
  <2>2. \A p \in Nat : UnderWay(p)' => UnderWay(p) \/ p = position
    BY <1>1, <1>2, <1>4, <1>5, <1>6 DEF UnderWay
  <2>3. \A p : UnderWay(p) => looping \/ HeaderAhead
    <3>1. \A i : Flies(i) => looping \/ HeaderAhead
      <4> SUFFICES ASSUME NEW i, Flies(i), ~looping PROVE HeaderAhead
        OBVIOUS
      <4>1. PICK j \in 1..i - 1 : IsHeader(incoming[j])
        BY DEF Flies, InLoop
      <4>2. j \in 1..Len(incoming)
        BY <1>3 DEF Flies, LidarTypes
      <4> QED
        BY <4>1, <4>2 DEF HeaderAhead
    <3>2. HoldsSample \/ Collected # <<>> => looping
      BY DEF FlightInv, NoneMissing
    <3> QED
      BY <3>1, <3>2 DEF UnderWay
  <2>4. ASSUME NEW x \in Nat, NEW p \in Nat, UnderWay(x)', x < p, p < position'
        PROVE  p \in lost' \/ UnderWay(p)'
    <3>1. UnderWay(x)
      BY <1>1, <1>3, <2>2, <2>4
    <3>2. CASE p < position
      BY <1>1, <2>1, <2>4, <3>1, <3>2 DEF FlightInv, NoneMissing
    <3>3. CASE p = position
      <4>1. CASE lost' = lost \cup {position}
        BY <3>3, <4>1
      <4>2. CASE incoming' = Append(incoming, item)
        <5>0. PICK n : n = Len(incoming) + 1
          OBVIOUS
        <5>1. n \in 1..Len(incoming') /\ incoming'[n] = item
          BY <1>2, <1>3, <4>2, <5>0 DEF LidarTypes
        <5>2. InLoop(n)'
          <6>1. CASE looping
            BY <1>1, <6>1 DEF InLoop
          <6>2. CASE HeaderAhead
            <7>1. PICK j \in 1..Len(incoming) : IsHeader(incoming[j])
              BY <6>2 DEF HeaderAhead
            <7>2. j \in 1..n - 1 /\ incoming'[j] = incoming[j]
              BY <1>2, <1>3, <4>2, <5>0 DEF LidarTypes
            <7> QED
              BY <7>1, <7>2 DEF InLoop
          <6> QED
            BY <2>3, <3>1, <6>1, <6>2
        <5>3. Flies(n)' /\ incoming'[n].position = p
          BY <1>2, <3>3, <5>1, <5>2 DEF Flies
        <5> QED
          BY <5>3 DEF UnderWay
      <4> QED
        BY <1>1, <4>1, <4>2
    <3> QED
      BY <1>1, <1>3, <2>4, <3>2, <3>3
  <2> QED
    BY <1>1, <1>5, <1>6, <2>4 DEF FlightInv, NoneMissing
<1>12. NoneBetween'
  BY <1>1, <1>5, <1>6 DEF FlightInv, NoneBetween
<1>13. Collects'
  <2> SUFFICES ASSUME Collected # <<>> PROVE Collects'
    BY <1>5 DEF Collects
  <2>1. ASSUME NEW i \in 1..Len(Collected)
        PROVE  Current(Collected[i])' /\ FirstIn <= Collected[i].position
                                      /\ Collected[i].position <= LastIn
    <3>1. Current(Collected[i]) /\ Collected[i].position \in Nat
      BY <1>3, <2>1, CollectedTypes DEF FlightInv, Collects
    <3> QED
      BY <1>1, <1>3, <1>5, <2>1, <3>1 DEF FlightInv, Collects, Current
  <2>2. lost \subseteq lost'
    BY <1>1
  <2> QED
    BY <1>1, <1>5, <2>1, <2>2 DEF FlightInv, Collects, Lidar!IsSync
<1> QED
  BY <1>10, <1>11, <1>12, <1>13 DEF FlightInv

(* A start finds nothing of a scan on its way (startScanNormal_commonpath). *)
LEMMA FlightAfterStart ==
  ASSUME LineInv, FlightInv, Lidar!StartScan
  PROVE  FlightInv'
<1>1. Quiet
  BY DEF Lidar!StartScan, LineInv, StartsInQuiet
<1>2. /\ buffers' = Lidar!Empty /\ available' = -1
      /\ UNCHANGED <<looping, decoder, incoming>>
  BY DEF Lidar!StartScan, Lidar!ResetHolder
<1>3. Collected' = <<>>
  BY <1>2, EmptyBuffers DEF Collected, Lidar!Operating
<1>4. ~HoldsSample' /\ ~HeaderAhead' /\ ~looping'
  BY <1>1, <1>2 DEF Quiet, HoldsSample, HeaderAhead
<1>5. \A i : ~Flies(i)'
  <2> SUFFICES ASSUME NEW i, Flies(i)' PROVE FALSE
    OBVIOUS
  <2>1. PICK j \in 1..i - 1 : IsHeader(incoming[j])
    BY <1>2, <1>4 DEF Flies, InLoop
  <2>2. j \in 1..Len(incoming)
    BY <1>2 DEF Flies, LineInv, LidarTypes
  <2> QED
    BY <1>1, <2>1, <2>2 DEF Quiet, HeaderAhead
<1> QED
  BY <1>3, <1>4, <1>5 DEF FlightInv, InOrder, NoneMissing, NoneBetween, Collects, UnderWay

(* The header of a new scan comes when nothing of one is on its way. *)
LEMMA FlightAfterObey ==
  ASSUME LineInv, FlightInv, Lidar!Obey
  PROVE  FlightInv'
<1>1. /\ UNCHANGED <<starts, buffers, available, unpacking, looping, decoder>>
      /\ outgoing # <<>> /\ outgoing[1] \in AnswerKinds \cup {"stop", "scan"} /\ LidarTypes
      /\ 1 \in 1..Len(outgoing)
  BY DEF Lidar!Obey, Lidar!main, Lidar!answer, Lidar!mode, Lidar!holder, Lidar!scans,
     LineInv, LidarTypes
<1>2. HoldsSample' = HoldsSample
  BY <1>1 DEF HoldsSample
<1>3. CASE outgoing[1] = "scan"
  <2> DEFINE item == [kind |-> "header"]
  <2>1. item \in Item /\ IsHeader(item) /\ ~IsMeasured(item)
    BY DEF Item, IsHeader, IsMeasured
  <2>2. /\ incoming' = incoming \/ incoming' = Append(incoming, item)
        /\ lost' = {}
    BY <1>1, <1>3 DEF Lidar!Obey, Lidar!MayArrive, Lidar!Received
  <2> HIDE DEF item
  <2>3. ~looping /\ ~HeaderAhead /\ buffers = Lidar!Empty /\ available = -1 /\ ~HoldsSample
    BY <1>1, <1>3 DEF LineInv, OneStart, ScanAhead
  <2>4. Collected' = <<>>
    BY <1>1, <2>3, EmptyBuffers DEF Collected, Lidar!Operating
  <2>5. \A i : ~Flies(i)
    <3> SUFFICES ASSUME NEW i, Flies(i) PROVE FALSE
      OBVIOUS
    <3>1. PICK j \in 1..i - 1 : IsHeader(incoming[j])
      BY <2>3 DEF Flies, InLoop
    <3>2. j \in 1..Len(incoming)
      BY DEF Flies, LineInv, LidarTypes
    <3> QED
      BY <2>3, <3>1, <3>2 DEF HeaderAhead
  <2>6. \A i : ~Flies(i)'
    BY <1>1, <2>1, <2>2, <2>5, FliesAfterArrival
  <2> QED
    BY <1>2, <2>2, <2>3, <2>4, <2>6
       DEF FlightInv, InOrder, NoneMissing, NoneBetween, Collects, UnderWay
<1>4. CASE outgoing[1] # "scan"
  <2>1. \E item \in Item : /\ ~IsMeasured(item) /\ ~IsHeader(item)
                           /\ incoming' = incoming \/ incoming' = Append(incoming, item)
    <3>1. CASE outgoing[1] = "stop"
      <4> DEFINE item == [kind |-> "health"]
      <4>1. item \in Item /\ ~IsMeasured(item) /\ ~IsHeader(item)
        BY DEF Item, Decoded, AnswerKinds, IsMeasured, IsHeader
      <4>2. incoming' = incoming
        BY <3>1 DEF Lidar!Obey
      <4> QED
        BY <4>1, <4>2
    <3>2. CASE outgoing[1] \in AnswerKinds
      <4> DEFINE item == [kind |-> outgoing[1]]
      <4>1. item \in Item /\ ~IsMeasured(item) /\ ~IsHeader(item)
        BY <3>2 DEF Item, Decoded, AnswerKinds, IsMeasured, IsHeader
      <4>2. incoming' = incoming \/ incoming' = Append(incoming, item)
        BY <3>2 DEF Lidar!Obey, Lidar!MayArrive, Lidar!Received, AnswerKinds
      <4> HIDE DEF item
      <4> QED
        BY <4>1, <4>2
    <3> QED
      BY <1>1, <1>4, <3>1, <3>2
  <2>2. UNCHANGED <<position, lost>>
    BY <1>4 DEF Lidar!Obey, Lidar!device
  <2>3. /\ \A i : Flies(i) => Flies(i)' /\ incoming'[i] = incoming[i]
        /\ \A i : Flies(i)' => Flies(i) /\ incoming'[i] = incoming[i]
        /\ HeaderAhead' => HeaderAhead
    BY <1>1, <2>1, FliesAfterArrival
  <2>4. ~unpacking' \/ unpacking
    BY <1>1
  <2> QED
    BY <1>1, <1>2, <2>2, <2>3, <2>4, FlightAsItWas
<1> QED
  BY <1>3, <1>4

(* If the sync sample that ends a revolution was not lost, nothing behind   *)
(* it was collected or is committed.                                        *)
LEMMA EndOfCollected ==
  ASSUME LineInv, FlightInv, HoldsSample, decoder[2] = "commits", Collected # <<>>,
         FirstIn + Samples \notin lost
  PROVE  LastIn < FirstIn + Samples /\ decoder[1].position <= FirstIn + Samples
<1> DEFINE q == FirstIn + Samples
<1>1. /\ LastIn \in Nat /\ FirstIn \in Nat /\ decoder[1].position \in Nat
      /\ 1 \in 1..Len(Collected) /\ Len(Collected) \in Nat
      /\ \A i \in 1..Len(Collected) : Collected[i].position \in Nat
  BY CollectedTypes DEF LineInv
<1>2. q \in Nat /\ FirstIn < q
  BY <1>1, RevolutionFits
<1>3. q % Samples = 0
  <2>1. FirstIn % Samples = 0
    BY DEF FlightInv, Collects, Lidar!IsSync, FirstIn
  <2> QED
    BY <1>1, <2>1, NextRevolution
<1> HIDE DEF q
<1>4. LastIn < q
  <2> SUFFICES ASSUME q <= LastIn PROVE FALSE
    BY <1>1, <1>2
  <2>1. q \notin lost /\ FirstIn <= q
    BY <1>1, <1>2 DEF q
  <2>2. q \in Lidar!Positions(Collected)
    BY <1>2, <2>1 DEF FlightInv, Collects, q
  <2>3. PICK i \in 1..Len(Collected) : Collected[i].position = q
    BY <2>2 DEF Lidar!Positions
  <2>4. i # 1
    BY <1>1, <1>2, <2>3 DEF FirstIn
  <2>5. i \in 2..Len(Collected)
    BY <1>1, <2>4
  <2>6. ~Lidar!IsSync(Collected[i])
    BY <2>5 DEF FlightInv, Collects
  <2> QED
    BY <1>3, <2>3, <2>6 DEF Lidar!IsSync
<1>5. decoder[1].position <= q
  <2> SUFFICES ASSUME q < decoder[1].position PROVE FALSE
    BY <1>1, <1>2
  <2>1. q \in lost
    BY <1>2, <1>4 DEF FlightInv, NoneBetween
  <2> QED
    BY <2>1 DEF q
<1> QED
  BY <1>4, <1>5 DEF q

(* A sample that is pushed finds nobody, completes a scan, or is stored     *)
(* (pushScanNodeData).                                                      *)
LEMMA PushCases ==
  ASSUME LineInv, Lidar!Push
  PROVE  /\ UNCHANGED <<pc, delivered, starts, position, lost, looping, unpacking, incoming>>
         /\ HoldsSample /\ decoder[2] = "commits" /\ ~HoldsSample'
         /\ \/ /\ ~unpacking /\ UNCHANGED <<buffers, available, ready>>
            \/ /\ Lidar!IsSync(decoder[1]) /\ Collected # <<>>
               /\ Collected' = <<decoder[1]>> /\ available' >= 0 /\ ready' = TRUE
               /\ buffers'[available'] = Collected
            \/ /\ ~(Lidar!IsSync(decoder[1]) /\ Collected # <<>>)
               /\ Collected' = Lidar!Stored(Collected, decoder[1])
               /\ UNCHANGED <<available, ready>>
               /\ available >= 0 => buffers'[available] = Lidar!Available
<1>1. /\ UNCHANGED <<pc, delivered, starts, position, lost, looping, unpacking, incoming>>
      /\ decoder # <<>> /\ decoder[2] = "commits" /\ decoder[1].kind = "sample" /\ decoder' = <<>>
  BY DEF Lidar!Push, Lidar!Commits, Lidar!main, Lidar!answer, Lidar!mode, Lidar!scans,
     Lidar!serial, Lidar!device
<1>2. HoldsSample /\ ~HoldsSample'
  BY <1>1 DEF HoldsSample, IsMeasured
<1>3. /\ Lidar!Operating \in 0..1 /\ 1 - Lidar!Operating \in 0..1 /\ Lidar!Operating # 1 - Lidar!Operating
      /\ available >= 0 => available = 1 - Lidar!Operating
      /\ available \in {-1, 0, 1} /\ DOMAIN buffers = 0..1
      /\ available < 0 => Lidar!Operating = 0
  BY OperatingTypes DEF LineInv, LidarTypes, Lidar!Operating
<1>4. CASE ~unpacking /\ UNCHANGED Lidar!holder
  BY <1>1, <1>2, <1>4 DEF Lidar!holder
<1>5. CASE Lidar!PushScanNodeData(decoder[1]) /\ Lidar!IsSync(decoder[1]) /\ Collected # <<>>
  <2>1. /\ buffers' = [buffers EXCEPT ![1 - Lidar!Operating] = <<decoder[1]>>]
        /\ available' = Lidar!Operating /\ ready' = TRUE
    BY <1>5 DEF Lidar!PushScanNodeData, Collected, LineInv, LidarTypes
  <2>2. Lidar!Operating' = 1 - Lidar!Operating
    BY <1>3, <2>1 DEF Lidar!Operating
  <2>3. Collected' = <<decoder[1]>> /\ buffers'[available'] = Collected
    BY <1>3, <2>1, <2>2 DEF Collected
  <2>4. available' >= 0
    BY <1>3, <2>1
  <2>5. /\ Lidar!IsSync(decoder[1]) /\ Collected # <<>>
        /\ Collected' = <<decoder[1]>> /\ available' >= 0 /\ ready' = TRUE
        /\ buffers'[available'] = Collected
    BY <1>5, <2>1, <2>3, <2>4
  <2> QED
    BY <1>1, <1>2, <2>5
<1>6. CASE Lidar!PushScanNodeData(decoder[1]) /\ ~(Lidar!IsSync(decoder[1]) /\ Collected # <<>>)
  <2>1. /\ buffers' = [buffers EXCEPT ![Lidar!Operating] = Lidar!Stored(Collected, decoder[1])]
        /\ available' = available /\ ready' = ready
    BY <1>6 DEF Lidar!PushScanNodeData, Collected, LineInv, LidarTypes
  <2>2. Lidar!Operating' = Lidar!Operating
    BY <2>1 DEF Lidar!Operating
  <2>3. Collected' = Lidar!Stored(Collected, decoder[1])
    BY <1>3, <2>1, <2>2 DEF Collected
  <2>4. available >= 0 => buffers'[available] = Lidar!Available
    BY <1>3, <2>1 DEF Lidar!Available
  <2> QED
    BY <1>1, <1>2, <1>6, <2>1, <2>3, <2>4
<1> QED
  BY <1>4, <1>5, <1>6 DEF Lidar!Push

(* A sample that is pushed continues what is collected, or begins with a    *)
(* sync sample.                                                             *)
LEMMA FlightAfterPush ==
  ASSUME LineInv, FlightInv, Lidar!Push
  PROVE  FlightInv'
<1> DEFINE s == decoder[1]
<1>1. /\ UNCHANGED <<starts, position, lost, looping, unpacking, incoming>>
      /\ HoldsSample /\ decoder[2] = "commits" /\ ~HoldsSample'
  BY PushCases
<1>2. /\ \A i : Flies(i)' <=> Flies(i)
      /\ HeaderAhead' <=> HeaderAhead
  BY <1>1 DEF Flies, InLoop, HeaderAhead
<1>3. /\ s \in Measured /\ s.position \in Nat /\ Current(s)
      /\ Collected # <<>> => LastIn < s.position
      /\ \A i : Flies(i) => s.position < incoming[i].position /\ incoming[i].position \in Nat
      /\ Collected \in Seq(Measured) /\ Len(Collected) \in Nat
      /\ \A i \in 1..Len(Collected) : Collected[i].position \in Nat
      /\ Collected # <<>> => /\ LastIn \in Nat /\ FirstIn \in Nat
                             /\ 1 \in 1..Len(Collected) /\ Len(Collected) \in 1..Len(Collected)
      /\ position \in Nat
  BY <1>1, CollectedTypes DEF FlightInv, InOrder, LineInv
<1>4. \A m : Current(m)' <=> Current(m)
  BY <1>1 DEF Current
<1> HIDE DEF s
<1>5. CASE ~unpacking /\ UNCHANGED <<buffers, available, ready>>
  <2>1. ~unpacking' /\ (HeaderAhead' => HeaderAhead) /\ (looping' => looping)
    BY <1>1, <1>2, <1>5
  <2> QED
    BY <1>1, <1>2, <1>5, <2>1, FlightAsItWas
<1>6. CASE Collected' = <<>> /\ Collected = <<>>
  <2>1. InOrder'
    BY <1>1, <1>2, <1>4, <1>6 DEF FlightInv, InOrder, Current
  <2>2. NoneMissing'
    <3> SUFFICES ASSUME unpacking, NEW x \in Nat, NEW p \in Nat, UnderWay(x)', x < p, p < position
                 PROVE  p \in lost \/ UnderWay(p)'
      BY <1>1, <1>6 DEF NoneMissing
    <3>1. PICK i : Flies(i) /\ incoming[i].position = x
      BY <1>1, <1>2, <1>6 DEF UnderWay
    <3>2. UnderWay(x) /\ s.position < p
      BY <1>3, <3>1 DEF UnderWay
    <3>3. p \in lost \/ UnderWay(p)
      BY <3>2 DEF FlightInv, NoneMissing
    <3>4. UnderWay(p) => UnderWay(p)'
      BY <1>1, <1>2, <1>3, <1>6, <3>2 DEF UnderWay, s
    <3> QED
      BY <3>3, <3>4
  <2> QED
    BY <1>1, <1>6, <2>1, <2>2 DEF FlightInv, NoneBetween, Collects
<1>7. ASSUME Collected' # <<>>, LastIn' = s.position, Collects'
      PROVE  FlightInv'
  <2>1. InOrder'
    <3>1. ASSUME NEW i, Flies(i)'
          PROVE  /\ Current(incoming[i])'
                 /\ \A j : Flies(j)' /\ i < j => incoming'[i].position < incoming'[j].position
                 /\ LastIn' < incoming'[i].position
      BY <1>1, <1>2, <1>3, <1>7, <3>1 DEF FlightInv, InOrder, Current
    <3>2. \A p \in lost' : p < position'
      BY <1>1 DEF FlightInv, InOrder
    <3> QED
      BY <1>1, <3>1, <3>2 DEF InOrder
  <2>2. NoneMissing'
    <3>1. unpacking => looping'
      BY <1>1 DEF FlightInv, NoneMissing
    <3>2. ASSUME unpacking, NEW x \in Nat, NEW p \in Nat, UnderWay(x)', x < p, p < position
          PROVE  p \in lost \/ UnderWay(p)'
      <4>1. UnderWay(x) /\ s.position <= x
        <5>1. CASE \E i : Flies(i) /\ incoming[i].position = x
          BY <1>3, <5>1 DEF UnderWay
        <5>2. CASE s.position = x
          BY <1>1, <1>3, <5>2 DEF UnderWay, s
        <5> QED
          BY <1>1, <1>2, <1>7, <3>2, <5>1, <5>2 DEF UnderWay
      <4>2. p \in lost \/ UnderWay(p)
        BY <3>2, <4>1 DEF FlightInv, NoneMissing
      <4>3. UnderWay(p) => UnderWay(p)'
        <5>1. s.position # p /\ (Collected # <<>> => LastIn # p)
          BY <1>3, <3>2, <4>1
        <5> QED
          BY <1>1, <1>2, <5>1 DEF UnderWay, s
      <4> QED
        BY <4>2, <4>3
    <3> QED
      BY <1>1, <3>1, <3>2 DEF NoneMissing
  <2>3. NoneBetween'
    BY <1>1 DEF NoneBetween
  <2> QED
    BY <1>7, <2>1, <2>2, <2>3 DEF FlightInv
<1>8. CASE Collected' = <<s>> /\ Lidar!IsSync(s)
  <2>1. Collected' # <<>> /\ Len(Collected') = 1 /\ Collected'[1] = s
    BY <1>3, <1>8
  <2>2. LastIn' = s.position /\ FirstIn' = s.position
    BY <2>1 DEF LastIn, FirstIn
  <2>3. s.position \in Lidar!Positions(Collected)'
    BY <2>1 DEF Lidar!Positions
  <2>4. Collects'
    <3>1. \A i \in 1..Len(Collected') : Collected'[i] = s
      BY <2>1
    <3>2. \A i \in 2..Len(Collected') : FALSE
      BY <2>1
    <3>3. \A p \in Nat : s.position <= p /\ p <= s.position => p = s.position
      BY <1>3
    <3>5. \A i \in 1..Len(Collected') : Current(Collected[i])'
      BY <1>1, <1>3, <3>1 DEF Current
    <3>6. Lidar!IsSync(Collected[1])'
      BY <1>8, <2>1 DEF Lidar!IsSync
    <3> QED
      BY <1>3, <2>1, <2>2, <2>3, <3>1, <3>2, <3>3, <3>5, <3>6 DEF Collects
  <2> QED
    BY <1>7, <2>1, <2>2, <2>4
<1>9. CASE Collected # <<>> /\ ~Lidar!IsSync(s) /\ Collected' = Lidar!Stored(Collected, s)
  <2> DEFINE n == Len(Collected')
  <2>1. /\ Collected' # <<>> /\ n \in Nat /\ n \in 1..n /\ Collected'[n] = s
        /\ Len(Collected) <= n /\ n <= Len(Collected) + 1 /\ 1 \in 1..n
        /\ Collected'[1] = Collected[1] /\ n # 1
        /\ \A i \in 1..n : i # n => i \in 1..Len(Collected) /\ Collected'[i] = Collected[i]
        /\ n = Len(Collected) => Capacity <= n
        /\ n # Len(Collected) => \A i \in 1..Len(Collected) : i \in 1..n /\ Collected'[i] = Collected[i]
    <3>1. CASE Len(Collected) < Capacity
      <4>1. Collected' = Append(Collected, s)
        BY <1>9, <3>1 DEF Lidar!Stored
      <4> QED
        BY <1>3, <1>9, <4>1
    <3>2. CASE ~(Len(Collected) < Capacity)
      <4>1. Collected' = [Collected EXCEPT ![Len(Collected)] = s]
        BY <1>9, <3>2 DEF Lidar!Stored
      <4>2. /\ n = Len(Collected) /\ Collected' \in Seq(Measured)
            /\ \A i \in 1..Len(Collected) :
                 Collected'[i] = IF i = Len(Collected) THEN s ELSE Collected[i]
        BY <1>3, <1>9, <4>1, ExceptSeq
      <4>3. Samples # 1
        <5>1. Samples = 1 => s.position % Samples = 0
          BY <1>3
        <5> QED
          BY <1>9, <5>1 DEF Lidar!IsSync
      <4>4. Capacity <= n /\ n # 1
        BY <1>3, <3>2, <4>2, <4>3, RevolutionFits
      <4> QED
        BY <1>3, <1>9, <4>2, <4>4
    <3> QED
      BY <3>1, <3>2
  <2>2. LastIn' = s.position /\ FirstIn' = FirstIn
    BY <2>1 DEF LastIn, FirstIn
  <2>3. LastIn < s.position /\ FirstIn <= LastIn /\ FirstIn + Len(Collected) <= LastIn + 1
    BY <1>3, <1>9 DEF FlightInv, Collects
  <2>4. \A i \in 1..n : /\ Current(Collected'[i]) /\ FirstIn <= Collected'[i].position
                        /\ Collected'[i].position <= s.position
    <3> SUFFICES ASSUME NEW i \in 1..n
                 PROVE  /\ Current(Collected'[i]) /\ FirstIn <= Collected'[i].position
                        /\ Collected'[i].position <= s.position
      OBVIOUS
    <3>1. CASE i = n
      BY <1>3, <1>4, <1>9, <2>1, <2>3, <3>1
    <3>2. CASE i # n
      BY <1>3, <1>4, <1>9, <2>1, <2>3, <3>2 DEF FlightInv, Collects
    <3> QED
      BY <3>1, <3>2
  <2>5. \A i \in 2..n : ~Lidar!IsSync(Collected'[i])
    <3> SUFFICES ASSUME NEW i \in 2..n PROVE ~Lidar!IsSync(Collected'[i])
      OBVIOUS
    <3>1. i \in 1..n
      BY <2>1
    <3>2. CASE i = n
      BY <1>9, <2>1, <3>2
    <3>3. CASE i # n
      <4>1. i \in 2..Len(Collected) /\ Collected'[i] = Collected[i]
        BY <1>3, <2>1, <3>1, <3>3
      <4> QED
        BY <1>9, <4>1 DEF FlightInv, Collects
    <3> QED
      BY <3>2, <3>3
  <2>6. FirstIn + n <= s.position + 1
    BY <1>3, <1>9, <2>1, <2>3
  <2>7. ASSUME FirstIn + Samples \notin lost, NEW p \in Nat, FirstIn <= p, p <= s.position
        PROVE  p \in lost \/ p \in Lidar!Positions(Collected)'
    <3>1. LastIn < FirstIn + Samples /\ s.position <= FirstIn + Samples
      BY <1>1, <1>9, <2>7, EndOfCollected DEF s
    <3>2. s.position # FirstIn + Samples
      <4>1. FirstIn % Samples = 0
        BY <1>9 DEF FlightInv, Collects, Lidar!IsSync, FirstIn
      <4>2. (FirstIn + Samples) % Samples = 0
        BY <1>3, <1>9, <4>1, NextRevolution
      <4> QED
        BY <1>9, <4>2 DEF Lidar!IsSync
    <3>3. n # Len(Collected)
      <4>1. /\ FirstIn \in Nat /\ LastIn \in Nat /\ s.position \in Nat /\ Len(Collected) \in Nat
            /\ LastIn < s.position /\ FirstIn + Len(Collected) <= LastIn + 1
        BY <1>3, <1>9, <2>3
      <4>2. s.position < FirstIn + Samples
        BY <3>1, <3>2, <4>1, RevolutionFits
      <4>3. Len(Collected) < Samples
        BY <4>1, <4>2, RevolutionFits
      <4> QED
        BY <2>1, <4>1, <4>3, RevolutionFits
    <3>4. CASE p <= LastIn
      <4>1. p \in lost \/ p \in Lidar!Positions(Collected)
        BY <1>9, <2>7, <3>4 DEF FlightInv, Collects
      <4>2. p \in Lidar!Positions(Collected) => p \in Lidar!Positions(Collected)'
        BY <2>1, <3>3 DEF Lidar!Positions
      <4> QED
        BY <4>1, <4>2
    <3>5. CASE LastIn < p /\ p < s.position
      BY <1>1, <1>9, <3>5 DEF FlightInv, NoneBetween, s
    <3>6. CASE p = s.position
      BY <2>1, <3>6 DEF Lidar!Positions
    <3> QED
      BY <1>3, <1>9, <2>7, <3>4, <3>5, <3>6
  <2>8. Collects'
    <3>1. Lidar!IsSync(Collected[1])'
      BY <1>9, <2>1 DEF FlightInv, Collects, Lidar!IsSync
    <3>2. \A i \in 1..n : /\ Current(Collected[i])' /\ FirstIn' <= Collected'[i].position
                          /\ Collected'[i].position <= LastIn'
      BY <1>1, <2>2, <2>4 DEF Current
    <3>3. FirstIn' + n <= LastIn' + 1
      BY <2>2, <2>6
    <3>4. \A i \in 2..n : ~Lidar!IsSync(Collected[i])'
      BY <2>5 DEF Lidar!IsSync
    <3>5. FirstIn' + Samples \notin lost' =>
            \A p \in Nat : FirstIn' <= p /\ p <= LastIn' => p \in lost' \/ p \in Lidar!Positions(Collected)'
      BY <1>1, <2>2, <2>7
    <3> QED
      BY <3>1, <3>2, <3>3, <3>4, <3>5 DEF Collects
  <2> QED
    BY <1>7, <2>1, <2>2, <2>8
<1>10. CASE Collected = <<>> /\ Collected' = Lidar!Stored(Collected, s)
  <2>1. CASE Lidar!IsSync(s)
    <3>1. Collected' = Append(<<>>, s)
      BY <1>3, <1>10, <2>1, RevolutionFits DEF Lidar!Stored
    <3>2. Append(<<>>, s) = <<s>>
      BY <1>3
    <3> QED
      BY <1>8, <2>1, <3>1, <3>2
  <2>2. CASE ~Lidar!IsSync(s)
    BY <1>6, <1>10, <2>2 DEF Lidar!Stored
  <2> QED
    BY <2>1, <2>2
<1>11. \/ ~unpacking /\ UNCHANGED <<buffers, available, ready>>
       \/ Collected' = <<s>> /\ Lidar!IsSync(s)
       \/ ~(Lidar!IsSync(s) /\ Collected # <<>>) /\ Collected' = Lidar!Stored(Collected, s)
  BY PushCases DEF s
<1> QED
  BY <1>5, <1>8, <1>9, <1>10, <1>11

(* Every step keeps the order of measurements and what they are of. *)
LEMMA FlightKept ==
  ASSUME LineInv, FlightInv, ~Late, Lidar!Next
  PROVE  FlightInv'
<1> USE DEF LineInv
<1>1. CASE \/ Lidar!Prepare \/ Lidar!Request \/ Lidar!Answered \/ Lidar!TimesOut \/ Lidar!Stops
           \/ Lidar!Exits
           \/ Lidar!Signalled \/ Lidar!GrabTimesOut \/ Lidar!Grab \/ Lidar!SpinSome
           \/ Lidar!CommandLost
  <2>1. /\ UNCHANGED <<starts, position, lost, buffers, available, incoming, decoder>>
        /\ \/ looping' = looping /\ unpacking' = unpacking
           \/ looping' = FALSE /\ unpacking' = FALSE
    <3>1. CASE Lidar!Prepare
      BY <3>1 DEF Lidar!Prepare, Lidar!DisableDataGrabbing, Lidar!holder, Lidar!scans,
         Lidar!serial, Lidar!device
    <3>2. CASE Lidar!Request \/ Lidar!Answered \/ Lidar!TimesOut
      BY <3>2 DEF Lidar!Request, Lidar!Answered, Lidar!TimesOut, Lidar!Transmit, Lidar!mode,
         Lidar!holder, Lidar!scans, Lidar!serial, Lidar!device
    <3>3. CASE Lidar!Stops \/ Lidar!Exits
      BY <3>3 DEF Lidar!Stops, Lidar!Exits, Lidar!Stop, Lidar!DisableDataGrabbing,
         Lidar!Transmit, Lidar!holder, Lidar!scans, Lidar!device
    <3>4. CASE Lidar!Signalled \/ Lidar!GrabTimesOut \/ Lidar!Grab \/ Lidar!SpinSome
      BY <3>4 DEF Lidar!Signalled, Lidar!GrabTimesOut, Lidar!Grab, Lidar!SpinSome,
         Lidar!mode, Lidar!holder, Lidar!scans, Lidar!serial, Lidar!device
    <3>5. CASE Lidar!CommandLost
      BY <3>5 DEF Lidar!CommandLost, Lidar!mode, Lidar!holder, Lidar!scans, Lidar!device
    <3> QED
      BY <1>1, <3>1, <3>2, <3>3, <3>4, <3>5
  <2>2. (HoldsSample' <=> HoldsSample) /\ (HeaderAhead' <=> HeaderAhead)
    BY <2>1 DEF HoldsSample, HeaderAhead
  <2>3. \A i : Flies(i)' => Flies(i) /\ incoming'[i] = incoming[i]
    BY <2>1 DEF Flies, InLoop
  <2>4. looping' = looping => \A i : Flies(i) => Flies(i)' /\ incoming'[i] = incoming[i]
    BY <2>1 DEF Flies, InLoop
  <2>5. looping' => looping
    BY <2>1
  <2>6. \/ ~unpacking'
        \/ /\ unpacking /\ looping' = looping
           /\ \A i : Flies(i) => Flies(i)' /\ incoming'[i] = incoming[i]
           /\ HoldsSample => HoldsSample' /\ decoder' = decoder
    BY <2>1, <2>2, <2>4
  <2> QED
    BY <2>1, <2>2, <2>3, <2>5, <2>6, FlightAsItWas
<1>2. CASE Lidar!SetResult
  <2>1. /\ UNCHANGED <<starts, position, lost, buffers, available, incoming, looping, unpacking>>
        /\ ~HoldsSample /\ ~HoldsSample'
    BY <1>2 DEF Lidar!SetResult, Lidar!Commits, Lidar!mode, Lidar!holder, Lidar!scans,
       Lidar!serial, Lidar!device, HoldsSample, IsMeasured
  <2>2. /\ \A i : Flies(i)' <=> Flies(i)
        /\ HeaderAhead' <=> HeaderAhead
    BY <2>1 DEF Flies, InLoop, HeaderAhead
  <2>3. ~unpacking' \/ unpacking
    BY <2>1
  <2> QED
    BY <2>1, <2>2, <2>3, FlightAsItWas
<1>3. CASE Lidar!StartScan
  BY <1>3, FlightAfterStart
<1>4. CASE Lidar!Decode
  BY <1>4, FlightAfterDecode
<1>5. CASE Lidar!Check
  BY <1>5, FlightAfterCheck
<1>6. CASE Lidar!Push
  BY <1>6, FlightAfterPush
<1>7. CASE Lidar!Obey
  BY <1>7, FlightAfterObey
<1>8. CASE Lidar!Measure
  BY <1>8, FlightAfterMeasure
<1> QED
  BY <1>1, <1>2, <1>3, <1>4, <1>5, <1>6, <1>7, <1>8, Zenon DEF Lidar!Next

-----------------------------------------------------------------------------
(* LiDAR: the scan that is delivered *)

(* What is available are measurements. *)
LEMMA AvailableTypes ==
  ASSUME LidarTypes, available >= 0
  PROVE  /\ Lidar!Available \in Seq(Measured)
         /\ \A i \in 1..Len(Lidar!Available) : Lidar!Available[i].position \in Nat
         /\ Lidar!Available # <<>> => Lidar!Available[1].position \in Nat
<1>1. Lidar!Available \in Seq(Measured)
  BY OperatingTypes
<1>2. \A m \in Measured : m.position \in Nat
  BY DEF Measured
<1> QED
  BY <1>1, <1>2

(* A step that leaves the buffers alone leaves alone what is handed over. *)
LEMMA HandOverAsItWas ==
  ASSUME LidarTypes, HandOver, UNCHANGED <<starts, position, lost, buffers, available, delivered>>,
         ready' => ready, pc' = "grabs" => pc = "grabs" \/ ready
  PROVE  HandOver'
<1>1. /\ Collected' = Collected /\ FirstIn' = FirstIn /\ Lidar!Available' = Lidar!Available
  BY SameCollected
<1>2. available >= 0 => (Whole(Lidar!Available) => Whole(Lidar!Available)')
  BY <1>1 DEF Whole, Lidar!Positions, Lidar!IsSync
<1> QED
  BY <1>1, <1>2 DEF HandOver

(* A later measurement is none of a scan that is complete. *)
LEMMA HandOverAfterMeasure ==
  ASSUME LineInv, HandOver, Lidar!Measure
  PROVE  HandOver'
<1>1. /\ UNCHANGED <<starts, buffers, available, delivered, ready, pc>>
      /\ position' = position + 1 /\ position \in Nat
      /\ lost' = lost \/ lost' = lost \cup {position}
      /\ LidarTypes
  BY DEF Lidar!Measure, Lidar!main, Lidar!holder, Lidar!scans, LineInv, LidarTypes
<1>2. /\ Collected' = Collected /\ FirstIn' = FirstIn /\ Lidar!Available' = Lidar!Available
  BY <1>1, SameCollected
<1>3. ASSUME available >= 0 PROVE Whole(Lidar!Available)'
  <2>1. Whole(Lidar!Available) /\ Lidar!Available[1].position \in Nat
    BY <1>1, <1>3, AvailableTypes DEF HandOver, Whole
  <2> DEFINE a == Lidar!Available[1].position
  <2>2. a \in Nat /\ a + Samples < position
    BY <2>1 DEF Whole
  <2>3. a + Samples \notin lost' => a + Samples \notin lost
    BY <1>1
  <2>4. (a..a + Samples - 1) \ lost' = (a..a + Samples - 1) \ lost
    BY <1>1, <2>2, RevolutionFits
  <2>5. Lidar!Positions(Lidar!Available)' = Lidar!Positions(Lidar!Available)
    BY <1>2 DEF Lidar!Positions
  <2>6. a + Samples < position'
    BY <1>1, <2>2, RevolutionFits
  <2> QED
    BY <1>1, <1>2, <2>1, <2>3, <2>4, <2>5, <2>6 DEF Whole, Lidar!IsSync
<1> QED
  BY <1>1, <1>2, <1>3 DEF HandOver

(* The sync sample of the next revolution completes the one that was        *)
(* collected, and that is later than any delivered (pushScanNodeData).      *)
LEMMA HandOverAfterPush ==
  ASSUME LineInv, FlightInv, HandOver, Lidar!Push
  PROVE  HandOver'
<1>1. /\ UNCHANGED <<pc, delivered, starts, position, lost>>
      /\ HoldsSample /\ decoder[2] = "commits"
  BY PushCases
<1>2. LidarTypes
  BY DEF LineInv
<1>3. CASE UNCHANGED <<buffers, available, ready>>
  BY <1>1, <1>2, <1>3, HandOverAsItWas
<1>4. CASE /\ Lidar!IsSync(decoder[1]) /\ Collected # <<>>
           /\ Collected' = <<decoder[1]>> /\ available' >= 0 /\ ready' = TRUE
           /\ buffers'[available'] = Collected
  <2> DEFINE s == decoder[1]
  <2>1. /\ Collected \in Seq(Measured) /\ Len(Collected) \in Nat /\ 1 \in 1..Len(Collected)
        /\ \A i \in 1..Len(Collected) : Collected[i].position \in Nat
        /\ FirstIn \in Nat /\ LastIn \in Nat /\ s.position \in Nat
        /\ LastIn < s.position /\ Current(s) /\ position \in Nat
    BY <1>1, <1>2, <1>4, CollectedTypes DEF FlightInv, InOrder
  <2>2. Lidar!Available' = Collected /\ FirstIn' = s.position /\ Collected' # <<>>
    BY <1>4 DEF Lidar!Available, FirstIn
  <2>3. /\ \A i \in 1..Len(Collected) : Current(Collected[i]) /\ FirstIn <= Collected[i].position
                                        /\ Collected[i].position <= LastIn
        /\ Lidar!IsSync(Collected[1])
    BY <1>4 DEF FlightInv, Collects
  <2>4. FirstIn <= LastIn /\ FirstIn < s.position
    BY <2>1, <2>3
  <2>5. FirstIn + Samples <= s.position /\ s.position < position
    BY <1>4, <2>1, <2>3, <2>4, Revolutions DEF Lidar!IsSync, FirstIn, Current
  <2>6. ASSUME FirstIn + Samples \notin lost
        PROVE  Lidar!Positions(Collected) = (FirstIn..FirstIn + Samples - 1) \ lost
    <3>1. LastIn < FirstIn + Samples
      BY <1>1, <1>4, <2>6, EndOfCollected
    <3>2. ASSUME NEW i \in 1..Len(Collected)
          PROVE  Collected[i].position \in (FirstIn..FirstIn + Samples - 1) \ lost
      BY <2>1, <2>3, <3>1, <3>2, RevolutionFits DEF Current
    <3>3. ASSUME NEW p \in FirstIn..FirstIn + Samples - 1, p \notin lost
          PROVE  p \in Lidar!Positions(Collected)
      <4>1. p \in Nat /\ FirstIn <= p /\ p < s.position
        BY <2>1, <2>5, <3>3, RevolutionFits
      <4>2. CASE p <= LastIn
        BY <1>4, <2>6, <3>3, <4>1, <4>2 DEF FlightInv, Collects
      <4>3. CASE LastIn < p
        BY <1>1, <1>4, <3>3, <4>1, <4>3 DEF FlightInv, NoneBetween
      <4> QED
        BY <2>1, <4>1, <4>2, <4>3
    <3> QED
      BY <3>2, <3>3 DEF Lidar!Positions
  <2>7. Whole(Collected)
    BY <1>4, <2>1, <2>3, <2>5, <2>6, RevolutionFits DEF Whole, FirstIn, Current
  <2>8. Whole(Lidar!Available)'
    <3>1. Lidar!Positions(Lidar!Available)' = Lidar!Positions(Collected)
      BY <2>2 DEF Lidar!Positions
    <3> QED
      BY <1>1, <2>2, <2>7, <3>1 DEF Whole, Lidar!IsSync
  <2>9. Lidar!Available'[1].position = FirstIn
    BY <2>2 DEF FirstIn
  <2>10. delivered # <<>> /\ delivered[1].start = starts =>
           delivered[1].position < Lidar!Available'[1].position
    <3> SUFFICES ASSUME delivered # <<>>, delivered[1].start = starts
                 PROVE  delivered[1].position < FirstIn
      BY <2>9
    <3>1. /\ available >= 0 /\ Lidar!Available[1].position < FirstIn /\ Lidar!Available # <<>>
          /\ delivered = Lidar!Available \/ delivered[1].position < Lidar!Available[1].position
      BY DEF HandOver, Whole
    <3>2. Lidar!Available[1].position \in Nat
      BY <1>2, <3>1, AvailableTypes
    <3>3. delivered[1].position \in Nat
      <4>1. 1 \in 1..Len(delivered) /\ delivered \in Seq(Measured)
        BY <1>2 DEF LidarTypes
      <4>2. delivered[1] \in Measured
        BY <4>1
      <4> QED
        BY <4>2 DEF Measured
    <3> QED
      BY <2>1, <3>1, <3>2, <3>3
  <2> QED
    BY <1>1, <1>4, <2>2, <2>4, <2>8, <2>9, <2>10 DEF HandOver
<1>5. CASE /\ ~(Lidar!IsSync(decoder[1]) /\ Collected # <<>>)
           /\ Collected' = Lidar!Stored(Collected, decoder[1])
           /\ UNCHANGED <<available, ready>>
           /\ available >= 0 => buffers'[available] = Lidar!Available
  <2>1. available >= 0 => Lidar!Available' = Lidar!Available
    BY <1>5 DEF Lidar!Available
  <2>2. available >= 0 => (Whole(Lidar!Available) => Whole(Lidar!Available)')
    BY <1>1, <2>1 DEF Whole, Lidar!Positions, Lidar!IsSync
  <2>3. available >= 0 => Collected' # <<>> /\ FirstIn' = FirstIn
    <3> SUFFICES ASSUME available >= 0 PROVE Collected' # <<>> /\ FirstIn' = FirstIn
      OBVIOUS
    <3>1. /\ Collected # <<>> /\ Collected \in Seq(Measured) /\ Len(Collected) \in Nat
          /\ decoder[1] \in Measured /\ ~Lidar!IsSync(decoder[1])
      BY <1>1, <1>2, <1>5, CollectedTypes DEF HandOver
    <3>2. CASE Len(Collected) < Capacity
      <4>1. Collected' = Append(Collected, decoder[1])
        BY <1>5, <3>1, <3>2 DEF Lidar!Stored
      <4> QED
        BY <3>1, <4>1 DEF FirstIn
    <3>3. CASE ~(Len(Collected) < Capacity)
      <4>1. Collected' = [Collected EXCEPT ![Len(Collected)] = decoder[1]]
        BY <1>5, <3>1, <3>3 DEF Lidar!Stored
      <4>2. Samples # 1
        <5>1. Samples = 1 => decoder[1].position % Samples = 0
          BY <3>1 DEF Measured
        <5> QED
          BY <3>1, <5>1 DEF Lidar!IsSync
      <4>3. Len(Collected) # 1
        <5>1. Len(Collected) \in Nat /\ Capacity <= Len(Collected)
          BY <3>1, <3>3, RevolutionFits
        <5>2. 1 < Capacity
          BY <4>2, RevolutionFits
        <5> QED
          BY <5>1, <5>2, RevolutionFits
      <4> QED
        BY <3>1, <4>1, <4>3, ExceptSeq DEF FirstIn
    <3> QED
      BY <3>2, <3>3
  <2> QED
    BY <1>1, <1>5, <2>1, <2>2, <2>3 DEF HandOver
<1> QED
  BY <1>3, <1>4, <1>5, PushCases

(* Every step keeps what is available whole, and behind what was delivered. *)
LEMMA HandOverKept ==
  ASSUME LineInv, FlightInv, HandOver, Lidar!Next
  PROVE  HandOver'
<1>0. LidarTypes
  BY DEF LineInv
<1>1. CASE \/ Lidar!Prepare \/ Lidar!Request \/ Lidar!Answered \/ Lidar!TimesOut \/ Lidar!Stops
           \/ Lidar!Exits
           \/ Lidar!GrabTimesOut \/ Lidar!SpinSome \/ Lidar!Decode \/ Lidar!Check
           \/ Lidar!SetResult \/ Lidar!CommandLost
  <2>1. UNCHANGED <<starts, position, lost, buffers, available, delivered, ready>>
    <3>1. CASE Lidar!Prepare \/ Lidar!Request \/ Lidar!Answered \/ Lidar!TimesOut
      BY <3>1 DEF Lidar!Prepare, Lidar!Request, Lidar!Answered, Lidar!TimesOut,
         Lidar!DisableDataGrabbing, Lidar!Transmit, Lidar!holder,
                  Lidar!scans, Lidar!serial, Lidar!device
    <3>2. CASE Lidar!Stops \/ Lidar!Exits \/ Lidar!GrabTimesOut \/ Lidar!SpinSome
      BY <3>2 DEF Lidar!Stops, Lidar!Exits, Lidar!Stop, Lidar!GrabTimesOut, Lidar!SpinSome,
         Lidar!holder, Lidar!scans, Lidar!device
    <3>3. CASE Lidar!Decode \/ Lidar!Check \/ Lidar!SetResult \/ Lidar!CommandLost
      BY <3>3 DEF Lidar!Decode, Lidar!Check, Lidar!SetResult, Lidar!Commits,
         Lidar!CommandLost, Lidar!holder, Lidar!scans, Lidar!device
    <3> QED
      BY <1>1, <3>1, <3>2, <3>3
  <2>2. pc' = "grabs" => pc = "grabs"
    <3>1. CASE \/ Lidar!Prepare \/ Lidar!Request \/ Lidar!Stops \/ Lidar!Exits
               \/ Lidar!GrabTimesOut \/ Lidar!SpinSome
      BY <3>1 DEF Lidar!Prepare, Lidar!Request, Lidar!Stops, Lidar!Exits, Lidar!Stop,
         Lidar!GrabTimesOut, Lidar!SpinSome
    <3>2. CASE Lidar!Answered \/ Lidar!TimesOut
      <4>1. pc \in DOMAIN Lidar!Asks
        BY <1>0, <3>2 DEF Lidar!Answered, Lidar!TimesOut, LidarTypes
      <4>2. pc' # "grabs"
        BY <3>2, <4>1 DEF Lidar!Answered, Lidar!TimesOut, Lidar!Asks, Lidar!ConnectAsks,
           Lidar!NodeAsks, Lidar!StartAsks
      <4> QED
        BY <4>2
    <3>3. CASE Lidar!Decode \/ Lidar!Check \/ Lidar!SetResult \/ Lidar!CommandLost
      BY <3>3 DEF Lidar!Decode, Lidar!Check, Lidar!SetResult, Lidar!CommandLost, Lidar!main
    <3> QED
      BY <1>1, <3>1, <3>2, <3>3
  <2> QED
    BY <1>0, <2>1, <2>2, HandOverAsItWas
<1>2. CASE Lidar!StartScan
  <2>1. available' = -1 /\ ready' = FALSE /\ pc' = "loop" /\ starts' = starts + 1
        /\ delivered' = delivered
    BY <1>2 DEF Lidar!StartScan, Lidar!ResetHolder
  <2>2. delivered # <<>> => delivered[1].start \in Nat
    <3> SUFFICES ASSUME delivered # <<>> PROVE delivered[1].start \in Nat
      OBVIOUS
    <3>1. 1 \in 1..Len(delivered) /\ delivered \in Seq(Measured)
      BY <1>0 DEF LidarTypes
    <3>2. delivered[1] \in Measured
      BY <3>1
    <3> QED
      BY <3>2 DEF Measured
  <2> QED
    BY <1>0, <2>1, <2>2 DEF HandOver, LidarTypes
<1>3. CASE Lidar!Signalled
  <2>1. UNCHANGED <<starts, position, lost, buffers, available, delivered>> /\ ready
        /\ ready' = FALSE
    BY <1>3 DEF Lidar!Signalled, Lidar!scans, Lidar!device
  <2> QED
    BY <1>0, <2>1, HandOverAsItWas
<1>4. CASE Lidar!Grab
  <2>1. UNCHANGED <<starts, position, lost, buffers, available, ready>> /\ pc = "grabs"
        /\ pc' = "spin" /\ delivered' = Lidar!Available
    BY <1>4 DEF Lidar!Grab, Lidar!holder, Lidar!device
  <2>2. /\ Collected' = Collected /\ FirstIn' = FirstIn /\ Lidar!Available' = Lidar!Available
    BY <2>1, SameCollected
  <2>3. available >= 0 /\ Whole(Lidar!Available)
    BY <2>1 DEF HandOver
  <2>4. Whole(Lidar!Available)'
    BY <2>1, <2>2, <2>3 DEF Whole, Lidar!Positions, Lidar!IsSync
  <2>5. delivered'[1].start = starts /\ starts \in Nat
    <3>1. 1 \in 1..Len(Lidar!Available)
      BY <1>0, <2>3, AvailableTypes DEF Whole
    <3> QED
      BY <1>0, <2>1, <2>3, <3>1 DEF Whole, LidarTypes
  <2> QED
    BY <2>1, <2>2, <2>3, <2>4, <2>5 DEF HandOver
<1>5. CASE Lidar!Push
  BY <1>5, HandOverAfterPush
<1>6. CASE Lidar!Obey
  <2>1. UNCHANGED <<starts, buffers, available, delivered, ready, pc>>
    BY <1>6 DEF Lidar!Obey, Lidar!main, Lidar!holder, Lidar!scans
  <2>2. CASE Head(outgoing) = "scan"
    <3>1. ScanAhead
      <4>1. 1 \in 1..Len(outgoing) /\ outgoing[1] = "scan"
        BY <1>0, <1>6, <2>2 DEF Lidar!Obey, LidarTypes
      <4> QED
        BY <4>1 DEF ScanAhead
    <3>2. available = -1
      BY <3>1 DEF LineInv, OneStart
    <3> QED
      BY <2>1, <3>2 DEF HandOver
  <2>3. CASE Head(outgoing) # "scan"
    <3>1. UNCHANGED <<position, lost>>
      BY <1>6, <2>3 DEF Lidar!Obey, Lidar!device
    <3> QED
      BY <1>0, <2>1, <3>1, HandOverAsItWas
  <2> QED
    BY <2>2, <2>3
<1>7. CASE Lidar!Measure
  BY <1>7, HandOverAfterMeasure
<1> QED
  BY <1>1, <1>2, <1>3, <1>4, <1>5, <1>6, <1>7, Zenon DEF Lidar!Next

(* At the start nothing is on the line and nothing collected, though the    *)
(* device may be scanning.                                                  *)
LEMMA LidarStarts == Lidar!Init => LidarInv
<1> SUFFICES ASSUME Lidar!Init PROVE LidarInv
  OBVIOUS
<1> USE DEF Lidar!Init
<1>1. LidarTypes
  BY EmptyBuffers DEF LidarTypes
<1>2. Collected = <<>> /\ ~HoldsSample /\ ~HoldsAnswer /\ incoming = <<>> /\ outgoing = <<>>
  BY EmptyBuffers DEF Collected, Lidar!Operating, HoldsSample, HoldsAnswer
<1>3. \A i : ~Flies(i)
  BY <1>2 DEF Flies
<1>4. ~ScanAhead /\ ~HeaderAhead
  BY <1>2 DEF ScanAhead, HeaderAhead
<1>5. LineInv
  BY <1>1, <1>2, <1>4 DEF LineInv, OneAnswer, StartsInQuiet, OneStart
<1>6. FlightInv
  BY <1>2, <1>3, <1>4 DEF FlightInv, InOrder, NoneMissing, NoneBetween, Collects, UnderWay
<1>7. HandOver
  BY DEF HandOver
<1> QED
  BY <1>5, <1>6, <1>7 DEF LidarInv

(* Every step of the node and its device keeps the invariant. *)
LEMMA LidarKept ==
  ASSUME LidarInv, ~Late, [Lidar!Next]_(Lidar!vars)
  PROVE  LidarInv'
<1>1. CASE Lidar!Next
  <2>1. LineInv /\ FlightInv /\ HandOver /\ (pc = "grabs" => available >= 0)
    BY DEF LidarInv, HandOver
  <2>2. LineInv'
    BY <1>1, <2>1, LineKept
  <2>3. FlightInv'
    BY <1>1, <2>1, FlightKept
  <2>4. HandOver'
    BY <1>1, <2>1, HandOverKept
  <2> QED
    BY <2>2, <2>3, <2>4 DEF LidarInv
<1>2. CASE UNCHANGED Lidar!vars
  <2>1. UNCHANGED <<pc, request, answered, unpacking, looping, decoder, buffers, available, ready,
                    starts, delivered, outgoing, incoming, position, lost>>
    BY <1>2 DEF Lidar!vars, Lidar!main, Lidar!answer, Lidar!mode, Lidar!holder, Lidar!scans,
       Lidar!serial, Lidar!device
  <2>2. LineInv'
    BY <2>1, LineAfterMain DEF LidarInv, LineInv, LidarTypes, StartsInQuiet
  <2>3. /\ \A i : Flies(i)' <=> Flies(i)
        /\ (HoldsSample' <=> HoldsSample) /\ (HeaderAhead' <=> HeaderAhead)
        /\ ~unpacking' \/ unpacking
    BY <2>1 DEF Flies, InLoop, HoldsSample, HeaderAhead
  <2>4. FlightInv'
    BY <2>1, <2>3, FlightAsItWas DEF LidarInv
  <2>5. HandOver'
    BY <2>1, HandOverAsItWas DEF LidarInv, LineInv
  <2> QED
    BY <2>2, <2>4, <2>5 DEF LidarInv
<1> QED
  BY <1>1, <1>2

(* A scan that is delivered was available, so it is whole and new. *)
LEMMA DeliveredIsNew ==
  ASSUME LidarInv, [Lidar!Next]_(Lidar!vars), Lidar!Delivers
  PROVE  /\ \A i \in 1..Len(delivered') : delivered'[i].start = starts
         /\ (delivered # <<>> /\ delivered[1].start = starts)
              => delivered[1].position < delivered'[1].position
         /\ Lidar!IsSync(delivered'[1])
         /\ delivered'[1].position + Samples \notin lost
              => Lidar!Positions(delivered') = (delivered'[1].position..delivered'[1].position + Samples - 1) \ lost
<1>1. Lidar!Grab
  <2>1. CASE UNCHANGED Lidar!vars
    BY <2>1 DEF Lidar!vars, Lidar!scans, Lidar!Delivers
  <2>2. CASE \/ Lidar!Prepare \/ Lidar!Request \/ Lidar!Answered \/ Lidar!TimesOut
             \/ Lidar!Stops \/ Lidar!Exits
    BY <2>2 DEF Lidar!Prepare, Lidar!Request, Lidar!Answered, Lidar!TimesOut, Lidar!Stops,
       Lidar!Exits, Lidar!Stop, Lidar!scans, Lidar!Delivers
  <2>3. CASE Lidar!StartScan \/ Lidar!Signalled \/ Lidar!GrabTimesOut \/ Lidar!SpinSome
    BY <2>3 DEF Lidar!StartScan, Lidar!Signalled, Lidar!GrabTimesOut, Lidar!SpinSome,
       Lidar!scans, Lidar!Delivers
  <2>4. CASE Lidar!Decode \/ Lidar!Check \/ Lidar!SetResult \/ Lidar!Push
    BY <2>4 DEF Lidar!Decode, Lidar!Check, Lidar!SetResult, Lidar!Push, Lidar!scans,
       Lidar!Delivers
  <2>5. CASE Lidar!Obey \/ Lidar!CommandLost \/ Lidar!Measure
    BY <2>5 DEF Lidar!Obey, Lidar!CommandLost, Lidar!Measure, Lidar!scans, Lidar!Delivers
  <2>6. CASE Lidar!Next
    BY <2>2, <2>3, <2>4, <2>5, <2>6, Zenon DEF Lidar!Next
  <2> QED
    BY <2>1, <2>6
<1>2. pc = "grabs" /\ delivered' = Lidar!Available
  BY <1>1 DEF Lidar!Grab
<1>3. available >= 0 /\ Whole(Lidar!Available)
  BY <1>2 DEF LidarInv, HandOver
<1> QED
  BY <1>2, <1>3 DEF LidarInv, HandOver, Whole, Lidar!Delivers

(* The drivers together do to the LiDAR only what its node does. *)
THEOREM LidarNodeRuns == DriversSpec => Lidar!Spec
<1>1. DriversInit => Lidar!Init
  BY DEF DriversInit
<1>2. ASSUME [DriversNext]_<<driver, vars, ahrs, gimbal, lidar>>
      PROVE  [Lidar!Next]_(Lidar!vars)
  <2>1. CASE LidarRuns
    BY <2>1 DEF LidarRuns
  <2>2. CASE UNCHANGED lidar
    BY <2>2 DEF lidar, Lidar!vars, Lidar!main, Lidar!answer, Lidar!mode, Lidar!holder,
       Lidar!scans, Lidar!serial, Lidar!device
  <2>3. LidarRuns \/ UNCHANGED lidar
    BY <1>2 DEF DriversNext, OdometryRuns, AhrsRuns, GimbalRuns
  <2> QED
    BY <2>1, <2>2, <2>3
<1>3. [DriversNext]_<<driver, vars, ahrs, gimbal, lidar>> => [Lidar!Next]_(Lidar!vars)
  BY <1>2
<1> QED
  BY <1>1, <1>3, PTL DEF DriversSpec, Lidar!Spec

(* For every size of a revolution and a buffer that holds it, while answers *)
(* come within their wait: however late the decoder is with what it took, a *)
(* scan holds nothing of before the last scan command, and scans come in    *)
(* the order of their measurements (startScanNormal_commonpath,             *)
(* waitAndLockAvailableScan).                                               *)
THEOREM ScansAreNew ==
  ASSUME ~Late
  PROVE  DriversSpec => ScanIsNew
<1>1. Lidar!Init => LidarInv
  BY LidarStarts
<1>2. LidarInv /\ [Lidar!Next]_(Lidar!vars) => LidarInv'
  BY LidarKept
<1>3. LidarInv /\ [Lidar!Next]_(Lidar!vars) =>
        [Lidar!Delivers =>
           /\ \A i \in 1..Len(delivered') : delivered'[i].start = starts
           /\ (delivered # <<>> /\ delivered[1].start = starts)
                => delivered[1].position < delivered'[1].position]_(Lidar!vars)
  BY DeliveredIsNew
<1>4. Lidar!Spec => Lidar!ScanIsNew
  BY <1>1, <1>2, <1>3, PTL DEF Lidar!Spec, Lidar!ScanIsNew
<1> QED
  BY <1>4, LidarNodeRuns, PTL DEF ScanIsNew

(* Under the same assumption, and whichever commands, answers and samples   *)
(* are lost: a scan begins with a sync sample, and when that of the next    *)
(* revolution arrived it is all that arrived of its own and nothing else    *)
(* (pushScanNodeData).                                                      *)
THEOREM ScansAreRevolutions ==
  ASSUME ~Late
  PROVE  DriversSpec => ScanIsOneRevolution
<1>1. Lidar!Init => LidarInv
  BY LidarStarts
<1>2. LidarInv /\ [Lidar!Next]_(Lidar!vars) => LidarInv'
  BY LidarKept
<1>3. LidarInv /\ [Lidar!Next]_(Lidar!vars) =>
        [Lidar!Delivers =>
           LET first == delivered'[1].position IN
             /\ Lidar!IsSync(delivered'[1])
             /\ first + Samples \notin lost
                  => Lidar!Positions(delivered') = (first..first + Samples - 1) \ lost]_(Lidar!vars)
  BY DeliveredIsNew
<1>4. Lidar!Spec => Lidar!ScanIsOneRevolution
  BY <1>1, <1>2, <1>3, PTL DEF Lidar!Spec, Lidar!ScanIsOneRevolution
<1> QED
  BY <1>4, LidarNodeRuns, PTL DEF ScanIsOneRevolution
=============================================================================
