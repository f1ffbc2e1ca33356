----------------------------- MODULE RunLedger ------------------------------
(***************************************************************************)
(* What the capture disk promises to its reader, the Jetson that collects  *)
(* runs: every mission owns at most one run, a run's records only grow, a  *)
(* shipped run never changes again and is never one that was aborted.      *)
(***************************************************************************)
CONSTANTS Run, Mission, NoMission

VARIABLES
  owner,    \* {} for a run nobody opened, else the singleton of its mission
  stored,   \* the capture records of a run
  shipped,  \* runs handed over
  aborted   \* runs given up

Init ==
  /\ owner = [r \in Run |-> {}] /\ stored = [r \in Run |-> {}]
  /\ shipped = {} /\ aborted = {}

Open(r, m) ==
  /\ owner[r] = {}
  /\ m = NoMission \/ \A s \in Run : m \notin owner[s]
  /\ owner' = [owner EXCEPT ![r] = {m}]
  /\ UNCHANGED <<stored, shipped, aborted>>

(* Records are added to an open run, which may be given up on the way. *)
Persist(r) ==
  /\ owner[r] # {} /\ r \notin shipped
  /\ stored[r] \subseteq stored'[r]
  /\ \A s \in Run \ {r} : stored'[s] = stored[s]
  /\ aborted' \in {aborted, aborted \cup {r}}
  /\ UNCHANGED <<owner, shipped>>

Ship(r) ==
  /\ owner[r] # {} /\ r \notin aborted
  /\ shipped' = shipped \cup {r}
  /\ UNCHANGED <<owner, stored, aborted>>

Next == \E r \in Run : \/ \E m \in Mission \cup {NoMission} : Open(r, m)
                       \/ Persist(r) \/ Ship(r)

Spec == Init /\ [][Next]_<<owner, stored, shipped, aborted>>
=============================================================================
