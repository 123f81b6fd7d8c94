----------------------------- MODULE DurableLog -----------------------------
(***************************************************************************)
(* What the raw event log of a session promises, without queues, threads,  *)
(* segments or locks.  A run of the recorder accepts events; a prefix of   *)
(* what it accepted becomes stable and never stops being so; once the run  *)
(* stops it accepts nothing more; and it is sealed (a manifest vouches for *)
(* it) only when everything it accepted is stable.                         *)
(***************************************************************************)
EXTENDS Naturals

CONSTANT Runs  \* the processes that record this session, one after the other

VARIABLES
  accepted,   \* events each run has accepted
  stable,     \* of these, the prefix no crash can take away
  stopped,    \* the runs that accept no more
  sealed      \* the runs a manifest vouches for

lvars == <<accepted, stable, stopped, sealed>>

Init ==
  /\ accepted = [r \in Runs |-> 0]
  /\ stable = [r \in Runs |-> 0]
  /\ stopped = {}
  /\ sealed = {}

Accept(r) ==
  /\ r \notin stopped
  /\ accepted' = [accepted EXCEPT ![r] = @ + 1]
  /\ UNCHANGED <<stable, stopped, sealed>>

Stabilise(r) ==
  /\ \E n \in stable[r] .. accepted[r] : stable' = [stable EXCEPT ![r] = n]
  /\ UNCHANGED <<accepted, stopped, sealed>>

(* A new process may salvage what several dead ones left behind.            *)
Salvage ==
  /\ stable' \in [Runs -> Nat]
  /\ \A r \in Runs :
       /\ stable[r] <= stable'[r]
       /\ stable'[r] <= accepted[r]
       /\ stable'[r] # stable[r] => r \in stopped
  /\ UNCHANGED <<accepted, stopped, sealed>>

Stop(r) ==
  /\ stopped' = stopped \cup {r}
  /\ UNCHANGED <<accepted, stable, sealed>>

Seal(r) ==
  /\ r \in stopped
  /\ stable[r] = accepted[r]
  /\ sealed' = sealed \cup {r}
  /\ UNCHANGED <<accepted, stable, stopped>>

Next ==
  \/ \E r \in Runs : Accept(r) \/ Stabilise(r) \/ Stop(r) \/ Seal(r)
  \/ Salvage

Spec == Init /\ [][Next]_lvars
=============================================================================
