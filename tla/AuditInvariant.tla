---------------------------- MODULE AuditInvariant ----------------------------
(* What has to be true between any two events of the log for the auditor   *)
(* not to object to the next one, beside the invariant of the order        *)
(* lifecycle that writes it: how far each fold may be from the controller. *)
EXTENDS JournalAudit, OrderInvariant

OpenInLog == {o \in Orders : jstate[o] = "open"}

(* The order a handler asks the broker to cancel has a send attempt and no *)
(* terminal event.                                                         *)
IntentIsOpen ==
  journalOk /\ intent # None /\ pc # "intent" => intent \in OpenInLog

(* Nothing runs between the commit of an intent and its send attempt, so   *)
(* the order is still the one the gate let through.                        *)
CommittedIsPermitted ==
  pc = "intent" =>
    /\ link = "CONNECTED"
    /\ IsClosing(order[intent].tgt) \/ mode = "NORMAL"
    /\ mode = "FLATTEN_ONLY" => order[intent].tgt = 0

(* The states of the log may lag behind only while they are less than the  *)
(* controller's: after a fence, a crash, or before the mode is restored.   *)
StatesInLog ==
  /\ link = "CONNECTED" => audit.link = "CONNECTED"
  /\ sync = "SYNCED" => audit.sync = "SYNCED"
  /\ restored /\ mode # "HALTED" => audit.mode = mode

(* What the folds hold an order to be, it is.                              *)
FoldsAreOpen ==
  /\ audit.live \subseteq OpenInLog
  /\ audit.cancels \subseteq OpenInLog
  /\ audit.working \subseteq OpenInLog
  /\ pc \in Sending => audit.cancels = {} /\ audit.working = {}
  /\ pc = "intent" => audit.live = {}

(* The log has every intent and every execution.                           *)
FoldsAreWhole ==
  \A o \in Orders :
    /\ jstate[o] # "none" => o \in audit.committed
    /\ audit.execs[o] = booked[o]

AuditInv ==
  /\ IntentIsOpen
  /\ CommittedIsPermitted
  /\ StatesInLog
  /\ FoldsAreOpen
  /\ FoldsAreWhole
=============================================================================
