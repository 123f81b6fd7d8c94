------------------------------ MODULE JournalAudit ------------------------------
(***************************************************************************)
(* The offline auditor (src/ib_execution/auditor.py) running over the log  *)
(* that OrderLifecycle writes.  The auditor never sees the controller's    *)
(* variables: it folds the events of the log, so it is one more observer   *)
(* with a state of its own, and a finding of it is a step that writes an   *)
(* event its fold forbids.                                                 *)
(*                                                                         *)
(* The setters of the controller write an event exactly when they change   *)
(* something, so a step's events are read off its changes.  Nothing in the *)
(* engine writes PROCESS_STARTED: the checks that wait for it (invariants  *)
(* 10, 15 and 21) never look at anything and are left out.                 *)
(***************************************************************************)
EXTENDS OrderLifecycle

VARIABLE audit  \* the folds of the auditor, one field per fold
avars == <<vars, audit>>

\* Events of a step that touches order o.
CommitsIntent(o) == jstate[o] = "none" /\ jstate'[o] = "intended"
SendStarts(o) == jstate[o] = "intended" /\ jstate'[o] = "open"
Terminal == {"filled", "cancelled", "rejected", "absent"}
Ends(o) == jstate[o] \notin Terminal /\ jstate'[o] \in Terminal
Refuses(o) == jstate[o] = "open" /\ jstate'[o] = "refused"
HearsWorking(o) ==
  \/ OnWorking(o)
  \/ CompleteReconcile /\ intent' = o
CancelRequested(o) ==
  /\ intent = o /\ ostate \in AwaitingAck \cup {"WORKING"}
  /\ ostate' \in {"PENDING_CANCEL", "TERMINAL_UNRECONCILED"}
  /\ UNCHANGED <<intent, booked>> /\ pc' # "recheck"

\* A fence and a dead process write nothing: the fence is raised because the
\* journal or its witness is what failed, so it halts without a HALT in the log.
Fenced == mode # "HALTED" /\ mode' = "HALTED" /\ ~haltActive'
Silent == ~(up /\ up' /\ journalOk') \/ Fenced
Logged(old, now, seen) == IF Silent \/ now = old THEN seen ELSE now

\* _i6: the last LINK_STATE_CHANGED and SYNC_STATE_CHANGED.
FoldLink == Logged(link, link', audit.link)
FoldSync == Logged(sync, sync', audit.sync)

\* _i7_i8: OPERATING_MODE_CHANGED, and PROCESS_STATE_RESTORED, which is
\* written whether or not the mode changes.
FoldMode == IF ~restored /\ restored' THEN mode' ELSE Logged(mode, mode', audit.mode)

\* _i3: the intent of the last send attempt, until its leg sees a terminal event.
FoldLive ==
  IF \E o \in Orders : SendStarts(o) THEN {o \in Orders : SendStarts(o)}
  ELSE IF \E o \in Orders : Ends(o) \/ Refuses(o) THEN {}
  ELSE audit.live

\* _i5: cancels asked for, until a terminal event or RECONCILIATION_COMPLETED.
FoldCancels ==
  IF CompleteReconcile THEN {}
  ELSE {o \in Orders : ~Ends(o) /\ (o \in audit.cancels \/ CancelRequested(o))}

\* _i9: orders the broker called working, until a terminal event.
FoldWorking ==
  {o \in Orders : ~Ends(o) /\ (o \in audit.working \/ HearsWorking(o))}

\* _i2 and _i12: every intent and every execution the log has.
FoldCommitted == audit.committed \cup {o \in Orders : CommitsIntent(o)}
FoldExecs == [o \in Orders |-> audit.execs[o] \cup booked'[o]]

AInit ==
  /\ Init
  /\ audit = [link |-> "DISCONNECTED", sync |-> "UNVERIFIED", mode |-> "NORMAL",
              live |-> {}, cancels |-> {}, working |-> {}, committed |-> {},
              execs |-> [o \in Orders |-> {}]]

ANext ==
  /\ Next
  /\ audit' = [link |-> FoldLink, sync |-> FoldSync, mode |-> FoldMode,
               live |-> FoldLive, cancels |-> FoldCancels,
               working |-> FoldWorking, committed |-> FoldCommitted,
               execs |-> FoldExecs]

ASpec == AInit /\ [][ANext]_avars

-----------------------------------------------------------------------------
(* What the auditor does not object to, one operator per invariant.  The   *)
(* position of the payload is the leg's: nothing runs between the commit   *)
(* of an intent and its send attempt.                                      *)
PassesI2(o) == o \in audit.committed
PassesI3(o) == audit.live \subseteq {o}
PassesI5 == audit.cancels = {}
PassesI6 == audit.link = "CONNECTED" /\ audit.sync = "SYNCED"
PassesI7(o) ==
  /\ audit.mode # "HALTED"
  /\ IsClosing(order[o].tgt) \/ audit.mode = "NORMAL"
PassesI8(o) == audit.mode = "FLATTEN_ONLY" => order[o].tgt = 0
PassesI9(o) == order'[o].tgt = 0 => audit.working \subseteq {o}
PassesI12 == \E o \in Orders : ~(booked'[o] \subseteq audit.execs[o])

(* The auditor passes every log the controller can leave behind: neither   *)
(* crashes, lost events nor the state changes that are never journaled      *)
(* make its folds reject a session that kept invariants 2, 3, 5 to 9 and    *)
(* 12.                                                                     *)
AuditFindsNothing ==
  [][\A o \in Orders :
       /\ SendStarts(o) =>
            /\ PassesI2(o) /\ PassesI3(o) /\ PassesI5 /\ PassesI6
            /\ PassesI7(o) /\ PassesI8(o)
       /\ CancelRequested(o) => PassesI6
       /\ CommitsIntent(o) => PassesI9(o)
       /\ expected' # expected => PassesI12]_avars
=============================================================================
