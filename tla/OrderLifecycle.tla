---------------------------- MODULE OrderLifecycle ----------------------------
(***************************************************************************)
(* The order lifecycle of one leg (strategy, symbol) of the controller     *)
(* (src/ib_execution/controller.py) together with the two things it talks  *)
(* to: the durable journal and the broker.                                 *)
(*                                                                         *)
(* The controller's handlers run one at a time (async_bridge.py puts them  *)
(* on one executor thread), the broker and the clock do not wait for them, *)
(* and the process may die between any two durable writes.  A handler that *)
(* writes more than once is therefore cut at its durable writes: pc names  *)
(* the point it has reached, and no other handler starts before pc is      *)
(* "ready" again.                                                          *)
(*                                                                         *)
(* Executions are single shares, so a fill of n shares is n executions;    *)
(* prices, payload texts, alerts and deferral records are left out.        *)
(***************************************************************************)
EXTENDS Integers, FiniteSets

CONSTANTS
  Decisions,    \* decision ids a strategy may submit
  Orders,       \* intent ids: bounds the orders of a behaviour
  Targets,      \* target quantities a strategy may ask for
  MaxPos,       \* risk limit max_position_shares
  MaxAttempts,  \* rungs of the reprice ladder (ExecutionPolicy.max_attempts)
  Faults,       \* the failures this instance contains: a subset of FaultKinds
  None          \* no order, no target

FaultKinds == {"crash", "journal", "witness", "link", "snapshot", "expiry",
               "foreignOrder", "foreignPosition", "stopNew"}

ASSUME ConstantsAssumption ==
  /\ IsFiniteSet(Orders)
  /\ None \notin Orders \cup Decisions
  /\ Targets \subseteq Int
  /\ MaxPos \in Nat
  /\ MaxAttempts \in Nat \ {0}
  /\ Faults \subseteq FaultKinds

VARIABLES
  \* the controller process: lost in a crash
  up,           \* the process runs
  journalOk,    \* Journal.is_healthy(): FALSE until the process ends once it fails
  restored,     \* restore_from_journal has run in this process
  link, sync, mode,
  pc,           \* the durable write the running handler has reached
  snap,         \* the broker snapshot a running reconcile works on
  \* the leg (SymbolState)
  ostate, target, intent, attempt, sentAt, cancelReason, position, working,
  \* the journal: survives a crash
  accepted,     \* decision ids in the decision table
  order,        \* payload of ORDER_INTENT_COMMITTED per order
  jstate,       \* what the order's events in the log add up to
  booked,       \* executions in the log, per order
  expected,     \* _expected_positions: the sum of the booked executions
  haltActive,   \* an unacknowledged HALT is in the log
  \* the broker
  bstate, bfilled, bposition,
  cancels,      \* orders with a cancel request on its way
  foreign,      \* a broker fact we cannot explain
  \* between them
  net,          \* callbacks on their way, unordered
  expired       \* decisions whose valid_until has passed

ctlVars == <<up, journalOk, restored, link, sync, mode, pc, snap>>
legVars == <<ostate, target, intent, attempt, sentAt, cancelReason, position, working>>
jrnVars == <<accepted, order, jstate, booked, expected, haltActive>>
broVars == <<bstate, bfilled, bposition, cancels, foreign>>
vars == <<ctlVars, legVars, jrnVars, broVars, net, expired>>

-----------------------------------------------------------------------------
(* Names of the code's enumerations (models.py).                           *)

LinkStates == {"CONNECTED", "DEGRADED", "DISCONNECTED"}
SyncStates == {"UNVERIFIED", "SYNCING", "SYNCED"}
Modes == {"NORMAL", "STOP_NEW", "FLATTEN_ONLY", "HALTED"}
OrderStates == {"IDLE", "INTENT_COMMITTED", "SUBMISSION_UNCERTAIN", "PENDING_ACK",
                "WORKING", "PENDING_CANCEL", "TERMINAL_UNRECONCILED"}
Untrustworthy == {"SUBMISSION_UNCERTAIN", "TERMINAL_UNRECONCILED"}
AwaitingAck == {"PENDING_ACK", "SUBMISSION_UNCERTAIN"}
CancelReasons == {"none", "target_changed", "target_expired", "reprice_timeout"}

\* What the log says of an order: "open" is SEND_ATTEMPT_STARTED without a
\* terminal event (_journal_open_intents_by_ref).
JournalStates == {"none", "intended", "open", "refused", "filled", "cancelled",
                  "rejected", "absent"}
BrokerStates == {"none", "inflight", "live", "filled", "cancelled", "rejected", "lost"}
PCs == {"ready", "evaluate", "intent", "attempt", "returned", "uncertain", "refused",
        "reconcile", "recheck", "adopt", "readopt"}

Abs(n) == IF n < 0 THEN -n ELSE n
Shares(o) == Abs(order[o].qty)
NoIntent == [dec |-> None, tgt |-> 0, qty |-> 0, att |-> 0]
NoTarget == [dec |-> None, qty |-> 0]
NoSnapshot == [pos |-> 0, open |-> {}, filled |-> [o \in Orders |-> 0]]

Alive(o) == bstate[o] \in {"inflight", "live"}
Remaining(o) == Shares(o) - bfilled[o]
Signed(o, n) == IF order[o].qty < 0 THEN 0 - n ELSE n

CanWriteUnsynced(closing) == \* mutant: the gate forgets sync_state (C2)
  journalOk /\ link = "CONNECTED" /\ mode # "HALTED" /\ (closing \/ mode = "NORMAL")

(* _can_write: the single gate of every broker write.                      *)
CanWrite(closing) ==
  /\ journalOk
  /\ link = "CONNECTED"
  /\ sync = "SYNCED"
  /\ mode # "HALTED"
  /\ closing \/ mode = "NORMAL"

IsClosingAnySign(desired) == \* mutant: the sign test is lost
  Abs(desired) <= Abs(position)

(* The closing test of _evaluate.                                          *)
IsClosing(desired) ==
  /\ Abs(desired) <= Abs(position)
  /\ desired = 0 \/ desired * position >= 0

(* RiskEngine.check: the position limit; every other check is the choice   *)
(* of Evaluate to be rejected.                                             *)
RiskAllows(delta) == Abs(position + delta) <= MaxPos
-----------------------------------------------------------------------------
Init ==
  /\ up = TRUE /\ journalOk = TRUE /\ restored = FALSE
  /\ link = "DISCONNECTED" /\ sync = "UNVERIFIED" /\ mode = "NORMAL"
  /\ pc = "ready" /\ snap = NoSnapshot
  /\ ostate = "IDLE" /\ target = NoTarget /\ intent = None /\ attempt = 0
  /\ sentAt = FALSE /\ cancelReason = "none" /\ position = 0 /\ working = 0
  /\ accepted = {} /\ haltActive = FALSE /\ expected = 0
  /\ order = [o \in Orders |-> NoIntent]
  /\ jstate = [o \in Orders |-> "none"]
  /\ booked = [o \in Orders |-> {}]
  /\ bstate = [o \in Orders |-> "none"]
  /\ bfilled = [o \in Orders |-> 0]
  /\ bposition = 0 /\ cancels = {} /\ foreign = "none"
  /\ net = {} /\ expired = {}

-----------------------------------------------------------------------------
(* Pieces shared by the handlers.                                          *)

Running == up /\ journalOk
Ready == Running /\ pc = "ready"

(* _fail_closed_runtime: the in-memory fence.                              *)
Fence == link' = "DEGRADED" /\ sync' = "UNVERIFIED" /\ mode' = "HALTED"

(* halt: HALTED in memory and an active HALT in the log.                   *)
Halt == mode' = "HALTED" /\ haltActive' = TRUE

(* _set_order_state to an untrustworthy state: coupling rule C1, applied   *)
(* only when the state changes.                                            *)
Distrust(state) ==
  /\ ostate' = state
  /\ sync' = IF ostate = state THEN sync ELSE "UNVERIFIED"

RestoreForgetsHalt == \* mutant: a restart clears the HALT
  IF restored
    THEN UNCHANGED <<restored, position, mode>>
    ELSE restored' = TRUE /\ position' = expected /\ UNCHANGED mode

(* restore_from_journal, once per process.  FLATTEN_ONLY stands for an     *)
(* exposure recorded at, or carried over, the end of an earlier session.   *)
Restore ==
  IF restored
    THEN UNCHANGED <<restored, position, mode>>
    ELSE /\ restored' = TRUE
         /\ position' = expected
         /\ \/ haltActive /\ mode' = "HALTED"
            \/ ~haltActive /\ mode' = mode
            \/ /\ ~haltActive
               /\ \E o \in Orders : jstate[o] # "none"
               /\ mode' = "FLATTEN_ONLY"

(* commit_execution_once for the k-th share of o.                          *)
Book(o, k) ==
  /\ booked' = [booked EXCEPT ![o] = @ \cup {k}]
  /\ expected' = expected + Signed(o, 1)

(* _request_cancel.  The three outcomes of a permitted cancel: the call    *)
(* goes out, the witness cannot be written, the call raises (and may or    *)
(* may not have reached the broker).                                       *)
RequestCancel(why, current) ==
  \/ /\ ~CanWrite(TRUE)
     /\ ostate' = current
     /\ UNCHANGED <<link, sync, mode, cancelReason, cancels>>
  \/ /\ CanWrite(TRUE)
     /\ cancelReason' = why
     /\ \/ /\ ostate' = "PENDING_CANCEL"
           /\ cancels' = cancels \cup {intent}
           /\ UNCHANGED <<link, sync, mode>>
        \/ /\ "witness" \in Faults
           /\ ostate' = "TERMINAL_UNRECONCILED"
           /\ Fence
           /\ UNCHANGED cancels
        \/ /\ Distrust("TERMINAL_UNRECONCILED")
           /\ cancels' \in {cancels, cancels \cup {intent}}
           /\ UNCHANGED <<link, mode>>

-----------------------------------------------------------------------------
(* submit_target: consume the decision id, then replace the latest target. *)

SubmitTarget(d, q) ==
  /\ Ready
  /\ d \notin accepted
  /\ accepted' = accepted \cup {d}
  /\ IF d \in expired
       THEN UNCHANGED <<target, attempt, pc>>
       ELSE /\ target' = [dec |-> d, qty |-> q]
            /\ attempt' = IF ostate = "IDLE" THEN 0 ELSE attempt
            /\ pc' = "evaluate"
  /\ UNCHANGED <<up, journalOk, restored, link, sync, mode, snap,
                 ostate, intent, sentAt, cancelReason, position, working,
                 order, jstate, booked, expected, haltActive,
                 broVars, net, expired>>

-----------------------------------------------------------------------------
(* _evaluate, the single decision point.                                   *)

Delta == target.qty - position - working
TargetLive == target.dec # None /\ target.dec \notin expired
Writable == TargetLive /\ CanWrite(IsClosing(target.qty))
Permitted == Writable /\ (mode = "FLATTEN_ONLY" => target.qty = 0)
WantsOrder == Permitted /\ ostate = "IDLE" /\ Delta # 0

LadderLeft == attempt < MaxAttempts

(* No target, a deferred one, or nothing to do for it.                     *)
EvaluateNothing ==
  /\ Running /\ pc = "evaluate"
  /\ \/ target.dec = None
     \/ TargetLive /\ ~Writable
     \/ Permitted /\ ostate \notin {"IDLE", "WORKING"}
     \/ Permitted /\ ostate = "WORKING" /\ order[intent].tgt = target.qty
     \/ Permitted /\ ostate = "IDLE" /\ Delta = 0
  /\ pc' = "ready"
  /\ UNCHANGED <<up, journalOk, restored, link, sync, mode, snap,
                 legVars, jrnVars, broVars, net, expired>>

(* DECISION_MISSED: expired, not allowed, ladder exhausted, or rejected by *)
(* a risk check.                                                           *)
EvaluateMiss ==
  /\ Running /\ pc = "evaluate"
  /\ \/ target.dec \in expired /\ UNCHANGED attempt
     \/ Writable /\ ~Permitted /\ UNCHANGED attempt
     \/ WantsOrder /\ ~LadderLeft /\ attempt' = 0
     \/ WantsOrder /\ LadderLeft /\ UNCHANGED attempt
  /\ target' = NoTarget
  /\ pc' = "ready"
  /\ UNCHANGED <<up, journalOk, restored, link, sync, mode, snap,
                 ostate, intent, sentAt, cancelReason, position, working,
                 jrnVars, broVars, net, expired>>

(* _maybe_cancel_for_new_target.                                           *)
EvaluateCancel ==
  /\ Running /\ pc = "evaluate"
  /\ Permitted /\ ostate = "WORKING" /\ order[intent].tgt # target.qty
  /\ RequestCancel("target_changed", "WORKING")
  /\ pc' = "ready"
  /\ UNCHANGED <<up, journalOk, restored, snap,
                 target, intent, attempt, sentAt, position, working,
                 jrnVars, bstate, bfilled, bposition, foreign, net, expired>>

-----------------------------------------------------------------------------
(* _send, cut at its durable writes.                                       *)

(* ORDER_INTENT_COMMITTED.                                                 *)
CommitIntent(o) ==
  /\ Running /\ pc = "evaluate"
  /\ WantsOrder /\ LadderLeft /\ RiskAllows(Delta)
  /\ jstate[o] = "none"
  /\ order' = [order EXCEPT ![o] = [dec |-> target.dec, tgt |-> target.qty,
                                    qty |-> Delta, att |-> attempt]]
  /\ jstate' = [jstate EXCEPT ![o] = "intended"]
  /\ intent' = o
  /\ ostate' = "INTENT_COMMITTED"
  /\ pc' = "intent"
  /\ UNCHANGED <<up, journalOk, restored, link, sync, mode, snap,
                 target, attempt, sentAt, cancelReason, position, working,
                 accepted, booked, expected, haltActive, broVars, net, expired>>

(* SEND_ATTEMPT_STARTED.                                                   *)
StartSendAttempt ==
  /\ Running /\ pc = "intent"
  /\ jstate' = [jstate EXCEPT ![intent] = "open"]
  /\ ostate' = "PENDING_ACK"
  /\ pc' = "attempt"
  /\ UNCHANGED <<up, journalOk, restored, link, sync, mode, snap,
                 target, intent, attempt, sentAt, cancelReason, position, working,
                 accepted, order, booked, expected, haltActive,
                 broVars, net, expired>>

(* The witness cannot be written: nothing is sent and the engine fences.   *)
WitnessFails ==
  /\ "witness" \in Faults
  /\ Running /\ pc = "attempt"
  /\ Fence
  /\ ostate' = "IDLE" /\ intent' = None /\ pc' = "ready"
  /\ UNCHANGED <<up, journalOk, restored, snap,
                 target, attempt, sentAt, cancelReason, position, working,
                 jrnVars, broVars, net, expired>>

(* broker.place_order: it returns, raises BrokerRejected (no order), or    *)
(* raises BrokerSendUncertain (the order may or may not be on its way).    *)
PlaceOrder ==
  /\ Running /\ pc = "attempt"
  /\ \/ pc' = "returned" /\ bstate' = [bstate EXCEPT ![intent] = "inflight"]
     \/ pc' = "uncertain" /\ bstate' = [bstate EXCEPT ![intent] = "inflight"]
     \/ pc' = "uncertain" /\ bstate' = [bstate EXCEPT ![intent] = "lost"]
     \/ pc' = "refused" /\ UNCHANGED bstate
  /\ UNCHANGED <<up, journalOk, restored, link, sync, mode, snap,
                 legVars, jrnVars, bfilled, bposition, cancels, foreign, net, expired>>

SendReturned ==
  /\ Running /\ pc = "returned"
  /\ sentAt' = TRUE
  /\ working' = order[intent].qty
  /\ pc' = "ready"
  /\ UNCHANGED <<up, journalOk, restored, link, sync, mode, snap,
                 ostate, target, intent, attempt, cancelReason, position,
                 jrnVars, broVars, net, expired>>

SendRefused ==
  /\ Running /\ pc = "refused"
  /\ jstate' = [jstate EXCEPT ![intent] = "refused"]
  /\ intent' = None /\ ostate' = "IDLE" /\ target' = NoTarget
  /\ pc' = "ready"
  /\ UNCHANGED <<up, journalOk, restored, link, sync, mode, snap,
                 attempt, sentAt, cancelReason, position, working,
                 accepted, order, booked, expected, haltActive,
                 broVars, net, expired>>

SendUncertain ==
  /\ Running /\ pc = "uncertain"
  /\ Distrust("SUBMISSION_UNCERTAIN")
  /\ pc' = "ready"
  /\ UNCHANGED <<up, journalOk, restored, link, mode, snap,
                 target, intent, attempt, sentAt, cancelReason, position, working,
                 jrnVars, broVars, net, expired>>
-----------------------------------------------------------------------------
(* tick: one action per timer.  Elapsed time is a choice, so a timer fires *)
(* whenever the time it counts from is set.  The end-of-day part of tick   *)
(* is not in this module.                                                  *)

TickEvaluate ==
  /\ Ready /\ ostate = "IDLE" /\ target.dec # None
  /\ pc' = "evaluate"
  /\ UNCHANGED <<up, journalOk, restored, link, sync, mode, snap,
                 legVars, jrnVars, broVars, net, expired>>

TickAckTimeout ==
  /\ Ready /\ ostate = "PENDING_ACK" /\ sentAt
  /\ Distrust("SUBMISSION_UNCERTAIN")
  /\ UNCHANGED <<up, journalOk, restored, link, mode, pc, snap,
                 target, intent, attempt, sentAt, cancelReason, position, working,
                 jrnVars, broVars, net, expired>>

(* WORKING past valid_until, or past the order timeout.                    *)
TickCancel ==
  /\ Ready /\ ostate = "WORKING"
  /\ \/ order[intent].dec \in expired /\ RequestCancel("target_expired", "WORKING")
     \/ /\ order[intent].dec \notin expired /\ sentAt
        /\ RequestCancel("reprice_timeout", "WORKING")
  /\ UNCHANGED <<up, journalOk, restored, pc, snap,
                 target, intent, attempt, sentAt, position, working,
                 jrnVars, bstate, bfilled, bposition, foreign, net, expired>>

TickCancelTimeout ==
  /\ Ready /\ ostate = "PENDING_CANCEL"
  /\ Distrust("TERMINAL_UNRECONCILED")
  /\ UNCHANGED <<up, journalOk, restored, link, mode, pc, snap,
                 target, intent, attempt, sentAt, cancelReason, position, working,
                 jrnVars, broVars, net, expired>>

-----------------------------------------------------------------------------
(* Broker callbacks.  A callback that was sent may be delivered late, out  *)
(* of order, again, or never: net only grows while the process lives.      *)

Callback(kind, o, k) == [kind |-> kind, order |-> o, exec |-> k]
Callbacks ==
  [kind : {"ack", "working", "exec", "cancelled", "cancelRejected", "rejected"},
   order : Orders, exec : Nat]

Deliver(kind, o, k) == Ready /\ Callback(kind, o, k) \in net

(* An execution that is booked already, or any other callback for an order *)
(* that is not the leg's live intent.                                      *)
OnNothingNew(m) ==
  /\ Ready /\ m \in net
  /\ IF m.kind = "exec" THEN m.exec \in booked[m.order] ELSE m.order # intent
  /\ UNCHANGED vars

OnAck(o) ==
  /\ Deliver("ack", o, 0)
  /\ intent = o
  /\ ostate' = IF ostate \in AwaitingAck THEN "PENDING_ACK" ELSE ostate
  /\ UNCHANGED <<ctlVars, target, intent, attempt, sentAt, cancelReason, position,
                 working, jrnVars, broVars, net, expired>>

(* WORKING; a target that changed meanwhile cancels at once, but only in   *)
(* a trusted account.                                                      *)
OnWorking(o) ==
  /\ Deliver("working", o, 0)
  /\ intent = o
  /\ \/ /\ ostate \notin AwaitingAck
        /\ UNCHANGED <<ostate, link, sync, mode, cancelReason, cancels>>
     \/ /\ ostate \in AwaitingAck
        /\ \/ sync # "SYNCED"
           \/ target.dec = None
           \/ order[intent].tgt = target.qty
        /\ ostate' = "WORKING"
        /\ UNCHANGED <<link, sync, mode, cancelReason, cancels>>
     \/ /\ ostate \in AwaitingAck
        /\ sync = "SYNCED" /\ target.dec # None /\ order[intent].tgt # target.qty
        /\ RequestCancel("target_changed", "WORKING")
  /\ UNCHANGED <<up, journalOk, restored, pc, snap,
                 target, intent, attempt, sentAt, position, working,
                 jrnVars, bstate, bfilled, bposition, foreign, net, expired>>

(* An execution of a known order that is no longer live here.              *)
OnExecutionLate(o, k) ==
  /\ Deliver("exec", o, k)
  /\ k \notin booked[o] /\ intent # o
  /\ Book(o, k)
  /\ position' = position + Signed(o, 1)
  /\ Distrust("TERMINAL_UNRECONCILED")
  /\ UNCHANGED <<up, journalOk, restored, link, mode, pc, snap,
                 target, intent, attempt, sentAt, cancelReason, working,
                 accepted, order, jstate, haltActive, broVars, net, expired>>

OnExecutionPartial(o, k) ==
  /\ Deliver("exec", o, k)
  /\ k \notin booked[o] /\ intent = o
  /\ Cardinality(booked[o]) + 1 < Shares(o)
  /\ Book(o, k)
  /\ position' = position + Signed(o, 1)
  /\ working' = Signed(o, Shares(o) - Cardinality(booked[o]) - 1)
  /\ UNCHANGED <<ctlVars, ostate, target, intent, attempt, sentAt, cancelReason,
                 accepted, order, jstate, haltActive, broVars, net, expired>>

(* The last share.  A fill that raced our cancel is not trusted.           *)
OnExecutionFull(o, k) ==
  /\ Deliver("exec", o, k)
  /\ k \notin booked[o] /\ intent = o
  /\ Cardinality(booked[o]) + 1 >= Shares(o)
  /\ Book(o, k)
  /\ position' = position + Signed(o, 1)
  /\ jstate' = [jstate EXCEPT ![o] = "filled"]
  /\ intent' = None /\ working' = 0
  /\ \/ /\ ostate = "PENDING_CANCEL"
        /\ Distrust("TERMINAL_UNRECONCILED")
        /\ UNCHANGED <<attempt, pc>>
     \/ /\ ostate # "PENDING_CANCEL"
        /\ ostate' = "IDLE" /\ attempt' = 0 /\ pc' = "evaluate"
        /\ UNCHANGED sync
  /\ UNCHANGED <<up, journalOk, restored, link, mode, snap,
                 target, sentAt, cancelReason,
                 accepted, order, haltActive, broVars, net, expired>>

(* ORDER_CANCELLED, then reconcile() before anything is sized again.       *)
OnCancelled(o) ==
  /\ Deliver("cancelled", o, 0)
  /\ intent = o
  /\ jstate' = [jstate EXCEPT ![o] = "cancelled"]
  /\ intent' = None /\ working' = 0 /\ cancelReason' = "none"
  /\ attempt' = IF cancelReason = "reprice_timeout" THEN attempt + 1 ELSE 0
  /\ Distrust("TERMINAL_UNRECONCILED")
  /\ pc' = "reconcile"
  /\ UNCHANGED <<up, journalOk, restored, link, mode, snap,
                 target, sentAt, position,
                 accepted, order, booked, expected, haltActive, broVars, net, expired>>

(* CANCEL_REJECTED is not terminal: reconcile(evaluate_targets=False).     *)
OnCancelRejected(o) ==
  /\ Deliver("cancelRejected", o, 0)
  /\ intent = o
  /\ cancelReason' = "none"
  /\ Distrust("TERMINAL_UNRECONCILED")
  /\ pc' = "recheck"
  /\ UNCHANGED <<up, journalOk, restored, link, mode, snap,
                 target, intent, attempt, sentAt, position, working,
                 jrnVars, broVars, net, expired>>

OnRejected(o) ==
  /\ Deliver("rejected", o, 0)
  /\ intent = o
  /\ jstate' = [jstate EXCEPT ![o] = "rejected"]
  /\ intent' = None /\ working' = 0 /\ attempt' = attempt + 1
  /\ ostate' = "IDLE" /\ target' = NoTarget
  /\ UNCHANGED <<ctlVars, sentAt, cancelReason, position,
                 accepted, order, booked, expected, haltActive, broVars, net, expired>>

(* _known_broker_intent: a callback that names no intent of ours.          *)
OnForeignCallback ==
  /\ Ready /\ foreign = "foreignOrder" /\ link # "DISCONNECTED"
  /\ sync' = "UNVERIFIED"
  /\ Halt
  /\ UNCHANGED <<up, journalOk, restored, link, pc, snap, legVars,
                 accepted, order, jstate, booked, expected, broVars, net, expired>>

-----------------------------------------------------------------------------
(* reconcile.                                                              *)

Reconciling == Running /\ pc \in {"ready", "reconcile", "recheck"}
Unowned == foreign = "foreignOrder" \/ \E o \in Orders : bstate[o] = "live" /\ jstate[o] # "open"
NothingToAdopt == TRUE \* mutant: missing executions are not adopted

Adopted == \A o \in Orders : \A k \in 1..snap.filled[o] : k \in booked[o]

AnySnapshot == TRUE \* mutant: no barrier behind the sends

(* A stable snapshot is one cut through positions, open orders and         *)
(* executions, taken behind everything sent before it: no order of ours is *)
(* still on its way (ADR-008).  Callbacks may still be.                    *)
StableSnapshot == \A o \in Orders : bstate[o] # "inflight"

(* The snapshot call raises, or answers with is_stable = False.            *)
SnapshotFails ==
  /\ Reconciling
  /\ "snapshot" \in Faults \/ ~StableSnapshot \/ link = "DISCONNECTED"
  /\ Restore
  /\ sync' = "UNVERIFIED"
  /\ pc' = "ready"
  /\ UNCHANGED <<up, journalOk, link, snap,
                 ostate, target, intent, attempt, sentAt, cancelReason, working,
                 jrnVars, broVars, net, expired>>

SnapshotForeign ==
  /\ Reconciling
  /\ StableSnapshot /\ Unowned
  /\ restored' = TRUE /\ position' = IF restored THEN position ELSE expected
  /\ sync' = "UNVERIFIED"
  /\ Halt
  /\ pc' = "ready"
  /\ UNCHANGED <<up, journalOk, link, snap,
                 ostate, target, intent, attempt, sentAt, cancelReason, working,
                 accepted, order, jstate, booked, expected, broVars, net, expired>>

TakeSnapshot ==
  /\ Reconciling
  /\ StableSnapshot /\ ~Unowned
  /\ Restore
  /\ sync' = "SYNCING"
  /\ snap' = [pos |-> IF foreign = "foreignPosition" THEN bposition + 1 ELSE bposition,
              open |-> {o \in Orders : bstate[o] = "live"},
              filled |-> bfilled]
  /\ pc' = IF pc = "recheck" THEN "readopt" ELSE "adopt"
  /\ UNCHANGED <<up, journalOk, link,
                 ostate, target, intent, attempt, sentAt, cancelReason, working,
                 jrnVars, broVars, net, expired>>

(* BROKER_FACT_ADOPTED: an execution the journal is missing.               *)
AdoptExecution(o, k) ==
  /\ Running /\ pc \in {"adopt", "readopt"}
  /\ k \in 1..snap.filled[o] /\ k \notin booked[o]
  /\ Book(o, k)
  /\ UNCHANGED <<ctlVars, legVars, accepted, order, jstate, haltActive,
                 broVars, net, expired>>

ExplainedWithinOne == Abs(expected - snap.pos) <= 1 \* mutant: a tolerance

(* Our executions account for the whole position: tolerance zero.          *)
Explained == expected = snap.pos

PositionMismatch ==
  /\ Running /\ pc \in {"adopt", "readopt"}
  /\ Adopted /\ ~Explained
  /\ sync' = "UNVERIFIED"
  /\ Halt
  /\ pc' = "ready" /\ snap' = NoSnapshot
  /\ UNCHANGED <<up, journalOk, restored, link, legVars,
                 accepted, order, jstate, booked, expected, broVars, net, expired>>

NothingResolved == jstate \* mutant: broker-proven absence is not recorded

(* ORDER_FILLED or ORDER_ABSENT_CONFIRMED for every open intent the broker *)
(* no longer has.                                                          *)
ResolvedJournal ==
  [o \in Orders |->
     IF jstate[o] # "open" \/ o \in snap.open THEN jstate[o]
     ELSE IF Cardinality(booked[o]) >= Shares(o) THEN "filled" ELSE "absent"]

(* The leg after reconciliation: the broker's open order, or none.         *)
Rehydrate(o) ==
  /\ intent' = o
  /\ working' = Signed(o, Shares(o) - snap.filled[o])
  /\ attempt' = order[o].att
  /\ sentAt' = TRUE
  /\ ostate' = "WORKING"

NothingLive ==
  /\ intent' = None /\ working' = 0
  /\ ostate' = IF intent # None \/ ostate \in Untrustworthy THEN "IDLE" ELSE ostate
  /\ UNCHANGED <<attempt, sentAt>>

CompleteReconcile ==
  /\ Running /\ pc \in {"adopt", "readopt"}
  /\ Adopted /\ Explained
  /\ jstate' = ResolvedJournal
  /\ position' = snap.pos
  /\ sync' = "SYNCED"
  /\ \/ snap.open = {} /\ NothingLive
     \/ \E o \in snap.open : Rehydrate(o)
  /\ IF pc = "adopt" \/ ostate' = "IDLE"
       THEN pc' = "evaluate" /\ UNCHANGED <<mode, haltActive>>
       ELSE pc' = "ready" /\ Halt
  /\ snap' = NoSnapshot
  /\ UNCHANGED <<up, journalOk, restored, link, target, cancelReason,
                 accepted, order, booked, expected, broVars, net, expired>>

-----------------------------------------------------------------------------
(* Link callbacks.                                                         *)

OnConnected ==
  /\ Ready
  /\ Restore
  /\ link' = "CONNECTED" /\ sync' = "UNVERIFIED"
  /\ UNCHANGED <<up, journalOk, pc, snap,
                 ostate, target, intent, attempt, sentAt, cancelReason, working,
                 jrnVars, broVars, net, expired>>

OnDisconnected ==
  /\ "link" \in Faults
  /\ Ready /\ link # "DISCONNECTED"
  /\ link' = "DISCONNECTED" /\ sync' = "UNVERIFIED"
  /\ UNCHANGED <<up, journalOk, restored, mode, pc, snap,
                 legVars, jrnVars, broVars, net, expired>>

OnMarketDataLost ==
  /\ "link" \in Faults
  /\ Ready /\ link = "CONNECTED"
  /\ link' = "DEGRADED" /\ sync' = "UNVERIFIED"
  /\ UNCHANGED <<up, journalOk, restored, mode, pc, snap,
                 legVars, jrnVars, broVars, net, expired>>

OnMarketDataRestored ==
  /\ Ready /\ link = "DEGRADED"
  /\ link' = "CONNECTED" /\ sync' = "UNVERIFIED"
  /\ UNCHANGED <<up, journalOk, restored, mode, pc, snap,
                 legVars, jrnVars, broVars, net, expired>>
-----------------------------------------------------------------------------
(* The broker (external: modelled from broker_protocol.py and the faults   *)
(* fake_broker.py injects).  It runs whether or not the controller does;   *)
(* what it says while nobody is connected is lost.                         *)

Emit(ms) == net' = IF up /\ link # "DISCONNECTED" THEN net \cup ms ELSE net

BrokerAccept(o) ==
  /\ bstate[o] = "inflight"
  /\ bstate' = [bstate EXCEPT ![o] = "live"]
  /\ Emit({Callback("ack", o, 0), Callback("working", o, 0)})
  /\ UNCHANGED <<ctlVars, legVars, jrnVars, bfilled, bposition, cancels, foreign, expired>>

BrokerReject(o) ==
  /\ bstate[o] = "inflight"
  /\ bstate' = [bstate EXCEPT ![o] = "rejected"]
  /\ Emit({Callback("rejected", o, 0)})
  /\ UNCHANGED <<ctlVars, legVars, jrnVars, bfilled, bposition, cancels, foreign, expired>>

BrokerNeverReceives(o) ==
  /\ bstate[o] = "inflight"
  /\ bstate' = [bstate EXCEPT ![o] = "lost"]
  /\ UNCHANGED <<ctlVars, legVars, jrnVars, bfilled, bposition, cancels, foreign,
                 net, expired>>

BrokerFill(o) ==
  /\ bstate[o] = "live" /\ Remaining(o) > 0
  /\ bfilled' = [bfilled EXCEPT ![o] = @ + 1]
  /\ bposition' = bposition + Signed(o, 1)
  /\ bstate' = [bstate EXCEPT ![o] = IF Remaining(o) = 1 THEN "filled" ELSE "live"]
  /\ Emit({Callback("exec", o, bfilled[o] + 1)})
  /\ UNCHANGED <<ctlVars, legVars, jrnVars, cancels, foreign, expired>>

(* On request, or of the broker's own accord.                              *)
BrokerCancel(o) ==
  /\ bstate[o] = "live"
  /\ bstate' = [bstate EXCEPT ![o] = "cancelled"]
  /\ cancels' = cancels \ {o}
  /\ Emit({Callback("cancelled", o, 0)})
  /\ UNCHANGED <<ctlVars, legVars, jrnVars, bfilled, bposition, foreign, expired>>

BrokerRejectCancel(o) ==
  /\ o \in cancels
  /\ cancels' = cancels \ {o}
  /\ Emit({Callback("cancelRejected", o, 0)})
  /\ UNCHANGED <<ctlVars, legVars, jrnVars, bstate, bfilled, bposition, foreign, expired>>

BrokerIgnoresCancel(o) ==
  /\ o \in cancels
  /\ cancels' = cancels \ {o}
  /\ UNCHANGED <<ctlVars, legVars, jrnVars, bstate, bfilled, bposition, foreign,
                 net, expired>>

(* Somebody else trades in the account.                                    *)
ForeignFact(kind) ==
  /\ kind \in Faults
  /\ foreign = "none"
  /\ foreign' = kind
  /\ UNCHANGED <<ctlVars, legVars, jrnVars, bstate, bfilled, bposition, cancels,
                 net, expired>>

(* What it did is undone, or explained, at the broker.  Not under a         *)
(* reconciliation, whose snapshot may have caught it.                      *)
ForeignSettled ==
  /\ foreign # "none" /\ pc \notin {"adopt", "readopt"}
  /\ foreign' = "none"
  /\ UNCHANGED <<ctlVars, legVars, jrnVars, bstate, bfilled, bposition, cancels,
                 net, expired>>

-----------------------------------------------------------------------------
(* Time, failures and the operator.                                        *)

Expire(d) ==
  /\ "expiry" \in Faults
  /\ d \notin expired
  /\ expired' = expired \cup {d}
  /\ UNCHANGED <<ctlVars, legVars, jrnVars, broVars, net>>

(* A journal write fails or times out in the middle of whatever runs:      *)
(* _fail_closed_journal.  Whether the write landed is the step before or   *)
(* after which this happens.                                               *)
JournalFails ==
  /\ "journal" \in Faults
  /\ Running
  /\ journalOk' = FALSE
  /\ Fence
  /\ pc' = "ready" /\ snap' = NoSnapshot
  /\ UNCHANGED <<up, restored, legVars, jrnVars, broVars, net, expired>>

Crash ==
  /\ "crash" \in Faults
  /\ up
  /\ up' = FALSE
  /\ journalOk' = TRUE /\ restored' = FALSE
  /\ link' = "DISCONNECTED" /\ sync' = "UNVERIFIED" /\ mode' = "NORMAL"
  /\ pc' = "ready" /\ snap' = NoSnapshot
  /\ ostate' = "IDLE" /\ target' = NoTarget /\ intent' = None /\ attempt' = 0
  /\ sentAt' = FALSE /\ cancelReason' = "none" /\ position' = 0 /\ working' = 0
  /\ net' = {}
  /\ UNCHANGED <<jrnVars, broVars, expired>>

(* A new process: Controller.__init__.                                     *)
Start ==
  /\ ~up
  /\ up' = TRUE
  /\ UNCHANGED <<journalOk, restored, link, sync, mode, pc, snap,
                 legVars, jrnVars, broVars, net, expired>>

(* acknowledge_halt, or ack_halt.py between processes (it takes the        *)
(* journal's ownership lock).  The running process stays HALTED.           *)
AcknowledgeHalt ==
  /\ haltActive /\ (up => Ready)
  /\ haltActive' = FALSE
  /\ UNCHANGED <<ctlVars, legVars, accepted, order, jstate, booked, expected,
                 broVars, net, expired>>

(* set_mode(STOP_NEW), from outside the handlers modelled here.            *)
StopNew ==
  /\ "stopNew" \in Faults
  /\ Ready /\ mode = "NORMAL"
  /\ mode' = "STOP_NEW"
  /\ UNCHANGED <<up, journalOk, restored, link, sync, pc, snap,
                 legVars, jrnVars, broVars, net, expired>>

-----------------------------------------------------------------------------
StrategyNext == \E d \in Decisions, q \in Targets : SubmitTarget(d, q)

EvaluateNext ==
  \/ EvaluateNothing
  \/ EvaluateMiss
  \/ EvaluateCancel
  \/ \E o \in Orders : CommitIntent(o)

SendNext ==
  \/ StartSendAttempt
  \/ WitnessFails
  \/ PlaceOrder
  \/ SendReturned
  \/ SendRefused
  \/ SendUncertain

TickNext == TickEvaluate \/ TickAckTimeout \/ TickCancel \/ TickCancelTimeout

CallbackNext ==
  \/ \E m \in net : OnNothingNew(m)
  \/ \E o \in Orders :
       \/ OnAck(o)
       \/ OnWorking(o)
       \/ OnCancelled(o)
       \/ OnCancelRejected(o)
       \/ OnRejected(o)
  \/ \E o \in Orders : \E k \in 1..bfilled[o] :
       \/ OnExecutionLate(o, k)
       \/ OnExecutionPartial(o, k)
       \/ OnExecutionFull(o, k)
  \/ OnForeignCallback

ReconcileNext ==
  \/ SnapshotFails
  \/ SnapshotForeign
  \/ TakeSnapshot
  \/ \E o \in Orders : \E k \in 1..snap.filled[o] : AdoptExecution(o, k)
  \/ PositionMismatch
  \/ CompleteReconcile

LinkNext == OnConnected \/ OnDisconnected \/ OnMarketDataLost \/ OnMarketDataRestored

BrokerNext ==
  \/ \E o \in Orders :
       \/ BrokerAccept(o)
       \/ BrokerReject(o)
       \/ BrokerNeverReceives(o)
       \/ BrokerFill(o)
       \/ BrokerCancel(o)
       \/ BrokerRejectCancel(o)
       \/ BrokerIgnoresCancel(o)
  \/ \E kind \in {"foreignOrder", "foreignPosition"} : ForeignFact(kind)
  \/ ForeignSettled

FailureNext ==
  \/ \E d \in Decisions : Expire(d)
  \/ JournalFails
  \/ Crash
  \/ Start
  \/ AcknowledgeHalt
  \/ StopNew

Next ==
  \/ StrategyNext
  \/ EvaluateNext
  \/ SendNext
  \/ TickNext
  \/ CallbackNext
  \/ ReconcileNext
  \/ LinkNext
  \/ BrokerNext
  \/ FailureNext

Spec == Init /\ [][Next]_vars

(* Handlers run to their end, ticks recur, a connected broker delivers what *)
(* it says, and whoever drives the controller reconciles while the account  *)
(* is not trusted.  A cancel tried again and again gets out, and a broker   *)
(* asked again and again to cancel does.                                    *)
Fairness ==
  /\ WF_vars(EvaluateNext) /\ WF_vars(SendNext)
  /\ SF_vars(TickAckTimeout) /\ SF_vars(TickCancelTimeout)
  /\ SF_vars((TickCancel \/ EvaluateCancel) /\ cancels' # cancels)
  /\ WF_vars(pc # "ready" /\ (SnapshotFails \/ SnapshotForeign \/ TakeSnapshot))
  /\ SF_vars(OnConnected /\ link # "CONNECTED")
  /\ SF_vars(TakeSnapshot /\ link = "CONNECTED" /\ sync # "SYNCED")
  /\ WF_vars(\E o \in Orders : \E k \in 1..snap.filled[o] : AdoptExecution(o, k))
  /\ WF_vars(PositionMismatch \/ CompleteReconcile)
  /\ \A o \in Orders :
       /\ SF_vars(OnWorking(o)) /\ SF_vars(OnCancelled(o)) /\ SF_vars(OnRejected(o))
       /\ \A k \in 1..MaxPos :
            SF_vars(OnExecutionLate(o, k) \/ OnExecutionPartial(o, k) \/ OnExecutionFull(o, k))
       /\ WF_vars(BrokerAccept(o) \/ BrokerReject(o) \/ BrokerNeverReceives(o))
       /\ SF_vars(BrokerCancel(o) /\ o \in cancels)

FairSpec == Spec /\ Fairness

-----------------------------------------------------------------------------
(* Properties.                                                             *)

ControlTypeOK ==
  /\ up \in BOOLEAN /\ journalOk \in BOOLEAN /\ restored \in BOOLEAN
  /\ link \in LinkStates /\ sync \in SyncStates /\ mode \in Modes /\ pc \in PCs
SnapshotTypeOK == snap \in [pos : Int, open : SUBSET Orders, filled : [Orders -> Nat]]
LegTypeOK ==
  /\ ostate \in OrderStates /\ intent \in Orders \cup {None}
  /\ attempt \in 0..MaxAttempts /\ sentAt \in BOOLEAN /\ cancelReason \in CancelReasons
  /\ position \in Int /\ working \in Int
TargetTypeOK == target \in [dec : Decisions \cup {None}, qty : Int]
OrderTypeOK ==
  order \in [Orders -> [dec : Decisions \cup {None}, tgt : Int, qty : Int, att : Nat]]
JournalTypeOK ==
  /\ accepted \subseteq Decisions /\ jstate \in [Orders -> JournalStates]
  /\ booked \in [Orders -> SUBSET Nat] /\ \A o \in Orders : IsFiniteSet(booked[o])
  /\ expected \in Int /\ haltActive \in BOOLEAN
BrokerTypeOK ==
  /\ bstate \in [Orders -> BrokerStates] /\ bfilled \in [Orders -> Nat]
  /\ bposition \in Int /\ cancels \subseteq Orders
  /\ foreign \in {"none", "foreignOrder", "foreignPosition"}
  /\ net \subseteq Callbacks /\ expired \subseteq Decisions

(* Every variable has its type, and attempt never passes the ladder's end  *)
(* although rejections, cancels and rehydration all move it.               *)
TypeOK ==
  /\ ControlTypeOK /\ SnapshotTypeOK /\ LegTypeOK /\ TargetTypeOK
  /\ OrderTypeOK /\ JournalTypeOK /\ BrokerTypeOK

(* SPEC invariant 3, in the durable record: at most one order of the leg    *)
(* has a send attempt without a terminal event, whatever crashed, timed out *)
(* or arrived late before the next one was sent.                            *)
OneUnterminatedIntent ==
  \A a, b \in Orders : jstate[a] = "open" /\ jstate[b] = "open" => a = b

(* The other half: every order that is, or may yet come, alive at the      *)
(* broker is unterminated in the journal, so no restart or reconciliation  *)
(* can take it for absent, foreign or finished.                            *)
LiveOrdersAreOpen ==
  \A o \in Orders : Alive(o) => jstate[o] = "open"

(* SYNCED means what it says whenever an order may be sized: the broker has *)
(* no order but the leg's intent, and an idle leg believes the position     *)
(* the broker has.                                                          *)
TrustIsJustified ==
  sync = "SYNCED" /\ pc \in {"ready", "evaluate"} =>
    /\ \A o \in Orders : Alive(o) => intent = o
    /\ ostate = "IDLE" => position = bposition /\ working = 0

(* A HALT is raised for a broker fact nobody can explain or a cancel that  *)
(* was refused, never for what a crash, a lost callback or a fill between  *)
(* two writes left behind (SPEC section 6, step 5).                        *)
NoFalseHalt ==
  [][~haltActive /\ haltActive' => foreign # "none" \/ pc = "readopt"]_vars

(* SPEC invariant 14, tolerance zero: a reconciliation that ends in SYNCED *)
(* worked on a position that our own executions, as the broker lists them, *)
(* explain to the share.                                                   *)
Total(value) ==
  LET sum[S \in SUBSET Orders] ==
        IF S = {} THEN 0
        ELSE LET o == CHOOSE o \in S : TRUE IN sum[S \ {o}] + value[o]
  IN sum[Orders]
OnlyExplainedIsTrusted ==
  [][sync # "SYNCED" /\ sync' = "SYNCED" =>
       snap.pos = Total([o \in Orders |-> Signed(o, snap.filled[o])])]_vars

(* The true exposure, with everything live filled, stays inside the risk   *)
(* limit although RiskEngine.check sees only the leg's belief.             *)
ExposureBounded ==
  /\ Abs(bposition) <= MaxPos
  /\ \A o \in Orders : Alive(o) => Abs(bposition + Signed(o, Remaining(o))) <= MaxPos

(* SPEC invariant 22 for orders: while a HALT is in the log without its     *)
(* acknowledgement nothing is sent, in this process or a later one.         *)
Sends(o) == bstate[o] = "none" /\ bstate'[o] # "none"
HaltOutlivesProcess == [][\A o \in Orders : Sends(o) => ~haltActive]_vars

(* Coupling rules C3 and C4 about the account rather than the belief: an    *)
(* order sent outside NORMAL can only bring the true position nearer zero,  *)
(* and never through it.                                                    *)
RestrictedModeReduces ==
  [][\A o \in Orders : Sends(o) /\ mode # "NORMAL" =>
       /\ Abs(bposition + order[o].qty) < Abs(bposition)
       /\ (bposition + order[o].qty) * bposition >= 0]_vars

(* The whole of it, controller, journal, broker and every crash between    *)
(* them, is the service OrderService specifies: one order at a time, sent  *)
(* at most once, sized on a settled account, closed only when it is over.  *)
Stage ==
  [o \in Orders |-> CASE jstate[o] = "none" -> "new"
                     [] jstate[o] = "intended" -> "committed"
                     [] jstate[o] = "open" -> "attempted"
                     [] OTHER -> "closed"]
Life ==
  [o \in Orders |-> CASE bstate[o] = "none" -> "unsent"
                     [] Alive(o) -> "alive"
                     [] OTHER -> "dead"]
Size == [o \in Orders |-> order[o].qty]
Service == INSTANCE OrderService WITH
  Limit <- MaxPos, stage <- Stage, size <- Size, life <- Life, done <- bfilled,
  recorded <- booked, account <- bposition, halted <- haltActive,
  restricted <- mode # "NORMAL"
ImplementsOrderService == Service!Spec

(* What the broker executed is in the journal in the end, whichever        *)
(* callbacks were lost, late or doubled.                                   *)
EveryFillBooked ==
  \A o \in Orders : \A k \in 1..MaxPos : bfilled[o] >= k ~> k \in booked[o]

(* Once the link stays up no order is unterminated for ever, unless the    *)
(* engine has halted.                                                      *)
EveryOrderResolved ==
  <>[](link = "CONNECTED") =>
    \A o \in Orders : jstate[o] = "open" ~> jstate[o] # "open" \/ mode = "HALTED"
=============================================================================
