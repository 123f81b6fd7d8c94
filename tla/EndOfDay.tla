------------------------------- MODULE EndOfDay -------------------------------
(***************************************************************************)
(* The end of the trading day around OrderLifecycle: the flattening loop   *)
(* of _check_eod, the residual written at the hard deadline, and what the  *)
(* next process makes of both.  The leg of OrderLifecycle is the first one *)
(* the loop visits; of the legs after it only the mode change is kept.     *)
(***************************************************************************)
EXTENDS OrderLifecycle

CONSTANTS
  FlattenIds,   \* the ids flatten() makes from its reason and the time
  OtherLegs,    \* exposed legs the loop may visit after this one
  Days          \* bound on the sessions of a behaviour

ASSUME EndOfDayAssumption ==
  /\ FlattenIds \subseteq Decisions
  /\ OtherLegs \in Nat /\ Days \in Nat \ {0}
  /\ None \notin Int

VARIABLES
  day, phase,    \* the session, and how far it has come (calendar.py)
  flattening,    \* leg.flatten_reason is EOD_FLATTEN
  recorded,      \* (this session, leg) is in _eod_residual_recorded
  legsLeft,      \* legs the flattening loop has still to visit
  terminal,      \* the running evaluation was called by _after_terminal
  residual,      \* what an uncompleted EOD_FLATTEN_FAILED says, or None
  lastBooked     \* the session of the last EXECUTION_RECEIVED

eodVars == <<day, phase, flattening, recorded, legsLeft, terminal, residual, lastBooked>>
evars == <<vars, eodVars>>

Phases == <<"session", "window", "hard", "closed">>

EodInit ==
  /\ Init
  /\ day = 1 /\ phase = "session"
  /\ flattening = FALSE /\ recorded = FALSE /\ legsLeft = 0 /\ terminal = FALSE
  /\ residual = None /\ lastBooked = 0

ExposedByPosition == position # 0 \* mutant: an open order is no exposure

Exposed == position # 0 \/ ostate # "IDLE"
FlatByPosition == position = 0 \* mutant: an open order does not matter

FlatAndIdle == position = 0 /\ working = 0 /\ ostate = "IDLE"

-----------------------------------------------------------------------------
(* The steps of OrderLifecycle.  While the loop has legs left no other      *)
(* handler runs; the strategy does not make up flatten()'s ids.            *)

InLoop == legsLeft > 0 /\ pc = "ready"

LifecycleStep ==
  \/ /\ ~InLoop
     /\ \/ \E d \in Decisions \ FlattenIds, q \in Targets : SubmitTarget(d, q)
        \/ TickNext
        \/ CallbackNext
        \/ ReconcileNext
        \/ LinkNext
  \/ EvaluateNext
  \/ SendNext
  \/ BrokerNext
  \/ FailureNext

FullyFilled == \E o \in Orders : jstate[o] = "open" /\ jstate'[o] = "filled"
EntersTerminal == pc' = "evaluate" /\ (pc = "readopt" \/ (pc = "ready" /\ FullyFilled))

(* _maybe_complete_flatten: at the end of a successful reconciliation, and  *)
(* when _after_terminal returns.                                           *)
Completes ==
  /\ flattening
  /\ \/ sync = "SYNCING" /\ sync' = "SYNCED"
     \/ terminal /\ pc # "ready" /\ pc' = "ready" /\ up' /\ journalOk'
  /\ FlatAndIdle'

CarriedByRecord == residual \notin {None, 0} \* mutant: only what was recorded

(* What a boot must start in: an uncompleted record with something in it,  *)
(* or a position whose last execution is of an earlier session.            *)
Carried == residual \notin {None, 0} \/ (expected # 0 /\ lastBooked < day)
RestoresCarried ==
  up' /\ ~restored /\ restored' /\ mode' # "HALTED" => (mode' = "FLATTEN_ONLY") = Carried

Step ==
  /\ LifecycleStep
  /\ RestoresCarried
  /\ flattening' = (up' /\ flattening /\ ~Completes)
  /\ residual' = IF Completes THEN None ELSE residual
  /\ recorded' = (up' /\ recorded)
  /\ legsLeft' = IF up' /\ journalOk' THEN legsLeft ELSE 0
  /\ terminal' = (EntersTerminal \/ (terminal /\ pc' # "ready"))
  /\ lastBooked' = IF booked' # booked THEN day ELSE lastBooked
  /\ UNCHANGED <<day, phase>>

-----------------------------------------------------------------------------
(* Time.  Phases are minutes long: a handler does not outlast one, and a    *)
(* controller that runs has ticked before it is over.                      *)

TickPending == Ready /\ phase \in {"hard", "closed"} /\ Exposed /\ ~recorded

Later ==
  /\ pc = "ready" /\ ~InLoop /\ ~TickPending
  /\ \/ \E i \in 1..3 :
          phase = Phases[i] /\ phase' = Phases[i + 1] /\ UNCHANGED <<day, recorded>>
     \/ /\ phase = "closed" /\ day < Days
        /\ phase' = "session" /\ day' = day + 1 /\ recorded' = FALSE
  /\ UNCHANGED <<vars, flattening, legsLeft, terminal, residual, lastBooked>>

AfterRecord(m) == IF m = "HALTED" THEN m ELSE "FLATTEN_ONLY"

Potential == IF position # 0 THEN position ELSE working

(* _record_eod_residual: once per session, whatever the link, sync or mode. *)
RecordResidual ==
  /\ Ready /\ ~InLoop
  /\ phase \in {"hard", "closed"}
  /\ Exposed /\ ~recorded
  /\ recorded' = TRUE
  /\ residual' = Potential
  /\ mode' = AfterRecord(mode)
  /\ UNCHANGED <<up, journalOk, restored, link, sync, pc, snap,
                 legVars, jrnVars, broVars, net, expired,
                 day, phase, flattening, legsLeft, terminal, lastBooked>>

(* The loop reaches the leg: EOD_FLATTEN_STARTED, FLATTEN_ONLY, and a new   *)
(* decision to be flat.                                                    *)
StartFlatten(f) ==
  /\ Ready /\ ~InLoop
  /\ phase \in {"window", "hard"} /\ ~TickPending
  /\ mode # "HALTED"
  /\ Exposed /\ ~flattening
  /\ f \in FlattenIds \ (accepted \cup expired)
  /\ flattening' = TRUE
  /\ mode' = "FLATTEN_ONLY"
  /\ accepted' = accepted \cup {f}
  /\ target' = [dec |-> f, qty |-> 0]
  /\ attempt' = IF ostate = "IDLE" THEN 0 ELSE attempt
  /\ pc' = "evaluate"
  /\ legsLeft' \in 0..OtherLegs
  /\ UNCHANGED <<up, journalOk, restored, link, sync, snap,
                 ostate, intent, sentAt, cancelReason, position, working,
                 order, jstate, booked, expected, haltActive, broVars, net, expired,
                 day, phase, recorded, terminal, residual, lastBooked>>

(* The loop goes on to another leg.                                        *)
FlattenNextLeg ==
  /\ InLoop /\ Running
  /\ legsLeft' = legsLeft - 1
  /\ mode' = "FLATTEN_ONLY"
  /\ UNCHANGED <<up, journalOk, restored, link, sync, pc, snap,
                 legVars, jrnVars, broVars, net, expired,
                 day, phase, flattening, recorded, terminal, residual, lastBooked>>

EodNext ==
  \/ Step
  \/ Later
  \/ RecordResidual
  \/ \E f \in FlattenIds : StartFlatten(f)
  \/ FlattenNextLeg

EodSpec == EodInit /\ [][EodNext]_evars

-----------------------------------------------------------------------------
(* Properties.                                                             *)

(* SPEC invariant 15 and ADR-004: a position the journal booked in an       *)
(* earlier session is never traded in NORMAL, whether the engine ran       *)
(* through the night or came back in the morning.                          *)
NoNormalCarry ==
  sync = "SYNCED" /\ pc = "ready" /\ ~InLoop /\ position # 0 /\ lastBooked < day =>
    mode # "NORMAL"

(* EOD_FLATTEN_COMPLETED takes the residual out of the next boot's reckoning: *)
(* it is written only when nothing of ours is alive at the broker and the  *)
(* account is flat.  Where a position of somebody else's may have been     *)
(* adopted, the leg believes less than the account has, and the engine that *)
(* completes on that belief is the one the mismatch halted.                *)
CompletedIsFlat ==
  [][Completes =>
       /\ \A o \in Orders : bstate'[o] \notin {"inflight", "live"}
       /\ bposition' = 0 \/ ("foreignPosition" \in Faults /\ mode' = "HALTED")]_evars

(* An order that outlives its session is on record, whatever the flattening *)
(* did to it and wherever the loop or the process was interrupted.         *)
LateOrderIsRecorded ==
  phase = "closed" /\ sync = "SYNCED" /\ Ready /\ ~InLoop /\ ~TickPending =>
    \A o \in Orders : Alive(o) => residual # None
=============================================================================
