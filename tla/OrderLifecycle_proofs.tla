----------------------- MODULE OrderLifecycle_proofs -----------------------
(* What holds of OrderLifecycle, of the day EndOfDay puts around it and of *)
(* the audit of its log, for every value of their constants.  The          *)
(* inductive invariants are IInv of OrderInvariant, EodInv of EodInvariant *)
(* and AuditInv of AuditInvariant.                                         *)
EXTENDS EodInvariant, AuditInvariant, FiniteSetTheorems, WellFoundedInduction, TLAPS

LEMMA Constants ==
  /\ MaxAttempts \in Nat /\ MaxAttempts > 0 /\ MaxPos \in Nat
  /\ Targets \subseteq Int /\ None \notin Orders /\ None \notin Decisions
BY ConstantsAssumption

-----------------------------------------------------------------------------
(* What the steps of each group leave alone.                               *)

LEMMA StrategyFrame ==
  StrategyNext =>
    UNCHANGED <<up, journalOk, restored, link, sync, mode, snap,
                ostate, intent, sentAt, cancelReason, position, working,
                order, jstate, booked, expected, haltActive, broVars, net, expired>>
BY DEF StrategyNext, SubmitTarget

LEMMA EvaluateFrame ==
  EvaluateNext =>
    UNCHANGED <<up, journalOk, restored, snap, sentAt, position, working,
                accepted, booked, expected, haltActive,
                bstate, bfilled, bposition, foreign, net, expired>>
BY DEF EvaluateNext, EvaluateNothing, EvaluateMiss, EvaluateCancel, CommitIntent,
       legVars, jrnVars, broVars

LEMMA SendFrame ==
  SendNext =>
    UNCHANGED <<up, journalOk, restored, snap, attempt, cancelReason, position,
                accepted, order, booked, expected, haltActive,
                bfilled, bposition, cancels, foreign, net, expired>>
BY DEF SendNext, StartSendAttempt, WitnessFails, PlaceOrder, SendReturned, SendRefused,
       SendUncertain, legVars, jrnVars, broVars

LEMMA TickFrame ==
  TickNext =>
    UNCHANGED <<up, journalOk, restored, snap,
                target, intent, attempt, sentAt, position, working,
                jrnVars, bstate, bfilled, bposition, foreign, net, expired>>
BY DEF TickNext, TickEvaluate, TickAckTimeout, TickCancel, TickCancelTimeout, legVars, broVars

LEMMA CallbackFrame ==
  CallbackNext =>
    UNCHANGED <<up, journalOk, restored, snap, sentAt,
                accepted, order, bstate, bfilled, bposition, foreign, net, expired>>
<1> USE DEF ctlVars, legVars, jrnVars, broVars
<1> SUFFICES ASSUME CallbackNext
             PROVE  UNCHANGED <<up, journalOk, restored, snap, sentAt, accepted, order,
                                bstate, bfilled, bposition, foreign, net, expired>>
  OBVIOUS
<1>1. CASE \E m \in net : OnNothingNew(m)
  BY <1>1 DEF OnNothingNew, vars
<1>2. CASE \E o \in Orders : \/ OnAck(o) \/ OnWorking(o) \/ OnCancelled(o)
                             \/ OnCancelRejected(o) \/ OnRejected(o)
  BY <1>2 DEF OnAck, OnWorking, OnCancelled, OnCancelRejected, OnRejected
<1>3. CASE \E o \in Orders : \E k \in 1..bfilled[o] :
             OnExecutionLate(o, k) \/ OnExecutionPartial(o, k) \/ OnExecutionFull(o, k)
  BY <1>3 DEF OnExecutionLate, OnExecutionPartial, OnExecutionFull
<1>4. CASE OnForeignCallback
  BY <1>4 DEF OnForeignCallback
<1> QED
  BY <1>1, <1>2, <1>3, <1>4 DEF CallbackNext

LEMMA ReconcileFrame ==
  ReconcileNext =>
    UNCHANGED <<up, journalOk, link, target, cancelReason, accepted, order,
                broVars, net, expired>>
BY DEF ReconcileNext, SnapshotFails, SnapshotForeign, TakeSnapshot, AdoptExecution,
       PositionMismatch, CompleteReconcile, ctlVars, legVars, jrnVars

LEMMA LinkFrame ==
  LinkNext =>
    UNCHANGED <<up, journalOk, pc, snap,
                ostate, target, intent, attempt, sentAt, cancelReason, working,
                jrnVars, broVars, net, expired>>
BY DEF LinkNext, OnConnected, OnDisconnected, OnMarketDataLost, OnMarketDataRestored,
       Restore, legVars

LEMMA BrokerFrame ==
  BrokerNext => UNCHANGED <<ctlVars, legVars, jrnVars, expired>>
BY DEF BrokerNext, BrokerAccept, BrokerReject, BrokerNeverReceives, BrokerFill,
       BrokerCancel, BrokerRejectCancel, BrokerIgnoresCancel, ForeignFact, ForeignSettled

LEMMA FailureFrame ==
  FailureNext =>
    UNCHANGED <<accepted, order, jstate, booked, expected,
                bstate, bfilled, bposition, cancels>>
BY DEF FailureNext, Expire, JournalFails, Crash, Start, AcknowledgeHalt, StopNew,
       ctlVars, legVars, jrnVars, broVars

-----------------------------------------------------------------------------
(* Type correctness, group by group.                                       *)

LEMMA ControlType == ControlTypeOK /\ [Next]_vars => ControlTypeOK'
<1> SUFFICES ASSUME ControlTypeOK, [Next]_vars PROVE ControlTypeOK'
  OBVIOUS
<1> USE DEF ControlTypeOK, LinkStates, SyncStates, Modes, PCs, ctlVars
<1>1. CASE StrategyNext
  BY <1>1 DEF StrategyNext, SubmitTarget
<1>2. CASE EvaluateNext
  BY <1>2 DEF EvaluateNext, EvaluateNothing, EvaluateMiss, EvaluateCancel, CommitIntent,
              RequestCancel, Fence, Distrust
<1>3. CASE SendNext
  BY <1>3 DEF SendNext, StartSendAttempt, WitnessFails, PlaceOrder, SendReturned,
              SendRefused, SendUncertain, Fence, Distrust
<1>4. CASE TickNext
  BY <1>4 DEF TickNext, TickEvaluate, TickAckTimeout, TickCancel, TickCancelTimeout,
              RequestCancel, Fence, Distrust
<1>5. CASE CallbackNext
  <2>1. CASE \E m \in net : OnNothingNew(m)
    BY <2>1 DEF OnNothingNew, vars
  <2>2. CASE \E o \in Orders : \/ OnAck(o) \/ OnWorking(o) \/ OnCancelled(o)
                               \/ OnCancelRejected(o) \/ OnRejected(o)
    BY <2>2 DEF OnAck, OnWorking, OnCancelled, OnCancelRejected, OnRejected,
                RequestCancel, Fence, Distrust
  <2>3. CASE \E o \in Orders : \E k \in 1..bfilled[o] :
               OnExecutionLate(o, k) \/ OnExecutionPartial(o, k) \/ OnExecutionFull(o, k)
    BY <2>3 DEF OnExecutionLate, OnExecutionPartial, OnExecutionFull, Distrust
  <2>4. CASE OnForeignCallback
    BY <2>4 DEF OnForeignCallback, Halt
  <2> QED
    BY <1>5, <2>1, <2>2, <2>3, <2>4 DEF CallbackNext
<1>6. CASE ReconcileNext
  <2>1. CASE SnapshotFails \/ SnapshotForeign \/ PositionMismatch
    BY <2>1 DEF SnapshotFails, SnapshotForeign, PositionMismatch, Restore, Halt
  <2>2. CASE TakeSnapshot
    BY <2>2 DEF TakeSnapshot, Restore
  <2>3. CASE \E o \in Orders : \E k \in 1..snap.filled[o] : AdoptExecution(o, k)
    BY <2>3 DEF AdoptExecution
  <2>4. CASE CompleteReconcile
    BY <2>4 DEF CompleteReconcile, Halt
  <2> QED
    BY <1>6, <2>1, <2>2, <2>3, <2>4 DEF ReconcileNext
<1>7. CASE LinkNext
  BY <1>7 DEF LinkNext, OnConnected, OnDisconnected, OnMarketDataLost, OnMarketDataRestored,
              Restore
<1>8. CASE BrokerNext
  BY <1>8, BrokerFrame
<1>9. CASE FailureNext
  <2>1. CASE StopNew
    BY <2>1 DEF StopNew
  <2>2. CASE \E d \in Decisions : Expire(d)
    BY <2>2 DEF Expire
  <2>3. CASE JournalFails
    BY <2>3 DEF JournalFails, Fence
  <2>4. CASE Crash \/ Start
    BY <2>4 DEF Crash, Start
  <2>5. CASE AcknowledgeHalt
    BY <2>5 DEF AcknowledgeHalt
  <2> QED
    BY <1>9, <2>1, <2>2, <2>3, <2>4, <2>5 DEF FailureNext
<1>10. CASE UNCHANGED vars
  BY <1>10 DEF vars
<1> QED
  BY <1>1, <1>2, <1>3, <1>4, <1>5, <1>6, <1>7, <1>8, <1>9, <1>10 DEF Next

LEMMA SnapshotType ==
  SnapshotTypeOK /\ BrokerTypeOK /\ [Next]_vars => SnapshotTypeOK'
<1> SUFFICES ASSUME SnapshotTypeOK, BrokerTypeOK, [Next]_vars PROVE SnapshotTypeOK'
  OBVIOUS
<1>1. NoSnapshot \in [pos : Int, open : SUBSET Orders, filled : [Orders -> Nat]]
  BY DEF NoSnapshot
<1>2. CASE snap' \in {snap, NoSnapshot}
  BY <1>1, <1>2 DEF SnapshotTypeOK
<1>3. CASE TakeSnapshot
  BY <1>3 DEF TakeSnapshot, SnapshotTypeOK, BrokerTypeOK
<1>4. CASE ReconcileNext
  <2>1. TakeSnapshot \/ snap' \in {snap, NoSnapshot}
    BY <1>4 DEF ReconcileNext, SnapshotFails, SnapshotForeign, AdoptExecution,
                PositionMismatch, CompleteReconcile, ctlVars
  <2> QED
    BY <1>2, <1>3, <2>1
<1>5. CASE FailureNext
  BY <1>2, <1>5 DEF FailureNext, Expire, JournalFails, Crash, Start, AcknowledgeHalt, StopNew,
                    ctlVars
<1> QED
  BY <1>2, <1>4, <1>5, StrategyFrame, EvaluateFrame, SendFrame, TickFrame, CallbackFrame,
     LinkFrame, BrokerFrame DEF Next, vars, ctlVars

LEMMA TargetType == TargetTypeOK /\ [Next]_vars => TargetTypeOK'
<1> SUFFICES ASSUME TargetTypeOK, [Next]_vars PROVE TargetTypeOK'
  OBVIOUS
<1>1. NoTarget \in [dec : Decisions \cup {None}, qty : Int]
  BY DEF NoTarget
<1>2. CASE target' \in {target, NoTarget}
  BY <1>1, <1>2 DEF TargetTypeOK
<1>3. CASE StrategyNext
  BY <1>2, <1>3, Constants DEF StrategyNext, SubmitTarget, TargetTypeOK
<1>4. CASE EvaluateNext
  BY <1>2, <1>4 DEF EvaluateNext, EvaluateNothing, EvaluateMiss, EvaluateCancel, CommitIntent,
                    legVars
<1>5. CASE SendNext
  BY <1>2, <1>5 DEF SendNext, StartSendAttempt, WitnessFails, PlaceOrder, SendReturned,
                    SendRefused, SendUncertain, legVars
<1>6. CASE CallbackNext
  <2>1. CASE \E m \in net : OnNothingNew(m)
    BY <1>2, <2>1 DEF OnNothingNew, vars, legVars
  <2>2. CASE \E o \in Orders : \/ OnAck(o) \/ OnWorking(o) \/ OnCancelled(o)
                               \/ OnCancelRejected(o) \/ OnRejected(o)
    BY <1>2, <2>2 DEF OnAck, OnWorking, OnCancelled, OnCancelRejected, OnRejected
  <2>3. CASE \E o \in Orders : \E k \in 1..bfilled[o] :
               OnExecutionLate(o, k) \/ OnExecutionPartial(o, k) \/ OnExecutionFull(o, k)
    BY <1>2, <2>3 DEF OnExecutionLate, OnExecutionPartial, OnExecutionFull
  <2>4. CASE OnForeignCallback
    BY <1>2, <2>4 DEF OnForeignCallback, legVars
  <2> QED
    BY <1>6, <2>1, <2>2, <2>3, <2>4 DEF CallbackNext
<1>7. CASE FailureNext
  BY <1>2, <1>7 DEF FailureNext, Expire, JournalFails, Crash, Start, AcknowledgeHalt, StopNew,
                    legVars
<1>8. CASE TickNext \/ ReconcileNext \/ LinkNext \/ BrokerNext \/ UNCHANGED vars
  BY <1>2, <1>8, TickFrame, ReconcileFrame, LinkFrame, BrokerFrame DEF vars, legVars
<1> QED
  BY <1>3, <1>4, <1>5, <1>6, <1>7, <1>8 DEF Next
LEMMA SnapshotFacts ==
  TypeOK =>
    /\ snap.pos \in Int /\ snap.open \subseteq Orders
    /\ \A o \in Orders : snap.filled[o] \in Nat /\ Shares(o) \in Nat
BY DEF TypeOK, SnapshotTypeOK, OrderTypeOK, Shares, Abs

LEMMA LegType ==
  /\ TypeOK /\ OnLadder /\ OrderInHand
  /\ [Next]_vars
  => LegTypeOK' /\ OnLadder' /\ OrderInHand'
<1> SUFFICES ASSUME TypeOK, OnLadder, OrderInHand, [Next]_vars
             PROVE  LegTypeOK' /\ OnLadder' /\ OrderInHand'
  OBVIOUS
<1>t. LegTypeOK /\ OrderTypeOK /\ expected \in Int
  BY DEF TypeOK, JournalTypeOK
<1>a. MaxAttempts \in Nat /\ MaxAttempts > 0 /\ None \notin Orders
  BY Constants
<1>s. \A o \in Orders : Signed(o, 1) \in Int
  BY DEF Signed
<1>u. CASE UNCHANGED <<ostate, intent, attempt, sentAt, cancelReason, position, working, order, pc>>
  BY <1>t, <1>u DEF LegTypeOK, OnLadder, OrderInHand
<1> USE DEF LegTypeOK, OnLadder, OrderInHand, Sending, OrderStates, CancelReasons, Untrustworthy
<1>1. CASE StrategyNext
  BY <1>1, <1>t, <1>a DEF StrategyNext, SubmitTarget
<1>2. CASE EvaluateNext
  <2>1. CASE EvaluateNothing
    BY <2>1, <1>t DEF EvaluateNothing, legVars, jrnVars
  <2>2. CASE EvaluateMiss
    BY <2>2, <1>t, <1>a DEF EvaluateMiss, jrnVars
  <2>3. CASE EvaluateCancel
    BY <2>3, <1>t DEF EvaluateCancel, RequestCancel, Distrust, jrnVars
  <2>4. CASE \E o \in Orders : CommitIntent(o)
    BY <2>4, <1>t DEF CommitIntent, LadderLeft, WantsOrder, OrderTypeOK
  <2> QED
    BY <1>2, <2>1, <2>2, <2>3, <2>4 DEF EvaluateNext
<1>3. CASE SendNext
  BY <1>3, <1>t DEF SendNext, StartSendAttempt, WitnessFails, PlaceOrder, SendReturned,
              SendRefused, SendUncertain, Distrust, legVars, jrnVars, OrderTypeOK
<1>4. CASE TickNext
  BY <1>4, <1>t DEF TickNext, TickEvaluate, TickAckTimeout, TickCancel, TickCancelTimeout,
              RequestCancel, Distrust, legVars, jrnVars
<1>5. CASE CallbackNext
  <2>1. CASE \E m \in net : OnNothingNew(m)
    BY <2>1, <1>u DEF OnNothingNew, vars, legVars, jrnVars, ctlVars
  <2>2. CASE \E o \in Orders : OnAck(o) \/ OnCancelRejected(o)
    BY <2>2, <1>t DEF OnAck, OnCancelRejected, Distrust, ctlVars, jrnVars, Deliver, Ready
  <2>7. ASSUME NEW o \in Orders, OnWorking(o)
        PROVE  LegTypeOK' /\ OnLadder' /\ OrderInHand'
    <3>1. /\ intent = o /\ pc' = "ready"
          /\ UNCHANGED <<intent, attempt, sentAt, position, working, order>>
          /\ ostate' \in {ostate, "WORKING", "PENDING_CANCEL", "TERMINAL_UNRECONCILED"}
          /\ cancelReason' \in {cancelReason, "target_changed"}
      BY <2>7 DEF OnWorking, RequestCancel, Distrust, jrnVars, Deliver, Ready
    <3> QED
      BY <3>1, <1>t
  <2>3. CASE \E o \in Orders : OnCancelled(o) \/ OnRejected(o)
    BY <2>3, <1>t, <1>a DEF OnCancelled, OnRejected, Distrust, ctlVars, Deliver, Ready
  <2>4. ASSUME NEW o \in Orders, NEW k \in 1..bfilled[o], OnExecutionPartial(o, k)
        PROVE  LegTypeOK' /\ OnLadder' /\ OrderInHand'
    <3>1. Cardinality(booked[o]) \in Nat
      BY FS_CardinalityType DEF TypeOK, JournalTypeOK
    <3>2. Shares(o) \in Int
      BY <1>t DEF Shares, Abs, OrderTypeOK
    <3>3. working' \in Int /\ position' \in Int
      BY <2>4, <3>1, <3>2, <1>t, <1>s DEF OnExecutionPartial, Signed
    <3> QED
      BY <2>4, <3>3, <1>t, <1>a DEF OnExecutionPartial, ctlVars, Deliver, Ready
  <2>6. ASSUME NEW o \in Orders, NEW k \in 1..bfilled[o],
               OnExecutionLate(o, k) \/ OnExecutionFull(o, k)
        PROVE  LegTypeOK' /\ OnLadder' /\ OrderInHand'
    BY <2>6, <1>t, <1>a, <1>s DEF OnExecutionLate, OnExecutionFull, Distrust, Deliver, Ready
  <2>5. CASE OnForeignCallback
    BY <2>5, <1>t DEF OnForeignCallback, legVars
  <2> QED
    BY <1>5, <2>1, <2>2, <2>3, <2>4, <2>5, <2>6, <2>7 DEF CallbackNext
<1>6. CASE ReconcileNext
  <2>1. CASE SnapshotFails \/ SnapshotForeign \/ TakeSnapshot
    BY <2>1, <1>t DEF SnapshotFails, SnapshotForeign, TakeSnapshot, Restore, jrnVars
  <2>2. CASE \E o \in Orders : \E k \in 1..snap.filled[o] : AdoptExecution(o, k)
    BY <2>2, <1>u DEF AdoptExecution, ctlVars, legVars
  <2>3. CASE PositionMismatch
    BY <2>3, <1>t DEF PositionMismatch, legVars
  <2>4. CASE CompleteReconcile
    <3>1. /\ pc' \in {"evaluate", "ready"} /\ position' = snap.pos
          /\ order' = order /\ cancelReason' = cancelReason
          /\ NothingLive \/ \E o \in snap.open : Rehydrate(o)
      BY <2>4 DEF CompleteReconcile, Halt
    <3>2. CASE NothingLive
      BY <3>1, <3>2, <1>t, SnapshotFacts DEF NothingLive, TypeOK
    <3>3. ASSUME NEW o \in Orders, Rehydrate(o)
          PROVE  LegTypeOK' /\ OnLadder' /\ OrderInHand'
      <4>1. working' \in Int
        BY <3>3, SnapshotFacts DEF Rehydrate, Signed
      <4>2. attempt' \in 0..MaxAttempts /\ attempt' < MaxAttempts
        BY <3>3, <1>t, <1>a DEF Rehydrate, OrderTypeOK
      <4> QED
        BY <3>1, <3>3, <4>1, <4>2, <1>t, SnapshotFacts DEF Rehydrate
    <3> QED
      BY <3>1, <3>2, <3>3, SnapshotFacts
  <2> QED
    BY <1>6, <2>1, <2>2, <2>3, <2>4 DEF ReconcileNext
<1>7. CASE LinkNext
  BY <1>7, <1>t DEF LinkNext, OnConnected, OnDisconnected, OnMarketDataLost, OnMarketDataRestored,
              Restore, legVars, jrnVars
<1>8. CASE BrokerNext
  BY <1>8, <1>u, BrokerFrame DEF ctlVars, legVars, jrnVars
<1>9. CASE FailureNext
  <2>1. CASE Crash
    <3>1. /\ ostate' = "IDLE" /\ intent' = None /\ attempt' = 0 /\ sentAt' = FALSE
          /\ cancelReason' = "none" /\ position' = 0 /\ working' = 0
          /\ pc' = "ready" /\ order' = order
      BY <2>1 DEF Crash, jrnVars
    <3>2. sentAt' \in BOOLEAN
      BY <3>1
    <3> QED
      BY <3>1, <3>2, <1>a
  <2>2. CASE JournalFails
    BY <2>2, <1>t DEF JournalFails, legVars, jrnVars
  <2>3. CASE Start \/ AcknowledgeHalt \/ StopNew \/ \E d \in Decisions : Expire(d)
    BY <2>3, <1>u DEF Start, AcknowledgeHalt, StopNew, Expire, ctlVars, legVars, jrnVars
  <2> QED
    BY <1>9, <2>1, <2>2, <2>3 DEF FailureNext
<1>10. CASE UNCHANGED vars
  BY <1>10, <1>u DEF vars, ctlVars, legVars, jrnVars
<1> QED
  BY <1>1, <1>2, <1>3, <1>4, <1>5, <1>6, <1>7, <1>8, <1>9, <1>10 DEF Next
LEMMA OrderType ==
  TypeOK /\ OnLadder /\ [Next]_vars => OrderTypeOK'
<1> SUFFICES ASSUME TypeOK, OnLadder, [Next]_vars PROVE OrderTypeOK'
  OBVIOUS
<1>t. LegTypeOK /\ TargetTypeOK /\ OrderTypeOK
  BY DEF TypeOK
<1>u. CASE UNCHANGED order
  BY <1>t, <1>u DEF OrderTypeOK
<1>1. CASE EvaluateNext
  <2>1. CASE EvaluateNothing \/ EvaluateMiss \/ EvaluateCancel
    BY <2>1, <1>u DEF EvaluateNothing, EvaluateMiss, EvaluateCancel, jrnVars
  <2>2. ASSUME NEW o \in Orders, CommitIntent(o) PROVE OrderTypeOK'
    <3>1. Delta \in Int
      BY <1>t DEF Delta, LegTypeOK, TargetTypeOK
    <3>2. [dec |-> target.dec, tgt |-> target.qty, qty |-> Delta, att |-> attempt]
            \in [dec : Decisions \cup {None}, tgt : Int, qty : Int, att : Nat]
      BY <1>t, <3>1, Constants DEF LegTypeOK, TargetTypeOK
    <3> QED
      BY <2>2, <3>2, <1>t DEF CommitIntent, OrderTypeOK
  <2> QED
    BY <1>1, <2>1, <2>2 DEF EvaluateNext
<1> QED
  BY <1>1, <1>u, StrategyFrame, SendFrame, TickFrame, CallbackFrame, ReconcileFrame,
     LinkFrame, BrokerFrame, FailureFrame DEF Next, vars, jrnVars

LEMMA JournalType ==
  TypeOK /\ [Next]_vars => JournalTypeOK'
<1> SUFFICES ASSUME TypeOK, [Next]_vars PROVE JournalTypeOK'
  OBVIOUS
<1>t. JournalTypeOK
  BY DEF TypeOK
<1> USE DEF JournalTypeOK
<1>u. CASE UNCHANGED <<accepted, jstate, booked, expected, haltActive>>
  BY <1>t, <1>u
<1>b. ASSUME NEW o \in Orders, NEW k \in Nat, Book(o, k)
      PROVE  /\ booked' \in [Orders -> SUBSET Nat] /\ \A a \in Orders : IsFiniteSet(booked'[a])
             /\ expected' \in Int
  <2>1. booked' = [booked EXCEPT ![o] = @ \cup {k}]
    BY <1>b DEF Book
  <2>2. booked' \in [Orders -> SUBSET Nat]
    BY <1>t, <2>1
  <2>3. IsFiniteSet(booked[o] \cup {k})
    BY <1>t, FS_AddElement
  <2>4. \A a \in Orders : booked'[a] = IF a = o THEN booked[o] \cup {k} ELSE booked[a]
    BY <1>t, <2>1
  <2>5. expected' \in Int
    BY <1>b, <1>t DEF Book, Signed
  <2> QED
    BY <1>t, <2>2, <2>3, <2>4, <2>5
<1>1. CASE StrategyNext
  BY <1>1, <1>t DEF StrategyNext, SubmitTarget
<1>2. CASE EvaluateNext
  BY <1>2, <1>t DEF EvaluateNext, EvaluateNothing, EvaluateMiss, EvaluateCancel, CommitIntent,
                    jrnVars, JournalStates
<1>3. CASE SendNext
  BY <1>3, <1>t DEF SendNext, StartSendAttempt, WitnessFails, PlaceOrder, SendReturned,
                    SendRefused, SendUncertain, jrnVars, JournalStates
<1>4. CASE CallbackNext
  <2>1. CASE \E m \in net : OnNothingNew(m)
    BY <2>1, <1>u DEF OnNothingNew, vars, jrnVars
  <2>2. CASE \E o \in Orders : \/ OnAck(o) \/ OnWorking(o) \/ OnCancelled(o)
                               \/ OnCancelRejected(o) \/ OnRejected(o)
    BY <2>2, <1>t DEF OnAck, OnWorking, OnCancelled, OnCancelRejected, OnRejected,
                      jrnVars, JournalStates
  <2>3. ASSUME NEW o \in Orders, NEW k \in 1..bfilled[o],
               OnExecutionLate(o, k) \/ OnExecutionPartial(o, k) \/ OnExecutionFull(o, k)
        PROVE  JournalTypeOK'
    <3>1. k \in Nat
      BY DEF TypeOK, BrokerTypeOK
    <3>2. Book(o, k) /\ UNCHANGED <<accepted, haltActive>>
          /\ jstate' \in {jstate, [jstate EXCEPT ![o] = "filled"]}
      BY <2>3 DEF OnExecutionLate, OnExecutionPartial, OnExecutionFull
    <3> QED
      BY <3>1, <3>2, <1>b, <1>t DEF JournalStates
  <2>4. CASE OnForeignCallback
    BY <2>4, <1>t DEF OnForeignCallback, Halt
  <2> QED
    BY <1>4, <2>1, <2>2, <2>3, <2>4 DEF CallbackNext
<1>5. CASE ReconcileNext
  <2>1. CASE SnapshotFails \/ SnapshotForeign \/ TakeSnapshot \/ PositionMismatch
    BY <2>1, <1>t DEF SnapshotFails, SnapshotForeign, TakeSnapshot, PositionMismatch, Halt, jrnVars
  <2>2. ASSUME NEW o \in Orders, NEW k \in 1..snap.filled[o], AdoptExecution(o, k)
        PROVE  JournalTypeOK'
    <3>1. k \in Nat
      BY SnapshotFacts
    <3>2. Book(o, k) /\ UNCHANGED <<accepted, haltActive, jstate>>
      BY <2>2 DEF AdoptExecution
    <3> QED
      BY <3>1, <3>2, <1>b, <1>t
  <2>3. CASE CompleteReconcile
    <3>1. jstate' = ResolvedJournal /\ haltActive' \in BOOLEAN
          /\ UNCHANGED <<accepted, booked, expected>>
      BY <2>3, <1>t DEF CompleteReconcile, Halt
    <3>2. ResolvedJournal \in [Orders -> JournalStates]
      BY <1>t DEF ResolvedJournal, JournalStates
    <3> QED
      BY <3>1, <3>2, <1>t
  <2> QED
    BY <1>5, <2>1, <2>2, <2>3 DEF ReconcileNext
<1>6. CASE FailureNext
  BY <1>6, <1>t DEF FailureNext, Expire, JournalFails, Crash, Start, AcknowledgeHalt, StopNew,
                    jrnVars
<1>7. CASE TickNext \/ LinkNext \/ BrokerNext \/ UNCHANGED vars
  BY <1>7, <1>u, TickFrame, LinkFrame, BrokerFrame DEF vars, jrnVars
<1> QED
  BY <1>1, <1>2, <1>3, <1>4, <1>5, <1>6, <1>7 DEF Next

LEMMA BrokerType ==
  TypeOK /\ OrderInHand /\ [Next]_vars => BrokerTypeOK'
<1> SUFFICES ASSUME TypeOK, OrderInHand, [Next]_vars PROVE BrokerTypeOK'
  OBVIOUS
<1>t. BrokerTypeOK /\ LegTypeOK
  BY DEF TypeOK
<1> USE DEF BrokerTypeOK, BrokerStates
<1>u. CASE UNCHANGED <<broVars, net, expired>>
  BY <1>t, <1>u DEF broVars
<1>c. CASE /\ UNCHANGED <<bstate, bfilled, bposition, foreign, net, expired>>
           /\ cancels' = cancels \/ (cancels' = cancels \cup {intent} /\ intent \in Orders)
  BY <1>t, <1>c
<1>1. CASE EvaluateNext
  <2>1. cancels' = cancels \/ (cancels' = cancels \cup {intent} /\ ostate = "WORKING")
    BY <1>1 DEF EvaluateNext, EvaluateNothing, EvaluateMiss, EvaluateCancel, CommitIntent,
                RequestCancel, broVars
  <2> QED
    BY <1>1, <1>c, <2>1, EvaluateFrame DEF OrderInHand, Untrustworthy
<1>2. CASE SendNext
  <2>1. CASE PlaceOrder
    <3>1. intent \in Orders
      BY <2>1 DEF PlaceOrder, OrderInHand, Sending
    <3> QED
      BY <1>2, <2>1, <3>1, <1>t, SendFrame DEF PlaceOrder
  <2>2. CASE ~PlaceOrder
    BY <1>2, <1>u, <2>2 DEF SendNext, StartSendAttempt, WitnessFails, SendReturned,
                            SendRefused, SendUncertain
  <2> QED
    BY <2>1, <2>2
<1>3. CASE TickNext
  <2>1. cancels' = cancels \/ (cancels' = cancels \cup {intent} /\ ostate = "WORKING")
    BY <1>3 DEF TickNext, TickEvaluate, TickAckTimeout, TickCancel, TickCancelTimeout,
                RequestCancel, broVars
  <2> QED
    BY <1>3, <1>c, <2>1, TickFrame DEF OrderInHand, Untrustworthy
<1>4. CASE CallbackNext
  <2>1. cancels' = cancels \/ \E o \in Orders : OnWorking(o)
    BY <1>4 DEF CallbackNext, OnNothingNew, OnAck, OnCancelled, OnCancelRejected, OnRejected,
                OnExecutionLate, OnExecutionPartial, OnExecutionFull, OnForeignCallback,
                broVars, vars
  <2>2. ASSUME NEW o \in Orders, OnWorking(o)
        PROVE  cancels' = cancels \/ (cancels' = cancels \cup {intent} /\ intent \in Orders)
    BY <2>2 DEF OnWorking, RequestCancel
  <2> QED
    BY <1>4, <1>c, <2>1, <2>2, CallbackFrame
<1>5. CASE BrokerNext
  <2>1. \A o \in Orders, k \in Nat, kind \in {"ack", "working", "exec", "cancelled",
                                             "cancelRejected", "rejected"} :
          Callback(kind, o, k) \in Callbacks
    BY DEF Callback, Callbacks
  <2>2. ASSUME NEW o \in Orders,
               \/ BrokerAccept(o) \/ BrokerReject(o) \/ BrokerNeverReceives(o)
               \/ BrokerCancel(o) \/ BrokerRejectCancel(o) \/ BrokerIgnoresCancel(o)
        PROVE  BrokerTypeOK'
    BY <2>1, <2>2, <1>t DEF BrokerAccept, BrokerReject, BrokerNeverReceives, BrokerCancel,
         BrokerRejectCancel, BrokerIgnoresCancel, Emit
  <2>3. ASSUME NEW o \in Orders, BrokerFill(o)
        PROVE  BrokerTypeOK'
    BY <2>1, <2>3, <1>t DEF BrokerFill, Emit, Signed
  <2>4. ASSUME NEW kind \in {"foreignOrder", "foreignPosition"}, ForeignFact(kind)
        PROVE  BrokerTypeOK'
    BY <2>4, <1>t DEF ForeignFact
  <2>5. CASE ForeignSettled
    BY <2>5, <1>t DEF ForeignSettled
  <2> QED
    BY <1>5, <2>2, <2>3, <2>4, <2>5 DEF BrokerNext
<1>6. CASE FailureNext
  BY <1>6, <1>t DEF FailureNext, Expire, JournalFails, Crash, Start, AcknowledgeHalt, StopNew,
                    broVars
<1>7. CASE StrategyNext \/ ReconcileNext \/ LinkNext \/ UNCHANGED vars
  BY <1>7, <1>u, StrategyFrame, ReconcileFrame, LinkFrame DEF vars
<1> QED
  BY <1>1, <1>2, <1>3, <1>4, <1>5, <1>6, <1>7 DEF Next
-----------------------------------------------------------------------------
(* The part of IInv that types and bounds rest on.                         *)
TInv == TypeOK /\ OnLadder /\ OrderInHand

LEMMA TInvInit == Init => TInv
<1> SUFFICES ASSUME Init PROVE TInv
  OBVIOUS
<1> USE DEF Init
<1>1. ControlTypeOK
  BY DEF ControlTypeOK, LinkStates, SyncStates, Modes, PCs
<1>2. SnapshotTypeOK
  BY DEF SnapshotTypeOK, NoSnapshot
<1>3. LegTypeOK
  <2>1. sentAt \in BOOLEAN
    OBVIOUS
  <2> QED
    BY <2>1, Constants DEF LegTypeOK, OrderStates, CancelReasons
<1>4. TargetTypeOK /\ OrderTypeOK
  BY DEF TargetTypeOK, NoTarget, OrderTypeOK, NoIntent
<1>5. JournalTypeOK
  <2>1. haltActive \in BOOLEAN
    OBVIOUS
  <2> QED
    BY <2>1, FS_EmptySet DEF JournalTypeOK, JournalStates
<1>6. BrokerTypeOK
  BY DEF BrokerTypeOK, BrokerStates, Callbacks
<1>7. OnLadder /\ OrderInHand
  BY Constants DEF OnLadder, OrderInHand, Sending, Untrustworthy, NoIntent
<1> QED
  BY <1>1, <1>2, <1>3, <1>4, <1>5, <1>6, <1>7 DEF TInv, TypeOK

LEMMA TInvStep == TInv /\ [Next]_vars => TInv'
BY ControlType, SnapshotType, TargetType, LegType, OrderType, JournalType, BrokerType
   DEF TInv, TypeOK

(* Every variable keeps its type in every instance, and the rung counter   *)
(* of the reprice ladder, which repricing, rejections and rehydration from *)
(* the journal all move, never passes max_attempts.                        *)
THEOREM TypeCorrect == Spec => []TypeOK
<1>1. TInv => TypeOK
  BY DEF TInv
<1> QED
  BY <1>1, TInvInit, TInvStep, PTL DEF Spec

-----------------------------------------------------------------------------
(* The durable HALT.                                                       *)

LEMMA CancelFacts ==
  ASSUME NEW why, NEW current, RequestCancel(why, current)
  PROVE  /\ mode' \in {mode, "HALTED"} /\ sync' \in {sync, "UNVERIFIED"}
         /\ ostate' \in {current, "PENDING_CANCEL", "TERMINAL_UNRECONCILED"}
BY DEF RequestCancel, Fence, Distrust

LEMMA HaltStep == HaltObeyed /\ [Next]_vars => HaltObeyed'
<1> SUFFICES ASSUME HaltObeyed, [Next]_vars PROVE HaltObeyed'
  OBVIOUS
<1> USE DEF HaltObeyed, Sending, Adopting
<1>1. CASE StrategyNext
  BY <1>1 DEF StrategyNext, SubmitTarget
<1>2. CASE EvaluateNext
  BY <1>2 DEF EvaluateNext, EvaluateNothing, EvaluateMiss, EvaluateCancel, CommitIntent,
              RequestCancel, Fence, Distrust, WantsOrder, Permitted, Writable, CanWrite, jrnVars
<1>3. CASE SendNext
  BY <1>3 DEF SendNext, StartSendAttempt, WitnessFails, PlaceOrder, SendReturned,
              SendRefused, SendUncertain, Fence, Distrust, jrnVars
<1>4. CASE TickNext
  <2>1. /\ mode' \in {mode, "HALTED"} /\ sync' \in {sync, "UNVERIFIED"}
        /\ pc' \in {"ready", "evaluate"} /\ UNCHANGED <<restored, haltActive>>
    BY <1>4, CancelFacts DEF TickNext, TickEvaluate, TickAckTimeout, TickCancel, TickCancelTimeout,
                Distrust, Ready, jrnVars
  <2> QED
    BY <2>1
<1>5. CASE CallbackNext
  <2>1. CASE \E m \in net : OnNothingNew(m)
    BY <2>1 DEF OnNothingNew, vars, ctlVars, jrnVars
  <2>2. CASE \E o \in Orders : \/ OnAck(o) \/ OnWorking(o) \/ OnCancelled(o)
                               \/ OnCancelRejected(o) \/ OnRejected(o)
    <3>1. /\ mode' \in {mode, "HALTED"} /\ sync' \in {sync, "UNVERIFIED"}
          /\ pc' \in {"ready", "reconcile", "recheck"} /\ UNCHANGED <<restored, haltActive>>
      BY <2>2, CancelFacts DEF OnAck, OnWorking, OnCancelled, OnCancelRejected, OnRejected,
                ctlVars, jrnVars, Distrust, Deliver, Ready
    <3> QED
      BY <3>1
  <2>3. CASE \E o \in Orders : \E k \in 1..bfilled[o] :
               OnExecutionLate(o, k) \/ OnExecutionPartial(o, k) \/ OnExecutionFull(o, k)
    BY <2>3 DEF OnExecutionLate, OnExecutionPartial, OnExecutionFull, Distrust, ctlVars,
                Deliver, Ready
  <2>4. CASE OnForeignCallback
    BY <2>4 DEF OnForeignCallback, Halt, Ready
  <2> QED
    BY <1>5, <2>1, <2>2, <2>3, <2>4 DEF CallbackNext
<1>6. CASE ReconcileNext
  BY <1>6 DEF ReconcileNext, SnapshotFails, SnapshotForeign, TakeSnapshot, AdoptExecution,
              PositionMismatch, CompleteReconcile, Restore, Halt, Reconciling, ctlVars, jrnVars
<1>7. CASE LinkNext
  BY <1>7 DEF LinkNext, OnConnected, OnDisconnected, OnMarketDataLost, OnMarketDataRestored,
              Restore, Ready, jrnVars
<1>8. CASE BrokerNext
  BY <1>8, BrokerFrame DEF ctlVars, jrnVars
<1>9. CASE FailureNext
  BY <1>9 DEF FailureNext, Expire, JournalFails, Crash, Start, AcknowledgeHalt, StopNew, Fence,
              ctlVars, jrnVars
<1>10. CASE UNCHANGED vars
  BY <1>10 DEF vars, ctlVars, jrnVars
<1> QED
  BY <1>1, <1>2, <1>3, <1>4, <1>5, <1>6, <1>7, <1>8, <1>9, <1>10 DEF Next

(* The only step that sends is PlaceOrder, of the leg's own intent.        *)
LEMMA OnlyPlaceOrderSends ==
  ASSUME TypeOK, [Next]_vars, NEW o \in Orders, Sends(o)
  PROVE  PlaceOrder /\ o = intent
<1>1. bstate \in [Orders -> BrokerStates] /\ bstate' # bstate
  BY DEF TypeOK, BrokerTypeOK, Sends
<1>2. CASE SendNext
  BY <1>1, <1>2 DEF SendNext, StartSendAttempt, WitnessFails, PlaceOrder, SendReturned,
                    SendRefused, SendUncertain, Sends, broVars
<1>3. CASE BrokerNext
  BY <1>1, <1>3 DEF BrokerNext, BrokerAccept, BrokerReject, BrokerNeverReceives, BrokerFill,
                    BrokerCancel, BrokerRejectCancel, BrokerIgnoresCancel, ForeignFact,
                      ForeignSettled, Sends
<1> QED
  BY <1>1, <1>2, <1>3, StrategyFrame, EvaluateFrame, TickFrame, CallbackFrame, ReconcileFrame,
     LinkFrame, FailureFrame DEF Next, vars, broVars

(* A HALT that is in the log without its acknowledgement stops every send, *)
(* in the process that raised it and in every process after it.            *)
THEOREM HaltLatch == Spec => HaltOutlivesProcess
<1>1. Init => HaltObeyed
  BY DEF Init, HaltObeyed, Sending, Adopting
<1>2. TypeOK /\ HaltObeyed /\ [Next]_vars => [\A o \in Orders : Sends(o) => ~haltActive]_vars
  BY OnlyPlaceOrderSends DEF PlaceOrder, HaltObeyed, Sending
<1> QED
  BY <1>1, <1>2, HaltStep, TypeCorrect, PTL DEF Spec, HaltOutlivesProcess
-----------------------------------------------------------------------------
(* Which steps write the durable state, and what else they do.             *)

LEMMA JournalSteps ==
  ASSUME [Next]_vars, jstate' # jstate
  PROVE  \/ \E o \in Orders : CommitIntent(o)
         \/ StartSendAttempt \/ SendRefused
         \/ \E o \in Orders : \E k \in 1..bfilled[o] : OnExecutionFull(o, k)
         \/ \E o \in Orders : OnCancelled(o) \/ OnRejected(o)
         \/ CompleteReconcile
<1>1. CASE EvaluateNext
  BY <1>1 DEF EvaluateNext, EvaluateNothing, EvaluateMiss, EvaluateCancel, jrnVars
<1>2. CASE SendNext
  BY <1>2 DEF SendNext, WitnessFails, PlaceOrder, SendReturned, SendUncertain, jrnVars
<1>3. CASE CallbackNext
  BY <1>3 DEF CallbackNext, OnNothingNew, OnAck, OnWorking, OnCancelRejected, OnExecutionLate,
              OnExecutionPartial, OnForeignCallback, jrnVars, vars
<1>4. CASE ReconcileNext
  BY <1>4 DEF ReconcileNext, SnapshotFails, SnapshotForeign, TakeSnapshot, AdoptExecution,
              PositionMismatch, jrnVars
<1> QED
  BY <1>1, <1>2, <1>3, <1>4, StrategyFrame, TickFrame, LinkFrame, BrokerFrame, FailureFrame
     DEF Next, vars, jrnVars

LEMMA OrderSteps == [Next]_vars => order' = order \/ \E o \in Orders : CommitIntent(o)
BY StrategyFrame, SendFrame, TickFrame, CallbackFrame, ReconcileFrame, LinkFrame, BrokerFrame,
   FailureFrame DEF Next, vars, jrnVars, EvaluateNext, EvaluateNothing, EvaluateMiss,
   EvaluateCancel

LEMMA BookingSteps ==
  ASSUME [Next]_vars, booked' # booked \/ expected' # expected
  PROVE  \E o \in Orders :
           \/ \E k \in 1..bfilled[o] :
                /\ OnExecutionLate(o, k) \/ OnExecutionPartial(o, k) \/ OnExecutionFull(o, k)
           \/ \E k \in 1..snap.filled[o] : AdoptExecution(o, k)
<1>1. CASE CallbackNext
  BY <1>1 DEF CallbackNext, OnNothingNew, OnAck, OnWorking, OnCancelled, OnCancelRejected,
              OnRejected, OnForeignCallback, jrnVars, vars
<1>2. CASE ReconcileNext
  BY <1>2 DEF ReconcileNext, SnapshotFails, SnapshotForeign, TakeSnapshot, PositionMismatch,
              CompleteReconcile, jrnVars
<1> QED
  BY <1>1, <1>2, StrategyFrame, EvaluateFrame, SendFrame, TickFrame, LinkFrame, BrokerFrame,
     FailureFrame DEF Next, vars, jrnVars

LEMMA BrokerSteps ==
  ASSUME [Next]_vars, bstate' # bstate \/ bfilled' # bfilled \/ bposition' # bposition
  PROVE  \/ PlaceOrder
         \/ \E o \in Orders : \/ BrokerAccept(o) \/ BrokerReject(o) \/ BrokerNeverReceives(o)
                               \/ BrokerFill(o) \/ BrokerCancel(o)
<1>1. CASE SendNext
  BY <1>1 DEF SendNext, StartSendAttempt, WitnessFails, SendReturned, SendRefused, SendUncertain,
              broVars
<1>2. CASE BrokerNext
  BY <1>2 DEF BrokerNext, BrokerRejectCancel, BrokerIgnoresCancel, ForeignFact, ForeignSettled
<1> QED
  BY <1>1, <1>2, StrategyFrame, EvaluateFrame, TickFrame, CallbackFrame, ReconcileFrame,
     LinkFrame, FailureFrame DEF Next, vars, broVars
-----------------------------------------------------------------------------
(* One order at a time: the invariant between journal, broker and leg.     *)

SInv ==
  /\ TInv
  /\ SendInProgress /\ DurableBeforeSend /\ BookedIsReal /\ CallbacksAreTrue
  /\ LiveOrdersAreOpen /\ OneUnterminatedIntent /\ SnapshotCovers /\ SyncedOwnsTheOpen

LEMMA Facts ==
  SInv =>
    /\ jstate \in [Orders -> JournalStates] /\ bstate \in [Orders -> BrokerStates]
    /\ booked \in [Orders -> SUBSET Nat] /\ bfilled \in [Orders -> Nat]
    /\ order \in [Orders -> [dec : Decisions \cup {None}, tgt : Int, qty : Int, att : Nat]]
    /\ pc \in Sending => intent \in Orders
    /\ \A o \in Orders : /\ Shares(o) \in Nat /\ (order[o].qty # 0 => Shares(o) > 0)
                         /\ Cardinality(booked[o]) \in Nat
<1> SUFFICES ASSUME SInv PROVE
      /\ jstate \in [Orders -> JournalStates] /\ bstate \in [Orders -> BrokerStates]
      /\ booked \in [Orders -> SUBSET Nat] /\ bfilled \in [Orders -> Nat]
      /\ order \in [Orders -> [dec : Decisions \cup {None}, tgt : Int, qty : Int, att : Nat]]
      /\ pc \in Sending => intent \in Orders
      /\ \A o \in Orders : /\ Shares(o) \in Nat /\ (order[o].qty # 0 => Shares(o) > 0)
                           /\ Cardinality(booked[o]) \in Nat
  OBVIOUS
<1>1. /\ jstate \in [Orders -> JournalStates] /\ bstate \in [Orders -> BrokerStates]
      /\ booked \in [Orders -> SUBSET Nat] /\ bfilled \in [Orders -> Nat]
      /\ order \in [Orders -> [dec : Decisions \cup {None}, tgt : Int, qty : Int, att : Nat]]
      /\ \A o \in Orders : IsFiniteSet(booked[o])
  BY DEF SInv, TInv, TypeOK, JournalTypeOK, BrokerTypeOK, OrderTypeOK
<1>2. \A o \in Orders : Cardinality(booked[o]) \in Nat
  BY <1>1, FS_CardinalityType
<1>3. \A o \in Orders : Shares(o) \in Nat /\ (order[o].qty # 0 => Shares(o) > 0)
  BY <1>1 DEF Shares, Abs
<1>4. pc \in Sending => intent \in Orders
  BY DEF SInv, TInv, OrderInHand
<1> QED
  BY <1>1, <1>2, <1>3, <1>4

(* While a handler is sending, the steps that leave it sending.            *)
LEMMA SendingSteps ==
  ASSUME [Next]_vars, pc' \in Sending
  PROVE  \/ \E o \in Orders : CommitIntent(o)
         \/ pc = "intent" /\ StartSendAttempt
         \/ pc = "attempt" /\ PlaceOrder
         \/ UNCHANGED <<pc, mode, intent, ostate, sync, jstate, order, bstate, bposition>>
         \/ UNCHANGED <<pc, mode, intent, ostate, sync, jstate, order>> /\ BrokerNext
<1> USE DEF Sending
<1>1. CASE EvaluateNext
  BY <1>1 DEF EvaluateNext, EvaluateNothing, EvaluateMiss, EvaluateCancel
<1>2. CASE SendNext
  BY <1>2 DEF SendNext, StartSendAttempt, WitnessFails, PlaceOrder, SendReturned, SendRefused,
              SendUncertain
<1>3. CASE TickNext
  BY <1>3 DEF TickNext, TickEvaluate, TickAckTimeout, TickCancel, TickCancelTimeout, Ready
<1>4. CASE CallbackNext
  <2>1. CASE \E m \in net : OnNothingNew(m)
    BY <2>1 DEF OnNothingNew, vars, ctlVars, legVars, jrnVars, broVars
  <2>2. CASE \E o \in Orders : \/ OnAck(o) \/ OnWorking(o) \/ OnCancelled(o)
                               \/ OnCancelRejected(o) \/ OnRejected(o)
    BY <2>2 DEF OnAck, OnWorking, OnCancelled, OnCancelRejected, OnRejected, Deliver, Ready, ctlVars
  <2>3. CASE \E o \in Orders : \E k \in 1..bfilled[o] :
               OnExecutionLate(o, k) \/ OnExecutionPartial(o, k) \/ OnExecutionFull(o, k)
    BY <2>3 DEF OnExecutionLate, OnExecutionPartial, OnExecutionFull, Deliver, Ready, ctlVars
  <2>4. CASE OnForeignCallback
    BY <2>4 DEF OnForeignCallback, Ready
  <2> QED
    BY <1>4, <2>1, <2>2, <2>3, <2>4 DEF CallbackNext
<1>5. CASE ReconcileNext
  BY <1>5 DEF ReconcileNext, SnapshotFails, SnapshotForeign, TakeSnapshot, AdoptExecution,
              PositionMismatch, CompleteReconcile, ctlVars
<1>6. CASE LinkNext
  BY <1>6 DEF LinkNext, OnConnected, OnDisconnected, OnMarketDataLost, OnMarketDataRestored, Ready
<1>7. CASE BrokerNext
  BY <1>7, BrokerFrame DEF ctlVars, legVars, jrnVars
<1>8. CASE FailureNext
  BY <1>8 DEF FailureNext, Expire, JournalFails, Crash, Start, AcknowledgeHalt, StopNew,
              Ready, ctlVars, legVars, jrnVars, broVars
<1>9. CASE StrategyNext
  BY <1>9 DEF StrategyNext, SubmitTarget, Ready
<1>10. CASE UNCHANGED vars
  BY <1>10 DEF vars, ctlVars, legVars, jrnVars, broVars
<1> QED
  BY <1>1, <1>2, <1>3, <1>4, <1>5, <1>6, <1>7, <1>8, <1>9, <1>10 DEF Next

LEMMA SendInProgressStep == SInv /\ [Next]_vars => SendInProgress'
<1> SUFFICES ASSUME SInv, [Next]_vars, pc' \in Sending PROVE SendInProgress'
  BY DEF SendInProgress
<1>f. /\ SendInProgress /\ DurableBeforeSend
  BY DEF SInv
<1> USE DEF SendInProgress, Sending
<1>1. ASSUME NEW o \in Orders, CommitIntent(o) PROVE SendInProgress'
  BY <1>1, <1>f, Facts DEF CommitIntent, WantsOrder, Permitted, Writable, CanWrite,
                           DurableBeforeSend, DurableOf, broVars
<1>2. CASE pc = "intent" /\ StartSendAttempt
  BY <1>2, <1>f, Facts DEF StartSendAttempt, broVars
<1>3. CASE pc = "attempt" /\ PlaceOrder
  BY <1>3, <1>f, Facts DEF PlaceOrder, legVars, jrnVars
<1>4. CASE UNCHANGED <<pc, mode, intent, ostate, sync, jstate, order, bstate, bposition>>
  BY <1>4, <1>f
<1>5. CASE UNCHANGED <<pc, mode, intent, ostate, sync, jstate, order>> /\ BrokerNext
  <2>1. bstate[intent] = "none" /\ intent \in Orders => bstate'[intent] = "none"
    BY <1>5, Facts DEF BrokerNext, BrokerAccept, BrokerReject, BrokerNeverReceives, BrokerFill,
               BrokerCancel, BrokerRejectCancel, BrokerIgnoresCancel, ForeignFact, ForeignSettled
  <2> QED
    BY <1>5, <1>f, <2>1, Facts
<1> QED
  BY <1>1, <1>2, <1>3, <1>4, <1>5, SendingSteps
(* What is booked is counted by what the broker filled.                    *)
LEMMA CountTo == ASSUME NEW n \in Nat PROVE IsFiniteSet(1..n) /\ Cardinality(1..n) = n
BY FS_Interval

LEMMA BookedCount ==
  ASSUME SInv, NEW o \in Orders
  PROVE  /\ Cardinality(booked[o]) <= bfilled[o]
         /\ Cardinality(booked[o]) = bfilled[o] <=> ~Behind(o)
         /\ \A k \in 1..bfilled[o] : k \notin booked[o] =>
              Cardinality(booked[o] \cup {k}) = Cardinality(booked[o]) + 1
<1>1. bfilled[o] \in Nat
  BY Facts
<1>2. IsFiniteSet(1..bfilled[o]) /\ Cardinality(1..bfilled[o]) = bfilled[o]
  BY <1>1, CountTo
<1>3. booked[o] \in SUBSET (1..bfilled[o])
  BY DEF SInv, BookedIsReal
<1>4. /\ IsFiniteSet(booked[o]) /\ Cardinality(booked[o]) <= bfilled[o]
      /\ Cardinality(booked[o]) = bfilled[o] => booked[o] = 1..bfilled[o]
  BY <1>2, <1>3, FS_Subset
<1>5. ~Behind(o) <=> booked[o] = 1..bfilled[o]
  BY <1>3 DEF Behind
<1> QED
  BY <1>2, <1>4, <1>5, FS_AddElement

(* A terminal event is written only of an order that was sent and that the *)
(* broker no longer has; no other step leaves "none" or "open" behind.     *)
LEMMA JournalMoves ==
  ASSUME SInv, [Next]_vars, NEW c \in Orders, jstate'[c] # jstate[c]
  PROVE  \/ CommitIntent(c) /\ jstate[c] = "none"
         \/ StartSendAttempt /\ c = intent /\ jstate[c] = "intended"
         \/ /\ jstate[c] \notin {"none", "intended"} /\ ~Alive(c)
            /\ jstate'[c] \notin {"none", "intended", "open"}
<1>f. SendInProgress /\ DurableBeforeSend /\ CallbacksAreTrue /\ SnapshotCovers
  BY DEF SInv
<1>1. CASE \E o \in Orders : CommitIntent(o)
  BY <1>1, Facts DEF CommitIntent
<1>2. CASE StartSendAttempt
  BY <1>2, <1>f, Facts DEF StartSendAttempt, SendInProgress, Sending
<1>3. CASE SendRefused
  BY <1>3, <1>f, Facts DEF SendRefused, SendInProgress, Sending, Alive
<1>4. ASSUME NEW o \in Orders, NEW k \in 1..bfilled[o], OnExecutionFull(o, k)
      PROVE  /\ jstate[o] \notin {"none", "intended"} /\ ~Alive(o)
             /\ jstate' = [jstate EXCEPT ![o] = "filled"]
  <2>1. /\ jstate' = [jstate EXCEPT ![o] = "filled"] /\ k \notin booked[o]
        /\ Cardinality(booked[o]) + 1 >= Shares(o)
    BY <1>4 DEF OnExecutionFull
  <2>2. Cardinality(booked[o]) < bfilled[o] /\ bfilled[o] # 0
    <3>1. Behind(o)
      BY <2>1 DEF Behind
    <3>2. /\ Cardinality(booked[o]) <= bfilled[o] /\ Cardinality(booked[o]) # bfilled[o]
          /\ Cardinality(booked[o]) \in Nat /\ bfilled[o] \in Nat
      BY <3>1, BookedCount, Facts
    <3> QED
      BY <3>2
  <2> QED
    BY <2>1, <2>2, <1>f, Facts DEF DurableBeforeSend, DurableOf, Alive
<1>5. ASSUME NEW o \in Orders, OnCancelled(o) \/ OnRejected(o)
      PROVE  /\ jstate[o] \notin {"none", "intended"} /\ ~Alive(o)
             /\ jstate' \in {[jstate EXCEPT ![o] = "cancelled"], [jstate EXCEPT ![o] = "rejected"]}
  <2>1. Callback("cancelled", o, 0) \in net \/ Callback("rejected", o, 0) \in net
    BY <1>5 DEF OnCancelled, OnRejected, Deliver
  <2>2. bstate[o] \in {"cancelled", "rejected"}
    BY <2>1, <1>f DEF CallbacksAreTrue, Callback
  <2> QED
    BY <2>2, <1>5, <1>f, Facts DEF OnCancelled, OnRejected, DurableBeforeSend, DurableOf, Alive
<1>6. CASE CompleteReconcile
  BY <1>6, <1>f, Facts DEF CompleteReconcile, ResolvedJournal, SnapshotCovers, Adopting
<1> QED
  BY <1>1, <1>2, <1>3, <1>4, <1>5, <1>6, Facts, JournalSteps

LEMMA FullyBooked ==
  ASSUME SInv, NEW o \in Orders, NEW k \in 1..bfilled[o], k \notin booked[o],
         Cardinality(booked[o]) + 1 >= Shares(o)
  PROVE  booked[o] \cup {k} = 1..bfilled[o]
<1>1. bfilled[o] \in Nat /\ bfilled[o] # 0 /\ bfilled[o] <= Shares(o)
  BY Facts DEF SInv, DurableBeforeSend, DurableOf
<1>2. IsFiniteSet(1..bfilled[o]) /\ Cardinality(1..bfilled[o]) = bfilled[o]
  BY CountTo, Facts
<1>3. booked[o] \cup {k} \in SUBSET (1..bfilled[o])
  BY DEF SInv, BookedIsReal
<1>4. Cardinality(booked[o] \cup {k}) >= bfilled[o]
  <2>1. Cardinality(booked[o] \cup {k}) = Cardinality(booked[o]) + 1
    BY BookedCount
  <2> QED
    BY <1>1, <2>1, Facts
<1>5. Cardinality(booked[o] \cup {k}) <= bfilled[o]
  BY <1>2, <1>3, FS_Subset
<1>6. Cardinality(booked[o] \cup {k}) \in Nat
  BY <1>2, <1>3, FS_Subset, FS_CardinalityType
<1>7. Cardinality(booked[o] \cup {k}) = Cardinality(1..bfilled[o])
  BY <1>1, <1>2, <1>4, <1>5, <1>6
<1> QED
  BY <1>2, <1>3, <1>7, FS_Subset

LEMMA DurableBeforeSendStep == SInv /\ [Next]_vars => DurableBeforeSend'
<1> SUFFICES ASSUME SInv, [Next]_vars, NEW a \in Orders PROVE DurableOf(a)'
  BY DEF DurableBeforeSend
<1>f. /\ SendInProgress /\ DurableOf(a)
  BY DEF SInv, DurableBeforeSend
<1> USE DEF DurableOf
<1>1. CASE UNCHANGED <<order, jstate>>
  <2>1. Shares(a)' = Shares(a)
    BY <1>1 DEF Shares
  <2>2. CASE bstate'[a] = bstate[a] /\ bfilled'[a] = bfilled[a]
    BY <1>1, <2>1, <2>2, <1>f
  <2>3. CASE PlaceOrder
    BY <1>1, <2>1, <2>3, <1>f, Facts DEF PlaceOrder, SendInProgress, Sending
  <2>4. CASE BrokerAccept(a) \/ BrokerReject(a) \/ BrokerNeverReceives(a) \/ BrokerCancel(a)
    BY <1>1, <2>1, <2>4, <1>f, Facts DEF BrokerAccept, BrokerReject, BrokerNeverReceives,
                                         BrokerCancel
  <2>5. CASE BrokerFill(a)
    <3>1. /\ bstate[a] = "live" /\ bfilled[a] \in Nat /\ Shares(a) \in Nat
          /\ Shares(a) - bfilled[a] > 0
      BY <2>5, Facts DEF BrokerFill, Remaining
    <3>2. /\ bfilled'[a] = bfilled[a] + 1
          /\ bstate'[a] = IF Shares(a) - bfilled[a] = 1 THEN "filled" ELSE "live"
      BY <2>5, Facts DEF BrokerFill, Remaining
    <3>3. bfilled'[a] <= Shares(a) /\ (bstate'[a] = "live" => bfilled'[a] < Shares(a))
      BY <3>1, <3>2
    <3>4. jstate'[a] = jstate[a] /\ order'[a] = order[a] /\ bstate'[a] \in {"filled", "live"}
      BY <1>1, <3>2
    <3> QED
      BY <2>1, <3>1, <3>3, <3>4, <1>f
  <2>6. ASSUME NEW o \in Orders \ {a}, \/ BrokerAccept(o) \/ BrokerReject(o)
                 \/ BrokerNeverReceives(o) \/ BrokerFill(o) \/ BrokerCancel(o)
        PROVE  bstate'[a] = bstate[a] /\ bfilled'[a] = bfilled[a]
    BY <2>6, Facts DEF BrokerAccept, BrokerReject, BrokerNeverReceives, BrokerFill, BrokerCancel
  <2> QED
    BY <2>2, <2>3, <2>4, <2>5, <2>6, BrokerSteps
<1>2. CASE \E o \in Orders : CommitIntent(o)
  <2>1. PICK o \in Orders : CommitIntent(o)
    BY <1>2
  <2>2. /\ Delta # 0 /\ jstate[o] = "none" /\ order'[o].qty = Delta
        /\ UNCHANGED <<bstate, bfilled>>
        /\ \A c \in Orders \ {o} : order'[c] = order[c] /\ jstate'[c] = jstate[c]
    BY <2>1, Facts DEF CommitIntent, WantsOrder, broVars
  <2> QED
    BY <2>2, <1>f, Facts DEF Shares
<1>3. CASE order' = order /\ jstate' # jstate /\ ~\E o \in Orders : CommitIntent(o)
  <2>1. UNCHANGED <<bstate, bfilled>>
    BY <1>3, JournalSteps DEF StartSendAttempt, SendRefused, OnExecutionFull, OnCancelled,
                              OnRejected, CompleteReconcile, broVars
  <2>2. jstate[a] # "none" \/ jstate'[a] = jstate[a]
    BY <1>3, JournalMoves
  <2>3. jstate'[a] \in {"none", "intended"} => jstate'[a] = jstate[a]
    BY <1>3, JournalMoves, Facts DEF StartSendAttempt
  <2> QED
    BY <1>3, <2>1, <2>2, <2>3, <1>f DEF Shares
<1>4. order' = order \/ \E o \in Orders : CommitIntent(o)
  BY OrderSteps
<1> QED
  BY <1>1, <1>2, <1>3, <1>4

LEMMA BookedIsRealStep == SInv /\ [Next]_vars => BookedIsReal'
<1> SUFFICES ASSUME SInv, [Next]_vars PROVE BookedIsReal'
  OBVIOUS
<1>f. BookedIsReal /\ SnapshotCovers
  BY DEF SInv
<1>1. \A o \in Orders : bfilled'[o] \in Nat /\ bfilled[o] <= bfilled'[o]
  <2>1. CASE bfilled' = bfilled
    BY <2>1, Facts
  <2>2. ASSUME NEW o \in Orders, BrokerFill(o)
        PROVE  \A a \in Orders : bfilled'[a] \in Nat /\ bfilled[a] <= bfilled'[a]
    BY <2>2, Facts DEF BrokerFill
  <2> QED
    BY <2>1, <2>2, BrokerSteps DEF PlaceOrder, BrokerAccept, BrokerReject, BrokerNeverReceives,
                                   BrokerCancel
<1>2. \A o \in Orders : booked'[o] \subseteq 1..bfilled[o]
  <2>1. CASE booked' = booked
    BY <2>1, <1>f DEF BookedIsReal
  <2>2. ASSUME NEW o \in Orders, NEW k \in 1..bfilled[o], Book(o, k)
        PROVE  \A a \in Orders : booked'[a] \subseteq 1..bfilled[a]
    BY <2>2, <1>f, Facts DEF Book, BookedIsReal
  <2>3. ASSUME NEW o \in Orders, NEW k \in 1..snap.filled[o], AdoptExecution(o, k)
        PROVE  k \in 1..bfilled[o]
    BY <2>3, <1>f, Facts, SnapshotFacts DEF AdoptExecution, SnapshotCovers, Adopting, SInv, TInv
  <2> QED
    BY <2>1, <2>2, <2>3, BookingSteps
       DEF OnExecutionLate, OnExecutionPartial, OnExecutionFull, AdoptExecution
<1> QED
  BY <1>1, <1>2, Facts DEF BookedIsReal

LEMMA CallbacksAreTrueStep == SInv /\ [Next]_vars => CallbacksAreTrue'
<1> SUFFICES ASSUME SInv, [Next]_vars, NEW m \in net'
             PROVE  /\ m.kind = "cancelled" => bstate'[m.order] = "cancelled"
                    /\ m.kind = "rejected" => bstate'[m.order] = "rejected"
  BY DEF CallbacksAreTrue
<1>f. CallbacksAreTrue /\ SendInProgress /\ net \subseteq Callbacks
  BY DEF SInv, TInv, TypeOK, BrokerTypeOK
<1>1. \A o \in Orders : bstate[o] \in {"cancelled", "rejected"} => bstate'[o] = bstate[o]
  <2>1. CASE bstate' = bstate
    BY <2>1
  <2>2. CASE PlaceOrder
    BY <2>2, <1>f, Facts DEF PlaceOrder, SendInProgress, Sending
  <2>3. ASSUME NEW o \in Orders, \/ BrokerAccept(o) \/ BrokerReject(o) \/ BrokerNeverReceives(o)
                                \/ BrokerFill(o) \/ BrokerCancel(o)
        PROVE  /\ bstate[o] \in {"inflight", "live"}
               /\ \A c \in Orders \ {o} : bstate'[c] = bstate[c]
    BY <2>3, Facts DEF BrokerAccept, BrokerReject, BrokerNeverReceives, BrokerFill, BrokerCancel
  <2> QED
    BY <2>1, <2>2, <2>3, BrokerSteps
<1>2. CASE m \in net
  BY <1>1, <1>2, <1>f DEF CallbacksAreTrue, Callbacks
<1>3. CASE m \notin net
  <2>1. BrokerNext
    BY <1>3, StrategyFrame, EvaluateFrame, SendFrame, TickFrame, CallbackFrame, ReconcileFrame,
       LinkFrame DEF Next, FailureNext, Expire, JournalFails, Crash, Start, AcknowledgeHalt,
         StopNew, vars
  <2>2. ASSUME NEW o \in Orders,
               \/ BrokerAccept(o) \/ BrokerFill(o) \/ BrokerNeverReceives(o)
               \/ BrokerRejectCancel(o) \/ BrokerIgnoresCancel(o)
        PROVE  m.kind \notin {"cancelled", "rejected"}
    BY <1>3, <2>2 DEF BrokerAccept, BrokerFill, BrokerNeverReceives, BrokerRejectCancel,
                      BrokerIgnoresCancel, Emit, Callback
  <2>3. ASSUME NEW o \in Orders, BrokerReject(o) \/ BrokerCancel(o)
        PROVE  /\ m.kind = "cancelled" => bstate'[m.order] = "cancelled"
               /\ m.kind = "rejected" => bstate'[m.order] = "rejected"
    BY <1>3, <2>3, Facts DEF BrokerReject, BrokerCancel, Emit, Callback
  <2> QED
    BY <1>3, <2>1, <2>2, <2>3 DEF BrokerNext, ForeignFact, ForeignSettled
<1> QED
  BY <1>2, <1>3

LEMMA LiveOrdersAreOpenStep == SInv /\ [Next]_vars => LiveOrdersAreOpen'
<1> SUFFICES ASSUME SInv, [Next]_vars, NEW o \in Orders, Alive(o)' PROVE jstate'[o] = "open"
  BY DEF LiveOrdersAreOpen
<1>f. LiveOrdersAreOpen /\ SendInProgress
  BY DEF SInv
<1>1. CASE Alive(o)
  BY <1>1, <1>f, JournalMoves DEF LiveOrdersAreOpen
<1>2. CASE ~Alive(o)
  <2>1. PlaceOrder /\ o = intent
    BY <1>2, Facts, BrokerSteps DEF PlaceOrder, BrokerAccept, BrokerReject, BrokerNeverReceives,
                             BrokerFill, BrokerCancel, Alive
  <2> QED
    BY <2>1, <1>f DEF PlaceOrder, SendInProgress, Sending, jrnVars
<1> QED
  BY <1>1, <1>2

LEMMA OneUnterminatedIntentStep == SInv /\ [Next]_vars => OneUnterminatedIntent'
<1> SUFFICES ASSUME SInv, [Next]_vars, NEW a \in Orders, NEW b \in Orders,
                    jstate'[a] = "open", jstate'[b] = "open"
             PROVE  a = b
  BY DEF OneUnterminatedIntent
<1>f. OneUnterminatedIntent /\ SyncedOwnsTheOpen /\ SendInProgress
  BY DEF SInv
<1>1. \A c \in {a, b} : jstate[c] = "open" \/ (StartSendAttempt /\ c = intent)
  BY JournalMoves, Facts DEF CommitIntent
<1>2. StartSendAttempt => \A c \in Orders : jstate[c] # "open"
  BY <1>f DEF StartSendAttempt, SendInProgress, Sending, SyncedOwnsTheOpen
<1> QED
  BY <1>1, <1>2, <1>f DEF OneUnterminatedIntent

(* While a reconcile adopts, the steps that leave it adopting.             *)
LEMMA AdoptingSteps ==
  ASSUME [Next]_vars, pc' \in Adopting
  PROVE  \/ TakeSnapshot \/ BrokerNext
         \/ \E o \in Orders : \E k \in 1..snap.filled[o] : AdoptExecution(o, k)
         \/ /\ UNCHANGED <<pc, sync, snap, jstate, booked, expected, order, bstate, bfilled>>
            /\ foreign' = foreign
<1> USE DEF Adopting
<1>1. CASE SendNext \/ EvaluateNext \/ StrategyNext \/ TickNext \/ LinkNext
  BY <1>1 DEF SendNext, StartSendAttempt, WitnessFails, PlaceOrder, SendReturned, SendRefused,
       SendUncertain, EvaluateNext, EvaluateNothing, EvaluateMiss, EvaluateCancel, CommitIntent,
       StrategyNext, SubmitTarget, TickNext, TickEvaluate, TickAckTimeout, TickCancel,
       TickCancelTimeout, LinkNext, OnConnected, OnDisconnected, OnMarketDataLost,
       OnMarketDataRestored, Ready
<1>2. CASE CallbackNext
  <2>1. CASE \E m \in net : OnNothingNew(m)
    BY <2>1 DEF OnNothingNew, vars, ctlVars, legVars, jrnVars, broVars
  <2>2. CASE \E o \in Orders : \/ OnAck(o) \/ OnWorking(o) \/ OnCancelled(o)
                               \/ OnCancelRejected(o) \/ OnRejected(o)
    BY <2>2 DEF OnAck, OnWorking, OnCancelled, OnCancelRejected, OnRejected, Deliver, Ready, ctlVars
  <2>3. CASE \E o \in Orders : \E k \in 1..bfilled[o] :
               OnExecutionLate(o, k) \/ OnExecutionPartial(o, k) \/ OnExecutionFull(o, k)
    BY <2>3 DEF OnExecutionLate, OnExecutionPartial, OnExecutionFull, Deliver, Ready, ctlVars
  <2>4. CASE OnForeignCallback
    BY <2>4 DEF OnForeignCallback, Ready
  <2> QED
    BY <1>2, <2>1, <2>2, <2>3, <2>4 DEF CallbackNext
<1>3. CASE ReconcileNext
  BY <1>3 DEF ReconcileNext, SnapshotFails, SnapshotForeign, PositionMismatch, CompleteReconcile
<1>4. CASE FailureNext
  BY <1>4 DEF FailureNext, Expire, JournalFails, Crash, Start, AcknowledgeHalt, StopNew,
              ctlVars, jrnVars, broVars
<1>5. CASE UNCHANGED vars
  BY <1>5 DEF vars, ctlVars, jrnVars, broVars
<1> QED
  BY <1>1, <1>2, <1>3, <1>4, <1>5 DEF Next

LEMMA SnapshotCoversStep == SInv /\ [Next]_vars => SnapshotCovers'
<1> SUFFICES ASSUME SInv, [Next]_vars, pc' \in Adopting PROVE SnapshotCovers'
  BY DEF SnapshotCovers
<1>f. /\ SnapshotCovers /\ BookedIsReal /\ LiveOrdersAreOpen
  BY DEF SInv
<1> USE DEF Adopting
<1>1. CASE TakeSnapshot
  <2>1. /\ sync' = "SYNCING" /\ snap'.filled = bfilled
        /\ snap'.open = {o \in Orders : bstate[o] = "live"}
        /\ \A o \in Orders : bstate[o] # "inflight" /\ (bstate[o] = "live" => jstate[o] = "open")
        /\ UNCHANGED <<jstate, booked, bstate, bfilled>>
    BY <1>1 DEF TakeSnapshot, StableSnapshot, Unowned, jrnVars, broVars
  <2> QED
    BY <2>1, <1>f, Facts DEF SnapshotCovers, BookedIsReal, Alive
<1>2. ASSUME NEW o \in Orders, NEW k \in 1..snap.filled[o], AdoptExecution(o, k)
      PROVE  SnapshotCovers'
  BY <1>2, <1>f, Facts DEF AdoptExecution, Book, SnapshotCovers, Alive, ctlVars, broVars
<1>3. CASE BrokerNext
  <2>1. UNCHANGED <<pc, sync, snap, jstate, booked>>
    BY <1>3, BrokerFrame DEF ctlVars, jrnVars
  <2>2. \A o \in Orders : /\ Alive(o)' => Alive(o)
                          /\ bfilled'[o] >= bfilled[o] /\ bfilled'[o] \in Nat
                          /\ ~Alive(o) => bfilled'[o] = bfilled[o]
    <3>1. CASE UNCHANGED <<bstate, bfilled>>
      BY <3>1, Facts DEF Alive
    <3>2. ASSUME NEW a \in Orders, \/ BrokerAccept(a) \/ BrokerReject(a) \/ BrokerNeverReceives(a)
                                  \/ BrokerCancel(a)
          PROVE  /\ Alive(a) /\ bfilled' = bfilled
                 /\ \A o \in Orders \ {a} : bstate'[o] = bstate[o]
      BY <3>2, Facts DEF BrokerAccept, BrokerReject, BrokerNeverReceives, BrokerCancel, Alive
    <3>3. ASSUME NEW a \in Orders, BrokerFill(a)
          PROVE  /\ Alive(a) /\ bfilled'[a] = bfilled[a] + 1
                 /\ \A o \in Orders \ {a} : bstate'[o] = bstate[o] /\ bfilled'[o] = bfilled[o]
      BY <3>3, Facts DEF BrokerFill, Alive
    <3>4. CASE \E a \in Orders : BrokerFill(a)
      BY <3>3, <3>4, Facts DEF Alive
    <3>5. CASE \E a \in Orders : \/ BrokerAccept(a) \/ BrokerReject(a) \/ BrokerNeverReceives(a)
                                 \/ BrokerCancel(a)
      BY <3>2, <3>5, Facts DEF Alive
    <3> QED
      BY <1>3, <3>1, <3>4, <3>5
         DEF BrokerNext, BrokerRejectCancel, BrokerIgnoresCancel, ForeignFact, ForeignSettled
  <2> QED
    BY <2>1, <2>2, <1>f, Facts, SnapshotFacts DEF SnapshotCovers, SInv, TInv
<1>4. CASE UNCHANGED <<pc, sync, snap, jstate, booked, bstate, bfilled>>
  BY <1>4, <1>f DEF SnapshotCovers, Alive
<1> QED
  BY <1>1, <1>2, <1>3, <1>4, AdoptingSteps

(* The steps from a trusted account to a trusted account.                  *)
TrustKept ==
  /\ UNCHANGED <<intent, jstate, booked, expected, position>>
  /\ ostate' \in {ostate, "PENDING_ACK", "WORKING", "PENDING_CANCEL"}

LEMMA TrustedSteps ==
  ASSUME SInv, [Next]_vars, sync' = "SYNCED"
  PROVE  \/ CompleteReconcile
         \/ /\ sync = "SYNCED"
            /\ \/ \E o \in Orders : CommitIntent(o)
               \/ StartSendAttempt \/ SendRefused
               \/ \E o \in Orders : \E k \in 1..bfilled[o] :
                    \/ OnExecutionPartial(o, k)
                    \/ OnExecutionFull(o, k) /\ ostate' = "IDLE"
               \/ \E o \in Orders : OnRejected(o)
               \/ TrustKept
<1>f. sync = "SYNCED" => ostate \notin Untrustworthy
  BY DEF SInv, SyncedOwnsTheOpen
<1> USE DEF TrustKept, Untrustworthy
<1>c. ASSUME NEW why, RequestCancel(why, "WORKING")
      PROVE  /\ sync = "SYNCED"
             /\ ostate' \in {"WORKING", "PENDING_CANCEL"}
  BY <1>c, <1>f DEF RequestCancel, Fence, Distrust
<1>1. CASE StrategyNext
  <2>1. sync = "SYNCED" /\ TrustKept
    BY <1>1, StrategyFrame
  <2> QED
    BY <2>1
<1>2. CASE EvaluateNext
  <2>1. CASE EvaluateNothing \/ EvaluateMiss \/ EvaluateCancel
    <3>1. sync = "SYNCED" /\ TrustKept
      BY <2>1, <1>c DEF EvaluateNothing, EvaluateMiss, EvaluateCancel, legVars, jrnVars
    <3> QED
      BY <3>1
  <2>2. CASE \E o \in Orders : CommitIntent(o)
    BY <2>2 DEF CommitIntent
  <2> QED
    BY <1>2, <2>1, <2>2 DEF EvaluateNext
<1>3. CASE SendNext
  <2>1. CASE SendReturned \/ PlaceOrder
    <3>1. sync = "SYNCED" /\ TrustKept
      BY <2>1 DEF SendReturned, PlaceOrder, legVars, jrnVars
    <3> QED
      BY <3>1
  <2>2. CASE WitnessFails \/ SendUncertain
    BY <2>2, <1>f DEF WitnessFails, SendUncertain, Fence, Distrust
  <2>3. CASE StartSendAttempt \/ SendRefused
    BY <2>3 DEF StartSendAttempt, SendRefused
  <2> QED
    BY <1>3, <2>1, <2>2, <2>3 DEF SendNext
<1>4. CASE TickNext
  BY <1>4, <1>f, <1>c DEF TickNext, TickEvaluate, TickAckTimeout, TickCancel, TickCancelTimeout,
                    Distrust, legVars, jrnVars
<1>5. CASE CallbackNext
  <2>1. CASE \E m \in net : OnNothingNew(m)
    BY <2>1 DEF OnNothingNew, vars, ctlVars, legVars, jrnVars
  <2>2. CASE \E o \in Orders : OnAck(o) \/ OnCancelled(o) \/ OnCancelRejected(o)
    BY <2>2, <1>f DEF OnAck, OnCancelled, OnCancelRejected, Distrust, ctlVars, jrnVars
  <2>3. ASSUME NEW o \in Orders, OnWorking(o)
        PROVE  sync = "SYNCED" /\ TrustKept
    BY <2>3, <1>f, <1>c DEF OnWorking, jrnVars
  <2>4. CASE \E o \in Orders : \E k \in 1..bfilled[o] :
               OnExecutionLate(o, k) \/ OnExecutionPartial(o, k) \/ OnExecutionFull(o, k)
    BY <2>4, <1>f DEF OnExecutionLate, OnExecutionPartial, OnExecutionFull, Distrust, ctlVars
  <2>5. CASE OnForeignCallback
    BY <2>5 DEF OnForeignCallback
  <2>6. CASE \E o \in Orders : OnRejected(o)
    BY <2>6 DEF OnRejected, ctlVars
  <2> QED
    BY <1>5, <2>1, <2>2, <2>3, <2>4, <2>5, <2>6 DEF CallbackNext
<1>6. CASE ReconcileNext
  <2>1. pc \in Adopting => sync # "SYNCED"
    BY DEF SInv, SnapshotCovers
  <2> QED
    BY <1>6, <2>1 DEF ReconcileNext, SnapshotFails, SnapshotForeign, TakeSnapshot, AdoptExecution,
              PositionMismatch, Adopting, ctlVars
<1>7. CASE LinkNext
  BY <1>7 DEF LinkNext, OnConnected, OnDisconnected, OnMarketDataLost, OnMarketDataRestored
<1>8. CASE BrokerNext
  BY <1>8, BrokerFrame DEF ctlVars, legVars, jrnVars
<1>9. CASE FailureNext
  BY <1>9 DEF FailureNext, Expire, JournalFails, Crash, Start, AcknowledgeHalt, StopNew, Fence,
              ctlVars, legVars, jrnVars
<1>10. CASE UNCHANGED vars
  BY <1>10 DEF vars, ctlVars, legVars, jrnVars
<1> QED
  BY <1>1, <1>2, <1>3, <1>4, <1>5, <1>6, <1>7, <1>8, <1>9, <1>10 DEF Next

LEMMA SyncedOwnsTheOpenStep == SInv /\ [Next]_vars => SyncedOwnsTheOpen'
<1> SUFFICES ASSUME SInv, [Next]_vars, sync' = "SYNCED" PROVE SyncedOwnsTheOpen'
  BY DEF SyncedOwnsTheOpen
<1>f. /\ SyncedOwnsTheOpen /\ SnapshotCovers /\ BookedIsReal /\ LiveOrdersAreOpen
      /\ DurableBeforeSend /\ SendInProgress /\ OneUnterminatedIntent /\ CallbacksAreTrue
  BY DEF SInv
<1> USE DEF SyncedOwnsTheOpen, Untrustworthy
<1>1. CASE CompleteReconcile
  <2>1. \A o \in Orders : jstate'[o] = "open" <=> o \in snap.open
    BY <1>1, <1>f, Facts DEF CompleteReconcile, ResolvedJournal, SnapshotCovers, Adopting
  <2>2. \A o \in Orders : Behind(o)' => o \in snap.open
    BY <1>1, <1>f, Facts DEF CompleteReconcile, Adopted, SnapshotCovers, Adopting, Behind, broVars
  <2>3. CASE snap.open = {} /\ NothingLive
    BY <2>1, <2>2, <2>3 DEF NothingLive
  <2>4. ASSUME NEW a \in snap.open, Rehydrate(a) PROVE SyncedOwnsTheOpen'
    <3>1. \A o \in Orders : o \in snap.open => o = a
      BY <1>1, <1>f, SnapshotFacts DEF CompleteReconcile, SnapshotCovers, Adopting,
                          OneUnterminatedIntent, SInv, TInv
    <3> QED
      BY <2>1, <2>2, <2>4, <3>1 DEF Rehydrate
  <2> QED
    BY <1>1, <2>3, <2>4 DEF CompleteReconcile
<1>2. ASSUME sync = "SYNCED", NEW o \in Orders, CommitIntent(o) PROVE SyncedOwnsTheOpen'
  BY <1>2, <1>f, Facts DEF CommitIntent, WantsOrder, Behind, broVars
<1>3. CASE sync = "SYNCED" /\ StartSendAttempt
  BY <1>3, <1>f, Facts DEF StartSendAttempt, SendInProgress, Sending, Behind, broVars
<1>4. CASE sync = "SYNCED" /\ SendRefused
  <2>1. ~Behind(intent) /\ \A o \in Orders : jstate[o] = "open" => o = intent
    BY <1>4, <1>f, Facts DEF SendRefused, SendInProgress, Sending, DurableBeforeSend, DurableOf,
       Behind
  <2> QED
    BY <1>4, <2>1, <1>f, Facts DEF SendRefused, Behind, broVars
<1>5. ASSUME sync = "SYNCED", NEW o \in Orders, NEW k \in 1..bfilled[o], OnExecutionPartial(o, k)
      PROVE  SyncedOwnsTheOpen'
  BY <1>5, <1>f, Facts DEF OnExecutionPartial, Book, Behind, broVars, ctlVars
<1>6. ASSUME sync = "SYNCED", NEW o \in Orders, NEW k \in 1..bfilled[o], OnExecutionFull(o, k),
             ostate' = "IDLE"
      PROVE  SyncedOwnsTheOpen'
  <2>1. booked[o] \cup {k} = 1..bfilled[o]
    BY <1>6, FullyBooked DEF OnExecutionFull
  <2>2. /\ intent = o /\ bfilled' = bfilled
        /\ booked' = [booked EXCEPT ![o] = 1..bfilled[o]]
        /\ jstate' = [jstate EXCEPT ![o] = "filled"]
    BY <1>6, <2>1, Facts DEF OnExecutionFull, Book, broVars
  <2>3. \A c \in Orders : Behind(c)' => c # o /\ Behind(c)
    BY <2>2, Facts DEF Behind
  <2> QED
    BY <1>6, <2>2, <2>3, <1>f, Facts
<1>7. ASSUME sync = "SYNCED", NEW o \in Orders, OnRejected(o) PROVE SyncedOwnsTheOpen'
  <2>1. Callback("rejected", o, 0) \in net /\ intent = o
    BY <1>7 DEF OnRejected, Deliver
  <2>2. bstate[o] = "rejected"
    BY <2>1, <1>f DEF CallbacksAreTrue, Callback
  <2>3. ~Behind(o)
    BY <2>2, <1>f, Facts DEF DurableBeforeSend, DurableOf, Behind
  <2>4. \A c \in Orders : Behind(c)' => c # o /\ Behind(c)
    BY <1>7, <2>3 DEF OnRejected, Behind, broVars
  <2> QED
    BY <1>7, <2>1, <2>4, <1>f, Facts DEF OnRejected
<1>8. CASE sync = "SYNCED" /\ TrustKept
  <2>1. \A o \in Orders : Behind(o)' => Behind(o) \/ Alive(o)
    <3>1. ASSUME NEW a \in Orders, BrokerFill(a)
          PROVE  Alive(a) /\ \A o \in Orders \ {a} : bfilled'[o] = bfilled[o]
      BY <3>1, Facts DEF BrokerFill, Alive
    <3>2. CASE bfilled' = bfilled
      BY <1>8, <3>2 DEF TrustKept, Behind
    <3>3. CASE \E a \in Orders : BrokerFill(a)
      BY <1>8, <3>1, <3>3 DEF TrustKept, Behind
    <3> QED
      BY <3>2, <3>3, BrokerSteps
         DEF PlaceOrder, BrokerAccept, BrokerReject, BrokerNeverReceives, BrokerCancel
  <2> QED
    BY <1>8, <2>1, <1>f DEF TrustKept, LiveOrdersAreOpen
<1> QED
  BY <1>1, <1>2, <1>3, <1>4, <1>5, <1>6, <1>7, <1>8, TrustedSteps
-----------------------------------------------------------------------------

LEMMA SInvInit == Init => SInv
<1> SUFFICES ASSUME Init PROVE SInv
  OBVIOUS
<1>1. TInv
  BY TInvInit
<1>2. DurableBeforeSend /\ BookedIsReal /\ CallbacksAreTrue
  BY DEF Init, DurableBeforeSend, DurableOf, BookedIsReal, CallbacksAreTrue
<1>3. LiveOrdersAreOpen /\ OneUnterminatedIntent
  BY DEF Init, LiveOrdersAreOpen, OneUnterminatedIntent, Alive
<1>4. SendInProgress /\ SnapshotCovers /\ SyncedOwnsTheOpen
  BY DEF Init, SendInProgress, SnapshotCovers, SyncedOwnsTheOpen, Sending, Adopting
<1> QED
  BY <1>1, <1>2, <1>3, <1>4 DEF SInv

LEMMA SInvStep == SInv /\ [Next]_vars => SInv'
<1> SUFFICES ASSUME SInv, [Next]_vars PROVE SInv'
  OBVIOUS
<1>1. TInv'
  BY TInvStep DEF SInv
<1> QED
  BY <1>1, SendInProgressStep, DurableBeforeSendStep, BookedIsRealStep, CallbacksAreTrueStep,
     LiveOrdersAreOpenStep, OneUnterminatedIntentStep, SnapshotCoversStep, SyncedOwnsTheOpenStep
     DEF SInv

LEMMA Core == Spec => []SInv
BY SInvInit, SInvStep, PTL DEF Spec

(* SPEC invariant 3 for every number of orders, targets, shares and rungs: *)
(* the journal never holds two unterminated send attempts of the leg.      *)
THEOREM SingleOrder == Spec => []OneUnterminatedIntent
<1>1. SInv => OneUnterminatedIntent
  BY DEF SInv
<1> QED
  BY <1>1, Core, PTL

(* No order is alive at the broker unless the journal has it open: what a  *)
(* restart or a reconciliation takes for finished or absent is.            *)
THEOREM NothingAliveIsForgotten == Spec => []LiveOrdersAreOpen
<1>1. SInv => LiveOrdersAreOpen
  BY DEF SInv
<1> QED
  BY <1>1, Core, PTL
-----------------------------------------------------------------------------
(* The account: the leg's belief, the journal's sum and the broker's       *)
(* position.                                                               *)

AInv == SInv /\ OneOrderBehind /\ BeliefIsJournal /\ SendBounded /\ ExposureBounded

LEMMA Sums ==
  SInv =>
    /\ position \in Int /\ expected \in Int /\ bposition \in Int /\ snap.pos \in Int
    /\ target.qty \in Int /\ working \in Int /\ MaxPos \in Nat
    /\ \A o \in Orders : order[o].qty \in Int /\ Signed(o, 1) \in {-1, 1}
BY Constants, SnapshotFacts DEF SInv, TInv, TypeOK, LegTypeOK, JournalTypeOK, BrokerTypeOK,
   TargetTypeOK, OrderTypeOK, Signed

LEMMA NotBehind ==
  ASSUME SInv, NEW o \in Orders
  PROVE  (~Behind(o) <=> Unbooked(o) = 0) /\ Unbooked(o) \in Nat
<1>1. /\ Cardinality(booked[o]) \in Nat /\ bfilled[o] \in Nat
      /\ Cardinality(booked[o]) <= bfilled[o]
      /\ Cardinality(booked[o]) = bfilled[o] <=> ~Behind(o)
  BY BookedCount, Facts
<1> QED
  BY <1>1 DEF Unbooked

LEMMA SignedSums ==
  ASSUME SInv, NEW o \in Orders, NEW n \in Int
  PROVE  /\ Signed(o, 0) = 0 /\ Signed(o, n) \in Int
         /\ Signed(o, n + 1) = Signed(o, n) + Signed(o, 1)
         /\ Signed(o, n - 1) = Signed(o, n) - Signed(o, 1)
<1>1. order[o].qty \in Int
  BY Sums
<1>2. CASE order[o].qty < 0
  BY <1>1, <1>2 DEF Signed
<1>3. CASE ~(order[o].qty < 0)
  BY <1>1, <1>3 DEF Signed
<1> QED
  BY <1>2, <1>3

LEMMA BeliefIsJournalStep == AInv /\ [Next]_vars => BeliefIsJournal'
<1> SUFFICES ASSUME AInv, [Next]_vars, sync' = "SYNCED" PROVE position' = expected'
  BY DEF BeliefIsJournal
<1>f. SInv /\ BeliefIsJournal
  BY DEF AInv
<1>1. CASE CompleteReconcile
  BY <1>1 DEF CompleteReconcile, Explained
<1>2. ASSUME sync = "SYNCED", NEW o \in Orders, NEW k \in 1..bfilled[o],
             OnExecutionPartial(o, k) \/ OnExecutionFull(o, k)
      PROVE  position' = expected'
  BY <1>2, <1>f DEF OnExecutionPartial, OnExecutionFull, Book, BeliefIsJournal
<1>3. CASE /\ sync = "SYNCED"
           /\ \/ \E o \in Orders : CommitIntent(o) \/ OnRejected(o)
              \/ StartSendAttempt \/ SendRefused \/ TrustKept
  BY <1>3, <1>f DEF CommitIntent, StartSendAttempt, SendRefused, OnRejected, TrustKept,
                    BeliefIsJournal
<1> QED
  BY <1>f, <1>1, <1>2, <1>3, TrustedSteps

(* A trusted leg that has no order at the broker knows the account.        *)
LEMMA TrustedAccount ==
  ASSUME AInv, sync = "SYNCED", \A o \in Orders : jstate[o] # "open"
  PROVE  position = bposition /\ \A o \in Orders : ~Alive(o) /\ ~Behind(o)
BY DEF AInv, SInv, SyncedOwnsTheOpen, OneOrderBehind, BeliefIsJournal, LiveOrdersAreOpen

(* A new booking is one share, of an order whose fills are not all booked. *)
LEMMA BookedOnce ==
  ASSUME SInv, [Next]_vars, booked' # booked \/ expected' # expected
  PROVE  \E o \in Orders : \E k \in 1..bfilled[o] :
           k \notin booked[o] /\ Book(o, k) /\ UNCHANGED <<bstate, bfilled, bposition, order>>
<1>1. ASSUME NEW o \in Orders, NEW k \in 1..bfilled[o],
             OnExecutionLate(o, k) \/ OnExecutionPartial(o, k) \/ OnExecutionFull(o, k)
      PROVE  k \notin booked[o] /\ Book(o, k) /\ UNCHANGED <<bstate, bfilled, bposition, order>>
  BY <1>1 DEF OnExecutionLate, OnExecutionPartial, OnExecutionFull, broVars
<1>2. ASSUME NEW o \in Orders, NEW k \in 1..snap.filled[o], AdoptExecution(o, k)
      PROVE  /\ k \in 1..bfilled[o] /\ k \notin booked[o] /\ Book(o, k)
             /\ UNCHANGED <<bstate, bfilled, bposition, order>>
  <2>1. snap.filled[o] <= bfilled[o] /\ snap.filled[o] \in Nat /\ bfilled[o] \in Nat
    BY <1>2, Facts, SnapshotFacts DEF AdoptExecution, SInv, TInv, SnapshotCovers, Adopting
  <2> QED
    BY <1>2, <2>1 DEF AdoptExecution, broVars
<1> QED
  BY <1>1, <1>2, BookingSteps

LEMMA OneOrderBehindStep == AInv /\ [Next]_vars => OneOrderBehind'
<1> SUFFICES ASSUME AInv, [Next]_vars PROVE OneOrderBehind'
  OBVIOUS
<1>f. SInv /\ OneOrderBehind
  BY DEF AInv
<1>1. CASE /\ UNCHANGED <<booked, expected, bfilled, bposition>>
           /\ \A o \in Orders : Behind(o) => order'[o] = order[o]
           /\ \A o \in Orders : Alive(o)' => Alive(o)
  <2>1. \A o \in Orders : /\ Behind(o)' <=> Behind(o)
                          /\ Behind(o) => Signed(o, Unbooked(o))' = Signed(o, Unbooked(o))
    BY <1>1 DEF Behind, Unbooked, Signed
  <2> QED
    BY <1>1, <1>f, <2>1 DEF OneOrderBehind
<1>2. CASE \E o \in Orders : CommitIntent(o)
  <2>1. \A o \in Orders : jstate[o] = "none" => ~Behind(o)
    BY <1>f, Facts DEF SInv, DurableBeforeSend, DurableOf, Behind
  <2> QED
    BY <1>1, <1>2, <1>f, <2>1, Facts DEF CommitIntent, broVars, Alive
<1>3. CASE PlaceOrder
  <2>1. /\ intent \in Orders /\ \A o \in Orders : Behind(o) => o = intent
        /\ \A o \in Orders : Alive(o) => o = intent
    BY <1>3, <1>f, Facts DEF PlaceOrder, SInv, SendInProgress, Sending, SyncedOwnsTheOpen,
                          LiveOrdersAreOpen
  <2>2. /\ UNCHANGED <<booked, expected, bfilled, bposition, order>>
        /\ \A o \in Orders : Alive(o)' => Alive(o) \/ o = intent
    BY <1>3, <1>f, <2>1, Facts DEF PlaceOrder, jrnVars, Alive
  <2>3. \A o \in Orders : /\ Behind(o)' <=> Behind(o)
                          /\ Signed(o, Unbooked(o))' = Signed(o, Unbooked(o))
    BY <2>2 DEF Behind, Unbooked, Signed
  <2> QED
    BY <1>f, <2>1, <2>2, <2>3 DEF OneOrderBehind
<1>4. ASSUME NEW o \in Orders, BrokerFill(o) PROVE OneOrderBehind'
  <2>1. /\ \A c \in Orders : Behind(c) \/ Alive(c) => c = o
        /\ bposition = expected + Signed(o, Unbooked(o))
    <3>1. Alive(o) /\ \A c \in Orders : Behind(c) \/ Alive(c) => c = o
      BY <1>4, <1>f DEF BrokerFill, Alive, OneOrderBehind, SInv, OneUnterminatedIntent,
                        LiveOrdersAreOpen
    <3>2. CASE Behind(o)
      BY <1>f, <3>1, <3>2 DEF OneOrderBehind
    <3>3. CASE ~Behind(o)
      <4>1. Signed(o, Unbooked(o)) = 0
        BY <1>f, <3>3, NotBehind, SignedSums
      <4>2. bposition = expected /\ expected \in Int
        BY <1>f, <3>1, <3>3, Sums DEF OneOrderBehind
      <4> QED
        BY <3>1, <4>1, <4>2
    <3> QED
      BY <3>1, <3>2, <3>3
  <2>2. /\ UNCHANGED <<booked, expected, order>>
        /\ bfilled'[o] = bfilled[o] + 1 /\ bposition' = bposition + Signed(o, 1)
        /\ \A c \in Orders \ {o} : bfilled'[c] = bfilled[c] /\ bstate'[c] = bstate[c]
    BY <1>4, <1>f, Facts DEF BrokerFill, jrnVars
  <2>3. \A c \in Orders \ {o} : ~Behind(c)' /\ ~Alive(c)'
    BY <2>1, <2>2 DEF Behind, Alive
  <2>4. Behind(o)'
    <3>1. bfilled[o] + 1 \in 1..bfilled'[o] /\ bfilled[o] + 1 \notin booked'[o]
      BY <1>f, <2>2, Facts DEF SInv, BookedIsReal
    <3> QED
      BY <3>1 DEF Behind
  <2>5. bposition' = expected' + Signed(o, Unbooked(o))'
    <3>1. Unbooked(o)' = Unbooked(o) + 1 /\ Unbooked(o) \in Nat
      BY <1>f, <2>2, NotBehind, Facts DEF Unbooked
    <3> QED
      BY <1>f, <2>1, <2>2, <3>1, Sums DEF Signed
  <2> QED
    BY <2>3, <2>4, <2>5 DEF OneOrderBehind
<1>5. ASSUME NEW o \in Orders, NEW k \in 1..bfilled[o], k \notin booked[o], Book(o, k),
             UNCHANGED <<bstate, bfilled, bposition, order>>
      PROVE  OneOrderBehind'
  <2>1. Behind(o) /\ \A c \in Orders : Behind(c) \/ Alive(c) => c = o
    BY <1>5, <1>f DEF Behind, OneOrderBehind
  <2>2. /\ booked'[o] = booked[o] \cup {k} /\ expected' = expected + Signed(o, 1)
        /\ \A c \in Orders \ {o} : booked'[c] = booked[c]
    BY <1>5, <1>f, Facts DEF Book
  <2>3. \A c \in Orders \ {o} : ~Behind(c)' /\ ~Alive(c)'
    BY <1>5, <2>1, <2>2 DEF Behind, Alive
  <2>4. Unbooked(o)' = Unbooked(o) - 1 /\ Unbooked(o) \in Nat
    <3>1. Cardinality(booked'[o]) = Cardinality(booked[o]) + 1
      BY <1>5, <1>f, <2>2, BookedCount
    <3> QED
      BY <1>5, <1>f, <3>1, NotBehind, Facts DEF Unbooked
  <2>5. bposition' = expected' + Signed(o, Unbooked(o))'
    <3>1. bposition = expected + Signed(o, Unbooked(o))
      BY <1>f, <2>1 DEF OneOrderBehind
    <3> QED
      BY <1>5, <1>f, <2>2, <2>4, <3>1, Sums DEF Signed
  <2>6. ~Behind(o)' => Unbooked(o)' = 0
    <3>1. booked'[o] \subseteq 1..bfilled[o]
      BY <1>5, <1>f, <2>2 DEF SInv, BookedIsReal
    <3>2. ~Behind(o)' => booked'[o] = 1..bfilled[o]
      BY <1>5, <3>1 DEF Behind
    <3>3. Cardinality(1..bfilled[o]) = bfilled[o] /\ bfilled[o] \in Nat
      BY <1>f, CountTo, Facts
    <3> QED
      <4>1. ~Behind(o)' => Cardinality(booked'[o]) = bfilled'[o]
        BY <1>5, <3>2, <3>3
      <4>2. bfilled'[o] \in Nat
        BY <1>5, <3>3
      <4> QED
        BY <4>1, <4>2 DEF Unbooked
  <2>7. ~Behind(o)' => bposition' = expected'
    <3>1. Signed(o, 0)' = 0
      BY <1>5, <1>f, SignedSums DEF Signed
    <3>2. ~Behind(o)' => bposition' = expected' + 0
      BY <2>5, <2>6, <3>1 DEF Signed
    <3> QED
      BY <1>f, <2>2, <3>2, Sums
  <2> QED
    BY <2>3, <2>5, <2>7 DEF OneOrderBehind
<1>6. CASE \E o \in Orders : \/ BrokerAccept(o) \/ BrokerReject(o) \/ BrokerNeverReceives(o)
                             \/ BrokerCancel(o)
  BY <1>1, <1>6, <1>f, Facts DEF BrokerAccept, BrokerReject, BrokerNeverReceives, BrokerCancel,
                          jrnVars, Alive
<1>7. CASE UNCHANGED <<booked, expected, bstate, bfilled, bposition, order>>
  BY <1>1, <1>7 DEF Alive
<1>8. order' = order \/ \E o \in Orders : CommitIntent(o)
  BY OrderSteps
<1>9. CASE UNCHANGED <<booked, expected, order>>
  BY <1>3, <1>4, <1>6, <1>7, <1>9, BrokerSteps
<1>10. CASE booked' # booked \/ expected' # expected
  <2>1. \E o \in Orders : \E k \in 1..bfilled[o] :
          k \notin booked[o] /\ Book(o, k) /\ UNCHANGED <<bstate, bfilled, bposition, order>>
    BY <1>f, <1>10, BookedOnce
  <2> QED
    BY <1>5, <2>1
<1> QED
  BY <1>2, <1>8, <1>9, <1>10
(* Until the call is made the broker has nothing of ours to fill.          *)
LEMMA AccountAtRest ==
  ASSUME SInv, pc \in {"intent", "attempt"}, BrokerNext
  PROVE  bposition' = bposition
<1>1. \A o \in Orders : ~Alive(o)
  BY DEF SInv, SendInProgress, Sending, SyncedOwnsTheOpen, LiveOrdersAreOpen, Alive
<1> QED
  BY <1>1 DEF BrokerNext, BrokerAccept, BrokerReject, BrokerNeverReceives, BrokerFill,
     BrokerCancel, BrokerRejectCancel, BrokerIgnoresCancel, ForeignFact, ForeignSettled, Alive

(* What CommitIntent decides, about the account.                           *)
LEMMA SizedOnTruth ==
  ASSUME AInv, NEW o \in Orders, CommitIntent(o)
  PROVE  /\ position = bposition /\ bposition' = bposition /\ mode' = mode
         /\ intent' = o /\ order'[o].qty = Delta /\ Delta # 0 /\ working = 0
         /\ RiskAllows(Delta)
         /\ mode = "NORMAL" \/ IsClosing(target.qty)
<1>f. SInv
  BY DEF AInv
<1>1. /\ sync = "SYNCED" /\ ostate = "IDLE" /\ RiskAllows(Delta) /\ Delta # 0
      /\ intent' = o /\ order'[o].qty = Delta /\ bposition' = bposition /\ mode' = mode
      /\ mode = "NORMAL" \/ IsClosing(target.qty)
  BY <1>f, Facts DEF CommitIntent, WantsOrder, Permitted, Writable, CanWrite, broVars
<1>2. position = bposition /\ working = 0
  BY <1>f, <1>1, TrustedAccount DEF SInv, TInv, OrderInHand, SyncedOwnsTheOpen
<1> QED
  BY <1>1, <1>2

LEMMA SendBoundedStep == AInv /\ [Next]_vars => SendBounded'
<1> SUFFICES ASSUME AInv, [Next]_vars, pc' \in {"intent", "attempt"}
             PROVE  Abs(bposition' + order'[intent'].qty) <= MaxPos
  BY DEF SendBounded, Abs
<1>f. SInv /\ SendBounded
  BY DEF AInv
<1>1. ASSUME NEW o \in Orders, CommitIntent(o)
      PROVE  Abs(bposition' + order'[intent'].qty) <= MaxPos
  BY <1>1, SizedOnTruth DEF RiskAllows
<1>2. CASE pc \in {"intent", "attempt"} /\ UNCHANGED <<intent, order, bposition>>
  BY <1>2, <1>f DEF SendBounded
<1> QED
  BY <1>1, <1>2, <1>f, SendingSteps, AccountAtRest
     DEF Sending, StartSendAttempt, PlaceOrder, broVars, jrnVars, legVars

LEMMA SendReducesStep == AInv /\ SendReduces /\ [Next]_vars => SendReduces'
<1> SUFFICES ASSUME AInv, SendReduces, [Next]_vars,
                    pc' \in {"intent", "attempt"}, mode' # "NORMAL"
             PROVE  SendReduces'
  BY DEF SendReduces
<1>f. SInv
  BY DEF AInv
<1>1. ASSUME NEW o \in Orders, CommitIntent(o) PROVE SendReduces'
  <2>1. /\ bposition' = bposition /\ order'[intent'].qty = target.qty - bposition
        /\ target.qty # bposition /\ target.qty \in Int /\ bposition \in Int
        /\ Abs(target.qty) <= Abs(bposition)
        /\ target.qty = 0 \/ target.qty * bposition >= 0
    BY <1>1, <1>f, SizedOnTruth, Sums DEF Delta, IsClosing
  <2>2. bposition' + order'[intent'].qty = target.qty
    BY <2>1
  <2>3. target.qty * bposition >= 0
    BY <2>1
  <2>4. target.qty # 0 - bposition \/ bposition = 0
    BY <2>1
  <2>5. Abs(target.qty) < Abs(bposition)
    BY <2>1, <2>4 DEF Abs
  <2> QED
    BY <2>1, <2>2, <2>3, <2>5 DEF SendReduces
<1>2. CASE pc \in {"intent", "attempt"} /\ UNCHANGED <<mode, intent, order, bposition>>
  BY <1>2 DEF SendReduces
<1> QED
  BY <1>1, <1>2, <1>f, SendingSteps, AccountAtRest
     DEF Sending, StartSendAttempt, PlaceOrder, broVars, jrnVars, legVars

LEMMA ExposureBoundedStep == AInv /\ [Next]_vars => ExposureBounded'
<1> SUFFICES ASSUME AInv, [Next]_vars PROVE ExposureBounded'
  OBVIOUS
<1>f. SInv /\ ExposureBounded /\ SendBounded
  BY DEF AInv
<1>1. CASE PlaceOrder
  <2>1. /\ pc = "attempt" /\ intent \in Orders /\ bfilled[intent] = 0
        /\ \A o \in Orders : Alive(o) => o = intent
        /\ UNCHANGED <<bfilled, bposition, order>>
        /\ \A o \in Orders \ {intent} : bstate'[o] = bstate[o]
    BY <1>1, <1>f, Facts DEF PlaceOrder, SInv, SendInProgress, Sending, SyncedOwnsTheOpen,
         LiveOrdersAreOpen, DurableBeforeSend, DurableOf, jrnVars
  <2>2. Signed(intent, Remaining(intent)) = order[intent].qty
    <3>1. order[intent].qty \in Int
      BY <1>f, <2>1, Sums
    <3> QED
      BY <2>1, <3>1 DEF Signed, Remaining, Shares, Abs
  <2>3. Abs(bposition + Signed(intent, Remaining(intent))) <= MaxPos
    BY <1>f, <2>1, <2>2 DEF SendBounded
  <2>4. \A o \in Orders : Alive(o)' => o = intent
    BY <2>1 DEF Alive
  <2>5. \A o \in Orders : Signed(o, Remaining(o))' = Signed(o, Remaining(o))
    BY <2>1 DEF Signed, Remaining, Shares
  <2>6. Abs(bposition) <= MaxPos
    BY <1>f DEF ExposureBounded
  <2> QED
    BY <2>1, <2>3, <2>4, <2>5, <2>6 DEF ExposureBounded
<1>2. ASSUME NEW o \in Orders, BrokerFill(o) PROVE ExposureBounded'
  <2>1. /\ Alive(o) /\ \A c \in Orders : Alive(c) => c = o
        /\ \A c \in Orders \ {o} : bstate'[c] = bstate[c]
    BY <1>2, <1>f, Facts DEF BrokerFill, Alive, SInv, OneUnterminatedIntent, LiveOrdersAreOpen
  <2>2. /\ bposition' = bposition + Signed(o, 1) /\ Remaining(o)' = Remaining(o) - 1
        /\ Remaining(o) \in Int /\ Remaining(o) > 0 /\ order' = order
    BY <1>2, <1>f, Facts DEF BrokerFill, Remaining, Shares, jrnVars
  <2>3. /\ Abs(bposition) <= MaxPos /\ Abs(bposition + Signed(o, Remaining(o))) <= MaxPos
        /\ bposition \in Int /\ MaxPos \in Nat /\ order[o].qty \in Int
    BY <1>f, <2>1, Sums DEF ExposureBounded
  <2>4. Abs(bposition') <= MaxPos
    BY <2>2, <2>3 DEF Abs, Signed
  <2>5. bposition' + Signed(o, Remaining(o))' = bposition + Signed(o, Remaining(o))
    BY <2>2, <2>3 DEF Signed
  <2>6. \A c \in Orders : Alive(c)' => c = o
    BY <2>1 DEF Alive
  <2> QED
    BY <2>3, <2>4, <2>5, <2>6 DEF ExposureBounded
<1>3. CASE /\ UNCHANGED <<bfilled, bposition>>
           /\ \A o \in Orders : Alive(o)' => Alive(o) /\ order'[o] = order[o]
  BY <1>3, <1>f DEF ExposureBounded, Remaining, Shares, Signed
<1>4. CASE \E o \in Orders : CommitIntent(o)
  <2>1. PICK o \in Orders : CommitIntent(o)
    BY <1>4
  <2>2. /\ ~Alive(o) /\ UNCHANGED <<bstate, bfilled, bposition>>
        /\ \A c \in Orders \ {o} : order'[c] = order[c]
    BY <2>1, <1>f, Facts DEF CommitIntent, broVars, Alive, SInv, DurableBeforeSend, DurableOf
  <2> QED
    BY <1>3, <2>2 DEF Alive
<1>5. CASE \E o \in Orders : BrokerAccept(o) \/ BrokerReject(o) \/ BrokerNeverReceives(o)
                              \/ BrokerCancel(o)
  BY <1>3, <1>5, <1>f, Facts DEF BrokerAccept, BrokerReject, BrokerNeverReceives, BrokerCancel,
                          jrnVars, Alive
<1>6. CASE UNCHANGED <<bstate, bfilled, bposition, order>>
  BY <1>3, <1>6 DEF Alive
<1> QED
  BY <1>1, <1>2, <1>4, <1>5, <1>6, OrderSteps, BrokerSteps

LEMMA AInvInit == Init => AInv
<1> SUFFICES ASSUME Init PROVE AInv
  OBVIOUS
<1>1. SInv
  BY SInvInit
<1>2. BeliefIsJournal /\ SendBounded
  BY DEF Init, BeliefIsJournal, SendBounded
<1>3. OneOrderBehind
  BY DEF Init, OneOrderBehind, Behind, Alive
<1>4. ExposureBounded
  BY Constants DEF Init, ExposureBounded, Alive, Abs
<1> QED
  BY <1>1, <1>2, <1>3, <1>4 DEF AInv

LEMMA AInvStep == AInv /\ [Next]_vars => AInv'
BY SInvStep, OneOrderBehindStep, BeliefIsJournalStep, SendBoundedStep, ExposureBoundedStep DEF AInv

LEMMA Account == Spec => []AInv
BY AInvInit, AInvStep, PTL DEF Spec

(* What a trusted leg owns and believes, read off the invariant.           *)
LEMMA TrustFollows == AInv => TrustIsJustified
<1> SUFFICES ASSUME AInv, sync = "SYNCED"
             PROVE  /\ \A o \in Orders : Alive(o) => intent = o
                    /\ ostate = "IDLE" => position = bposition /\ working = 0
  BY DEF TrustIsJustified
<1>1. SyncedOwnsTheOpen /\ LiveOrdersAreOpen /\ OrderInHand
  BY DEF AInv, SInv, TInv
<1>2. ostate = "IDLE" => \A o \in Orders : jstate[o] # "open"
  BY <1>1 DEF SyncedOwnsTheOpen
<1> QED
  BY <1>1, <1>2, TrustedAccount DEF SyncedOwnsTheOpen, LiveOrdersAreOpen, OrderInHand

(* Whenever an order may be sized the leg owns every order the broker has, *)
(* and an idle leg believes the broker's own position.                     *)
THEOREM TrustEarned == Spec => []TrustIsJustified
BY TrustFollows, Account, PTL

(* The true exposure of the leg never passes max_position_shares, with     *)
(* every order the broker may still fill counted in full.                  *)
THEOREM ExposureLimited == Spec => []ExposureBounded
<1>1. AInv => ExposureBounded
  BY DEF AInv
<1> QED
  BY <1>1, Account, PTL
(* Coupling rules C3 and C4, about the account and not the belief: what is *)
(* sent outside NORMAL takes the true position nearer to zero and never    *)
(* through it, although _evaluate sees only the leg's own position.        *)
THEOREM RestrictedReduces == Spec => RestrictedModeReduces
<1>1. Init => SendReduces
  BY DEF Init, SendReduces
<1>2. AInv /\ SendReduces /\ [Next]_vars =>
        [\A o \in Orders : Sends(o) /\ mode # "NORMAL" =>
           /\ Abs(bposition + order[o].qty) < Abs(bposition)
           /\ (bposition + order[o].qty) * bposition >= 0]_vars
  BY OnlyPlaceOrderSends DEF PlaceOrder, SendReduces, AInv, SInv, TInv
<1> QED
  BY <1>1, <1>2, SendReducesStep, Account, PTL DEF Spec, RestrictedModeReduces
-----------------------------------------------------------------------------
(* No HALT without a cause.                                                *)

LEMMA DeadIsReady == SnapshotExplained /\ [Next]_vars => (~up' => pc' = "ready")
<1> SUFFICES ASSUME SnapshotExplained, [Next]_vars, ~up' PROVE pc' = "ready"
  OBVIOUS
<1>1. CASE up
  BY <1>1, StrategyFrame, EvaluateFrame, SendFrame, TickFrame, CallbackFrame, ReconcileFrame,
     LinkFrame, BrokerFrame DEF Next, vars, ctlVars, FailureNext, Expire, JournalFails, Crash,
     Start, AcknowledgeHalt, StopNew
<1>2. CASE ~up
  <2>1. pc = "ready"
    BY <1>2 DEF SnapshotExplained
  <2>2. BrokerNext \/ FailureNext \/ UNCHANGED vars
    BY <1>2 DEF Next, StrategyNext, SubmitTarget, EvaluateNext, EvaluateNothing, EvaluateMiss,
       EvaluateCancel, CommitIntent, SendNext, StartSendAttempt, WitnessFails, PlaceOrder,
       SendReturned, SendRefused, SendUncertain, TickNext, TickEvaluate, TickAckTimeout,
       TickCancel, TickCancelTimeout, CallbackNext, OnNothingNew, OnAck, OnWorking, OnCancelled,
       OnCancelRejected, OnRejected, OnExecutionLate, OnExecutionPartial, OnExecutionFull,
       OnForeignCallback, Deliver, ReconcileNext, SnapshotFails, SnapshotForeign, TakeSnapshot,
       AdoptExecution, PositionMismatch, CompleteReconcile, Reconciling, LinkNext, OnConnected,
       OnDisconnected, OnMarketDataLost, OnMarketDataRestored, Ready, Running
  <2> QED
    BY <2>1, <2>2, BrokerFrame DEF vars, ctlVars, FailureNext, Expire, JournalFails, Crash,
       Start, AcknowledgeHalt, StopNew
<1> QED
  BY <1>1, <1>2

LEMMA SnapshotExplainedStep == AInv /\ SnapshotExplained /\ [Next]_vars => SnapshotExplained'
<1> SUFFICES ASSUME AInv, SnapshotExplained, [Next]_vars,
                    pc' \in Adopting, foreign' # "foreignPosition"
             PROVE  \/ snap'.pos = expected' /\ \A o \in Orders : ~SnapBehind(o)'
                    \/ \E o \in Orders :
                         /\ SnapBehind(o)'
                         /\ \A c \in Orders : SnapBehind(c)' => c = o
                         /\ snap'.pos = expected'
                              + Signed(o, snap.filled[o] - Cardinality(booked[o]))'
  BY DeadIsReady DEF SnapshotExplained
<1>f. SInv /\ OneOrderBehind
  BY DEF AInv
<1>1. CASE TakeSnapshot
  <2>1. foreign # "foreignPosition"
    BY <1>1 DEF TakeSnapshot, broVars
  <2>2. /\ snap'.pos = bposition /\ snap'.filled = bfilled
        /\ UNCHANGED <<expected, booked, order>>
    BY <1>1, <2>1 DEF TakeSnapshot, jrnVars
  <2>3. \A o \in Orders : /\ SnapBehind(o)' <=> Behind(o)
                          /\ Signed(o, snap.filled[o] - Cardinality(booked[o]))'
                               = Signed(o, Unbooked(o))
    BY <2>2 DEF SnapBehind, Behind, Unbooked, Signed
  <2> QED
    BY <1>f, <2>2, <2>3 DEF OneOrderBehind
<1>2. ASSUME NEW o \in Orders, NEW k \in 1..snap.filled[o], AdoptExecution(o, k)
      PROVE  \/ snap'.pos = expected' /\ \A c \in Orders : ~SnapBehind(c)'
             \/ /\ SnapBehind(o)'
                /\ \A c \in Orders : SnapBehind(c)' => c = o
                /\ snap'.pos = expected' + Signed(o, snap.filled[o] - Cardinality(booked[o]))'
  <2>1. /\ UNCHANGED <<snap, order>> /\ pc \in Adopting /\ foreign # "foreignPosition"
        /\ k \notin booked[o]
        /\ expected' = expected + Signed(o, 1) /\ booked'[o] = booked[o] \cup {k}
        /\ \A c \in Orders \ {o} : booked'[c] = booked[c]
    BY <1>2, <1>f, Facts DEF AdoptExecution, Book, Adopting, ctlVars, broVars
  <2>2. /\ \A c \in Orders : SnapBehind(c) => c = o
        /\ snap.pos = expected + Signed(o, snap.filled[o] - Cardinality(booked[o]))
    <3>1. SnapBehind(o)
      BY <2>1 DEF SnapBehind
    <3> QED
      BY <2>1, <3>1 DEF SnapshotExplained
  <2>3. \A c \in Orders : SnapBehind(c)' => c = o
    BY <2>1, <2>2 DEF SnapBehind
  <2>4. /\ snap.filled[o] \in Nat /\ snap.filled[o] <= bfilled[o] /\ bfilled[o] \in Nat
        /\ Cardinality(booked[o]) \in Nat /\ booked[o] \subseteq 1..snap.filled[o]
    BY <2>1, <1>f, Facts, SnapshotFacts DEF SInv, TInv, SnapshotCovers
  <2>5. Cardinality(booked'[o]) = Cardinality(booked[o]) + 1
    BY <2>1, <2>4, <1>f, BookedCount
  <2>6. snap'.pos = expected' + Signed(o, snap.filled[o] - Cardinality(booked[o]))'
    <3> DEFINE n == snap.filled[o] - Cardinality(booked[o])
    <3>1. /\ Signed(o, n - 1) = Signed(o, n) - Signed(o, 1) /\ Signed(o, n) \in Int
          /\ Signed(o, 1) \in Int /\ expected \in Int
      <4>1. n \in Int
        BY <2>4
      <4>2. expected \in Int
        BY <1>f, Sums
      <4>3. Signed(o, n) \in Int /\ Signed(o, n - 1) = Signed(o, n) - Signed(o, 1)
        BY <1>f, <4>1, SignedSums
      <4>4. Signed(o, 1) \in Int
        BY <1>f, SignedSums
      <4> QED
        BY <4>2, <4>3, <4>4
    <3>2. (snap.filled[o] - Cardinality(booked[o]))' = n - 1
      BY <2>1, <2>4, <2>5
    <3>3. Signed(o, snap.filled[o] - Cardinality(booked[o]))' = Signed(o, n - 1)
      BY <2>1, <3>2 DEF Signed
    <3>4. snap'.pos = expected + Signed(o, n)
      BY <2>1, <2>2
    <3> HIDE DEF n
    <3> QED
      BY <2>1, <3>1, <3>3, <3>4
  <2>7. CASE ~SnapBehind(o)'
    <3>1. booked'[o] = 1..snap.filled[o]
      BY <2>1, <2>4, <2>7 DEF SnapBehind
    <3>2. (snap.filled[o] - Cardinality(booked[o]))' = 0
      <4>1. snap.filled[o] \in Nat /\ snap'.filled[o] = snap.filled[o]
        BY <2>1, <2>4
      <4>2. Cardinality(booked'[o]) = snap.filled[o]
        BY <3>1, <4>1, CountTo
      <4> QED
        BY <4>1, <4>2
    <3>3. Signed(o, snap.filled[o] - Cardinality(booked[o]))' = 0
      BY <3>2 DEF Signed
    <3>4. expected' \in Int
      BY <1>f, <2>1, Sums
    <3> QED
      BY <2>3, <2>6, <2>7, <3>3, <3>4
  <2> QED
    BY <2>3, <2>6, <2>7
<1>3. CASE UNCHANGED <<snap, expected, booked, order>> /\ pc \in Adopting
          /\ foreign # "foreignPosition"
  BY <1>3 DEF SnapshotExplained, SnapBehind, Signed
<1>4. CASE BrokerNext
  <2>1. UNCHANGED <<pc, snap, expected, booked, order>>
    BY <1>4, BrokerFrame DEF ctlVars, jrnVars
  <2>2. foreign # "foreignPosition"
    BY <1>4, <2>1 DEF BrokerNext, BrokerAccept, BrokerReject, BrokerNeverReceives, BrokerFill,
         BrokerCancel, BrokerRejectCancel, BrokerIgnoresCancel, ForeignFact, ForeignSettled,
           Adopting
  <2> QED
    BY <1>3, <2>1, <2>2
<1> QED
  BY <1>1, <1>2, <1>3, <1>4, AdoptingSteps

(* A HALT is raised only for a foreign fact or after a refused cancel:     *)
(* nothing a crash, a lost callback, a fill that races a snapshot or a     *)
(* failed write leaves behind makes the engine halt.                       *)
THEOREM NoHaltWithoutCause == Spec => NoFalseHalt
<1>1. Init => SnapshotExplained
  BY DEF Init, SnapshotExplained, Adopting
<1>2. AInv /\ SnapshotExplained /\ [Next]_vars =>
        [~haltActive /\ haltActive' => foreign # "none" \/ pc = "readopt"]_vars
  <2> SUFFICES ASSUME AInv, SnapshotExplained, [Next]_vars, ~haltActive, haltActive'
               PROVE  foreign # "none" \/ pc = "readopt"
    OBVIOUS
  <2>1. OnForeignCallback \/ SnapshotForeign \/ PositionMismatch \/ CompleteReconcile
    <3>1. CASE CallbackNext
      BY <3>1 DEF CallbackNext, OnNothingNew, OnAck, OnWorking, OnCancelled, OnCancelRejected,
                  OnRejected, OnExecutionLate, OnExecutionPartial, OnExecutionFull, jrnVars, vars
    <3>2. CASE ReconcileNext
      BY <3>2 DEF ReconcileNext, SnapshotFails, TakeSnapshot, AdoptExecution, jrnVars
    <3>3. CASE FailureNext
      BY <3>3 DEF FailureNext, Expire, JournalFails, Crash, Start, AcknowledgeHalt, StopNew,
                  jrnVars
    <3> QED
      BY <3>1, <3>2, <3>3, StrategyFrame, EvaluateFrame, SendFrame, TickFrame, LinkFrame,
         BrokerFrame DEF Next, vars, jrnVars
  <2>2. CASE SnapshotForeign
    BY <2>2 DEF SnapshotForeign, Unowned, AInv, SInv, LiveOrdersAreOpen, Alive
  <2>3. CASE PositionMismatch
    BY <2>3 DEF PositionMismatch, SnapshotExplained, SnapBehind, Adopted, Explained, Adopting
  <2>4. CASE CompleteReconcile
    BY <2>4 DEF CompleteReconcile
  <2> QED
    BY <2>1, <2>2, <2>3, <2>4 DEF OnForeignCallback
<1> QED
  BY <1>1, <1>2, SnapshotExplainedStep, Account, PTL DEF Spec, NoFalseHalt

(* The inductive invariant as a whole: what has to be true between any two *)
(* durable writes of the controller, and is, whatever the constants.       *)
THEOREM InvariantHolds == Spec => []IInv
<1>1. Init => SnapshotExplained /\ SendReduces /\ HaltObeyed
  BY DEF Init, SnapshotExplained, Adopting, SendReduces, HaltObeyed, Sending
<1>2. AInv /\ SnapshotExplained /\ SendReduces /\ HaltObeyed => IInv
  BY DEF AInv, SInv, TInv, IInv
<1> QED
  BY <1>1, <1>2, HaltStep, SendReducesStep, SnapshotExplainedStep, Account, PTL DEF Spec

-----------------------------------------------------------------------------
(* Refinement: the leg, the journal and the broker are the order service.  *)

(* What the service shows of an order, by its state in the journal and at  *)
(* the broker.                                                             *)
StageOf(j) ==
  IF j = "none" THEN "new"
  ELSE IF j = "intended" THEN "committed"
  ELSE IF j = "open" THEN "attempted" ELSE "closed"
LifeOf(b) ==
  IF b = "none" THEN "unsent" ELSE IF b \in {"inflight", "live"} THEN "alive" ELSE "dead"

LEMMA ShownOf ==
  ASSUME NEW o \in Orders
  PROVE  /\ Stage[o] = StageOf(jstate[o]) /\ Stage'[o] = StageOf(jstate'[o])
         /\ Life[o] = LifeOf(bstate[o]) /\ Life'[o] = LifeOf(bstate'[o])
         /\ Size[o] = order[o].qty /\ Size'[o] = order'[o].qty
<1>1. Stage[o] = CASE jstate[o] = "none" -> "new"
                   [] jstate[o] = "intended" -> "committed"
                   [] jstate[o] = "open" -> "attempted"
                   [] OTHER -> "closed"
  BY DEF Stage
<1>2. Stage'[o] = CASE jstate'[o] = "none" -> "new"
                    [] jstate'[o] = "intended" -> "committed"
                    [] jstate'[o] = "open" -> "attempted"
                    [] OTHER -> "closed"
  BY DEF Stage
<1>3. Life[o] = CASE bstate[o] = "none" -> "unsent"
                  [] bstate[o] \in {"inflight", "live"} -> "alive"
                  [] OTHER -> "dead"
  BY DEF Life, Alive
<1>4. Life'[o] = CASE bstate'[o] = "none" -> "unsent"
                   [] bstate'[o] \in {"inflight", "live"} -> "alive"
                   [] OTHER -> "dead"
  BY DEF Life, Alive
<1>5. Size[o] = order[o].qty /\ Size'[o] = order'[o].qty
  BY DEF Size
<1>6. Stage[o] = StageOf(jstate[o])
  BY <1>1 DEF StageOf
<1>7. Stage'[o] = StageOf(jstate'[o])
  BY <1>2 DEF StageOf
<1>8. Life[o] = LifeOf(bstate[o])
  BY <1>3 DEF LifeOf
<1>9. Life'[o] = LifeOf(bstate'[o])
  BY <1>4 DEF LifeOf
<1> QED
  BY <1>5, <1>6, <1>7, <1>8, <1>9

(* A function that changes in one place is an update of what it was.       *)
LEMMA Updated ==
  ASSUME NEW S, NEW f, NEW g, f = [x \in S |-> f[x]], g = [x \in S |-> g[x]],
         NEW o \in S, \A c \in S \ {o} : g[c] = f[c]
  PROVE  g = [f EXCEPT ![o] = g[o]]
OBVIOUS

(* A step that moves one order in the journal, at the broker or in its     *)
(* payload moves that order in the service.                                *)
LEMMA OneMoves ==
  ASSUME NEW o \in Orders
  PROVE  /\ (\A c \in Orders \ {o} : StageOf(jstate'[c]) = StageOf(jstate[c]))
              => Stage' = [Stage EXCEPT ![o] = StageOf(jstate'[o])]
         /\ (\A c \in Orders \ {o} : bstate'[c] = bstate[c])
              => Life' = [Life EXCEPT ![o] = LifeOf(bstate'[o])]
         /\ (\A c \in Orders \ {o} : order'[c] = order[c])
              => Size' = [Size EXCEPT ![o] = order'[o].qty]
<1>1. /\ Stage = [x \in Orders |-> Stage[x]] /\ Stage' = [x \in Orders |-> Stage'[x]]
  BY DEF Stage
<1>2. /\ Life = [x \in Orders |-> Life[x]] /\ Life' = [x \in Orders |-> Life'[x]]
  BY DEF Life
<1>3. /\ Size = [x \in Orders |-> Size[x]] /\ Size' = [x \in Orders |-> Size'[x]]
  BY DEF Size
<1>4. ASSUME \A c \in Orders \ {o} : StageOf(jstate'[c]) = StageOf(jstate[c])
      PROVE  Stage' = [Stage EXCEPT ![o] = StageOf(jstate'[o])]
  <2>1. \A c \in Orders \ {o} : Stage'[c] = Stage[c]
    BY <1>4, ShownOf
  <2>2. Stage' = [Stage EXCEPT ![o] = Stage'[o]]
    BY <1>1, <2>1, Updated
  <2> QED
    BY <2>2, ShownOf
<1>5. ASSUME \A c \in Orders \ {o} : bstate'[c] = bstate[c]
      PROVE  Life' = [Life EXCEPT ![o] = LifeOf(bstate'[o])]
  <2>1. \A c \in Orders \ {o} : Life'[c] = Life[c]
    BY <1>5, ShownOf
  <2>2. Life' = [Life EXCEPT ![o] = Life'[o]]
    BY <1>2, <2>1, Updated
  <2> QED
    BY <2>2, ShownOf
<1>6. ASSUME \A c \in Orders \ {o} : order'[c] = order[c]
      PROVE  Size' = [Size EXCEPT ![o] = order'[o].qty]
  <2>1. \A c \in Orders \ {o} : Size'[c] = Size[c]
    BY <1>6, ShownOf
  <2>2. Size' = [Size EXCEPT ![o] = Size'[o]]
    BY <1>3, <2>1, Updated
  <2> QED
    BY <2>2, ShownOf
<1> QED
  BY <1>4, <1>5, <1>6

LEMMA NothingMoves ==
  /\ jstate' = jstate => Stage' = Stage
  /\ bstate' = bstate => Life' = Life
  /\ order' = order => Size' = Size
BY DEF Stage, Life, Alive, Size

(* A HALT in the log goes by its acknowledgement only.                     *)
LEMMA HaltMoves == [Next]_vars => (haltActive => haltActive') \/ AcknowledgeHalt
<1> SUFFICES ASSUME [Next]_vars, haltActive, ~haltActive' PROVE AcknowledgeHalt
  OBVIOUS
<1>1. CASE CallbackNext
  BY <1>1 DEF CallbackNext, OnNothingNew, OnAck, OnWorking, OnCancelled, OnCancelRejected,
              OnRejected, OnExecutionLate, OnExecutionPartial, OnExecutionFull,
              OnForeignCallback, Halt, jrnVars, vars
<1>2. CASE ReconcileNext
  BY <1>2 DEF ReconcileNext, SnapshotFails, SnapshotForeign, TakeSnapshot, AdoptExecution,
              PositionMismatch, CompleteReconcile, Halt, jrnVars
<1>3. CASE FailureNext
  BY <1>3 DEF FailureNext, Expire, JournalFails, Crash, Start, StopNew, jrnVars
<1> QED
  BY <1>1, <1>2, <1>3, StrategyFrame, EvaluateFrame, SendFrame, TickFrame, LinkFrame, BrokerFrame
     DEF Next, vars, jrnVars

(* What the service may do to its controls.                                *)
LEMMA ControlIs ==
  /\ Service!Control <=> (haltActive => haltActive')
  /\ UNCHANGED (mode # "NORMAL") <=> (mode' # "NORMAL" <=> mode # "NORMAL")
<1>1. (mode' # "NORMAL") \in BOOLEAN
  OBVIOUS
<1> QED
  BY <1>1 DEF Service!Control

(* A step that leaves orders and account alone steers the service, or      *)
(* acknowledges its HALT.                                                  *)
LEMMA ControlRefines ==
  ASSUME [Next]_vars, UNCHANGED <<order, jstate, booked, bstate, bfilled, bposition>>
  PROVE  Service!Steer \/ Service!Acknowledge
<1>1. UNCHANGED <<Stage, Size, Life>>
  BY NothingMoves
<1>2. CASE haltActive => haltActive'
  BY <1>1, <1>2, ControlIs DEF Service!Steer, Service!recordVars, Service!brokerVars
<1>3. CASE AcknowledgeHalt
  <2>1. haltActive' = FALSE /\ mode' = mode
    BY <1>3 DEF AcknowledgeHalt, ctlVars
  <2> QED
    BY <1>1, <2>1 DEF Service!Acknowledge, Service!recordVars, Service!brokerVars
<1> QED
  BY <1>2, <1>3, HaltMoves

(* What is committed has a size: the belief it was computed from is the    *)
(* account's.                                                              *)
LEMMA CommitRefines ==
  ASSUME AInv, NEW o \in Orders, CommitIntent(o)
  PROVE  Service!Commit(o)
<1>1. SInv
  BY DEF AInv
<1>2. /\ jstate[o] = "none" /\ jstate' = [jstate EXCEPT ![o] = "intended"]
      /\ UNCHANGED <<mode, booked, haltActive, bstate, bfilled, bposition>>
      /\ \A c \in Orders \ {o} : order'[c] = order[c]
  BY <1>1, Facts DEF CommitIntent, broVars
<1>3. order'[o].qty \in Int \ {0}
  BY <1>1, Sums, SizedOnTruth DEF Delta
<1>4. /\ jstate'[o] = "intended"
      /\ \A c \in Orders \ {o} : StageOf(jstate'[c]) = StageOf(jstate[c])
  BY <1>1, <1>2, Facts
<1>5. /\ Stage[o] = "new" /\ Stage' = [Stage EXCEPT ![o] = "committed"]
      /\ Size' = [Size EXCEPT ![o] = Size'[o]] /\ Size'[o] \in Int \ {0}
      /\ Life' = Life
  BY <1>2, <1>3, <1>4, ShownOf, OneMoves, NothingMoves DEF StageOf
<1> QED
  BY <1>2, <1>5 DEF Service!Commit, Service!brokerVars, Service!controlVars

(* No other order is attempted, because SYNCED owns every open one.        *)
LEMMA AttemptRefines ==
  ASSUME SInv, StartSendAttempt
  PROVE  intent \in Orders /\ Service!Attempt(intent)
<1>1. /\ intent \in Orders /\ pc = "intent" /\ sync = "SYNCED" /\ jstate[intent] = "intended"
      /\ ostate = "INTENT_COMMITTED"
      /\ jstate' = [jstate EXCEPT ![intent] = "open"]
      /\ UNCHANGED <<order, mode, booked, haltActive, bstate, bfilled, bposition>>
  BY Facts DEF StartSendAttempt, SInv, SendInProgress, Sending, broVars
<1>2. \A p \in Orders : jstate[p] # "open"
  BY <1>1 DEF SInv, SyncedOwnsTheOpen
<1>3. \A p \in Orders : Stage[p] # "attempted"
  BY <1>2, ShownOf DEF StageOf
<1>4. /\ jstate'[intent] = "open"
      /\ \A c \in Orders \ {intent} : StageOf(jstate'[c]) = StageOf(jstate[c])
  BY <1>1, Facts
<1>5. /\ Stage[intent] = "committed" /\ Stage' = [Stage EXCEPT ![intent] = "attempted"]
      /\ Size' = Size /\ Life' = Life
  BY <1>1, <1>4, ShownOf, OneMoves, NothingMoves DEF StageOf
<1> QED
  BY <1>1, <1>3, <1>5 DEF Service!Attempt, Service!brokerVars, Service!controlVars

(* The order goes out on a settled account: nothing else is alive, all     *)
(* fills are booked, and what was sized when it was committed still holds. *)
LEMMA SendRefines ==
  ASSUME AInv, SendReduces, HaltObeyed, PlaceOrder, bstate' # bstate
  PROVE  intent \in Orders /\ Service!Send(intent)
<1>1. /\ SInv /\ SendBounded
  BY DEF AInv
<1>2. /\ intent \in Orders /\ pc = "attempt" /\ sync = "SYNCED" /\ ~haltActive
      /\ jstate[intent] = "open" /\ bstate[intent] = "none"
  BY <1>1, Facts DEF PlaceOrder, SInv, SendInProgress, Sending, HaltObeyed
<1>3. /\ bstate' = [bstate EXCEPT ![intent] = bstate'[intent]]
      /\ bstate'[intent] \in {"inflight", "lost"}
      /\ UNCHANGED <<jstate, order, mode, booked, haltActive, bfilled, bposition>>
  BY <1>1, <1>2, Facts DEF PlaceOrder, jrnVars
<1>4. ASSUME NEW p \in Orders PROVE Life[p] # "alive" /\ booked[p] = 1..bfilled[p]
  <2>1. jstate[p] = "open" => p = intent
    BY <1>1, <1>2 DEF SInv, SyncedOwnsTheOpen
  <2>2. ~Alive(p)
    BY <1>1, <1>2, <2>1 DEF SInv, LiveOrdersAreOpen, Alive
  <2>3. Behind(p) => jstate[p] = "open"
    BY <1>1, <1>2 DEF SInv, SyncedOwnsTheOpen
  <2>4. bfilled[intent] = 0
    BY <1>1, <1>2, Facts DEF SInv, DurableBeforeSend, DurableOf
  <2>5. ~Behind(intent)
    BY <2>4 DEF Behind
  <2>6. ~Behind(p)
    BY <2>1, <2>3, <2>5
  <2>7. booked[p] = 1..bfilled[p]
    BY <1>1, <2>6 DEF SInv, BookedIsReal, Behind
  <2> QED
    BY <2>2, <2>7, ShownOf DEF LifeOf, Alive
<1>5. /\ Abs(bposition + order[intent].qty) <= MaxPos
      /\ mode # "NORMAL" =>
           /\ Abs(bposition + order[intent].qty) < Abs(bposition)
           /\ (bposition + order[intent].qty) * bposition >= 0
  BY <1>1, <1>2 DEF SendBounded, SendReduces
<1>6. \A n : Service!Magnitude(n) = Abs(n)
  BY DEF Service!Magnitude, Abs
<1>7. /\ Stage[intent] = "attempted" /\ Life[intent] = "unsent" /\ Size[intent] = order[intent].qty
      /\ Stage' = Stage /\ Size' = Size
      /\ Life' = [Life EXCEPT ![intent] = "alive"] \/ Life' = [Life EXCEPT ![intent] = "dead"]
  <2>1. \A c \in Orders \ {intent} : bstate'[c] = bstate[c]
    BY <1>1, <1>3, Facts
  <2> QED
    BY <1>2, <1>3, <2>1, ShownOf, OneMoves, NothingMoves DEF StageOf, LifeOf
<1>8. Service!Settled
  BY <1>4 DEF Service!Settled
<1>9. mode # "NORMAL" => Service!Reduces(Size[intent])
  BY <1>5, <1>6, <1>7 DEF Service!Reduces
<1>10. Service!Magnitude(bposition + Size[intent]) <= MaxPos
  BY <1>5, <1>6, <1>7
<1>11. \E l \in {"alive", "dead"} : Life' = [Life EXCEPT ![intent] = l]
  BY <1>7
<1> QED
  BY <1>2, <1>3, <1>7, <1>8, <1>9, <1>10, <1>11
     DEF Service!Send, Service!recordVars, Service!controlVars

LEMMA ExecuteRefines ==
  ASSUME SInv, NEW o \in Orders, BrokerFill(o)
  PROVE  Service!Execute(o)
<1>1. /\ bstate[o] = "live" /\ Shares(o) - bfilled[o] > 0
      /\ bfilled' = [bfilled EXCEPT ![o] = @ + 1]
      /\ bposition' = bposition + Signed(o, 1)
      /\ bstate' = [bstate EXCEPT ![o] = IF Shares(o) - bfilled[o] = 1 THEN "filled" ELSE "live"]
      /\ UNCHANGED <<jstate, order, mode, booked, haltActive>>
  BY DEF BrokerFill, Remaining, ctlVars, jrnVars
<1>2. /\ Shares(o) \in Nat /\ bfilled[o] \in Nat /\ bfilled'[o] = bfilled[o] + 1
      /\ bstate'[o] = IF Shares(o) - bfilled[o] = 1 THEN "filled" ELSE "live"
      /\ \A c \in Orders \ {o} : bstate'[c] = bstate[c]
  BY <1>1, Facts
<1>3. Size[o] = order[o].qty /\ Service!Magnitude(Size[o]) = Shares(o)
  BY ShownOf DEF Service!Magnitude, Shares, Abs
<1>4. bposition' = bposition + (IF Size[o] < 0 THEN -1 ELSE 1)
  BY <1>1, <1>3 DEF Signed
<1>5. /\ Life[o] = "alive" /\ Stage' = Stage /\ Size' = Size
      /\ Life' = [Life EXCEPT ![o] = LifeOf(bstate'[o])]
  BY <1>1, <1>2, ShownOf, OneMoves, NothingMoves DEF LifeOf
<1>6. LifeOf(bstate'[o]) = IF bfilled'[o] = Shares(o) THEN "dead" ELSE "alive"
  BY <1>2 DEF LifeOf
<1>7. bfilled[o] < Shares(o)
  BY <1>1, <1>2
<1> QED
  BY <1>1, <1>3, <1>4, <1>5, <1>6, <1>7
     DEF Service!Execute, Service!recordVars, Service!controlVars

LEMMA DieRefines ==
  ASSUME SInv, NEW o \in Orders, BrokerReject(o) \/ BrokerNeverReceives(o) \/ BrokerCancel(o)
  PROVE  Service!Die(o)
<1>1. /\ bstate[o] \in {"inflight", "live"}
      /\ bstate'[o] \in {"rejected", "lost", "cancelled"}
      /\ \A c \in Orders \ {o} : bstate'[c] = bstate[c]
      /\ UNCHANGED <<jstate, order, mode, booked, haltActive, bfilled, bposition>>
  BY Facts DEF BrokerReject, BrokerNeverReceives, BrokerCancel, ctlVars, jrnVars
<1>2. /\ Life[o] = "alive" /\ Stage' = Stage /\ Size' = Size
      /\ Life' = [Life EXCEPT ![o] = "dead"]
  BY <1>1, ShownOf, OneMoves, NothingMoves DEF LifeOf
<1> QED
  BY <1>1, <1>2 DEF Service!Die, Service!recordVars, Service!controlVars

(* The order on its way arrives: the service does not tell the two apart.  *)
LEMMA AcceptRefines ==
  ASSUME SInv, NEW o \in Orders, BrokerAccept(o)
  PROVE  UNCHANGED <<Stage, Size, Life, booked, bfilled, bposition, haltActive, mode>>
<1>1. /\ bstate[o] = "inflight" /\ bstate'[o] = "live"
      /\ \A c \in Orders \ {o} : bstate'[c] = bstate[c]
      /\ UNCHANGED <<jstate, order, mode, booked, haltActive, bfilled, bposition>>
  BY Facts DEF BrokerAccept, ctlVars, jrnVars
<1>2. Life[o] = "alive" /\ Life' = [Life EXCEPT ![o] = "alive"] /\ Stage' = Stage /\ Size' = Size
  BY <1>1, ShownOf, OneMoves, NothingMoves DEF LifeOf
<1>3. Life' = Life
  BY <1>2 DEF Life
<1> QED
  BY <1>1, <1>2, <1>3

(* Every other step that writes the journal tells the service something of *)
(* one order.                                                              *)
LEMMA LearnRefines ==
  ASSUME SInv, NEW o \in Orders, haltActive => haltActive',
         UNCHANGED <<order, bstate, bfilled, bposition>>,
         \A c \in Orders \ {o} : jstate'[c] = jstate[c],
         \/ jstate'[o] = jstate[o]
         \/ /\ jstate[o] \notin {"none", "intended"} /\ ~Alive(o)
            /\ jstate'[o] \notin {"none", "intended", "open"},
         \/ booked' = booked
         \/ \E k \in 1..bfilled[o] : booked' = [booked EXCEPT ![o] = @ \cup {k}]
  PROVE  Service!Learn(o)
<1>1. Size' = Size /\ Life' = Life
  BY NothingMoves
<1>2. Stage' = [Stage EXCEPT ![o] = StageOf(jstate'[o])]
  BY OneMoves
<1>3. \/ Stage' = Stage
      \/ /\ Stage[o] = "attempted" /\ Life[o] # "alive"
         /\ Stage' = [Stage EXCEPT ![o] = "closed"]
  <2>1. CASE StageOf(jstate'[o]) = StageOf(jstate[o])
    <3>1. Stage' = [Stage EXCEPT ![o] = Stage[o]]
      BY <1>2, <2>1, ShownOf
    <3> QED
      BY <3>1 DEF Stage
  <2>2. CASE jstate[o] = "open" /\ ~Alive(o) /\ jstate'[o] \notin {"none", "intended", "open"}
    BY <1>2, <2>2, ShownOf DEF StageOf, LifeOf, Alive
  <2> QED
    BY <2>1, <2>2 DEF StageOf
<1>4. \E new \in SUBSET (1..bfilled[o]) : booked' = [booked EXCEPT ![o] = @ \cup new]
  <2>1. CASE booked' = booked
    <3>1. booked' = [booked EXCEPT ![o] = @ \cup {}]
      BY <2>1, Facts
    <3> QED
      BY <3>1
  <2>2. ASSUME NEW k \in 1..bfilled[o], booked' = [booked EXCEPT ![o] = @ \cup {k}]
        PROVE  \E new \in SUBSET (1..bfilled[o]) : booked' = [booked EXCEPT ![o] = @ \cup new]
    <3>1. {k} \in SUBSET (1..bfilled[o])
      OBVIOUS
    <3> QED
      BY <2>2, <3>1
  <2> QED
    BY <2>1, <2>2
<1>5. Service!Control
  BY ControlIs
<1> QED
  BY <1>1, <1>3, <1>4, <1>5 DEF Service!Learn, Service!brokerVars

(* The steps that end an order in the journal end one.                     *)
LEMMA OneEnds ==
  ASSUME SInv, [Next]_vars, jstate' # jstate,
         ~\E o \in Orders : CommitIntent(o), ~StartSendAttempt
  PROVE  \E o \in Orders :
           /\ \A c \in Orders \ {o} : jstate'[c] = jstate[c]
           /\ \/ booked' = booked
              \/ \E k \in 1..bfilled[o] : booked' = [booked EXCEPT ![o] = @ \cup {k}]
           /\ UNCHANGED <<order, bstate, bfilled, bposition>>
<1>1. CASE SendRefused
  <2>1. intent \in Orders
    BY <1>1, Facts DEF SendRefused, Sending
  <2> QED
    BY <1>1, <2>1, Facts DEF SendRefused, broVars
<1>2. ASSUME NEW o \in Orders, NEW k \in 1..bfilled[o], OnExecutionFull(o, k)
      PROVE  /\ \A c \in Orders \ {o} : jstate'[c] = jstate[c]
             /\ booked' = [booked EXCEPT ![o] = @ \cup {k}]
             /\ UNCHANGED <<order, bstate, bfilled, bposition>>
  BY <1>2, Facts DEF OnExecutionFull, Book, broVars
<1>3. ASSUME NEW o \in Orders, OnCancelled(o) \/ OnRejected(o)
      PROVE  /\ \A c \in Orders \ {o} : jstate'[c] = jstate[c]
             /\ UNCHANGED <<order, booked, bstate, bfilled, bposition>>
  BY <1>3, Facts DEF OnCancelled, OnRejected, broVars
<1>4. CASE CompleteReconcile
  <2>1. jstate' = ResolvedJournal /\ UNCHANGED <<order, booked, bstate, bfilled, bposition>>
    BY <1>4 DEF CompleteReconcile, broVars
  <2>2. \A c \in Orders : jstate'[c] # jstate[c] => jstate[c] = "open"
    BY <2>1 DEF ResolvedJournal
  <2>3. PICK o \in Orders : jstate'[o] # jstate[o]
    BY <2>1, Facts DEF ResolvedJournal
  <2>4. \A c \in Orders \ {o} : jstate'[c] = jstate[c]
    BY <2>2, <2>3 DEF SInv, OneUnterminatedIntent
  <2> QED
    BY <2>1, <2>4
<1> QED
  BY <1>1, <1>2, <1>3, <1>4, JournalSteps

LEMMA JournalRefines ==
  ASSUME AInv, [Next]_vars, jstate' # jstate \/ booked' # booked
  PROVE  \E o \in Orders : Service!Commit(o) \/ Service!Attempt(o) \/ Service!Learn(o)
<1>0. SInv
  BY DEF AInv
<1>1. haltActive => haltActive'
  BY HaltMoves DEF AcknowledgeHalt
<1>2. CASE \E o \in Orders : CommitIntent(o)
  BY <1>2, CommitRefines
<1>3. CASE StartSendAttempt
  BY <1>0, <1>3, AttemptRefines
<1>4. CASE jstate' # jstate /\ ~StartSendAttempt /\ ~\E o \in Orders : CommitIntent(o)
  <2>1. PICK o \in Orders :
          /\ \A c \in Orders \ {o} : jstate'[c] = jstate[c]
          /\ \/ booked' = booked
             \/ \E k \in 1..bfilled[o] : booked' = [booked EXCEPT ![o] = @ \cup {k}]
          /\ UNCHANGED <<order, bstate, bfilled, bposition>>
    BY <1>0, <1>4, OneEnds
  <2>2. \/ jstate'[o] = jstate[o]
        \/ /\ jstate[o] \notin {"none", "intended"} /\ ~Alive(o)
           /\ jstate'[o] \notin {"none", "intended", "open"}
    BY <1>0, <1>4, JournalMoves
  <2> QED
    BY <1>0, <1>1, <2>1, <2>2, LearnRefines
<1>5. CASE jstate' = jstate /\ booked' # booked
  <2>1. PICK o \in Orders : \E k \in 1..bfilled[o] :
          Book(o, k) /\ UNCHANGED <<bstate, bfilled, bposition, order>>
    BY <1>0, <1>5, BookedOnce
  <2>2. \E k \in 1..bfilled[o] : booked' = [booked EXCEPT ![o] = @ \cup {k}]
    BY <2>1 DEF Book
  <2> QED
    BY <1>0, <1>1, <1>5, <2>1, <2>2, LearnRefines
<1> QED
  BY <1>2, <1>3, <1>4, <1>5

LEMMA BrokerRefines ==
  ASSUME AInv, SendReduces, HaltObeyed, [Next]_vars,
         bstate' # bstate \/ bfilled' # bfilled \/ bposition' # bposition
  PROVE  \/ \E o \in Orders : Service!Send(o) \/ Service!Execute(o) \/ Service!Die(o)
         \/ UNCHANGED <<Stage, Size, Life, booked, bfilled, bposition, haltActive, mode>>
<1>0. SInv
  BY DEF AInv
<1>1. CASE PlaceOrder
  <2>1. UNCHANGED <<bfilled, bposition>>
    BY <1>1 DEF PlaceOrder
  <2> QED
    BY <1>1, <2>1, SendRefines
<1> QED
  BY <1>0, <1>1, BrokerSteps, ExecuteRefines, DieRefines, AcceptRefines

(* The controller with its journal and the broker is the order service,    *)
(* for any number of orders, any targets, limit and ladder, and whatever   *)
(* crashes, times out or is lost: each order is attempted durably and sent *)
(* at most once, on a settled account and under no HALT; nothing is booked *)
(* twice or closed while it can still execute; and no restart takes a step *)
(* the service does not have.                                              *)
THEOREM TradingIsTheService == Spec => ImplementsOrderService
<1>1. Init => Service!Init
  BY DEF Init, Service!Init, Stage, Size, Life, Alive, NoIntent
<1>2. IInv /\ [Next]_vars
        => [Service!Next]_<<<<Stage, Size, booked>>, <<Life, bfilled, bposition>>,
                            <<haltActive, mode # "NORMAL">>>>
  <2> SUFFICES ASSUME IInv, [Next]_vars
               PROVE  \/ Service!Next
                      \/ UNCHANGED <<Stage, Size, Life, booked, bfilled, bposition,
                                     haltActive, mode>>
    OBVIOUS
  <2>1. AInv /\ SendReduces /\ HaltObeyed
    BY DEF IInv, AInv, SInv, TInv
  <2>2. CASE jstate' # jstate \/ booked' # booked
    BY <2>1, <2>2, JournalRefines DEF Service!Next
  <2>3. CASE bstate' # bstate \/ bfilled' # bfilled \/ bposition' # bposition
    BY <2>1, <2>3, BrokerRefines DEF Service!Next
  <2>4. CASE UNCHANGED <<jstate, booked, bstate, bfilled, bposition>>
    <3>1. order' = order
      BY <2>1, <2>4, OrderSteps, Facts DEF CommitIntent, AInv
    <3> QED
      BY <2>4, <3>1, ControlRefines DEF Service!Next
  <2> QED
    BY <2>2, <2>3, <2>4
<1> QED
  BY <1>1, <1>2, InvariantHolds, PTL
     DEF Spec, ImplementsOrderService, Service!Spec, Service!svars, Service!recordVars,
         Service!brokerVars, Service!controlVars

-----------------------------------------------------------------------------
(* Trust is explained by executions.                                       *)

(* A function that adds up the values of any set of orders.  Total has one *)
(* by recursion; the invariant below keeps another at hand, which no       *)
(* induction is needed for.                                                *)
AddsUp(f, value) ==
  /\ f[{}] = 0
  /\ \A S \in SUBSET Orders : \A o \in S : f[S] = f[S \ {o}] + value[o]

(* Two functions that add up the same values agree: else there would be a  *)
(* smallest set on which they do not.                                      *)
LEMMA OneSum ==
  ASSUME NEW f, NEW g, NEW value, AddsUp(f, value),
         g[{}] = 0,
         \A S \in SUBSET Orders : S # {} => \E o \in S : g[S] = g[S \ {o}] + value[o]
  PROVE  g[Orders] = f[Orders]
<1> DEFINE R == StrictSubsetOrdering(Orders)
           T == {S \in SUBSET Orders : g[S] # f[S]}
<1>1. IsWellFoundedOn(R, SUBSET Orders)
  <2>1. FiniteSubsetsOf(Orders) = SUBSET Orders
    BY FS_FiniteSubsetsOfFinite, ConstantsAssumption
  <2>2. IsWellFoundedOn(R, FiniteSubsetsOf(Orders))
    BY FS_StrictSubsetOrderingWellFounded
  <2> HIDE DEF R
  <2> QED
    BY <2>1, <2>2
<1> SUFFICES ASSUME T # {} PROVE FALSE
  OBVIOUS
<1>2. \A S, U : S \in SUBSET Orders /\ U \in SUBSET Orders /\ S \subseteq U /\ S # U
                  => <<S, U>> \in R
  BY DEF StrictSubsetOrdering
<1> HIDE DEF R
<1>3. T \subseteq SUBSET Orders
  OBVIOUS
<1>4. PICK S \in T : \A U \in T : ~(<<U, S>> \in R)
  <2> HIDE DEF T
  <2> QED
    BY <1>1, <1>3, WFMin, Zenon
<1>5. S \in SUBSET Orders /\ g[S] # f[S]
  BY <1>4
<1>6. S # {}
  BY <1>5 DEF AddsUp
<1>7. PICK o \in S : g[S] = g[S \ {o}] + value[o]
  BY <1>5, <1>6
<1>8. S \ {o} \in SUBSET Orders /\ S \ {o} \subseteq S /\ S \ {o} # S
  BY <1>5, <1>7
<1>9. g[S \ {o}] = f[S \ {o}]
  BY <1>2, <1>4, <1>5, <1>8
<1>10. f[S] = f[S \ {o}] + value[o]
  BY <1>5, <1>7 DEF AddsUp
<1> QED
  BY <1>5, <1>7, <1>9, <1>10

(* Total is such a sum: its recursion has a solution, since f is one.      *)
LEMMA TotalIsSum ==
  ASSUME NEW value, NEW f \in [SUBSET Orders -> Int], AddsUp(f, value)
  PROVE  Total(value) = f[Orders]
<1> DEFINE Grow(h, S) == IF S = {} THEN 0
                         ELSE LET o == CHOOSE o \in S : TRUE IN h[S \ {o}] + value[o]
           Solves(h) == h = [S \in SUBSET Orders |-> Grow(h, S)]
           sum == CHOOSE h : Solves(h)
<1>1. Total(value) = sum[Orders]
  BY DEF Total
<1>2. Solves(f)
  <2>1. \A S \in SUBSET Orders : f[S] = Grow(f, S)
    BY DEF AddsUp
  <2> QED
    BY <2>1
<1>3. Solves(sum)
  <2> HIDE DEF Solves
  <2> QED
    BY <1>2, Zenon
<1> HIDE DEF sum
<1>4. \A S \in SUBSET Orders : sum[S] = Grow(sum, S)
  BY <1>3
<1>5. sum[{}] = 0
  BY <1>4
<1>6. ASSUME NEW S \in SUBSET Orders, S # {}
      PROVE  \E o \in S : sum[S] = sum[S \ {o}] + value[o]
  BY <1>4, <1>6
<1> QED
  BY <1>1, <1>5, <1>6, OneSum

(* The journal's position is the sum of its executions.                    *)
Net(o) == Signed(o, Cardinality(booked[o]))
PositionIsBooked ==
  \E f \in [SUBSET Orders -> Int] :
    AddsUp(f, [o \in Orders |-> Net(o)]) /\ f[Orders] = expected

LEMMA PositionIsBookedInit == Init => PositionIsBooked
<1> SUFFICES ASSUME Init PROVE PositionIsBooked
  OBVIOUS
<1> DEFINE f == [S \in SUBSET Orders |-> 0]
<1>1. \A o \in Orders : Net(o) = 0
  <2>1. \A o \in Orders : Cardinality(booked[o]) = 0
    BY FS_EmptySet DEF Init
  <2> QED
    BY <2>1 DEF Net, Signed
<1>2. AddsUp(f, [o \in Orders |-> Net(o)])
  BY <1>1 DEF AddsUp
<1>3. f \in [SUBSET Orders -> Int] /\ f[Orders] = expected
  BY DEF Init
<1> QED
  BY <1>2, <1>3 DEF PositionIsBooked

LEMMA PositionIsBookedStep ==
  SInv /\ PositionIsBooked /\ [Next]_vars => PositionIsBooked'
<1> SUFFICES ASSUME SInv, PositionIsBooked, [Next]_vars PROVE PositionIsBooked'
  OBVIOUS
<1>1. PICK f \in [SUBSET Orders -> Int] :
        AddsUp(f, [o \in Orders |-> Net(o)]) /\ f[Orders] = expected
  BY DEF PositionIsBooked
<1>2. CASE booked' = booked /\ expected' = expected
  <2>1. \A o \in Orders : Net(o)' = Net(o)
    <3>1. CASE order' = order
      BY <1>2, <3>1 DEF Net, Signed
    <3>2. ASSUME NEW c \in Orders, CommitIntent(c)
          PROVE  \A o \in Orders : Net(o)' = Net(o)
      <4>1. \A o \in Orders \ {c} : order'[o] = order[o]
        BY <3>2, Facts DEF CommitIntent
      <4>2. booked[c] = {}
        <5>1. bfilled[c] = 0
          BY <3>2, Facts DEF CommitIntent, SInv, DurableBeforeSend, DurableOf
        <5> QED
          BY <5>1 DEF SInv, BookedIsReal
      <4>3. Cardinality(booked[c]) = 0
        BY <4>2, FS_EmptySet
      <4> QED
        BY <1>2, <4>1, <4>3 DEF Net, Signed
    <3> QED
      BY <3>1, <3>2, OrderSteps
  <2>2. AddsUp(f, [o \in Orders |-> Net(o)'])
    BY <1>1, <2>1 DEF AddsUp
  <2> QED
    BY <1>1, <1>2, <2>2 DEF PositionIsBooked, AddsUp
<1>3. ASSUME NEW o \in Orders, NEW k,
             booked'[o] = booked[o] \cup {k}, Cardinality(booked'[o]) = Cardinality(booked[o]) + 1,
             \A c \in Orders \ {o} : booked'[c] = booked[c],
             order' = order, expected' = expected + Signed(o, 1)
      PROVE  PositionIsBooked'
  <2> DEFINE d == Signed(o, 1)
             h == [S \in SUBSET Orders |-> IF o \in S THEN f[S] + d ELSE f[S]]
  <2>1. /\ d \in Int /\ expected \in Int
        /\ \A c \in Orders : Net(c) \in Int
    BY Sums, SignedSums, Facts DEF Net
  <2>2. \A c \in Orders : Net(c)' = IF c = o THEN Net(c) + d ELSE Net(c)
    <3>1. Cardinality(booked[o]) \in Int
      BY Facts
    <3>2. Net(o)' = Signed(o, Cardinality(booked[o]) + 1)
      BY <1>3 DEF Net, Signed
    <3>3. Net(o)' = Net(o) + d
      BY <3>1, <3>2, SignedSums DEF Net
    <3>4. \A c \in Orders \ {o} : Net(c)' = Net(c)
      BY <1>3 DEF Net, Signed
    <3> QED
      BY <3>3, <3>4
  <2> HIDE DEF d
  <2>3. h \in [SUBSET Orders -> Int] /\ h[Orders] = expected'
    BY <1>1, <1>3, <2>1 DEF d
  <2>4. h[{}] = 0
    BY <1>1 DEF AddsUp
  <2>5. ASSUME NEW S \in SUBSET Orders, NEW c \in S
        PROVE  h[S] = h[S \ {c}] + Net(c)'
    <3>1. f[S] = f[S \ {c}] + Net(c)
      BY <1>1 DEF AddsUp
    <3>2. f[S] \in Int /\ f[S \ {c}] \in Int /\ c \in Orders /\ S \ {c} \in SUBSET Orders
      BY <1>1
    <3>3. o \in S \ {c} <=> o \in S /\ c # o
      OBVIOUS
    <3>4. h[S] = IF o \in S THEN f[S] + d ELSE f[S]
      OBVIOUS
    <3>5. h[S \ {c}] = IF o \in S /\ c # o THEN f[S \ {c}] + d ELSE f[S \ {c}]
      BY <3>2, <3>3
    <3>6. Net(c)' = IF c = o THEN Net(c) + d ELSE Net(c)
      BY <2>2, <3>2
    <3>7. Net(c) \in Int
      BY <2>1, <3>2
    <3> HIDE DEF h
    <3> QED
      BY <2>1, <3>1, <3>2, <3>4, <3>5, <3>6, <3>7
  <2>6. AddsUp(h, [c \in Orders |-> Net(c)'])
    BY <2>4, <2>5 DEF AddsUp
  <2> QED
    BY <2>3, <2>6 DEF PositionIsBooked, AddsUp
<1>4. CASE booked' # booked \/ expected' # expected
  <2>0. PICK o \in Orders : \E k \in 1..bfilled[o] :
          k \notin booked[o] /\ Book(o, k) /\ UNCHANGED <<bstate, bfilled, bposition, order>>
    BY <1>4, BookedOnce
  <2>1. PICK k \in 1..bfilled[o] :
          k \notin booked[o] /\ Book(o, k) /\ UNCHANGED <<bstate, bfilled, bposition, order>>
    BY <2>0
  <2>2. /\ booked'[o] = booked[o] \cup {k} /\ expected' = expected + Signed(o, 1)
        /\ \A c \in Orders \ {o} : booked'[c] = booked[c]
    BY <2>1, Facts DEF Book
  <2>3. Cardinality(booked'[o]) = Cardinality(booked[o]) + 1
    BY <2>1, <2>2, BookedCount
  <2> QED
    BY <1>3, <2>1, <2>2, <2>3
<1> QED
  BY <1>2, <1>4

(* A reconciliation that ends in trust worked on a position that our own   *)
(* executions, as the broker lists them, explain to the share: what it     *)
(* compares is the position of the journal, which is that of the booked    *)
(* executions, and those are by then exactly the broker's.                 *)
THEOREM TrustIsExplained == Spec => OnlyExplainedIsTrusted
<1>1. SInv /\ PositionIsBooked /\ [Next]_vars
        => [sync # "SYNCED" /\ sync' = "SYNCED" =>
              snap.pos = Total([o \in Orders |-> Signed(o, snap.filled[o])])]_vars
  <2> SUFFICES ASSUME SInv, PositionIsBooked, [Next]_vars, sync # "SYNCED", sync' = "SYNCED"
               PROVE  snap.pos = Total([o \in Orders |-> Signed(o, snap.filled[o])])
    OBVIOUS
  <2>1. pc \in Adopting /\ Adopted /\ Explained
    BY TrustedSteps DEF CompleteReconcile, Adopting
  <2>2. \A o \in Orders : Cardinality(booked[o]) = snap.filled[o]
    <3>1. ASSUME NEW o \in Orders PROVE Cardinality(booked[o]) = snap.filled[o]
      <4>1. snap.filled[o] \in Nat
        BY SnapshotFacts DEF SInv, TInv
      <4>2. booked[o] = 1..snap.filled[o]
        BY <2>1 DEF SInv, SnapshotCovers, Adopted
      <4> QED
        BY <4>1, <4>2, CountTo
    <3> QED
      BY <3>1
  <2>3. PICK f \in [SUBSET Orders -> Int] :
          AddsUp(f, [o \in Orders |-> Net(o)]) /\ f[Orders] = expected
    BY DEF PositionIsBooked
  <2>4. [o \in Orders |-> Net(o)] = [o \in Orders |-> Signed(o, snap.filled[o])]
    BY <2>2 DEF Net
  <2>5. Total([o \in Orders |-> Signed(o, snap.filled[o])]) = expected
    BY <2>3, <2>4, TotalIsSum
  <2> QED
    BY <2>1, <2>5 DEF Explained
<1> QED
  BY <1>1, PositionIsBookedInit, PositionIsBookedStep, Core, PTL
     DEF Spec, OnlyExplainedIsTrusted

-----------------------------------------------------------------------------
(* The end of the day.  First what EndOfDay needs to know of the steps of   *)
(* OrderLifecycle.                                                         *)

LEMMA EodConstants ==
  /\ FlattenIds \subseteq Decisions /\ OtherLegs \in Nat /\ Days \in Nat
  /\ None \notin Int
BY EndOfDayAssumption

(* Without a process and its journal only the world outside moves.         *)
LEMMA DownSteps ==
  ASSUME [Next]_vars, ~Running
  PROVE  \/ Crash \/ Start
         \/ UNCHANGED <<ctlVars, legVars>>
<1>1. BrokerNext \/ FailureNext \/ UNCHANGED vars
  BY DEF Next, StrategyNext, SubmitTarget, EvaluateNext, EvaluateNothing, EvaluateMiss,
     EvaluateCancel, CommitIntent, SendNext, StartSendAttempt, WitnessFails, PlaceOrder,
     SendReturned, SendRefused, SendUncertain, TickNext, TickEvaluate, TickAckTimeout,
     TickCancel, TickCancelTimeout, CallbackNext, OnNothingNew, OnAck, OnWorking, OnCancelled,
     OnCancelRejected, OnRejected, OnExecutionLate, OnExecutionPartial, OnExecutionFull,
     OnForeignCallback, Deliver, ReconcileNext, SnapshotFails, SnapshotForeign, TakeSnapshot,
     AdoptExecution, PositionMismatch, CompleteReconcile, Reconciling, LinkNext, OnConnected,
     OnDisconnected, OnMarketDataLost, OnMarketDataRestored, Ready
<1> QED
  BY <1>1, BrokerFrame DEF vars, FailureNext, Expire, JournalFails, AcknowledgeHalt, StopNew, Ready

(* The steps of a handler that evaluates or sends.                         *)
LEMMA HandlerSteps ==
  ASSUME [Next]_vars, Running, pc \in {"evaluate"} \cup Sending
  PROVE  \/ EvaluateNext \/ SendNext
         \/ Crash \/ JournalFails
         \/ UNCHANGED <<up, journalOk, restored, pc, intent>>
<1> USE DEF Sending
<1>1. EvaluateNext \/ SendNext \/ BrokerNext \/ FailureNext \/ UNCHANGED vars
  BY DEF Next, StrategyNext, SubmitTarget, TickNext, TickEvaluate, TickAckTimeout,
     TickCancel, TickCancelTimeout, CallbackNext, OnNothingNew, OnAck, OnWorking, OnCancelled,
     OnCancelRejected, OnRejected, OnExecutionLate, OnExecutionPartial, OnExecutionFull,
     OnForeignCallback, Deliver, ReconcileNext, SnapshotFails, SnapshotForeign, TakeSnapshot,
     AdoptExecution, PositionMismatch, CompleteReconcile, Reconciling, LinkNext, OnConnected,
     OnDisconnected, OnMarketDataLost, OnMarketDataRestored, Ready
<1>2. CASE FailureNext
  BY <1>2 DEF FailureNext, Expire, Start, AcknowledgeHalt, StopNew, Running, Ready, ctlVars, legVars
<1> QED
  BY <1>1, <1>2, BrokerFrame DEF vars, ctlVars, legVars

LEMMA HandlerPlaces ==
  ASSUME EvaluateNext \/ SendNext
  PROVE  Running /\ pc' \in {"ready"} \cup Sending /\ UNCHANGED <<up, journalOk, restored>>
BY DEF EvaluateNext, EvaluateNothing, EvaluateMiss, EvaluateCancel, CommitIntent, SendNext,
   StartSendAttempt, WitnessFails, PlaceOrder, SendReturned, SendRefused, SendUncertain, Sending

(* How a step ends an adoption.                                            *)
LEMMA AdoptingEnds ==
  ASSUME [Next]_vars, pc \in Adopting, pc' # pc
  PROVE  PositionMismatch \/ CompleteReconcile \/ JournalFails \/ Crash
<1> USE DEF Adopting
<1>1. ReconcileNext \/ BrokerNext \/ FailureNext \/ UNCHANGED vars
  BY DEF Next, EvaluateNext, EvaluateNothing, EvaluateMiss,
     EvaluateCancel, CommitIntent, SendNext, StartSendAttempt, WitnessFails, PlaceOrder,
     SendReturned, SendRefused, SendUncertain, StrategyNext, SubmitTarget, TickNext,
     TickEvaluate, TickAckTimeout, TickCancel, TickCancelTimeout, CallbackNext, OnNothingNew,
     OnAck, OnWorking, OnCancelled, OnCancelRejected, OnRejected, OnExecutionLate,
     OnExecutionPartial, OnExecutionFull, OnForeignCallback, Deliver, LinkNext, OnConnected,
     OnDisconnected, OnMarketDataLost, OnMarketDataRestored, Ready
<1>2. CASE ReconcileNext
  BY <1>2 DEF ReconcileNext, SnapshotFails, SnapshotForeign, TakeSnapshot, AdoptExecution,
     Reconciling, ctlVars
<1>3. CASE FailureNext
  BY <1>3 DEF FailureNext, Expire, Start, AcknowledgeHalt, StopNew, ctlVars
<1> QED
  BY <1>1, <1>2, <1>3, BrokerFrame DEF vars, ctlVars

(* A process changes its mode to the stricter side only.                   *)
LEMMA ModeMoves ==
  ASSUME [Next]_vars
  PROVE  \/ Crash
         \/ mode' = mode
         \/ mode' = "HALTED"
         \/ mode = "NORMAL" /\ mode' = "STOP_NEW"
         \/ mode' = "FLATTEN_ONLY" /\ ~restored /\ restored'
<1>1. CASE EvaluateNext
  BY <1>1, CancelFacts DEF EvaluateNext, EvaluateNothing, EvaluateMiss, EvaluateCancel, CommitIntent
<1>2. CASE SendNext
  BY <1>2 DEF SendNext, StartSendAttempt, WitnessFails, PlaceOrder, SendReturned, SendRefused,
              SendUncertain, Fence
<1>3. CASE TickNext
  BY <1>3, CancelFacts DEF TickNext, TickEvaluate, TickAckTimeout, TickCancel, TickCancelTimeout
<1>4. CASE CallbackNext
  BY <1>4, CancelFacts DEF CallbackNext, OnNothingNew, OnAck, OnWorking, OnCancelled,
     OnCancelRejected, OnRejected, OnExecutionLate, OnExecutionPartial, OnExecutionFull,
     OnForeignCallback, Halt, ctlVars, vars
<1>5. CASE ReconcileNext
  BY <1>5 DEF ReconcileNext, SnapshotFails, SnapshotForeign, TakeSnapshot, AdoptExecution,
     PositionMismatch, CompleteReconcile, Restore, Halt, ctlVars
<1>6. CASE LinkNext
  BY <1>6 DEF LinkNext, OnConnected, OnDisconnected, OnMarketDataLost, OnMarketDataRestored, Restore
<1>7. CASE FailureNext
  BY <1>7 DEF FailureNext, Expire, JournalFails, Start, AcknowledgeHalt, StopNew, Fence, ctlVars
<1> QED
  BY <1>1, <1>2, <1>3, <1>4, <1>5, <1>6, <1>7, StrategyFrame, BrokerFrame DEF Next, vars, ctlVars

(* A process is restored once, to what its journal booked.                 *)
LEMMA RestoreMoves ==
  ASSUME TypeOK, [Next]_vars
  PROVE  \/ Crash
         \/ restored' = restored
         \/ /\ ~restored /\ restored' /\ position' = expected'
            /\ UNCHANGED <<up, journalOk, booked, expected>>
<1>1. restored \in BOOLEAN
  BY DEF TypeOK, ControlTypeOK
<1>2. CASE ReconcileNext
  BY <1>1, <1>2 DEF ReconcileNext, SnapshotFails, SnapshotForeign, TakeSnapshot, AdoptExecution,
     PositionMismatch, CompleteReconcile, Restore, ctlVars, jrnVars
<1>3. CASE LinkNext
  BY <1>1, <1>3 DEF LinkNext, OnConnected, OnDisconnected, OnMarketDataLost, OnMarketDataRestored,
     Restore, jrnVars
<1>4. CASE FailureNext
  BY <1>4 DEF FailureNext, Expire, JournalFails, Start, AcknowledgeHalt, StopNew, ctlVars
<1> QED
  BY <1>2, <1>3, <1>4, StrategyFrame, EvaluateFrame, SendFrame, TickFrame, CallbackFrame,
     BrokerFrame
     DEF Next, vars, ctlVars

(* What moves the leg's belief and the journal's sum.                      *)
LEMMA BeliefMoves ==
  ASSUME TypeOK, [Next]_vars
  PROVE  \/ Crash \/ CompleteReconcile
         \/ ~restored /\ restored' /\ position' = expected'
         \/ pc \in Adopting /\ pc' = pc
         \/ UNCHANGED <<position, expected>>
         \/ \E o \in Orders : /\ position' = position + Signed(o, 1)
                              /\ expected' = expected + Signed(o, 1)
<1>1. CASE ReconcileNext
  BY <1>1 DEF ReconcileNext, SnapshotFails, SnapshotForeign, TakeSnapshot, AdoptExecution,
     PositionMismatch, Restore, ctlVars, legVars, jrnVars, Adopting
<1>2. CASE LinkNext
  BY <1>2 DEF LinkNext, OnConnected, OnDisconnected, OnMarketDataLost, OnMarketDataRestored,
     Restore, legVars, jrnVars
<1>3. CASE CallbackNext
  BY <1>3 DEF CallbackNext, OnNothingNew, OnAck, OnWorking, OnCancelled, OnCancelRejected,
     OnRejected, OnExecutionLate, OnExecutionPartial, OnExecutionFull, OnForeignCallback, Book,
     legVars, jrnVars, vars
<1>4. CASE FailureNext
  BY <1>4 DEF FailureNext, Expire, JournalFails, Start, AcknowledgeHalt, StopNew, legVars, jrnVars
<1> QED
  BY <1>1, <1>2, <1>3, <1>4, StrategyFrame, EvaluateFrame, SendFrame, TickFrame, BrokerFrame
     DEF Next, vars, legVars, jrnVars

-----------------------------------------------------------------------------
(* The steps the day adds.                                                 *)

(* A step of the day that is not one of the order lifecycle's: a handler    *)
(* that starts while none runs, and may give the leg a new target.         *)
Aside ==
  /\ Ready
  /\ pc' \in {"ready", "evaluate"} /\ mode' \in {"FLATTEN_ONLY", "HALTED"}
  /\ UNCHANGED <<up, journalOk, restored, link, sync, snap,
                 ostate, intent, sentAt, cancelReason, position, working,
                 order, jstate, booked, expected, haltActive, broVars, net, expired>>
  /\ \/ UNCHANGED <<accepted, target, attempt>>
     \/ \E f \in FlattenIds : /\ accepted' = accepted \cup {f}
                              /\ target' = [dec |-> f, qty |-> 0]
                              /\ attempt' = IF ostate = "IDLE" THEN 0 ELSE attempt

LEMMA LifecycleSteps == ASSUME Step PROVE [Next]_vars
BY DEF Step, LifecycleStep, Next, StrategyNext

LEMMA EodSteps ==
  ASSUME TypeOK, [EodNext]_evars
  PROVE  [Next]_vars \/ Aside
<1> USE DEF Aside, Ready, Running
<1>1. CASE RecordResidual
  BY <1>1 DEF RecordResidual, AfterRecord, legVars, jrnVars
<1>2. CASE \E f \in FlattenIds : StartFlatten(f)
  BY <1>2 DEF StartFlatten
<1>3. CASE FlattenNextLeg
  BY <1>3 DEF FlattenNextLeg, InLoop, legVars, jrnVars
<1> QED
  BY <1>1, <1>2, <1>3, LifecycleSteps DEF EodNext, Later, evars

-----------------------------------------------------------------------------
(* The invariant of the order lifecycle survives the day's own steps.      *)

LEMMA AsideType == ASSUME TInv, Aside PROVE TInv'
<1>1. ControlTypeOK'
  <2>1. up' \in BOOLEAN /\ journalOk' \in BOOLEAN /\ restored' \in BOOLEAN
    BY DEF Aside, TInv, TypeOK, ControlTypeOK
  <2>2. link' \in LinkStates /\ sync' \in SyncStates
    BY DEF Aside, TInv, TypeOK, ControlTypeOK
  <2>3. mode' \in Modes /\ pc' \in PCs
    BY DEF Aside, Modes, PCs
  <2> QED
    BY <2>1, <2>2, <2>3 DEF ControlTypeOK
<1>2. SnapshotTypeOK' /\ OrderTypeOK' /\ BrokerTypeOK'
  BY DEF Aside, TInv, TypeOK, SnapshotTypeOK, OrderTypeOK, BrokerTypeOK, broVars
<1>3. LegTypeOK' /\ OnLadder' /\ OrderInHand'
  <2>1. attempt' \in {0, attempt}
    BY DEF Aside
  <2>2. attempt' \in 0..MaxAttempts
    BY <2>1, Constants DEF TInv, TypeOK, LegTypeOK
  <2>3. sentAt' \in BOOLEAN
    BY DEF Aside, TInv, TypeOK, LegTypeOK
  <2>4. LegTypeOK'
    BY <2>2, <2>3 DEF Aside, TInv, TypeOK, LegTypeOK
  <2>5. OnLadder'
    BY <2>1, Constants DEF Aside, TInv, OnLadder
  <2>6. OrderInHand'
    BY DEF Aside, TInv, OrderInHand, Sending, Untrustworthy
  <2> QED
    BY <2>4, <2>5, <2>6
<1>4. TargetTypeOK' /\ JournalTypeOK'
  <2>1. CASE UNCHANGED <<accepted, target, attempt>>
    BY <2>1 DEF Aside, TInv, TypeOK, TargetTypeOK, JournalTypeOK
  <2>2. ASSUME NEW f \in FlattenIds, accepted' = accepted \cup {f},
               target' = [dec |-> f, qty |-> 0]
        PROVE  TargetTypeOK' /\ accepted' \subseteq Decisions
    BY <2>2, EodConstants DEF TInv, TypeOK, TargetTypeOK, JournalTypeOK
  <2>3. haltActive' \in BOOLEAN
    BY DEF Aside, TInv, TypeOK, JournalTypeOK
  <2> QED
    BY <2>1, <2>2, <2>3 DEF Aside, TInv, TypeOK, JournalTypeOK
<1> QED
  BY <1>1, <1>2, <1>3, <1>4 DEF TInv, TypeOK

LEMMA AsideCore == ASSUME SInv, Aside PROVE SInv'
<1> USE DEF Aside, broVars
<1>0. pc' \notin Sending /\ pc' \notin Adopting
  BY DEF Sending, Adopting
<1>1. TInv'
  BY AsideType DEF SInv
<1>2. SendInProgress' /\ SnapshotCovers'
  BY <1>0 DEF SendInProgress, SnapshotCovers
<1>3. DurableBeforeSend' /\ BookedIsReal' /\ CallbacksAreTrue'
  BY DEF SInv, DurableBeforeSend, DurableOf, Shares, BookedIsReal, CallbacksAreTrue
<1>4. LiveOrdersAreOpen' /\ OneUnterminatedIntent' /\ SyncedOwnsTheOpen'
  BY DEF SInv, LiveOrdersAreOpen, Alive, OneUnterminatedIntent, SyncedOwnsTheOpen, Behind
<1> QED
  BY <1>1, <1>2, <1>3, <1>4 DEF SInv

(* What of IInv the day keeps.                                             *)
CoreInv == AInv /\ SendReduces /\ SnapshotExplained

LEMMA AsideKeeps == ASSUME CoreInv, Aside PROVE CoreInv'
<1> USE DEF Aside, broVars
<1>0. pc' \notin Sending /\ pc' \notin Adopting /\ up' /\ pc' \notin {"intent", "attempt"}
  BY DEF Sending, Adopting, Ready, Running
<1>1. SInv'
  BY AsideCore DEF CoreInv, AInv
<1>2. OneOrderBehind'
  BY DEF CoreInv, AInv, OneOrderBehind, Behind, Alive, Signed, Unbooked
<1>3. BeliefIsJournal' /\ SendBounded' /\ SendReduces' /\ SnapshotExplained'
  BY <1>0 DEF CoreInv, AInv, BeliefIsJournal, SendBounded, SendReduces, SnapshotExplained
<1>4. ExposureBounded'
  BY DEF CoreInv, AInv, ExposureBounded, Alive, Signed, Remaining, Shares
<1> QED
  BY <1>1, <1>2, <1>3, <1>4 DEF CoreInv, AInv

LEMMA CoreInvInit == Init => CoreInv
BY AInvInit DEF Init, CoreInv, SendReduces, SnapshotExplained, Adopting

LEMMA CoreInvStep == CoreInv /\ [EodNext]_evars => CoreInv'
<1>1. CoreInv => TypeOK
  BY DEF CoreInv, AInv, SInv, TInv
<1>2. CoreInv /\ [Next]_vars => CoreInv'
  BY AInvStep, SendReducesStep, SnapshotExplainedStep DEF CoreInv
<1> QED
  BY <1>1, <1>2, AsideKeeps, EodSteps

(* The day adds to the order lifecycle and takes nothing away from it: what *)
(* a flattening engine sends is bounded, owned and explained as before.    *)
THEOREM DayKeepsTheCore ==
  EodSpec => [](/\ OneUnterminatedIntent /\ LiveOrdersAreOpen
                /\ ExposureBounded /\ TrustIsJustified)
<1>1. CoreInv => OneUnterminatedIntent /\ LiveOrdersAreOpen /\ ExposureBounded
  BY DEF CoreInv, AInv, SInv
<1>2. CoreInv => TrustIsJustified
  BY TrustFollows DEF CoreInv
<1> QED
  BY <1>1, <1>2, CoreInvInit, CoreInvStep, PTL DEF EodSpec, EodInit

-----------------------------------------------------------------------------
(* The day's own invariant, one part at a time.                            *)

EInv == CoreInv /\ EodInv

LEMMA EInvFacts == EInv => /\ TypeOK /\ EodTypeOK /\ EodControl /\ LoopPlaces
BY DEF EInv, EodInv, CoreInv, AInv, SInv, TInv

(* The cases of a step of the day, by what they do to the order lifecycle.  *)
LEMMA DaySteps ==
  ASSUME [EodNext]_evars
  PROVE  \/ Step /\ [Next]_vars
         \/ Later \/ RecordResidual \/ (\E f \in FlattenIds : StartFlatten(f)) \/ FlattenNextLeg
         \/ UNCHANGED evars
BY LifecycleSteps DEF EodNext

LEMMA EodTypeStep ==
  ASSUME TypeOK, EodTypeOK, [EodNext]_evars
  PROVE  EodTypeOK'
<1>t. position \in Int /\ working \in Int /\ legsLeft \in Nat /\ OtherLegs \in Nat
  BY EodConstants DEF TypeOK, LegTypeOK, EodTypeOK
<1>1. CASE Step
  <2>1. flattening' \in BOOLEAN /\ recorded' \in BOOLEAN /\ terminal' \in BOOLEAN
    BY <1>1 DEF Step
  <2> QED
    BY <1>1, <2>1 DEF Step, EodTypeOK
<1>2. CASE Later
  <2>1. (day' = day \/ day' = day + 1) /\ (recorded' = recorded \/ recorded' = FALSE)
    BY <1>2 DEF Later
  <2>2. UNCHANGED <<flattening, legsLeft, terminal, residual, lastBooked>>
    BY <1>2 DEF Later
  <2>3. recorded' \in BOOLEAN
    BY <2>1 DEF EodTypeOK
  <2> QED
    BY <2>1, <2>2, <2>3 DEF EodTypeOK
<1>3. CASE RecordResidual
  BY <1>3, <1>t DEF RecordResidual, EodTypeOK, Potential
<1>4. CASE \E f \in FlattenIds : StartFlatten(f)
  BY <1>4, <1>t DEF StartFlatten, EodTypeOK
<1>5. CASE FlattenNextLeg
  BY <1>5, <1>t DEF FlattenNextLeg, InLoop, EodTypeOK
<1>6. CASE UNCHANGED evars
  BY <1>6 DEF evars, eodVars, EodTypeOK
<1> QED
  BY <1>1, <1>2, <1>3, <1>4, <1>5, <1>6 DEF EodNext

LEMMA ControlMoves ==
  ASSUME EInv, [Next]_vars
  PROVE  EodControl'
<1>t. EodControl /\ up \in BOOLEAN /\ journalOk \in BOOLEAN /\ restored \in BOOLEAN
  BY EInvFacts DEF TypeOK, ControlTypeOK
<1> USE <1>t DEF EodControl, Running, Sending, Adopting
<1>1. CASE StrategyNext
  BY <1>1 DEF StrategyNext, SubmitTarget, Ready, broVars
<1>2. CASE EvaluateNext
  BY <1>2, EvaluateFrame, CancelFacts DEF EvaluateNext, EvaluateNothing, EvaluateMiss,
     EvaluateCancel, CommitIntent, WantsOrder, Permitted, Writable, CanWrite, legVars
<1>3. CASE SendNext
  BY <1>3, SendFrame DEF SendNext, StartSendAttempt, WitnessFails, PlaceOrder, SendReturned,
     SendRefused, SendUncertain, Fence, Distrust, legVars
<1>4. CASE TickNext
  BY <1>4, TickFrame, CancelFacts DEF TickNext, TickEvaluate, TickAckTimeout, TickCancel,
     TickCancelTimeout, Distrust, Ready
<1>5. CASE CallbackNext
  BY <1>5, CallbackFrame, CancelFacts DEF CallbackNext, OnNothingNew, OnAck, OnWorking,
     OnCancelled, OnCancelRejected, OnRejected, OnExecutionLate, OnExecutionPartial,
     OnExecutionFull, OnForeignCallback, Deliver, Distrust, Halt, Ready, ctlVars, legVars, vars
<1>6. CASE ReconcileNext
  BY <1>6, ReconcileFrame DEF ReconcileNext, SnapshotFails, SnapshotForeign, TakeSnapshot,
     AdoptExecution, PositionMismatch, CompleteReconcile, Reconciling, Restore, Halt, ctlVars,
     legVars, broVars
<1>7. CASE LinkNext
  BY <1>7, LinkFrame DEF LinkNext, OnConnected, OnDisconnected, OnMarketDataLost,
     OnMarketDataRestored, Restore, Ready, broVars
<1>8. CASE BrokerNext
  <2>1. foreign' = foreign \/ foreign' = "none" \/ foreign' \in Faults
    BY <1>8 DEF BrokerNext, BrokerAccept, BrokerReject, BrokerNeverReceives, BrokerFill,
       BrokerCancel, BrokerRejectCancel, BrokerIgnoresCancel, ForeignFact, ForeignSettled
  <2> QED
    BY <1>8, <2>1, BrokerFrame DEF ctlVars, legVars
<1>9. CASE FailureNext
  BY <1>9 DEF FailureNext, Expire, JournalFails, Crash, Start, AcknowledgeHalt, StopNew, Fence,
     Ready, ctlVars, legVars, broVars
<1> QED
  BY <1>1, <1>2, <1>3, <1>4, <1>5, <1>6, <1>7, <1>8, <1>9
     DEF Next, vars, ctlVars, legVars, broVars

LEMMA EodControlStep == ASSUME EInv, [EodNext]_evars PROVE EodControl'
<1>1. CASE Aside
  BY <1>1, EInvFacts DEF Aside, EodControl, Ready, Running, Sending, Adopting, broVars
<1> QED
  BY <1>1, ControlMoves, EodSteps, EInvFacts

LEMMA FullSteps ==
  ASSUME EInv, [Next]_vars, pc = "ready", pc' = "evaluate", FullyFilled
  PROVE  \E o \in Orders : \E k \in 1..bfilled[o] : OnExecutionFull(o, k)
         /\ ostate # "PENDING_CANCEL"
<1>1. jstate' # jstate
  BY DEF FullyFilled
<1> QED
  BY <1>1, JournalSteps DEF CommitIntent, StartSendAttempt, SendRefused, OnExecutionFull,
     OnCancelled,
     OnRejected, CompleteReconcile, ctlVars

LEMMA LoopPlacesStep == ASSUME EInv, [EodNext]_evars PROVE LoopPlaces'
<1>f. EodControl /\ LoopPlaces /\ legsLeft \in Nat /\ TypeOK
  BY EInvFacts DEF EodTypeOK
<1> USE DEF LoopPlaces, Running
<1>1. CASE Step /\ [Next]_vars
  <2>1. ASSUME legsLeft' > 0 PROVE Running' /\ pc' \in {"ready", "evaluate"} \cup Sending
    <3>1. Running' /\ legsLeft > 0 /\ Running
      BY <1>f, <1>1, <2>1 DEF Step
    <3>2. ~Crash /\ ~JournalFails
      BY <3>1 DEF Crash, JournalFails
    <3>3. CASE pc = "ready"
      <4>1. BrokerNext \/ FailureNext
        BY <1>1, <3>1, <3>3 DEF Step, LifecycleStep, InLoop, EvaluateNext, EvaluateNothing,
           EvaluateMiss, EvaluateCancel, CommitIntent, SendNext, StartSendAttempt, WitnessFails,
           PlaceOrder, SendReturned, SendRefused, SendUncertain
      <4>2. pc' = pc
        BY <4>1, <3>2, BrokerFrame DEF FailureNext, Expire, Start, AcknowledgeHalt, StopNew, ctlVars
      <4> QED
        BY <4>2, <3>1, <3>3
    <3>4. CASE pc \in {"evaluate"} \cup Sending
      BY <1>1, <3>1, <3>2, <3>4, HandlerSteps, HandlerPlaces
    <3> QED
      BY <3>1, <3>3, <3>4, <1>f
  <2>2. ASSUME terminal' PROVE restored' /\ pc' \in {"evaluate"} \cup Sending
    <3>1. CASE terminal /\ pc' # "ready"
      <4>1. pc \in {"evaluate"} \cup Sending /\ restored
        BY <3>1, <1>f
      <4>2. Running
        BY <4>1, <1>f DEF EodControl, Sending
      <4> QED
        BY <1>1, <4>1, <4>2, <3>1, HandlerSteps, HandlerPlaces DEF Crash, JournalFails
    <3>2. CASE EntersTerminal
      <4>1. restored
        BY <1>1, <1>f, <3>2, FullSteps, Constants DEF EntersTerminal, EodControl, Adopting,
           OnExecutionFull
      <4>2. restored'
        BY <1>1, <1>f, <3>2, <4>1, RestoreMoves DEF EntersTerminal, Crash
      <4> QED
        BY <3>2, <4>2 DEF EntersTerminal
    <3> QED
      BY <1>1, <2>2, <3>1, <3>2 DEF Step
  <2> QED
    BY <2>1, <2>2
<1>2. CASE Later
  BY <1>2, <1>f DEF Later, vars, ctlVars
<1>3. CASE RecordResidual
  BY <1>3, <1>f DEF RecordResidual
<1>4. CASE \E f \in FlattenIds : StartFlatten(f)
  BY <1>4, <1>f DEF StartFlatten, Ready, Sending
<1>5. CASE FlattenNextLeg
  BY <1>5, <1>f DEF FlattenNextLeg, InLoop, Sending
<1>6. CASE UNCHANGED evars
  BY <1>6, <1>f DEF evars, vars, ctlVars, eodVars
<1> QED
  BY <1>1, <1>2, <1>3, <1>4, <1>5, <1>6, DaySteps

LEMMA RecordedIsRestrictedStep ==
  ASSUME EInv, [EodNext]_evars PROVE RecordedIsRestricted'
<1>f. RecordedIsRestricted
  BY DEF EInv, EodInv
<1> USE DEF RecordedIsRestricted
<1>1. CASE Step /\ [Next]_vars
  BY <1>1, <1>f, ModeMoves DEF Step, Crash
<1>2. CASE Later
  BY <1>2, <1>f DEF Later, vars, ctlVars
<1>3. CASE RecordResidual
  BY <1>3, <1>f DEF RecordResidual, AfterRecord, Ready, Running
<1>4. CASE \E f \in FlattenIds : StartFlatten(f)
  BY <1>4, <1>f DEF StartFlatten, Ready, Running
<1>5. CASE FlattenNextLeg
  BY <1>5, <1>f DEF FlattenNextLeg, Running
<1>6. CASE UNCHANGED evars
  BY <1>6, <1>f DEF evars, vars, ctlVars, eodVars
<1> QED
  BY <1>1, <1>2, <1>3, <1>4, <1>5, <1>6, DaySteps

(* A step that ends in a restored process with its journal began in one, or *)
(* restored it.                                                            *)
LEMMA StaysRestored ==
  ASSUME EInv, [Next]_vars, Running', restored'
  PROVE  \/ Running /\ restored
         \/ ~restored /\ position' = expected'
<1>f. EodControl /\ TypeOK
  BY EInvFacts
<1>1. ~Crash
  BY DEF Crash, Running
<1>2. CASE Running
  BY <1>1, <1>2, <1>f, RestoreMoves
<1>3. CASE ~Running
  <2>1. Start
    BY <1>1, <1>3, DownSteps DEF Running, ctlVars
  <2> QED
    BY <2>1, <1>f DEF Start, EodControl
<1> QED
  BY <1>2, <1>3

LEMMA MismatchIsForeign ==
  ASSUME EInv, PositionMismatch
  PROVE  "foreignPosition" \in Faults
<1>1. SnapshotExplained /\ EodControl /\ foreign \in {"none", "foreignOrder", "foreignPosition"}
  BY EInvFacts DEF EInv, CoreInv, TypeOK, BrokerTypeOK
<1>2. foreign = "foreignPosition"
  BY <1>1 DEF PositionMismatch, Adopted, Explained, SnapshotExplained, SnapBehind, Adopting
<1> QED
  BY <1>1, <1>2 DEF EodControl

LEMMA BeliefTracksStep == ASSUME EInv, [EodNext]_evars PROVE BeliefTracks'
<1>f. BeliefTracks /\ LoopPlaces /\ legsLeft \in Nat /\ TypeOK
  BY EInvFacts DEF EInv, EodInv, EodTypeOK
<1> SUFFICES ASSUME Running', restored', pc' \notin Adopting
             PROVE  \/ position' = expected'
                    \/ mode' = "HALTED" /\ legsLeft' = 0 /\ "foreignPosition" \in Faults
  BY DEF BeliefTracks
<1>1. CASE Step /\ [Next]_vars
  <2>1. legsLeft' \in {0, legsLeft} /\ ~Crash /\ ~JournalFails
    BY <1>1 DEF Step, Running, Crash, JournalFails
  <2>2. CASE ~(Running /\ restored)
    BY <1>1, <2>2, StaysRestored
  <2>3. CASE Running /\ restored /\ pc \in Adopting
    <3>1. PositionMismatch \/ CompleteReconcile
      BY <1>1, <2>1, <2>3, AdoptingEnds
    <3>2. CASE CompleteReconcile
      BY <3>2 DEF CompleteReconcile, Explained
    <3>3. CASE PositionMismatch
      <4>1. mode' = "HALTED" /\ "foreignPosition" \in Faults
        BY <3>3, MismatchIsForeign DEF PositionMismatch, Halt
      <4>2. legsLeft = 0
        BY <1>f, <2>3 DEF LoopPlaces, Adopting, Sending
      <4> QED
        BY <4>1, <4>2, <2>1
    <3> QED
      BY <3>1, <3>2, <3>3
  <2>4. CASE Running /\ restored /\ pc \notin Adopting
    <3>1. \/ UNCHANGED <<position, expected>>
          \/ \E o \in Orders : /\ position' = position + Signed(o, 1)
                               /\ expected' = expected + Signed(o, 1)
      BY <1>1, <1>f, <2>1, <2>4, BeliefMoves DEF CompleteReconcile, Adopting
    <3>2. mode = "HALTED" => mode' = "HALTED"
      BY <1>1, <2>1, <2>4, ModeMoves
    <3> QED
      BY <3>1, <3>2, <2>1, <2>4, <1>f DEF BeliefTracks
  <2> QED
    BY <2>2, <2>3, <2>4
<1>2. CASE Later
  BY <1>2, <1>f DEF Later, vars, ctlVars, legVars, jrnVars, BeliefTracks, Running
<1>3. CASE RecordResidual
  BY <1>3, <1>f DEF RecordResidual, AfterRecord, legVars, jrnVars, BeliefTracks, Running
<1>4. CASE \E f \in FlattenIds : StartFlatten(f)
  BY <1>4, <1>f DEF StartFlatten, Ready, Running, BeliefTracks, Adopting
<1>5. CASE FlattenNextLeg
  BY <1>5, <1>f DEF FlattenNextLeg, InLoop, Running, BeliefTracks, legVars, jrnVars
<1>6. CASE UNCHANGED evars
  BY <1>6, <1>f DEF evars, vars, ctlVars, legVars, jrnVars, eodVars, BeliefTracks, Running
<1> QED
  BY <1>1, <1>2, <1>3, <1>4, <1>5, <1>6, DaySteps

LEMMA BookingShows ==
  ASSUME TypeOK, [Next]_vars, booked' = booked
  PROVE  expected' = expected
<1> SUFFICES ASSUME expected' # expected PROVE FALSE
  OBVIOUS
<1>1. booked \in [Orders -> SUBSET Nat]
  BY DEF TypeOK, JournalTypeOK
<1>2. PICK o \in Orders : \E k \in Int : k \notin booked[o] /\ Book(o, k)
  BY BookingSteps DEF OnExecutionLate, OnExecutionPartial, OnExecutionFull, AdoptExecution
<1> QED
  BY <1>1, <1>2 DEF Book

LEMMA CarryIsRestrictedStep == ASSUME EInv, [EodNext]_evars PROVE CarryIsRestricted'
<1>f. /\ CarryIsRestricted /\ BeliefTracks /\ RecordedIsRestricted /\ EodControl /\ TypeOK
      /\ day \in Nat /\ lastBooked \in Nat
  BY EInvFacts DEF EInv, EodInv, EodTypeOK
<1> SUFFICES ASSUME up', restored', expected' # 0, lastBooked' < day' PROVE mode' # "NORMAL"
  BY DEF CarryIsRestricted
<1>1. CASE Step /\ [Next]_vars
  <2>1. booked' = booked /\ lastBooked' = lastBooked /\ day' = day
    BY <1>1, <1>f DEF Step
  <2>2. expected' = expected /\ ~Crash
    BY <1>1, <1>f, <2>1, BookingShows DEF Crash
  <2>3. CASE restored
    BY <1>1, <1>f, <2>1, <2>2, <2>3, ModeMoves DEF EodControl, CarryIsRestricted
  <2>4. CASE ~restored
    <3>1. Carried
      BY <2>1, <2>2 DEF Carried
    <3> QED
      BY <1>1, <2>4, <3>1 DEF Step, RestoresCarried
  <2> QED
    BY <2>3, <2>4
<1>2. CASE Later
  <2>1. UNCHANGED <<up, journalOk, restored, pc, mode, expected, lastBooked>> /\ pc = "ready"
    BY <1>2 DEF Later, vars, ctlVars, jrnVars
  <2>2. CASE day' = day
    BY <1>f, <2>1, <2>2 DEF CarryIsRestricted
  <2>3. CASE phase = "closed" /\ mode = "NORMAL"
    <3>1. Ready
      BY <1>f, <2>1, <2>3 DEF Ready, Running, EodControl
    <3>2. position # 0
      BY <1>f, <2>1, <2>3, <3>1 DEF BeliefTracks, Ready, Adopting
    <3>3. recorded
      BY <1>2, <2>3, <3>1, <3>2 DEF Later, TickPending, Exposed
    <3> QED
      BY <1>f, <2>3, <3>3 DEF RecordedIsRestricted
  <2> QED
    BY <1>2, <2>1, <2>2, <2>3 DEF Later
<1>3. CASE RecordResidual
  BY <1>3 DEF RecordResidual, AfterRecord
<1>4. CASE \E f \in FlattenIds : StartFlatten(f)
  BY <1>4 DEF StartFlatten
<1>5. CASE FlattenNextLeg
  BY <1>5 DEF FlattenNextLeg
<1>6. CASE UNCHANGED evars
  BY <1>6, <1>f DEF evars, vars, ctlVars, jrnVars, eodVars, CarryIsRestricted
<1> QED
  BY <1>1, <1>2, <1>3, <1>4, <1>5, <1>6, DaySteps

(* What is done stays done: only PlaceOrder makes an unfinished order.      *)
LEMMA UnfinishedSteps ==
  ASSUME EInv, [Next]_vars, NEW o \in Orders, Unfinished(o)', ~Unfinished(o)
  PROVE  PlaceOrder /\ o = intent /\ pc' \in {"returned", "uncertain"}
<1>f. SInv
  BY DEF EInv, CoreInv, AInv
<1> USE DEF Unfinished
<1>1. CASE Alive(o)'
  <2>1. bstate' # bstate /\ bstate \in [Orders -> BrokerStates]
    BY <1>f, <1>1, Facts DEF Alive
  <2>2. CASE PlaceOrder
    BY <1>1, <2>1, <2>2 DEF PlaceOrder, Alive
  <2>3. ASSUME NEW b \in Orders, \/ BrokerAccept(b) \/ BrokerReject(b) \/ BrokerNeverReceives(b)
                                 \/ BrokerFill(b) \/ BrokerCancel(b)
        PROVE  FALSE
    BY <1>1, <2>1, <2>3 DEF BrokerAccept, BrokerReject, BrokerNeverReceives, BrokerFill,
       BrokerCancel, Alive
  <2> QED
    BY <2>1, <2>2, <2>3, BrokerSteps
<1>2. CASE Behind(o)'
  <2>1. /\ bfilled \in [Orders -> Nat] /\ booked \in [Orders -> SUBSET Nat]
        /\ \A k \in 1..bfilled[o] : k \in booked[o]
    BY <1>f, Facts DEF Behind
  <2>2. bfilled'[o] = bfilled[o]
    BY <2>1, BrokerSteps DEF PlaceOrder, BrokerAccept, BrokerReject, BrokerNeverReceives,
       BrokerFill, BrokerCancel, Alive
  <2>3. booked[o] \subseteq booked'[o]
    <3>1. booked' = booked \/ \E b \in Orders : \E k \in Int : Book(b, k)
      BY BookingSteps DEF OnExecutionLate, OnExecutionPartial, OnExecutionFull, AdoptExecution
    <3> QED
      BY <2>1, <3>1 DEF Book
  <2> QED
    BY <1>2, <2>1, <2>2, <2>3 DEF Behind
<1> QED
  BY <1>1, <1>2

(* A reconciliation that leaves the leg idle found nothing of ours.         *)
LEMMA IdleReconcile ==
  ASSUME EInv, CompleteReconcile, ostate' = "IDLE"
  PROVE  \A o \in Orders : ~Unfinished(o)'
<1>f. SInv /\ SnapshotCovers
  BY DEF EInv, CoreInv, AInv, SInv
<1>1. snap.open = {} /\ Adopted /\ pc \in Adopting
  BY DEF CompleteReconcile, Rehydrate, Adopting
<1>2. UNCHANGED <<bstate, bfilled, booked>>
  BY DEF CompleteReconcile, broVars
<1>3. \A o \in Orders : ~Alive(o) /\ ~Behind(o)
  BY <1>f, <1>1 DEF SnapshotCovers, Adopted, Behind
<1> QED
  BY <1>2, <1>3 DEF Unfinished, Alive, Behind

(* The last share of the only order there was.                              *)
LEMMA FullExecution ==
  ASSUME EInv, [Next]_vars, NEW o \in Orders, NEW k \in 1..bfilled[o], OnExecutionFull(o, k)
  PROVE  \A b \in Orders : ~Unfinished(b)'
<1>f. /\ SInv /\ OneOrderBehind /\ DurableOf(o)
      /\ bfilled \in [Orders -> Nat] /\ booked \in [Orders -> SUBSET Nat]
      /\ bstate \in [Orders -> BrokerStates] /\ Shares(o) \in Nat
  BY Facts DEF EInv, CoreInv, AInv, SInv, DurableBeforeSend
<1>1. /\ k \notin booked[o] /\ Cardinality(booked[o]) + 1 >= Shares(o)
      /\ booked' = [booked EXCEPT ![o] = @ \cup {k}]
      /\ UNCHANGED <<bstate, bfilled>>
  BY DEF OnExecutionFull, Book, broVars
<1>2. \A b \in Orders : Unfinished(b) => b = o
  BY <1>f, <1>1 DEF OneOrderBehind, Unfinished, Behind
<1>3. booked'[o] = 1..bfilled[o]
  BY <1>f, <1>1, FullyBooked
<1>4. ~Alive(o)
  <2>1. /\ Cardinality(booked[o]) \in Nat /\ bfilled[o] \in Nat /\ bfilled[o] # 0
        /\ Cardinality(booked[o]) + 1 = bfilled[o]
    <3>1. Cardinality(booked[o] \cup {k}) = Cardinality(booked[o]) + 1
      BY <1>f, <1>1, BookedCount
    <3>2. Cardinality(1..bfilled[o]) = bfilled[o] /\ booked[o] \cup {k} = 1..bfilled[o]
      BY <1>f, <1>1, FullyBooked, CountTo
    <3>3. bfilled[o] \in Nat /\ IsFiniteSet(booked[o])
      BY <1>f DEF SInv, TInv, TypeOK, JournalTypeOK
    <3>4. Cardinality(booked[o]) \in Nat
      BY <3>3, FS_CardinalityType
    <3>5. bfilled[o] # 0
      BY <3>3
    <3>6. Cardinality(booked[o]) + 1 = bfilled[o]
      BY <3>1, <3>2
    <3> QED
      BY <3>3, <3>4, <3>5, <3>6
  <2> QED
    BY <1>f, <1>1, <2>1 DEF DurableOf, Alive
<1> QED
  <2>1. ASSUME NEW b \in Orders, b # o PROVE ~Unfinished(b)'
    BY <1>f, <1>1, <1>2, <2>1 DEF Unfinished, Alive, Behind
  <2>2. ~Unfinished(o)'
    BY <1>1, <1>3, <1>4 DEF Unfinished, Alive, Behind
  <2> QED
    BY <2>1, <2>2

LEMMA TerminalAtRestStep == ASSUME EInv, [EodNext]_evars PROVE TerminalAtRest'
<1>f. /\ TerminalAtRest /\ LoopPlaces /\ EodControl
  BY EInvFacts DEF EInv, EodInv
<1> SUFFICES ASSUME terminal', NEW o \in Orders, Unfinished(o)'
             PROVE  o = intent' /\ pc' \in {"returned", "uncertain"}
  BY DEF TerminalAtRest
<1>1. CASE Step /\ [Next]_vars
  <2>1. CASE terminal /\ pc' # "ready"
    <3>1. pc \in {"evaluate"} \cup Sending /\ Running
      BY <1>f, <2>1 DEF LoopPlaces, EodControl, Sending
    <3>2. CASE Unfinished(o)
      <4>1. o = intent /\ pc \in {"returned", "uncertain"}
        BY <1>f, <2>1, <3>2 DEF TerminalAtRest
      <4>2. UNCHANGED <<pc, intent>>
        BY <1>1, <2>1, <3>1, <4>1, HandlerSteps DEF EvaluateNext, EvaluateNothing, EvaluateMiss,
           EvaluateCancel, CommitIntent, SendNext, StartSendAttempt, WitnessFails, PlaceOrder,
           SendReturned, SendRefused, SendUncertain, Crash, JournalFails
      <4> QED
        BY <4>1, <4>2
    <3> QED
      BY <1>1, <3>2, UnfinishedSteps DEF PlaceOrder, legVars
  <2>2. CASE EntersTerminal
    <3>1. CASE pc = "readopt"
      <4>1. CompleteReconcile
        BY <1>1, <2>2, <3>1, AdoptingEnds DEF EntersTerminal, Adopting, PositionMismatch,
           JournalFails, Crash
      <4>2. ostate' = "IDLE"
        BY <2>2, <3>1, <4>1 DEF EntersTerminal, CompleteReconcile
      <4> QED
        BY <4>1, <4>2, IdleReconcile
    <3>2. CASE pc = "ready" /\ FullyFilled
      BY <1>1, <2>2, <3>2, FullSteps, FullExecution DEF EntersTerminal
    <3> QED
      BY <2>2, <3>1, <3>2 DEF EntersTerminal
  <2> QED
    BY <1>1, <2>1, <2>2 DEF Step
<1>2. CASE Later
  BY <1>2, <1>f DEF Later, LoopPlaces, Sending
<1>3. CASE RecordResidual
  BY <1>3, <1>f DEF RecordResidual, Ready, LoopPlaces, Sending
<1>4. CASE \E f \in FlattenIds : StartFlatten(f)
  BY <1>4, <1>f DEF StartFlatten, Ready, LoopPlaces, Sending
<1>5. CASE FlattenNextLeg
  BY <1>5, <1>f DEF FlattenNextLeg, InLoop, LoopPlaces, Sending
<1>6. CASE UNCHANGED evars
  BY <1>6, <1>f DEF evars, vars, ctlVars, legVars, jrnVars, broVars, eodVars, TerminalAtRest,
     Unfinished, Alive, Behind
<1> QED
  BY <1>1, <1>2, <1>3, <1>4, <1>5, <1>6, DaySteps

(* What _maybe_complete_flatten finds when it commits EOD_FLATTEN_COMPLETED. *)
LEMMA CompletesAtRest ==
  ASSUME EInv, Step, [Next]_vars, Completes
  PROVE  /\ pc' \notin Sending /\ restored'
         /\ \A o \in Orders : ~Unfinished(o)'
         /\ \/ expected' = 0
            \/ mode' = "HALTED" /\ legsLeft' = 0 /\ "foreignPosition" \in Faults
<1>f. /\ TerminalAtRest /\ LoopPlaces /\ EodControl /\ OrderInHand /\ SInv
  BY EInvFacts DEF EInv, EodInv, CoreInv, AInv, SInv, TInv
<1>1. CASE sync = "SYNCING" /\ sync' = "SYNCED"
  <2>1. CompleteReconcile
    BY <1>f, <1>1, TrustedSteps
  <2>2. ostate' = "IDLE" /\ position' = 0 /\ position' = expected'
    BY <2>1 DEF Completes, FlatAndIdle, CompleteReconcile, Explained
  <2>3. restored' /\ pc' \notin Sending
    BY <1>f, <2>1 DEF CompleteReconcile, EodControl, Adopting, Sending
  <2> QED
    BY <2>1, <2>2, <2>3, IdleReconcile
<1>2. CASE terminal /\ pc # "ready" /\ pc' = "ready" /\ up' /\ journalOk'
  <2>1. /\ pc \in {"evaluate"} \cup Sending /\ Running /\ restored
        /\ ~Crash /\ ~JournalFails
    BY <1>f, <1>2 DEF LoopPlaces, EodControl, Sending, Crash, JournalFails
  <2>2. restored' /\ pc' \notin Sending
    BY <1>2, <2>1, HandlerSteps, HandlerPlaces DEF Sending
  <2>3. ASSUME NEW o \in Orders, Unfinished(o)' PROVE FALSE
    <3>1. Unfinished(o)
      BY <1>2, <2>3, UnfinishedSteps
    <3>2. pc \in {"returned", "uncertain"}
      BY <1>2, <1>f, <3>1 DEF TerminalAtRest
    <3>3. ostate # "IDLE"
      BY <1>f, <3>2 DEF OrderInHand, Sending
    <3>4. SendReturned \/ SendUncertain
      BY <1>2, <2>1, <3>2, HandlerSteps DEF EvaluateNext, EvaluateNothing, EvaluateMiss,
         EvaluateCancel, CommitIntent, SendNext, StartSendAttempt, WitnessFails, PlaceOrder,
         SendRefused
    <3> QED
      BY <3>3, <3>4 DEF SendReturned, SendUncertain, Distrust, Completes, FlatAndIdle
  <2>4. BeliefTracks'
    BY BeliefTracksStep DEF EodNext
  <2> QED
    BY <1>2, <2>2, <2>3, <2>4 DEF BeliefTracks, Running, Adopting, Completes, FlatAndIdle
<1> QED
  BY <1>1, <1>2 DEF Completes

(* Nothing is sent in a restricted mode without a position to reduce.       *)
LEMMA NothingToSend ==
  ASSUME EInv, [Next]_vars, mode \in {"FLATTEN_ONLY", "HALTED"}, pc \notin Sending,
         expected = 0 \/ mode = "HALTED"
  PROVE  pc' \notin Sending
<1> SUFFICES ASSUME pc' \in Sending PROVE FALSE
  OBVIOUS
<1>f. /\ BeliefIsJournal /\ OrderInHand /\ position \in Int /\ expected \in Int
  BY EInvFacts DEF EInv, CoreInv, AInv, SInv, TInv, TypeOK, LegTypeOK, JournalTypeOK
<1>1. PICK o \in Orders : CommitIntent(o)
  BY SendingSteps DEF Sending
<1>2. mode # "HALTED" /\ sync = "SYNCED" /\ target.qty = 0 /\ ostate = "IDLE" /\ Delta # 0
  BY <1>1 DEF CommitIntent, WantsOrder, Permitted, Writable, CanWrite
<1>3. position = 0 /\ working = 0
  BY <1>f, <1>2 DEF BeliefIsJournal, OrderInHand
<1> QED
  BY <1>2, <1>3 DEF Delta

(* Nothing is booked when nothing is behind.                               *)
LEMMA NothingToBook ==
  ASSUME EInv, [Next]_vars, \A o \in Orders : ~Behind(o)
  PROVE  expected' = expected
<1>f. SInv /\ SnapshotCovers /\ SnapshotTypeOK
  BY EInvFacts DEF EInv, CoreInv, AInv, SInv, TypeOK
<1>1. ASSUME NEW o \in Orders, NEW k \in 1..bfilled[o],
             OnExecutionLate(o, k) \/ OnExecutionPartial(o, k) \/ OnExecutionFull(o, k)
      PROVE  FALSE
  BY <1>1 DEF OnExecutionLate, OnExecutionPartial, OnExecutionFull, Behind
<1>2. ASSUME NEW o \in Orders, NEW k \in 1..snap.filled[o], AdoptExecution(o, k)
      PROVE  FALSE
  <2>1. k \notin booked[o] /\ snap.filled[o] <= bfilled[o]
    BY <1>f, <1>2 DEF AdoptExecution, SnapshotCovers, Adopting
  <2>2. k \in 1..bfilled[o]
    BY <1>f, <2>1, Facts DEF SnapshotTypeOK
  <2> QED
    BY <2>1, <2>2 DEF Behind
<1> QED
  BY <1>1, <1>2, BookingSteps

LEMMA CompletedIsOverStep == ASSUME EInv, [EodNext]_evars PROVE CompletedIsOver'
<1>f. /\ CompletedIsOver /\ RecordedIsRestricted /\ LoopPlaces /\ EodControl /\ TypeOK
      /\ legsLeft \in Nat
  BY EInvFacts DEF EInv, EodInv, EodTypeOK
<1> SUFFICES ASSUME recorded', residual' = None
             PROVE  /\ pc' \notin Sending
                    /\ \A o \in Orders : ~Unfinished(o)'
                    /\ expected' = 0 \/ (restored' /\ mode' = "HALTED" /\ legsLeft' = 0)
  BY DEF CompletedIsOver
<1>1. CASE Step /\ [Next]_vars /\ Completes
  BY <1>1, CompletesAtRest
<1>2. CASE Step /\ [Next]_vars /\ ~Completes
  <2>1. /\ recorded /\ residual = None /\ up' /\ ~Crash
        /\ legsLeft' = legsLeft \/ legsLeft' = 0
    BY <1>2 DEF Step, Crash
  <2>2. /\ pc \notin Sending /\ mode \in {"FLATTEN_ONLY", "HALTED"}
        /\ \A o \in Orders : ~Unfinished(o)
        /\ expected = 0 \/ (restored /\ mode = "HALTED" /\ legsLeft = 0)
    BY <1>f, <2>1 DEF CompletedIsOver, RecordedIsRestricted
  <2>3. pc' \notin Sending
    BY <1>2, <2>2, NothingToSend
  <2>4. \A o \in Orders : ~Unfinished(o)'
    BY <1>2, <2>2, UnfinishedSteps DEF PlaceOrder, Sending
  <2>5. expected' = expected
    BY <1>2, <2>2, NothingToBook DEF Unfinished
  <2>6. restored /\ mode = "HALTED" => restored' /\ mode' = "HALTED"
    BY <1>2, <1>f, <2>1, RestoreMoves, ModeMoves
  <2> QED
    BY <2>1, <2>2, <2>3, <2>4, <2>5, <2>6
<1>3. CASE Later
  <2>1. recorded /\ residual = None
    BY <1>3 DEF Later
  <2> QED
    BY <1>3, <1>f, <2>1 DEF Later, CompletedIsOver, Unfinished, Alive, Behind, vars, ctlVars,
       jrnVars, broVars
<1>4. CASE RecordResidual
  BY <1>4, <1>f, EodConstants DEF RecordResidual, Potential, TypeOK, LegTypeOK
<1>5. CASE \E f \in FlattenIds : StartFlatten(f)
  BY <1>5, <1>f DEF StartFlatten, CompletedIsOver, Unfinished, Alive, Behind, broVars, Sending
<1>6. CASE FlattenNextLeg
  BY <1>6, <1>f DEF FlattenNextLeg, InLoop, CompletedIsOver, Unfinished, Alive, Behind, broVars,
     jrnVars
<1>7. CASE UNCHANGED evars
  BY <1>7, <1>f DEF evars, vars, ctlVars, jrnVars, broVars, eodVars, CompletedIsOver, Unfinished,
     Alive, Behind
<1> QED
  BY <1>1, <1>2, <1>3, <1>4, <1>5, <1>6, <1>7, DaySteps

LEMMA EInvInit == EodInit => EInv
<1> SUFFICES ASSUME EodInit PROVE EInv
  OBVIOUS
<1>1. CoreInv /\ Init
  BY CoreInvInit DEF EodInit
<1>2. EodTypeOK
  BY DEF EodInit, EodTypeOK
<1>3. EodControl
  BY <1>1 DEF Init, EodControl, Running, Sending, Adopting
<1>4. LoopPlaces /\ RecordedIsRestricted /\ BeliefTracks /\ CarryIsRestricted
  BY <1>1 DEF EodInit, Init, LoopPlaces, RecordedIsRestricted, BeliefTracks, CarryIsRestricted
<1>5. TerminalAtRest /\ CompletedIsOver
  BY DEF EodInit, TerminalAtRest, CompletedIsOver
<1> QED
  BY <1>1, <1>2, <1>3, <1>4, <1>5 DEF EInv, EodInv

LEMMA EInvStep == EInv /\ [EodNext]_evars => EInv'
<1> SUFFICES ASSUME EInv, [EodNext]_evars PROVE EInv'
  OBVIOUS
<1>1. CoreInv'
  BY CoreInvStep DEF EInv
<1>2. EodTypeOK'
  BY EodTypeStep, EInvFacts
<1>3. EodControl' /\ LoopPlaces' /\ RecordedIsRestricted' /\ BeliefTracks'
  BY EodControlStep, LoopPlacesStep, RecordedIsRestrictedStep, BeliefTracksStep
<1>4. CarryIsRestricted' /\ TerminalAtRest' /\ CompletedIsOver'
  BY CarryIsRestrictedStep, TerminalAtRestStep, CompletedIsOverStep
<1> QED
  BY <1>1, <1>2, <1>3, <1>4 DEF EInv, EodInv

LEMMA DayInvariant == EodSpec => []EInv
BY EInvInit, EInvStep, PTL DEF EodSpec

(* SPEC invariant 15 for any number of sessions, legs and flattenings: a    *)
(* trusted engine is in NORMAL only with what it booked today.             *)
THEOREM CarriedIsRestricted == EodSpec => []NoNormalCarry
<1>1. EInv => NoNormalCarry
  BY DEF EInv, EodInv, CoreInv, AInv, EodControl, BeliefIsJournal, CarryIsRestricted,
     NoNormalCarry, Running
<1> QED
  BY <1>1, DayInvariant, PTL

(* Whatever the loop, the callbacks and the crashes did: an order that is   *)
(* alive after the close is on record for the next boot.                   *)
THEOREM LateOrdersRecorded == EodSpec => []LateOrderIsRecorded
<1>1. EInv => LateOrderIsRecorded
  <2> SUFFICES ASSUME EInv, phase = "closed", sync = "SYNCED", Ready, ~TickPending,
                      NEW o \in Orders, Alive(o), residual = None
               PROVE  FALSE
    BY DEF LateOrderIsRecorded
  <2>1. /\ TrustIsJustified /\ OrderInHand /\ CompletedIsOver
    BY TrustFollows DEF EInv, EodInv, CoreInv, AInv, SInv, TInv
  <2>2. ostate # "IDLE"
    BY <2>1, Constants DEF TrustIsJustified, OrderInHand, Ready
  <2>3. recorded
    BY <2>2 DEF TickPending, Exposed
  <2> QED
    BY <2>1, <2>3 DEF CompletedIsOver, Unfinished
<1> QED
  BY <1>1, DayInvariant, PTL

LEMMA OnlyStepsComplete ==
  ASSUME [EodNext]_evars, Completes
  PROVE  Step /\ [Next]_vars
BY DaySteps DEF Completes, Later, RecordResidual, StartFlatten, FlattenNextLeg, InLoop, Ready,
   evars, vars, ctlVars

LEMMA CompletesFlat ==
  ASSUME EInv, [EodNext]_evars, Completes
  PROVE  /\ \A o \in Orders : ~Alive(o)' /\ ~Behind(o)'
         /\ bposition' = 0 \/ (mode' = "HALTED" /\ "foreignPosition" \in Faults)
<1>1. /\ \A o \in Orders : ~Unfinished(o)'
      /\ expected' = 0 \/ (mode' = "HALTED" /\ "foreignPosition" \in Faults)
  BY OnlyStepsComplete, CompletesAtRest
<1>2. OneOrderBehind'
  BY EInvStep DEF EInv, CoreInv, AInv
<1> QED
  BY <1>1, <1>2 DEF OneOrderBehind, Unfinished

(* EOD_FLATTEN_COMPLETED leaves nothing of ours alive, and a flat account   *)
(* but for what a halted engine could not explain: the reconciliation it   *)
(* runs in, or the callback it follows, was about the last order there was. *)
THEOREM CompletionIsFlat == EodSpec => CompletedIsFlat
<1>1. EInv /\ [EodNext]_evars =>
        [Completes =>
           /\ \A o \in Orders : bstate'[o] \notin {"inflight", "live"}
           /\ bposition' = 0 \/ ("foreignPosition" \in Faults /\ mode' = "HALTED")]_evars
  BY CompletesFlat DEF Alive
<1> QED
  BY <1>1, DayInvariant, PTL DEF EodSpec, CompletedIsFlat

-----------------------------------------------------------------------------
(* The auditor.  Where the log a step writes stands to what was folded of  *)
(* the log before it.                                                      *)

LEMMA IntentSteps ==
  ASSUME [Next]_vars, intent' # None
  PROVE  \/ \E o \in Orders : CommitIntent(o)
         \/ StartSendAttempt
         \/ CompleteReconcile /\ intent' \in snap.open
         \/ /\ UNCHANGED <<intent, jstate>>
            /\ journalOk' => journalOk
            /\ pc = "intent" => pc' = "intent" \/ ~journalOk'
<1> USE DEF ctlVars, legVars, jrnVars
<1>1. CASE StrategyNext
  BY <1>1 DEF StrategyNext, SubmitTarget, Ready
<1>2. CASE EvaluateNext
  BY <1>2 DEF EvaluateNext, EvaluateNothing, EvaluateMiss, EvaluateCancel
<1>3. CASE SendNext
  BY <1>3 DEF SendNext, WitnessFails, PlaceOrder, SendReturned, SendRefused, SendUncertain
<1>4. CASE TickNext
  BY <1>4 DEF TickNext, TickEvaluate, TickAckTimeout, TickCancel, TickCancelTimeout, Ready
<1>5. CASE CallbackNext
  <2>1. CASE \E m \in net : OnNothingNew(m)
    BY <2>1 DEF OnNothingNew, vars
  <2>2. CASE \E o \in Orders : \/ OnAck(o) \/ OnWorking(o) \/ OnCancelled(o)
                               \/ OnCancelRejected(o) \/ OnRejected(o)
    BY <2>2 DEF OnAck, OnWorking, OnCancelled, OnCancelRejected, OnRejected, Deliver, Ready
  <2>3. CASE \E o \in Orders : \E k \in 1..bfilled[o] :
               OnExecutionLate(o, k) \/ OnExecutionPartial(o, k) \/ OnExecutionFull(o, k)
    BY <2>3 DEF OnExecutionLate, OnExecutionPartial, OnExecutionFull, Deliver, Ready
  <2>4. CASE OnForeignCallback
    BY <2>4 DEF OnForeignCallback, Ready
  <2> QED
    BY <1>5, <2>1, <2>2, <2>3, <2>4 DEF CallbackNext
<1>6. CASE ReconcileNext
  <2>1. CASE CompleteReconcile
    BY <2>1 DEF CompleteReconcile, NothingLive, Rehydrate
  <2>2. CASE ~CompleteReconcile
    BY <1>6, <2>2 DEF ReconcileNext, SnapshotFails, SnapshotForeign, TakeSnapshot,
       AdoptExecution, PositionMismatch, Reconciling
  <2> QED
    BY <2>1, <2>2
<1>7. CASE LinkNext
  BY <1>7 DEF LinkNext, OnConnected, OnDisconnected, OnMarketDataLost, OnMarketDataRestored, Ready
<1>8. CASE BrokerNext
  BY <1>8, BrokerFrame
<1>9. CASE FailureNext
  BY <1>9 DEF FailureNext, Expire, JournalFails, Crash, Start, AcknowledgeHalt, StopNew, Ready
<1>10. CASE UNCHANGED vars
  BY <1>10 DEF vars
<1> QED
  BY <1>1, <1>2, <1>3, <1>4, <1>5, <1>6, <1>7, <1>8, <1>9, <1>10 DEF Next

LEMMA IntentIsOpenStep == ASSUME SInv, IntentIsOpen, [Next]_vars PROVE IntentIsOpen'
<1> SUFFICES ASSUME journalOk', intent' # None, pc' # "intent" PROVE intent' \in OpenInLog'
  BY DEF IntentIsOpen
<1>f. jstate \in [Orders -> JournalStates] /\ SnapshotCovers
  BY Facts DEF SInv
<1>1. CASE \E o \in Orders : CommitIntent(o)
  BY <1>1 DEF CommitIntent
<1>2. CASE StartSendAttempt
  <2>1. intent \in Orders /\ intent' = intent
    BY <1>2, Facts DEF StartSendAttempt, Sending
  <2> QED
    BY <1>2, <1>f, <2>1 DEF StartSendAttempt, OpenInLog
<1>3. CASE CompleteReconcile /\ intent' \in snap.open
  <2>1. intent' \in Orders /\ jstate[intent'] = "open"
    <3>1. pc \in Adopting /\ snap.open \subseteq Orders
      BY <1>3 DEF CompleteReconcile, Adopting, SInv, TInv, TypeOK, SnapshotTypeOK
    <3> QED
      BY <1>3, <1>f, <3>1 DEF SnapshotCovers
  <2>2. jstate'[intent'] = "open"
    BY <1>3, <2>1 DEF CompleteReconcile, ResolvedJournal
  <2> QED
    BY <2>1, <2>2 DEF OpenInLog
<1>4. CASE /\ UNCHANGED <<intent, jstate>>
           /\ journalOk' => journalOk
           /\ pc = "intent" => pc' = "intent" \/ ~journalOk'
  BY <1>4 DEF IntentIsOpen, OpenInLog
<1> QED
  BY <1>1, <1>2, <1>3, <1>4, IntentSteps

LEMMA CommittedSteps ==
  ASSUME [Next]_vars, pc = "intent", pc' = "intent"
  PROVE  UNCHANGED <<link, position>>
<1>1. BrokerNext \/ FailureNext \/ UNCHANGED vars
  BY DEF Next, StrategyNext, SubmitTarget, EvaluateNext, EvaluateNothing, EvaluateMiss,
     EvaluateCancel, CommitIntent, SendNext, StartSendAttempt, WitnessFails, PlaceOrder,
     SendReturned, SendRefused, SendUncertain, TickNext, TickEvaluate, TickAckTimeout,
     TickCancel, TickCancelTimeout, CallbackNext, OnNothingNew, OnAck, OnWorking, OnCancelled,
     OnCancelRejected, OnRejected, OnExecutionLate, OnExecutionPartial, OnExecutionFull,
     OnForeignCallback, Deliver, ReconcileNext, SnapshotFails, SnapshotForeign, TakeSnapshot,
     AdoptExecution, PositionMismatch, CompleteReconcile, Reconciling, LinkNext, OnConnected,
     OnDisconnected, OnMarketDataLost, OnMarketDataRestored, Ready
<1> QED
  BY <1>1, BrokerFrame DEF vars, FailureNext, Expire, JournalFails, Crash, Start,
     AcknowledgeHalt, StopNew, ctlVars, legVars

LEMMA CommittedIsPermittedStep ==
  ASSUME SInv, CommittedIsPermitted, [Next]_vars PROVE CommittedIsPermitted'
<1> SUFFICES ASSUME pc' = "intent" PROVE CommittedIsPermitted'
  BY DEF CommittedIsPermitted
<1>1. ASSUME NEW o \in Orders, CommitIntent(o) PROVE CommittedIsPermitted'
  <2>1. /\ link' = "CONNECTED" /\ UNCHANGED <<position, mode>> /\ intent' = o
        /\ order'[o].tgt = target.qty
        /\ IsClosing(target.qty) \/ mode = "NORMAL"
        /\ mode = "FLATTEN_ONLY" => target.qty = 0
    BY <1>1, Facts DEF CommitIntent, WantsOrder, Permitted, Writable, CanWrite
  <2>2. IsClosing(order[intent].tgt)' \/ mode' = "NORMAL"
    BY <2>1 DEF IsClosing
  <2> QED
    BY <2>1, <2>2 DEF CommittedIsPermitted
<1>2. CASE pc = "intent" /\ UNCHANGED <<pc, mode, intent, order>>
  <2>1. UNCHANGED <<link, position>>
    BY <1>2, CommittedSteps
  <2>2. IsClosing(order[intent].tgt)' = IsClosing(order[intent].tgt)
    BY <1>2, <2>1 DEF IsClosing
  <2> QED
    BY <1>2, <2>1, <2>2 DEF CommittedIsPermitted
<1> QED
  BY <1>1, <1>2, SendingSteps DEF Sending, StartSendAttempt, PlaceOrder

(* The auditor's part of a step.                                           *)
LEMMA AuditSteps ==
  ASSUME [ANext]_avars
  PROVE  /\ [Next]_vars
         /\ \/ UNCHANGED avars
            \/ /\ Next
               /\ audit'.link = FoldLink /\ audit'.sync = FoldSync /\ audit'.mode = FoldMode
               /\ audit'.live = FoldLive /\ audit'.cancels = FoldCancels
               /\ audit'.working = FoldWorking /\ audit'.committed = FoldCommitted
               /\ audit'.execs = FoldExecs
<1>1. CASE ANext
  <2>1. Next /\ audit' = [link |-> FoldLink, sync |-> FoldSync, mode |-> FoldMode,
               live |-> FoldLive, cancels |-> FoldCancels,
               working |-> FoldWorking, committed |-> FoldCommitted,
               execs |-> FoldExecs]
    BY <1>1 DEF ANext
  <2> QED
    BY <2>1
<1>2. CASE UNCHANGED avars
  BY <1>2 DEF avars
<1> QED
  BY <1>1, <1>2

LEMMA ConnectedSteps ==
  ASSUME [Next]_vars, link' = "CONNECTED", link # "CONNECTED"
  PROVE  up /\ up' /\ journalOk' /\ ~Fenced
<1>1. LinkNext
  <2> USE DEF ctlVars
  <2>1. ~EvaluateNext
    BY DEF EvaluateNext, EvaluateNothing, EvaluateMiss, EvaluateCancel, CommitIntent,
       RequestCancel, Fence
  <2>2. ~SendNext
    BY DEF SendNext, StartSendAttempt, WitnessFails, PlaceOrder, SendReturned, SendRefused,
       SendUncertain, Fence
  <2>3. ~TickNext
    BY DEF TickNext, TickEvaluate, TickAckTimeout, TickCancel, TickCancelTimeout,
       RequestCancel, Fence
  <2>4. ~CallbackNext
    BY DEF CallbackNext, OnNothingNew, OnAck, OnWorking, OnCancelled, OnCancelRejected,
       OnRejected, OnExecutionLate, OnExecutionPartial, OnExecutionFull, OnForeignCallback,
       RequestCancel, Fence, vars
  <2>5. ~FailureNext
    BY DEF FailureNext, Expire, JournalFails, Crash, Start, AcknowledgeHalt, StopNew, Fence
  <2> QED
    BY <2>1, <2>2, <2>3, <2>4, <2>5, StrategyFrame, ReconcileFrame, BrokerFrame
       DEF Next, vars
<1>2. OnConnected \/ OnMarketDataRestored
  BY <1>1 DEF LinkNext, OnDisconnected, OnMarketDataLost
<1> QED
  BY <1>2 DEF OnConnected, OnMarketDataRestored, Ready, Running, Restore, Fenced, jrnVars

LEMMA TrustGained ==
  ASSUME SInv, [Next]_vars, sync' = "SYNCED", sync # "SYNCED"
  PROVE  up /\ up' /\ journalOk' /\ ~Fenced
<1>1. CompleteReconcile
  BY TrustedSteps
<1> QED
  BY <1>1 DEF CompleteReconcile, Running, Halt, Fenced

LEMMA StoppingSteps ==
  ASSUME [Next]_vars, mode' = "STOP_NEW", mode = "NORMAL"
  PROVE  up /\ up' /\ journalOk' /\ ~Fenced
<1>1. StopNew
  <2> USE DEF ctlVars
  <2>1. ~EvaluateNext
    BY CancelFacts DEF EvaluateNext, EvaluateNothing, EvaluateMiss, EvaluateCancel, CommitIntent
  <2>2. ~SendNext
    BY DEF SendNext, StartSendAttempt, WitnessFails, PlaceOrder, SendReturned, SendRefused,
       SendUncertain, Fence
  <2>3. ~TickNext
    BY CancelFacts DEF TickNext, TickEvaluate, TickAckTimeout, TickCancel, TickCancelTimeout
  <2>4. ~CallbackNext
    BY CancelFacts DEF CallbackNext, OnNothingNew, OnAck, OnWorking, OnCancelled,
       OnCancelRejected, OnRejected, OnExecutionLate, OnExecutionPartial, OnExecutionFull,
       OnForeignCallback, Halt, vars
  <2>5. ~ReconcileNext
    BY DEF ReconcileNext, SnapshotFails, SnapshotForeign, TakeSnapshot, AdoptExecution,
       PositionMismatch, CompleteReconcile, Restore, Halt
  <2>6. ~LinkNext
    BY DEF LinkNext, OnConnected, OnDisconnected, OnMarketDataLost, OnMarketDataRestored, Restore
  <2>7. FailureNext
    BY <2>1, <2>2, <2>3, <2>4, <2>5, <2>6, StrategyFrame, BrokerFrame DEF Next, vars
  <2> QED
    BY <2>7 DEF FailureNext, Expire, JournalFails, Crash, Start, AcknowledgeHalt, Fence
<1> QED
  BY <1>1 DEF StopNew, Ready, Running, Fenced

LEMMA StatesInLogStep ==
  ASSUME SInv, StatesInLog, [ANext]_avars PROVE StatesInLog'
<1>1. CASE UNCHANGED avars
  BY <1>1 DEF avars, vars, ctlVars, StatesInLog
<1>2. CASE ~UNCHANGED avars
  <2>f. /\ [Next]_vars
        /\ audit'.link = FoldLink /\ audit'.sync = FoldSync /\ audit'.mode = FoldMode
    BY <1>2, AuditSteps
  <2>1. link' = "CONNECTED" => audit'.link = "CONNECTED"
    BY <2>f, ConnectedSteps DEF StatesInLog, FoldLink, Logged, Silent
  <2>2. sync' = "SYNCED" => audit'.sync = "SYNCED"
    BY <2>f, TrustGained DEF StatesInLog, FoldSync, Logged, Silent
  <2>3. ASSUME restored', mode' # "HALTED" PROVE audit'.mode = mode'
    <3>1. CASE ~restored
      BY <2>f, <2>3, <3>1 DEF FoldMode
    <3>2. CASE restored /\ mode' = mode
      BY <2>f, <2>3, <3>2 DEF FoldMode, Logged, StatesInLog
    <3>3. CASE restored /\ mode' # mode
      <4>1. mode = "NORMAL" /\ mode' = "STOP_NEW"
        <5>1. ~Crash
          BY <2>3 DEF Crash
        <5> QED
          BY <2>f, <2>3, <3>3, <5>1, ModeMoves
      <4>2. up /\ up' /\ journalOk' /\ ~Fenced
        BY <2>f, <4>1, StoppingSteps
      <4> QED
        BY <2>f, <3>3, <4>2 DEF FoldMode, Logged, Silent
    <3> QED
      BY <3>1, <3>2, <3>3
  <2> QED
    BY <2>1, <2>2, <2>3 DEF StatesInLog
<1> QED
  BY <1>1, <1>2

(* An order that is open leaves it for good, in an event of its own.       *)
LEMMA OpenEnds ==
  ASSUME SInv, [Next]_vars, NEW o \in Orders, o \in OpenInLog, o \notin OpenInLog'
  PROVE  Ends(o) \/ (Refuses(o) /\ SendRefused)
<1>1. jstate[o] = "open" /\ jstate'[o] # "open"
  BY DEF OpenInLog
<1>2. jstate'[o] \notin {"none", "intended", "open"}
  BY <1>1, JournalMoves
<1>3. jstate'[o] \in JournalStates
  BY TInvStep DEF SInv, TInv, TypeOK, JournalTypeOK
<1>4. jstate'[o] \in Terminal \/ jstate'[o] = "refused"
  BY <1>2, <1>3 DEF JournalStates, Terminal
<1>5. CASE jstate'[o] \in Terminal
  BY <1>1, <1>5 DEF Ends, Terminal
<1>6. CASE jstate'[o] = "refused"
  <2>1. jstate \in [Orders -> JournalStates] /\ jstate' # jstate
    BY <1>1, Facts
  <2>2. ~\E c \in Orders : CommitIntent(c)
    BY <1>6, <2>1, <1>1 DEF CommitIntent
  <2>3. ~StartSendAttempt
    BY <1>6, <2>1, <1>1 DEF StartSendAttempt
  <2>4. ~\E c \in Orders : \E k \in 1..bfilled[c] : OnExecutionFull(c, k)
    BY <1>6, <2>1, <1>1 DEF OnExecutionFull
  <2>5. ~\E c \in Orders : OnCancelled(c) \/ OnRejected(c)
    BY <1>6, <2>1, <1>1 DEF OnCancelled, OnRejected
  <2>6. ~CompleteReconcile
    BY <1>6, <2>1, <1>1 DEF CompleteReconcile, ResolvedJournal
  <2> QED
    BY <1>1, <1>6, <2>1, <2>2, <2>3, <2>4, <2>5, <2>6, JournalSteps DEF Refuses
<1> QED
  BY <1>4, <1>5, <1>6

(* A cancel is asked for in a trusted account, of the order in hand.       *)
LEMMA CancelSteps ==
  ASSUME SInv, IntentIsOpen, [Next]_vars, NEW o \in Orders, CancelRequested(o)
  PROVE  /\ o \in OpenInLog /\ o \in OpenInLog'
         /\ link = "CONNECTED" /\ sync = "SYNCED"
<1>f. /\ intent = o /\ o # None /\ intent' = intent /\ booked' = booked /\ pc' # "recheck"
      /\ ostate \in {"PENDING_ACK", "SUBMISSION_UNCERTAIN", "WORKING"}
      /\ ostate' \in {"PENDING_CANCEL", "TERMINAL_UNRECONCILED"}
      /\ booked \in [Orders -> SUBSET Nat]
  BY Constants, Facts DEF CancelRequested, AwaitingAck
<1>1. EvaluateCancel \/ TickCancel \/ OnWorking(o)
  <2> USE DEF legVars
  <2>1. CASE EvaluateNext
    BY <1>f, <2>1 DEF EvaluateNext, EvaluateNothing, EvaluateMiss, CommitIntent
  <2>2. CASE SendNext
    BY <1>f, <2>2 DEF SendNext, StartSendAttempt, WitnessFails, PlaceOrder, SendReturned,
       SendRefused, SendUncertain, Distrust
  <2>3. CASE TickNext
    BY <1>f, <2>3 DEF TickNext, TickEvaluate, TickAckTimeout, TickCancelTimeout, Distrust
  <2>4. CASE CallbackNext
    <3>1. CASE \E m \in net : OnNothingNew(m)
      BY <1>f, <3>1 DEF OnNothingNew, vars
    <3>2. CASE \E c \in Orders : \/ OnAck(c) \/ OnCancelled(c)
                                 \/ OnCancelRejected(c) \/ OnRejected(c)
      BY <1>f, <3>2 DEF OnAck, OnCancelled, OnCancelRejected, OnRejected, AwaitingAck
    <3>3. ASSUME NEW c \in Orders, NEW k \in 1..bfilled[c],
                 OnExecutionLate(c, k) \/ OnExecutionPartial(c, k) \/ OnExecutionFull(c, k)
          PROVE  FALSE
      <4>1. k \notin booked[c] /\ booked' = [booked EXCEPT ![c] = @ \cup {k}]
        BY <3>3 DEF OnExecutionLate, OnExecutionPartial, OnExecutionFull, Book
      <4> QED
        BY <1>f, <4>1
    <3>4. CASE OnForeignCallback
      BY <1>f, <3>4 DEF OnForeignCallback
    <3>5. ASSUME NEW c \in Orders, OnWorking(c) PROVE OnWorking(o)
      BY <1>f, <3>5 DEF OnWorking
    <3> QED
      BY <2>4, <3>1, <3>2, <3>3, <3>4, <3>5 DEF CallbackNext
  <2>5. CASE ReconcileNext
    BY <1>f, <2>5 DEF ReconcileNext, SnapshotFails, SnapshotForeign, TakeSnapshot,
       AdoptExecution, PositionMismatch, CompleteReconcile, NothingLive, Rehydrate
  <2>6. CASE FailureNext
    BY <1>f, <2>6 DEF FailureNext, Expire, JournalFails, Crash, Start, AcknowledgeHalt, StopNew
  <2> QED
    BY <1>f, <2>1, <2>2, <2>3, <2>4, <2>5, <2>6, StrategyFrame, LinkFrame, BrokerFrame
       DEF Next, vars
<1>2. /\ \E why : RequestCancel(why, "WORKING")
      /\ Running /\ pc # "intent" /\ jstate' = jstate
  <2>1. CASE EvaluateCancel
    BY <2>1 DEF EvaluateCancel, jrnVars
  <2>2. CASE TickCancel
    BY <2>2 DEF TickCancel, Ready, jrnVars
  <2>3. CASE OnWorking(o)
    BY <1>f, <2>3 DEF OnWorking, Deliver, Ready, jrnVars
  <2> QED
    BY <1>1, <2>1, <2>2, <2>3
<1>3. CanWrite(TRUE)
  BY <1>f, <1>2 DEF RequestCancel
<1> QED
  BY <1>f, <1>2, <1>3 DEF CanWrite, IntentIsOpen, OpenInLog, Running

LEMMA WorkingSteps ==
  ASSUME SInv, IntentIsOpen, [Next]_vars, NEW o \in Orders, HearsWorking(o)
  PROVE  o \in OpenInLog' /\ pc \in {"ready"} \cup Adopting
<1>1. CASE OnWorking(o)
  <2>1. intent = o /\ o # None /\ journalOk /\ pc = "ready" /\ jstate' = jstate
    BY <1>1, Constants DEF OnWorking, Deliver, Ready, Running, jrnVars
  <2> QED
    BY <2>1 DEF IntentIsOpen, OpenInLog
<1>2. CASE CompleteReconcile /\ intent' = o
  <2>1. pc \in Adopting /\ o \in snap.open
    BY <1>2, Constants DEF CompleteReconcile, Adopting, NothingLive, Rehydrate
  <2>2. jstate[o] = "open"
    BY <2>1 DEF SInv, SnapshotCovers
  <2>3. jstate'[o] = "open"
    BY <1>2, <2>1, <2>2 DEF CompleteReconcile, ResolvedJournal
  <2> QED
    BY <2>1, <2>3 DEF OpenInLog
<1> QED
  BY <1>1, <1>2 DEF HearsWorking

(* Nothing is open where an order is sized.                                *)
LEMMA NothingOpenWhenSizing ==
  ASSUME SInv, NEW o \in Orders, CommitIntent(o)
  PROVE  /\ OpenInLog = {} /\ pc = "evaluate" /\ ostate = "IDLE"
         /\ jstate' = [jstate EXCEPT ![o] = "intended"] /\ jstate[o] = "none"
<1>1. /\ sync = "SYNCED" /\ pc = "evaluate" /\ ostate = "IDLE"
      /\ jstate' = [jstate EXCEPT ![o] = "intended"] /\ jstate[o] = "none"
  BY DEF CommitIntent, WantsOrder, Permitted, Writable, CanWrite
<1> QED
  BY <1>1 DEF SInv, SyncedOwnsTheOpen, OpenInLog

LEMMA LiveStep ==
  ASSUME SInv, FoldsAreOpen, [ANext]_avars
  PROVE  /\ audit'.live \subseteq OpenInLog'
         /\ pc' = "intent" => audit'.live = {}
<1>1. CASE UNCHANGED avars
  BY <1>1 DEF avars, vars, ctlVars, jrnVars, FoldsAreOpen, OpenInLog
<1>2. CASE ~UNCHANGED avars
  <2>f. [Next]_vars /\ audit'.live = FoldLive
    BY <1>2, AuditSteps
  <2>1. audit'.live \subseteq OpenInLog'
    <3>1. CASE \E o \in Orders : SendStarts(o)
      BY <2>f, <3>1 DEF FoldLive, SendStarts, OpenInLog
    <3>2. CASE ~\E o \in Orders : SendStarts(o)
      <4>1. ASSUME NEW o \in audit'.live PROVE o \in OpenInLog'
        <5>1. o \in audit.live /\ ~\E c \in Orders : Ends(c) \/ Refuses(c)
          BY <2>f, <3>2, <4>1 DEF FoldLive
        <5>2. o \in OpenInLog /\ o \in Orders
          BY <5>1 DEF FoldsAreOpen, OpenInLog
        <5> QED
          BY <2>f, <5>1, <5>2, OpenEnds
      <4> QED
        BY <4>1
    <3> QED
      BY <3>1, <3>2
  <2>2. ASSUME pc' = "intent" PROVE audit'.live = {}
    <3>1. ASSUME NEW o \in Orders, CommitIntent(o) PROVE audit'.live = {}
      <4>1. /\ audit.live = {} /\ jstate' = [jstate EXCEPT ![o] = "intended"]
            /\ jstate[o] = "none"
        BY <3>1, NothingOpenWhenSizing DEF FoldsAreOpen
      <4>2. \A c \in Orders : ~SendStarts(c)
        BY <4>1 DEF SendStarts
      <4> QED
        BY <2>f, <4>1, <4>2 DEF FoldLive
    <3>2. CASE pc = "intent" /\ jstate' = jstate
      <4>1. \A c \in Orders : ~SendStarts(c)
        BY <3>2 DEF SendStarts
      <4> QED
        BY <2>f, <3>2, <4>1 DEF FoldLive, FoldsAreOpen
    <3> QED
      BY <2>f, <2>2, <3>1, <3>2, SendingSteps DEF Sending, StartSendAttempt, PlaceOrder
  <2> QED
    BY <2>1, <2>2
<1> QED
  BY <1>1, <1>2

(* Cancels and working orders: what is added is open, what is no longer    *)
(* open was removed, and a refused order was not in either.                *)
LEMMA OpenFoldStep ==
  ASSUME SInv, [Next]_vars, NEW old, NEW new,
         old \subseteq OpenInLog, pc \in Sending => old = {},
         \A o \in new : /\ o \in Orders /\ ~Ends(o)
                        /\ o \in old \/ o \in OpenInLog'
  PROVE  new \subseteq OpenInLog'
<1>1. ASSUME NEW o \in new, o \notin OpenInLog' PROVE FALSE
  <2>1. o \in old /\ o \in OpenInLog /\ o \in Orders /\ ~Ends(o)
    BY <1>1
  <2>2. SendRefused
    BY <1>1, <2>1, OpenEnds
  <2>3. pc \in Sending
    BY <2>2 DEF SendRefused, Sending
  <2> QED
    BY <2>1, <2>3
<1> QED
  BY <1>1

(* Nothing is asked to be cancelled, or heard to work, while an order is   *)
(* being sent.                                                             *)
LEMMA QuietWhileSending ==
  ASSUME SInv, [Next]_vars, pc' \in Sending, NEW o \in Orders
  PROVE  ~CancelRequested(o) /\ ~HearsWorking(o)
<1>1. ~HearsWorking(o)
  BY DEF HearsWorking, OnWorking, CompleteReconcile, Deliver, Ready, Sending
<1>2. ~CancelRequested(o)
  <2>1. ASSUME NEW c \in Orders, CommitIntent(c) PROVE ~CancelRequested(o)
    BY <2>1 DEF CommitIntent, CancelRequested
  <2>2. CASE StartSendAttempt
    BY <2>2 DEF StartSendAttempt, CancelRequested
  <2>3. CASE ostate' = ostate
    BY <2>3 DEF CancelRequested, AwaitingAck
  <2> QED
    BY <2>1, <2>2, <2>3, SendingSteps DEF PlaceOrder, legVars
<1> QED
  BY <1>1, <1>2

LEMMA CancelsStep ==
  ASSUME SInv, IntentIsOpen, FoldsAreOpen, [ANext]_avars
  PROVE  /\ audit'.cancels \subseteq OpenInLog'
         /\ pc' \in Sending => audit'.cancels = {}
<1>1. CASE UNCHANGED avars
  BY <1>1 DEF avars, vars, ctlVars, jrnVars, FoldsAreOpen, OpenInLog
<1>2. CASE ~UNCHANGED avars
  <2>f. [Next]_vars /\ audit'.cancels = FoldCancels
    BY <1>2, AuditSteps
  <2>1. audit.cancels \subseteq OpenInLog /\ (pc \in Sending => audit.cancels = {})
    BY DEF FoldsAreOpen
  <2>2. \A o \in audit'.cancels : /\ o \in Orders /\ ~Ends(o)
                                  /\ o \in audit.cancels \/ CancelRequested(o)
    BY <2>f DEF FoldCancels
  <2>3. audit'.cancels \subseteq OpenInLog'
    BY <2>f, <2>1, <2>2, CancelSteps, OpenFoldStep
  <2>4. ASSUME pc' \in Sending PROVE audit'.cancels = {}
    <3>1. audit.cancels = {}
      BY <2>f, <2>1, <2>4, NothingOpenWhenSizing, SendingSteps
         DEF Sending, StartSendAttempt, PlaceOrder
    <3> QED
      BY <2>f, <2>2, <2>4, <3>1, QuietWhileSending
  <2> QED
    BY <2>3, <2>4
<1> QED
  BY <1>1, <1>2

LEMMA WorkingStep ==
  ASSUME SInv, IntentIsOpen, FoldsAreOpen, [ANext]_avars
  PROVE  /\ audit'.working \subseteq OpenInLog'
         /\ pc' \in Sending => audit'.working = {}
<1>1. CASE UNCHANGED avars
  BY <1>1 DEF avars, vars, ctlVars, jrnVars, FoldsAreOpen, OpenInLog
<1>2. CASE ~UNCHANGED avars
  <2>f. [Next]_vars /\ audit'.working = FoldWorking
    BY <1>2, AuditSteps
  <2>1. audit.working \subseteq OpenInLog /\ (pc \in Sending => audit.working = {})
    BY DEF FoldsAreOpen
  <2>2. \A o \in audit'.working : /\ o \in Orders /\ ~Ends(o)
                                  /\ o \in audit.working \/ HearsWorking(o)
    BY <2>f DEF FoldWorking
  <2>3. audit'.working \subseteq OpenInLog'
    BY <2>f, <2>1, <2>2, WorkingSteps, OpenFoldStep
  <2>4. ASSUME pc' \in Sending PROVE audit'.working = {}
    <3>1. audit.working = {}
      BY <2>f, <2>1, <2>4, NothingOpenWhenSizing, SendingSteps
         DEF Sending, StartSendAttempt, PlaceOrder
    <3> QED
      BY <2>f, <2>2, <2>4, <3>1, QuietWhileSending
  <2> QED
    BY <2>3, <2>4
<1> QED
  BY <1>1, <1>2

LEMMA FoldsAreOpenStep ==
  ASSUME SInv, IntentIsOpen, FoldsAreOpen, [ANext]_avars PROVE FoldsAreOpen'
BY LiveStep, CancelsStep, WorkingStep DEF FoldsAreOpen

(* Every change of the journal's sum books an execution it did not have.   *)
LEMMA BookingsGrow ==
  ASSUME SInv, [Next]_vars
  PROVE  /\ \A o \in Orders : booked[o] \subseteq booked'[o]
         /\ expected' # expected => \E o \in Orders : ~(booked'[o] \subseteq booked[o])
<1>f. booked \in [Orders -> SUBSET Nat]
  BY Facts
<1>1. ASSUME NEW o \in Orders, NEW k, k \notin booked[o], Book(o, k)
      PROVE  /\ \A c \in Orders : booked[c] \subseteq booked'[c]
             /\ ~(booked'[o] \subseteq booked[o])
  BY <1>f, <1>1 DEF Book
<1>2. CASE booked' = booked /\ expected' = expected
  BY <1>2
<1>3. CASE booked' # booked \/ expected' # expected
  <2>1. PICK o \in Orders : \E k \in Nat \cup (1..bfilled[o]) \cup (1..snap.filled[o]) :
                              k \notin booked[o] /\ Book(o, k)
    BY <1>3, BookingSteps DEF OnExecutionLate, OnExecutionPartial, OnExecutionFull,
       AdoptExecution
  <2> QED
    BY <1>1, <2>1
<1> QED
  BY <1>2, <1>3

LEMMA FoldsAreWholeStep ==
  ASSUME SInv, FoldsAreWhole, [ANext]_avars PROVE FoldsAreWhole'
<1>1. CASE UNCHANGED avars
  BY <1>1 DEF avars, vars, jrnVars, FoldsAreWhole
<1>2. CASE ~UNCHANGED avars
  <2>f. [Next]_vars /\ audit'.committed = FoldCommitted /\ audit'.execs = FoldExecs
    BY <1>2, AuditSteps
  <2>1. ASSUME NEW o \in Orders, jstate'[o] # "none" PROVE o \in audit'.committed
    <3>1. CASE jstate[o] # "none"
      BY <2>f, <3>1 DEF FoldCommitted, FoldsAreWhole
    <3>2. CASE jstate[o] = "none"
      <4>1. CommitIntent(o)
        BY <2>f, <2>1, <3>2, JournalMoves
      <4>2. CommitsIntent(o)
        BY <3>2, <4>1, NothingOpenWhenSizing, Facts DEF CommitsIntent
      <4> QED
        BY <2>f, <4>2 DEF FoldCommitted
    <3> QED
      BY <3>1, <3>2
  <2>2. ASSUME NEW o \in Orders PROVE audit'.execs[o] = booked'[o]
    BY <2>f, BookingsGrow DEF FoldExecs, FoldsAreWhole
  <2> QED
    BY <2>1, <2>2 DEF FoldsAreWhole
<1> QED
  BY <1>1, <1>2

LEMMA AuditInvInit == AInit => AuditInv
<1> SUFFICES ASSUME AInit PROVE AuditInv
  OBVIOUS
<1>1. /\ pc = "ready" /\ intent = None /\ link = "DISCONNECTED" /\ sync = "UNVERIFIED"
      /\ ~restored
      /\ jstate = [o \in Orders |-> "none"] /\ booked = [o \in Orders |-> {}]
  BY DEF AInit, Init
<1>2. /\ audit.live = {} /\ audit.cancels = {} /\ audit.working = {}
      /\ audit.execs = [o \in Orders |-> {}]
  BY DEF AInit
<1>3. IntentIsOpen /\ CommittedIsPermitted /\ StatesInLog
  BY <1>1 DEF IntentIsOpen, CommittedIsPermitted, StatesInLog
<1>4. FoldsAreOpen /\ FoldsAreWhole
  BY <1>1, <1>2 DEF FoldsAreOpen, FoldsAreWhole, Sending
<1> QED
  BY <1>3, <1>4 DEF AuditInv

LEMMA AuditInvStep == SInv /\ AuditInv /\ [ANext]_avars => AuditInv'
BY AuditSteps, IntentIsOpenStep, CommittedIsPermittedStep, StatesInLogStep, FoldsAreOpenStep,
   FoldsAreWholeStep DEF AuditInv

(* A send attempt the auditor passes.                                      *)
LEMMA SendPasses ==
  ASSUME SInv, HaltObeyed, AuditInv, [Next]_vars, NEW o \in Orders, SendStarts(o)
  PROVE  /\ PassesI2(o) /\ PassesI3(o) /\ PassesI5 /\ PassesI6
         /\ PassesI7(o) /\ PassesI8(o)
<1>1. jstate[o] = "intended" /\ jstate'[o] = "open"
  BY DEF SendStarts
<1>2. StartSendAttempt /\ o = intent /\ pc = "intent"
  BY <1>1, JournalMoves DEF StartSendAttempt
<1>3. /\ restored /\ mode # "HALTED" /\ sync = "SYNCED" /\ link = "CONNECTED"
      /\ IsClosing(order[o].tgt) \/ mode = "NORMAL"
      /\ mode = "FLATTEN_ONLY" => order[o].tgt = 0
  BY <1>2 DEF HaltObeyed, SInv, SendInProgress, Sending, AuditInv, CommittedIsPermitted
<1>4. audit.link = "CONNECTED" /\ audit.sync = "SYNCED" /\ audit.mode = mode
  BY <1>3 DEF AuditInv, StatesInLog
<1>5. audit.live = {} /\ audit.cancels = {} /\ o \in audit.committed
  BY <1>1, <1>2 DEF AuditInv, FoldsAreOpen, FoldsAreWhole, Sending
<1> QED
  BY <1>3, <1>4, <1>5 DEF PassesI2, PassesI3, PassesI5, PassesI6, PassesI7, PassesI8

(* The offline auditor finds nothing in any log the controller leaves: an  *)
(* event that its folds of the log would report is never written, whatever *)
(* crashed, was fenced or failed between the events it folds.              *)
THEOREM AuditedClean == ASpec => AuditFindsNothing
<1>1. ASpec => [](SInv /\ HaltObeyed)
  <2>1. AInit => Init
    BY DEF AInit
  <2>2. [ANext]_avars => [Next]_vars
    BY AuditSteps
  <2>3. ASpec => Spec
    BY <2>1, <2>2, PTL DEF ASpec, Spec
  <2>4. IInv => HaltObeyed
    BY DEF IInv
  <2> QED
    BY <2>3, <2>4, Core, InvariantHolds, PTL
<1>2. ASpec => []AuditInv
  BY <1>1, AuditInvInit, AuditInvStep, PTL DEF ASpec
<1>3. SInv /\ HaltObeyed /\ AuditInv /\ [ANext]_avars =>
        [\A o \in Orders :
           /\ SendStarts(o) =>
                /\ PassesI2(o) /\ PassesI3(o) /\ PassesI5 /\ PassesI6
                /\ PassesI7(o) /\ PassesI8(o)
           /\ CancelRequested(o) => PassesI6
           /\ CommitsIntent(o) => PassesI9(o)
           /\ expected' # expected => PassesI12]_avars
  <2> SUFFICES ASSUME SInv, HaltObeyed, AuditInv, [ANext]_avars, NEW o \in Orders
               PROVE  /\ SendStarts(o) =>
                           /\ PassesI2(o) /\ PassesI3(o) /\ PassesI5 /\ PassesI6
                           /\ PassesI7(o) /\ PassesI8(o)
                      /\ CancelRequested(o) => PassesI6
                      /\ CommitsIntent(o) => PassesI9(o)
                      /\ expected' # expected => PassesI12
    OBVIOUS
  <2>1. [Next]_vars
    BY AuditSteps
  <2>2. SendStarts(o) => /\ PassesI2(o) /\ PassesI3(o) /\ PassesI5 /\ PassesI6
                         /\ PassesI7(o) /\ PassesI8(o)
    BY <2>1, SendPasses
  <2>3. CancelRequested(o) => PassesI6
    BY <2>1, CancelSteps DEF AuditInv, StatesInLog, PassesI6
  <2>4. ASSUME CommitsIntent(o) PROVE PassesI9(o)
    <3>1. CommitIntent(o)
      BY <2>1, <2>4, JournalMoves DEF CommitsIntent
    <3> QED
      BY <3>1, NothingOpenWhenSizing DEF AuditInv, FoldsAreOpen, PassesI9
  <2>5. expected' # expected => PassesI12
    BY <2>1, BookingsGrow DEF AuditInv, FoldsAreWhole, PassesI12
  <2> QED
    BY <2>2, <2>3, <2>4, <2>5
<1> QED
  BY <1>1, <1>2, <1>3, PTL DEF ASpec, AuditFindsNothing
=============================================================================
