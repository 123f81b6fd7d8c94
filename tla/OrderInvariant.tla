--------------------------- MODULE OrderInvariant ---------------------------
(* The inductive invariant of OrderLifecycle: what has to be true between  *)
(* any two durable writes for its safety properties to survive the next.   *)
EXTENDS OrderLifecycle

Sending == {"intent", "attempt", "returned", "uncertain", "refused"}
Adopting == {"adopt", "readopt"}

\* A fill of o that the journal does not have.
Behind(o) == \E k \in 1..bfilled[o] : k \notin booked[o]
Unbooked(o) == bfilled[o] - Cardinality(booked[o])

(* A live intent is below the end of the ladder: why attempt + 1 is still  *)
(* on it.                                                                  *)
OnLadder ==
  /\ intent # None => attempt < MaxAttempts
  /\ \A o \in Orders : order[o].att < MaxAttempts

(* A handler that is sending, and a leg that is past IDLE and not in doubt, *)
(* has an order in hand; an idle leg has none, and nothing working.        *)
OrderInHand ==
  /\ pc \in Sending \/ ostate \notin {"IDLE"} \cup Untrustworthy => intent \in Orders
  /\ ostate = "IDLE" => intent = None /\ working = 0
  /\ pc \in Sending => ostate # "IDLE" /\ working = 0

(* A handler that is sending holds a trusted account and works on its own  *)
(* order, of which the broker has heard nothing before the call.           *)
SendInProgress ==
  pc \in Sending =>
    /\ sync = "SYNCED"
    /\ pc = "intent" => jstate[intent] = "intended" /\ ostate = "INTENT_COMMITTED"
    /\ pc # "intent" => jstate[intent] = "open" /\ ostate = "PENDING_ACK"
    /\ pc \in {"intent", "attempt", "refused"} => bstate[intent] = "none"

(* The broker has no order without a durable send attempt, and no fill of  *)
(* an order it did not accept.                                             *)
DurableOf(o) ==
  /\ jstate[o] \in {"none", "intended"} => bstate[o] = "none"
  /\ jstate[o] # "none" => order[o].qty # 0
  /\ bfilled[o] # 0 => bstate[o] \in {"live", "filled", "cancelled"}
  /\ bstate[o] = "live" => bfilled[o] < Shares(o)
  /\ bstate[o] # "none" => bfilled[o] <= Shares(o)
DurableBeforeSend == \A o \in Orders : DurableOf(o)

(* Nothing is booked that the broker did not execute.                      *)
BookedIsReal == \A o \in Orders : booked[o] \subseteq 1..bfilled[o]

(* A terminal callback on its way tells the truth, however old it is.      *)
CallbacksAreTrue ==
  \A m \in net :
    /\ m.kind = "cancelled" => bstate[m.order] = "cancelled"
    /\ m.kind = "rejected" => bstate[m.order] = "rejected"

(* While a reconcile works on its snapshot the broker can only have gone   *)
(* on filling or ended the orders the snapshot shows open.                 *)
SnapshotCovers ==
  pc \in Adopting =>
    /\ sync = "SYNCING"
    /\ \A o \in Orders :
         /\ Alive(o) => o \in snap.open
         /\ o \in snap.open => jstate[o] = "open"
         /\ snap.filled[o] <= bfilled[o]
         /\ o \notin snap.open => snap.filled[o] = bfilled[o]
         /\ booked[o] \subseteq 1..snap.filled[o]

(* SYNCED: every unterminated intent, and every fill not booked yet,       *)
(* belongs to the leg's one order, and no state of doubt is left.          *)
SyncedOwnsTheOpen ==
  sync = "SYNCED" =>
    /\ ostate \notin Untrustworthy
    /\ \A o \in Orders :
         /\ jstate[o] = "open" =>
              intent = o /\ ostate \in {"PENDING_ACK", "WORKING", "PENDING_CANCEL"}
         /\ Behind(o) => jstate[o] = "open"

(* Only one order at a time can have fills the journal does not know, and  *)
(* they are the whole difference between the account and the journal.      *)
OneOrderBehind ==
  /\ \A a, b \in Orders : Behind(a) /\ (Behind(b) \/ Alive(b)) => a = b
  /\ (\A o \in Orders : ~Behind(o)) => bposition = expected
  /\ \A o \in Orders : Behind(o) => bposition = expected + Signed(o, Unbooked(o))

(* The leg's belief is the journal's once trusted.                         *)
BeliefIsJournal == sync = "SYNCED" => position = expected

(* The exposure of the order being sent, before the broker has it.         *)
SendBounded ==
  pc \in {"intent", "attempt"} => Abs(bposition + order[intent].qty) <= MaxPos

(* What is being sent outside NORMAL brings the account nearer to flat.    *)
SendReduces ==
  pc \in {"intent", "attempt"} /\ mode # "NORMAL" =>
    /\ Abs(bposition + order[intent].qty) < Abs(bposition)
    /\ (bposition + order[intent].qty) * bposition >= 0

(* A fill of o that the snapshot shows and the journal does not have.      *)
SnapBehind(o) == \E k \in 1..snap.filled[o] : k \notin booked[o]

(* Without a position of somebody else's in the account, what adoption has *)
(* still to book is the whole difference between the snapshot's position   *)
(* and the journal's.                                                      *)
SnapshotExplained ==
  /\ ~up => pc = "ready"
  /\ pc \in Adopting /\ foreign # "foreignPosition" =>
       \/ snap.pos = expected /\ \A o \in Orders : ~SnapBehind(o)
       \/ \E o \in Orders :
            /\ SnapBehind(o)
            /\ \A c \in Orders : SnapBehind(c) => c = o
            /\ snap.pos = expected + Signed(o, snap.filled[o] - Cardinality(booked[o]))

(* A restored process obeys the HALT in its log; a handler that is sending *)
(* does not run under one.                                                 *)
HaltObeyed ==
  /\ restored /\ haltActive => mode = "HALTED"
  /\ sync # "UNVERIFIED" => restored
  /\ pc \in Sending \cup Adopting => restored
  /\ pc \in Sending => mode # "HALTED"

IInv ==
  /\ TypeOK
  /\ OnLadder
  /\ OrderInHand
  /\ SendInProgress
  /\ DurableBeforeSend
  /\ BookedIsReal
  /\ CallbacksAreTrue
  /\ LiveOrdersAreOpen
  /\ OneUnterminatedIntent
  /\ SnapshotCovers
  /\ SyncedOwnsTheOpen
  /\ OneOrderBehind
  /\ BeliefIsJournal
  /\ SendBounded
  /\ SendReduces
  /\ SnapshotExplained
  /\ HaltObeyed
  /\ ExposureBounded
=============================================================================
