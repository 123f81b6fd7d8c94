----------------------------- MODULE EodInvariant -----------------------------
(* What has to be true of EndOfDay between any two steps, beside the        *)
(* invariant of the order lifecycle it runs around, for its properties to  *)
(* survive the next one.  Of that invariant only HaltObeyed does not carry *)
(* over: the loop's next leg takes a HALTED engine to FLATTEN_ONLY.        *)
EXTENDS EndOfDay, OrderInvariant

EodTypeOK ==
  /\ day \in Nat /\ lastBooked \in Nat /\ legsLeft \in Nat
  /\ flattening \in BOOLEAN /\ recorded \in BOOLEAN /\ terminal \in BOOLEAN
  /\ residual \in Int \cup {None}

(* What a process cannot have before it is restored, or without a journal.  *)
EodControl ==
  /\ ~up => ~restored
  /\ ~Running => pc = "ready"
  /\ ~journalOk => mode = "HALTED"
  /\ sync # "UNVERIFIED" => Running /\ restored
  /\ pc \in Sending \cup Adopting \/ intent # None => restored
  /\ foreign \in {"none"} \cup Faults

(* Where the handler is while the loop has legs left, and while it was      *)
(* called by _after_terminal.                                              *)
LoopPlaces ==
  /\ legsLeft > 0 => Running /\ pc \in {"ready", "evaluate"} \cup Sending
  /\ terminal => restored /\ pc \in {"evaluate"} \cup Sending

RecordedIsRestricted == recorded => up /\ mode \in {"FLATTEN_ONLY", "HALTED"}

(* The leg believes what the journal booked, except after a position        *)
(* mismatch: what its reconciliation adopted never reached the leg, and    *)
(* nothing but a restart takes the engine out of that HALT.                *)
BeliefTracks ==
  Running /\ restored /\ pc \notin Adopting =>
    \/ position = expected
    \/ mode = "HALTED" /\ legsLeft = 0 /\ "foreignPosition" \in Faults

CarryIsRestricted ==
  up /\ restored /\ expected # 0 /\ lastBooked < day => mode # "NORMAL"

Unfinished(o) == Alive(o) \/ Behind(o)

(* _after_terminal runs when the only order there was is done: until the    *)
(* evaluation it calls has sent another, the broker has nothing of ours.   *)
TerminalAtRest ==
  terminal =>
    \A o \in Orders : Unfinished(o) => o = intent /\ pc \in {"returned", "uncertain"}

(* After a completion in a restricted mode nothing is sent any more: there  *)
(* is no position to reduce, or the engine is halted.                      *)
CompletedIsOver ==
  recorded /\ residual = None =>
    /\ pc \notin Sending
    /\ \A o \in Orders : ~Unfinished(o)
    /\ expected = 0 \/ (restored /\ mode = "HALTED" /\ legsLeft = 0)

EodInv ==
  /\ EodTypeOK
  /\ EodControl
  /\ LoopPlaces
  /\ RecordedIsRestricted
  /\ BeliefTracks
  /\ CarryIsRestricted
  /\ TerminalAtRest
  /\ CompletedIsOver
=============================================================================
