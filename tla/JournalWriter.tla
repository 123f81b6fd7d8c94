---------------------------- MODULE JournalWriter ----------------------------
(***************************************************************************)
(* One handle of the journal: a FIFO of write requests, one writer thread  *)
(* that commits them, and a caller that waits for its request with a       *)
(* timeout.  Of the log itself only what a later boot reads is kept: is a  *)
(* HALT on disk.                                                           *)
(***************************************************************************)
EXTENDS Naturals, Sequences

CONSTANT JournalFaults  \* which of JournalFaultKinds may happen

JournalFaultKinds == {"error", "timeout", "writerDeath", "close"}

ASSUME JournalFaultsAssumption == JournalFaults \subseteq JournalFaultKinds

VARIABLES
  wq,          \* requests the writer has not taken: "event", "halt", "stop"
  writer,      \* "alive"; "drained": died, its thread not gone; "exited"
  failed,      \* _failed is set
  closed,      \* _closed
  call,        \* of the one caller: "idle", "waiting", "ok", "unavailable"
  onDisk       \* what is durable: "none", "event" or "halt" (a HALT)

jvars == <<wq, writer, failed, closed, call, onDisk>>

Requests == {"event", "halt"}

JournalInit ==
  /\ wq = <<>> /\ writer = "alive" /\ failed = FALSE /\ closed = FALSE
  /\ call = "idle" /\ onDisk = "none"

Landed(req, disk) == IF "halt" \in {req, disk} THEN "halt" ELSE req

(* _submit: refused at once, or given to the writer and waited for.         *)
Refuses == failed \/ closed \/ writer = "exited"

Submit(req) ==
  /\ call = "idle"
  /\ IF Refuses
     THEN /\ call' = "unavailable"
          /\ failed' = (failed \/ (~closed /\ writer = "exited"))
          /\ UNCHANGED wq
     ELSE /\ call' = "waiting"
          /\ wq' = Append(wq, req)
          /\ UNCHANGED failed
  /\ UNCHANGED <<writer, closed, onDisk>>

(* The writer answers the caller only if its request is the one it waits   *)
(* for: after a timeout nobody waits.                                      *)
Answer(reply) ==
  IF call = "waiting" /\ ~failed
  THEN call' = reply /\ failed' = (reply = "unavailable")
  ELSE UNCHANGED <<call, failed>>

WriterCommits ==
  /\ writer = "alive" /\ wq # <<>> /\ Head(wq) \in Requests
  /\ onDisk' = Landed(Head(wq), onDisk)
  /\ wq' = Tail(wq)
  /\ Answer("ok")
  /\ UNCHANGED <<writer, closed>>

(* The transaction fails; nothing of it is on disk.                         *)
WriterFails ==
  /\ "error" \in JournalFaults
  /\ writer = "alive" /\ wq # <<>> /\ Head(wq) \in Requests
  /\ wq' = Tail(wq)
  /\ Answer("unavailable")
  /\ UNCHANGED <<writer, closed, onDisk>>

(* The caller gives up; its request stays with the writer and may land.     *)
CallTimesOut ==
  /\ call = "waiting"
  /\ "timeout" \in JournalFaults \/ writer # "alive"
  /\ failed' = TRUE /\ call' = "unavailable"
  /\ UNCHANGED <<wq, writer, closed, onDisk>>

(* An exception outside of a request: every request of the queue is        *)
(* answered with it, and what is put afterwards waits for its timeout.     *)
WriterDies ==
  /\ "writerDeath" \in JournalFaults
  /\ writer = "alive"
  /\ writer' = "drained" /\ wq' = <<>>
  /\ failed' = TRUE
  /\ call' = IF call = "waiting" THEN "unavailable" ELSE call
  /\ UNCHANGED <<closed, onDisk>>

WriterExits ==
  /\ \/ writer = "drained" /\ UNCHANGED wq
     \/ writer = "alive" /\ wq # <<>> /\ Head(wq) = "stop" /\ wq' = Tail(wq)
  /\ writer' = "exited"
  /\ UNCHANGED <<failed, closed, call, onDisk>>

CloseJournal ==
  /\ "close" \in JournalFaults
  /\ ~closed
  /\ closed' = TRUE
  /\ wq' = IF writer = "alive" THEN Append(wq, "stop") ELSE wq
  /\ UNCHANGED <<writer, failed, call, onDisk>>

JournalNext ==
  \/ WriterCommits
  \/ WriterFails
  \/ CallTimesOut
  \/ WriterDies
  \/ WriterExits
  \/ CloseJournal

=============================================================================
