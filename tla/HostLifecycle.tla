---------------------------- MODULE HostLifecycle ----------------------------
(***************************************************************************)
(* What carries a decision to stop from one process to the next: the       *)
(* start-up gates of the execution host, the journal with its lock, the    *)
(* witness and the fatal fence on another volume, and the two operator     *)
(* tools.  Of the controller only the events the next boot depends on are  *)
(* kept: sends, HALTs and fatal faults.                                    *)
(***************************************************************************)
EXTENDS Naturals, Sequences, FiniteSets

CONSTANTS
  Procs,      \* execution hosts somebody may start
  MaxEvents,  \* bound on the events ever committed
  Faults,     \* which of FaultKinds may happen
  None

FaultKinds == {"crash", "powerLoss", "journal", "witness", "fence", "halt"}

ASSUME HostAssumption ==
  /\ MaxEvents \in Nat /\ Faults \subseteq FaultKinds
  /\ None \notin Procs /\ "tool" \notin Procs
  /\ None \notin Nat
  /\ None \notin [seq : Nat, event : [what : {"restored", "send", "halt", "ack"},
                                     of : Nat \cup {None}, id : Nat]]

VARIABLES
  log,       \* the journal: events by seq
  stamp,     \* events ever committed: what tells two events of one seq apart
  witness,   \* None, or the seq and the event last vouched for
  fence,     \* "none", "raised", "acknowledged"
  lock,      \* who owns the journal: a host, "tool", or None
  pc,        \* of each host
  mode,      \* of each host's controller
  fatal,     \* of each host: fatal_shutdown_requested
  ackSeq,    \* the HALT ack_halt shows its operator, or None
  placed,    \* history: sends that reached the broker
  owed       \* history: HALTs that no operator has acknowledged, by their
             \* event; 0 is a cause to stop that only the fence knows

durables == <<log, stamp, witness, fence>>
hosts == <<pc, mode, fatal>>
history == <<placed, owed>>
vars == <<durables, lock, hosts, ackSeq, history>>

PCs == {"off", "unfenced", "owner", "verified", "running", "sent", "witnessed", "halting"}

Event(what, of) == [what |-> what, of |-> of, id |-> stamp + 1]

Init ==
  /\ log = <<>> /\ stamp = 0 /\ witness = None /\ fence = "none" /\ lock = None
  /\ pc = [p \in Procs |-> "off"] /\ mode = [p \in Procs |-> "NORMAL"]
  /\ fatal = [p \in Procs |-> FALSE]
  /\ ackSeq = None
  /\ placed = {} /\ owed = {}

Commit(what, of) ==
  /\ stamp < MaxEvents
  /\ log' = Append(log, Event(what, of))
  /\ stamp' = stamp + 1

(* The fold of _active_halt_seq: the latest HALT cause without an          *)
(* acknowledgement of its own seq.                                         *)
IsHalt(s) == log[s].what = "halt"
AckedIn(s) == \E t \in s + 1..Len(log) : log[t].what = "ack" /\ log[t].of = s
ActiveHalt ==
  IF \E s \in DOMAIN log : IsHalt(s) /\ (\A t \in s + 1..Len(log) : ~IsHalt(t)) /\ ~AckedIn(s)
  THEN CHOOSE s \in DOMAIN log : IsHalt(s) /\ \A t \in s + 1..Len(log) : ~IsHalt(t)
  ELSE None

(* An existing fence is never overwritten, acknowledged or not.            *)
Raised == IF fence = "none" THEN "raised" ELSE fence

(* The fence is written and its cause is owed an acknowledgement, or it     *)
(* cannot be written and only an alert says so.  A cause that meets an     *)
(* acknowledged fence is recorded nowhere and is not counted as owed.       *)
RaiseFence ==
  \/ /\ fence' = Raised
     /\ owed' = IF fence = "acknowledged" THEN owed ELSE owed \cup {0}
  \/ "fence" \in Faults /\ UNCHANGED <<fence, owed>>

Goes(p, to) == pc' = [pc EXCEPT ![p] = to]

(* The process is gone, and the kernel releases its lock with it.          *)
Gone(p) ==
  /\ Goes(p, "off")
  /\ lock' = IF lock = p THEN None ELSE lock
  /\ mode' = [mode EXCEPT ![p] = "NORMAL"] /\ fatal' = [fatal EXCEPT ![p] = FALSE]

-----------------------------------------------------------------------------
(* The gates of start(), in their order.                                   *)

FenceClear == fence = "none"

GateFence(p) ==
  /\ pc[p] = "off"
  /\ FenceClear
  /\ Goes(p, "unfenced")
  /\ UNCHANGED <<durables, lock, mode, fatal, ackSeq, history>>

GateOwnership(p) ==
  /\ pc[p] = "unfenced"
  /\ IF lock = None THEN lock' = p /\ Goes(p, "owner")
                    ELSE Goes(p, "off") /\ UNCHANGED lock
  /\ UNCHANGED <<durables, mode, fatal, ackSeq, history>>

VouchedIfFound == \* mutant: a missing event passes
  witness # None /\ witness.seq <= Len(log) => log[witness.seq] = witness.event

(* verify: the event vouched for is still there and still the same.        *)
Vouched ==
  witness # None => witness.seq <= Len(log) /\ log[witness.seq] = witness.event

GateWitness(p) ==
  /\ pc[p] = "owner"
  /\ Vouched
  /\ Goes(p, "verified")
  /\ UNCHANGED <<durables, lock, mode, fatal, ackSeq, history>>

GateWitnessRefuses(p) ==
  /\ pc[p] = "owner"
  /\ ~Vouched
  /\ RaiseFence
  /\ Gone(p)
  /\ UNCHANGED <<log, stamp, witness, ackSeq, placed>>

(* The broker is constructed, then the controller restores the mode.       *)
Connect(p) ==
  /\ pc[p] = "verified"
  /\ mode' = [mode EXCEPT ![p] = IF ActiveHalt = None THEN "NORMAL" ELSE "HALTED"]
  /\ Commit("restored", 0)
  /\ Goes(p, "running")
  /\ UNCHANGED <<witness, fence, lock, fatal, ackSeq, history>>

ConnectFails(p) ==
  /\ pc[p] = "verified"
  /\ Gone(p)
  /\ UNCHANGED <<durables, ackSeq, history>>

-----------------------------------------------------------------------------
(* The engine.                                                             *)

(* SEND_ATTEMPT_STARTED, then the witness, then place_order.                *)
SendCommitted(p) ==
  /\ pc[p] = "running" /\ mode[p] = "NORMAL" /\ ~fatal[p]
  /\ Commit("send", 0)
  /\ Goes(p, "sent")
  /\ UNCHANGED <<witness, fence, lock, mode, fatal, ackSeq, history>>

Vouch == witness' = [seq |-> Len(log), event |-> log[Len(log)]]

SendWitnessed(p) ==
  /\ pc[p] = "sent"
  /\ Vouch
  /\ Goes(p, "witnessed")
  /\ UNCHANGED <<log, stamp, fence, lock, mode, fatal, ackSeq, history>>

PlaceOrder(p) ==
  /\ pc[p] = "witnessed"
  /\ placed' = placed \cup {log[Len(log)]}
  /\ Goes(p, "running")
  /\ UNCHANGED <<durables, lock, mode, fatal, ackSeq, owed>>

(* _fail_closed_runtime.                                                   *)
FailClosed(p) ==
  /\ fatal' = [fatal EXCEPT ![p] = TRUE] /\ mode' = [mode EXCEPT ![p] = "HALTED"]
  /\ RaiseFence

SendNotWitnessed(p) ==
  /\ "witness" \in Faults
  /\ pc[p] = "sent"
  /\ FailClosed(p)
  /\ Goes(p, "running")
  /\ UNCHANGED <<log, stamp, witness, lock, ackSeq, placed>>

(* A commit is refused or times out; in the second case it may still land. *)
JournalFails(p) ==
  /\ "journal" \in Faults
  /\ pc[p] = "running" /\ ~fatal[p]
  /\ \/ \E what \in {"send", "halt"} : Commit(what, 0)
     \/ UNCHANGED <<log, stamp>>
  /\ FailClosed(p)
  /\ UNCHANGED <<witness, lock, pc, ackSeq, placed>>

(* halt(): OPERATING_MODE_CHANGED, or HALT_CAUSE_ADDED when halted already; *)
(* the journal may still take it in the time a fatal engine is left.       *)
HaltCommitted(p) ==
  /\ "halt" \in Faults
  /\ pc[p] = "running"
  /\ mode' = [mode EXCEPT ![p] = "HALTED"]
  /\ Commit("halt", 0)
  /\ Goes(p, "halting")
  /\ UNCHANGED <<witness, fence, lock, fatal, ackSeq, history>>

KeepWitness == UNCHANGED witness \* mutant: only broker writes are witnessed
VouchForHalt == Vouch

HaltWitnessed(p) ==
  /\ pc[p] = "halting"
  /\ VouchForHalt
  /\ owed' = owed \cup {log[Len(log)].id}
  /\ Goes(p, "running")
  /\ UNCHANGED <<log, stamp, fence, lock, mode, fatal, ackSeq, placed>>

(* The HALT stays; the fence stands in for the witness.                    *)
HaltNotWitnessed(p) ==
  /\ "witness" \in Faults
  /\ pc[p] = "halting"
  /\ RaiseFence
  /\ Goes(p, "running")
  /\ UNCHANGED <<log, stamp, witness, lock, mode, fatal, ackSeq, placed>>

(* run_once sees the fatal flag, or a stop was asked for; main() returns.   *)
Exit(p) ==
  /\ pc[p] = "running"
  /\ Gone(p)
  /\ UNCHANGED <<durables, ackSeq, history>>

(* Phase two, for a host that has reconciled.                              *)
RetireFence(p) ==
  /\ pc[p] = "running" /\ ~fatal[p]
  /\ fence = "acknowledged"
  /\ fence' = "none"
  /\ UNCHANGED <<log, stamp, witness, lock, hosts, ackSeq, history>>

-----------------------------------------------------------------------------
(* Crashes and the operator's tools.                                       *)

Crash(p) ==
  /\ "crash" \in Faults
  /\ pc[p] # "off"
  /\ Gone(p)
  /\ UNCHANGED <<durables, ackSeq, history>>

(* Every process dies, and WAL recovery may find fewer events.             *)
PowerLoss ==
  /\ "powerLoss" \in Faults
  /\ \E n \in 0..Len(log) : log' = SubSeq(log, 1, n)
  /\ pc' = [p \in Procs |-> "off"] /\ mode' = [p \in Procs |-> "NORMAL"]
  /\ fatal' = [p \in Procs |-> FALSE]
  /\ lock' = None /\ ackSeq' = None
  /\ UNCHANGED <<stamp, witness, fence, history>>

(* ack_halt owns the journal while its operator reads.                     *)
AckHaltShows ==
  /\ lock = None /\ ActiveHalt # None
  /\ lock' = "tool" /\ ackSeq' = ActiveHalt
  /\ UNCHANGED <<durables, hosts, history>>

AckHaltWrites ==
  /\ lock = "tool" /\ ackSeq = ActiveHalt
  /\ Commit("ack", ackSeq)
  /\ owed' = owed \ {log[s].id : s \in DOMAIN log}
  /\ lock' = None /\ ackSeq' = None
  /\ UNCHANGED <<witness, fence, hosts, placed>>

AckHaltLeaves ==
  /\ lock = "tool"
  /\ lock' = None /\ ackSeq' = None
  /\ UNCHANGED <<durables, hosts, history>>

(* Phase one: the operator acknowledges the fence as it stands.            *)
AckFence ==
  /\ fence = "raised"
  /\ fence' = "acknowledged"
  /\ owed' = owed \ {0}
  /\ UNCHANGED <<log, stamp, witness, lock, hosts, ackSeq, placed>>

-----------------------------------------------------------------------------
GatesNext(p) ==
  GateFence(p) \/ GateOwnership(p) \/ GateWitness(p) \/ GateWitnessRefuses(p)
    \/ Connect(p) \/ ConnectFails(p)
EngineNext(p) ==
  SendCommitted(p) \/ SendWitnessed(p) \/ PlaceOrder(p) \/ SendNotWitnessed(p)
    \/ JournalFails(p) \/ HaltCommitted(p) \/ HaltWitnessed(p) \/ HaltNotWitnessed(p)
    \/ RetireFence(p) \/ Exit(p)
OperatorNext == AckHaltShows \/ AckHaltWrites \/ AckHaltLeaves \/ AckFence

Next ==
  \/ \E p \in Procs : GatesNext(p) \/ EngineNext(p) \/ Crash(p)
  \/ PowerLoss
  \/ OperatorNext

Spec == Init /\ [][Next]_vars

(* A host that is started passes its gates or is refused, and a fence that  *)
(* may be retired is.                                                      *)
FairSpec ==
  Spec /\ \A p \in Procs :
            /\ WF_vars(GateFence(p)) /\ WF_vars(GateOwnership(p))
            /\ WF_vars(GateWitness(p) \/ GateWitnessRefuses(p)) /\ SF_vars(Connect(p))
            /\ SF_vars(RetireFence(p))

-----------------------------------------------------------------------------
(* Properties.                                                             *)

HasBroker(p) == pc[p] \in {"running", "sent", "witnessed", "halting"}

(* SPEC invariant 2 across storage faults: an engine with a broker has in   *)
(* its journal the attempt behind every order ever placed, whatever tail   *)
(* of the journal a power loss took in between.                            *)
SendsAreRemembered ==
  \A p \in Procs : HasBroker(p) => placed \subseteq {log[s] : s \in DOMAIN log}

(* SPEC invariant 22, and where it does not reach: an engine that may send  *)
(* owes nobody an acknowledgement, neither of a HALT nor of a fatal fault, *)
(* over crashes, lost tails and stale acknowledgements.                    *)
NothingIsLaundered ==
  \A p \in Procs : HasBroker(p) /\ mode[p] = "NORMAL" => owed = {}
=============================================================================
