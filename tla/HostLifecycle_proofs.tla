-------------------------- MODULE HostLifecycle_proofs --------------------------
(***************************************************************************)
(* What the witness and the gates are worth, proved for any number of      *)
(* hosts, events and faults; and for one host, that nothing an operator    *)
(* has to acknowledge is ever lost.                                        *)
(***************************************************************************)
EXTENDS HostLifecycle, TLAPS, WellFoundedInduction

-----------------------------------------------------------------------------
(* The inductive invariant.                                                *)

Whats == {"restored", "send", "halt", "ack"}
Events == [what : Whats, of : Nat \cup {None}, id : Nat]
Modes == {"NORMAL", "HALTED"}

TypeInv ==
  /\ log \in Seq(Events) /\ stamp \in Nat
  /\ witness = None \/ witness \in [seq : Nat, event : Events]
  /\ pc \in [Procs -> PCs] /\ mode \in [Procs -> Modes]
  /\ ackSeq \in Nat \cup {None}
  /\ placed \subseteq Events /\ owed \subseteq Nat

(* No event has a stamp that is still to be given.                         *)
StampInv ==
  /\ \A s \in 1..Len(log) : log[s].id <= stamp /\ log[s].id # 0
  /\ witness # None => witness.seq # 0 /\ witness.event.id <= stamp

(* Past the ownership gate a host holds the lock.                          *)
LockInv == \A p \in Procs : pc[p] \notin {"off", "unfenced"} => lock = p

(* Past the witness gate the log still has what the witness vouches for.   *)
Admitted == {"verified", "running", "sent", "witnessed", "halting"}
VouchedInv == \A p \in Procs : pc[p] \in Admitted => Vouched

(* What a host is about to vouch for, or has just vouched for, is last.    *)
TailInv ==
  \A p \in Procs :
    /\ pc[p] \in {"sent", "witnessed", "halting"} => Len(log) # 0
    /\ pc[p] = "halting" => IsHalt(Len(log)) /\ mode[p] = "HALTED"
    /\ pc[p] = "witnessed" => witness # None /\ witness.seq = Len(log)

(* A log that still has the event vouched for has everything before it:    *)
(* every order placed, and every HALT owed, with no acknowledgement since. *)
Remembered(h) ==
  \E s \in 1..witness.seq :
    log[s].id = h /\ IsHalt(s) /\ \A t \in s + 1..Len(log) : log[t].what # "ack"
MemoryInv ==
  /\ witness = None => placed = {} /\ owed \subseteq {0}
  /\ witness # None /\ Vouched =>
       /\ \A e \in placed : \E s \in 1..witness.seq : log[s] = e
       /\ \A h \in owed \ {0} : Remembered(h)

(* A fault that only the fence knows keeps it raised; a HALT owed keeps    *)
(* every engine from NORMAL.                                               *)
FenceInv ==
  fence \in {"none", "raised", "acknowledged"} /\ (0 \in owed => fence = "raised")
HaltInv == \A p \in Procs : HasBroker(p) /\ mode[p] = "NORMAL" => owed \subseteq {0}

HostInv ==
  /\ TypeInv /\ StampInv /\ LockInv /\ VouchedInv /\ TailInv /\ MemoryInv
  /\ FenceInv /\ HaltInv

(* With one host alone, a host past the fence gate that is not HALTED, or  *)
(* is still to restore its mode, owes no fault either.                     *)
AloneInv ==
  \A p \in Procs : pc[p] # "off" /\ (mode[p] = "NORMAL" \/ ~HasBroker(p)) => 0 \notin owed

-----------------------------------------------------------------------------
(* The log.                                                                *)

LEMMA NoneApart ==
  /\ None \notin Nat /\ None \notin Procs /\ "tool" \notin Procs
  /\ None \notin [seq : Nat, event : Events]
BY HostAssumption DEF Events, Whats

LEMMA LogTyped ==
  ASSUME TypeInv
  PROVE  /\ Len(log) \in Nat /\ \A s \in 1..Len(log) : log[s] \in Events
         /\ \A s \in 1..Len(log) : log[s].id \in Nat
<1>1. Len(log) \in Nat /\ \A s \in 1..Len(log) : log[s] \in Events
  BY DEF TypeInv
<1> QED
  BY <1>1 DEF Events

LEMMA ActiveHaltIsSeq == ASSUME TypeInv PROVE ActiveHalt \in Nat \cup {None}
<1> DEFINE Last(s) == IsHalt(s) /\ \A t \in s + 1..Len(log) : ~IsHalt(t)
           latest == CHOOSE s \in DOMAIN log : Last(s)
<1>1. ASSUME NEW s \in DOMAIN log, Last(s) PROVE latest \in DOMAIN log
  BY <1>1
<1>2. (ActiveHalt = latest /\ \E s \in DOMAIN log : Last(s)) \/ ActiveHalt = None
  BY DEF ActiveHalt
<1>3. DOMAIN log \subseteq Nat
  BY DEF TypeInv
<1> HIDE DEF latest, Last
<1> QED
  BY <1>1, <1>2, <1>3

(* A commit adds one event, with a stamp nothing has had.                  *)
LEMMA CommitLog ==
  ASSUME TypeInv, NEW what \in Whats, NEW of \in Nat \cup {None}, Commit(what, of)
  PROVE  /\ log' \in Seq(Events) /\ stamp' \in Nat /\ stamp' = stamp + 1
         /\ Len(log) \in Nat /\ Len(log') = Len(log) + 1
         /\ \A s \in 1..Len(log) : log'[s] = log[s]
         /\ log'[Len(log')] = Event(what, of)
<1>1. Event(what, of) \in Events
  BY DEF Event, Events, TypeInv
<1>2. log \in Seq(Events) /\ log' = Append(log, Event(what, of)) /\ stamp' = stamp + 1
  BY DEF TypeInv, Commit
<1>3. stamp \in Nat
  BY DEF TypeInv
<1> HIDE DEF Event
<1> QED
  BY <1>1, <1>2, <1>3

LEMMA CommitStamp ==
  ASSUME TypeInv, StampInv, NEW what \in Whats, NEW of \in Nat \cup {None},
         Commit(what, of), witness' = witness
  PROVE  StampInv'
<1>0. /\ stamp' \in Nat /\ stamp' = stamp + 1 /\ stamp \in Nat
      /\ Len(log) \in Nat /\ Len(log') = Len(log) + 1
      /\ \A s \in 1..Len(log) : log'[s] = log[s]
      /\ log'[Len(log')] = Event(what, of)
  BY CommitLog DEF TypeInv
<1>1. \A s \in 1..Len(log') : log'[s].id <= stamp' /\ log'[s].id # 0
  <2> TAKE s \in 1..Len(log')
  <2>1. CASE s = Len(log')
    BY <2>1, <1>0 DEF Event, TypeInv
  <2>2. CASE s # Len(log')
    <3>1. s \in 1..Len(log) /\ log'[s] = log[s]
      BY <2>2, <1>0
    <3>2. log[s] \in Events
      BY <3>1 DEF TypeInv
    <3>3. log[s].id \in Nat
      BY <3>2 DEF Events
    <3> QED
      BY <3>1, <3>3, <1>0 DEF StampInv
  <2> QED
    BY <2>1, <2>2
<1>2. witness # None => witness.event.id \in Nat
  BY DEF TypeInv, Events
<1>3. witness' # None => witness'.seq # 0 /\ witness'.event.id <= stamp'
  BY <1>2, <1>0 DEF StampInv, TypeInv
<1> QED
  BY <1>1, <1>3 DEF StampInv

(* It neither takes away nor restores what the witness vouches for.        *)
LEMMA CommitVouched ==
  ASSUME TypeInv, StampInv, NEW what \in Whats, NEW of \in Nat \cup {None},
         Commit(what, of), witness' = witness
  PROVE  Vouched' <=> Vouched
<1>0. /\ stamp' \in Nat /\ stamp' = stamp + 1 /\ stamp \in Nat
      /\ Len(log) \in Nat /\ Len(log') = Len(log) + 1
      /\ \A s \in 1..Len(log) : log'[s] = log[s]
      /\ log'[Len(log')] = Event(what, of)
  BY CommitLog DEF TypeInv
<1>1. CASE witness = None
  BY <1>1 DEF Vouched
<1>2. CASE witness # None
  <2>1. witness.seq \in Nat /\ witness.seq # 0 /\ witness.event.id \in Nat
        /\ witness.event.id <= stamp /\ stamp \in Nat
    BY <1>2 DEF TypeInv, StampInv, Events
  <2>2. log'[Len(log')].id = stamp + 1
    BY <1>0 DEF Event
  <2>3. log'[Len(log')] # witness.event
    BY <2>1, <2>2
  <2>4. CASE witness.seq <= Len(log)
    <3>1. witness.seq \in 1..Len(log) /\ log'[witness.seq] = log[witness.seq]
      BY <2>1, <2>4, <1>0
    <3> QED
      BY <3>1, <2>4, <1>0 DEF Vouched
  <2>5. CASE ~(witness.seq <= Len(log))
    <3>1. witness.seq <= Len(log') => witness.seq = Len(log')
      BY <2>1, <2>5, <1>0
    <3> QED
      BY <3>1, <2>3, <2>5, <1>2 DEF Vouched
  <2> QED
    BY <2>4, <2>5
<1> QED
  BY <1>1, <1>2

LEMMA CommitMemory ==
  ASSUME TypeInv, StampInv, MemoryInv, NEW what \in Whats \ {"ack"},
         NEW of \in Nat \cup {None}, Commit(what, of),
         UNCHANGED <<witness, placed>>, owed' \subseteq owed \cup {0}
  PROVE  MemoryInv'
<1>0. /\ stamp' \in Nat /\ stamp' = stamp + 1 /\ stamp \in Nat
      /\ Len(log) \in Nat /\ Len(log') = Len(log) + 1
      /\ \A s \in 1..Len(log) : log'[s] = log[s]
      /\ log'[Len(log')] = Event(what, of)
  BY CommitLog DEF TypeInv
<1>1. witness' = None => placed' = {} /\ owed' \subseteq {0}
  BY DEF MemoryInv
<1>2. ASSUME witness' # None, Vouched'
      PROVE  /\ \A e \in placed' : \E s \in 1..witness'.seq : log'[s] = e
             /\ \A h \in owed' \ {0} : Remembered(h)'
  <2>1. Vouched /\ witness # None /\ witness' = witness
    BY <1>2, CommitVouched
  <2>2. witness.seq \in Nat /\ witness.seq <= Len(log)
    BY <2>1 DEF Vouched, TypeInv
  <2>3. \A s \in 1..witness.seq : s \in 1..Len(log) /\ log'[s] = log[s]
    BY <2>2, <1>0
  <2>4. \A e \in placed : \E s \in 1..witness.seq : log'[s] = e
    BY <2>1, <2>3 DEF MemoryInv
  <2>5. ASSUME NEW h \in owed' \ {0} PROVE Remembered(h)'
    <3>1. Remembered(h)
      BY <2>1, <2>5 DEF MemoryInv
    <3>2. PICK s \in 1..witness.seq :
            log[s].id = h /\ log[s].what = "halt"
              /\ \A t \in s + 1..Len(log) : log[t].what # "ack"
      BY <3>1 DEF Remembered, IsHalt
    <3>3. log'[Len(log')].what # "ack"
      BY <1>0 DEF Event, Whats
    <3>4. ASSUME NEW t \in s + 1..Len(log') PROVE log'[t].what # "ack"
      <4>1. CASE t = Len(log')
        BY <4>1, <3>3
      <4>2. CASE t # Len(log')
        <5>1. t \in s + 1..Len(log) /\ t \in 1..Len(log)
          BY <4>2, <2>2, <1>0
        <5> QED
          BY <5>1, <3>2, <1>0
      <4> QED
        BY <4>1, <4>2
    <3>5. log'[s].id = h /\ log'[s].what = "halt"
      BY <3>2, <2>3
    <3> QED
      BY <3>4, <3>5, <2>1 DEF Remembered, IsHalt
  <2> QED
    BY <2>1, <2>4, <2>5
<1> QED
  BY <1>1, <1>2 DEF MemoryInv

LEMMA SameLogMemory ==
  ASSUME MemoryInv, UNCHANGED <<log, witness, placed>>, owed' \subseteq owed \cup {0}
  PROVE  MemoryInv'
BY DEF MemoryInv, Vouched, Remembered, IsHalt

-----------------------------------------------------------------------------
(* What a step does to the log, the witness and the two histories.         *)

Quiet == UNCHANGED <<log, stamp, witness, placed>> /\ owed' \subseteq owed \cup {0}
Commits ==
  /\ \E what \in Whats \ {"ack"} : Commit(what, 0)
  /\ UNCHANGED <<witness, placed>> /\ owed' \subseteq owed \cup {0}
Vouches ==
  \E p \in Procs :
    /\ pc[p] \in {"sent", "halting"} /\ Vouch
    /\ UNCHANGED <<log, stamp, placed>>
    /\ owed' = owed \/ (pc[p] = "halting" /\ owed' = owed \cup {log[Len(log)].id})
Places ==
  /\ \E p \in Procs : pc[p] = "witnessed"
  /\ placed' = placed \cup {log[Len(log)]}
  /\ UNCHANGED <<log, stamp, witness, owed>>

LEMMA Raises == ASSUME RaiseFence PROVE owed' \subseteq owed \cup {0}
BY DEF RaiseFence

LEMMA Classified ==
  ASSUME [Next]_vars
  PROVE  Quiet \/ Commits \/ Vouches \/ Places \/ AckHaltWrites \/ PowerLoss
<1> USE DEF durables, hosts, history
<1>1. CASE UNCHANGED vars
  BY <1>1 DEF vars, Quiet
<1>2. ASSUME NEW p \in Procs, GatesNext(p) PROVE Quiet \/ Commits
  <2>1. CASE GateFence(p) \/ GateOwnership(p) \/ GateWitness(p) \/ ConnectFails(p)
    BY <2>1 DEF GateFence, GateOwnership, GateWitness, ConnectFails, Quiet
  <2>2. CASE GateWitnessRefuses(p)
    BY <2>2, Raises DEF GateWitnessRefuses, Quiet
  <2>3. CASE Connect(p)
    BY <2>3 DEF Connect, Commits, Whats
  <2> QED
    BY <1>2, <2>1, <2>2, <2>3 DEF GatesNext
<1>3. ASSUME NEW p \in Procs, EngineNext(p) PROVE Quiet \/ Commits \/ Vouches \/ Places
  <2>1. CASE SendCommitted(p)
    BY <2>1 DEF SendCommitted, Commits, Whats
  <2>2. CASE SendWitnessed(p)
    BY <2>2 DEF SendWitnessed, Vouches
  <2>3. CASE PlaceOrder(p)
    BY <2>3 DEF PlaceOrder, Places
  <2>4. CASE SendNotWitnessed(p)
    BY <2>4, Raises DEF SendNotWitnessed, FailClosed, Quiet
  <2>5. CASE JournalFails(p)
    BY <2>5, Raises DEF JournalFails, FailClosed, Quiet, Commits, Whats
  <2>6. CASE HaltCommitted(p)
    BY <2>6 DEF HaltCommitted, Commits, Whats
  <2>7. CASE HaltWitnessed(p)
    BY <2>7 DEF HaltWitnessed, VouchForHalt, Vouches
  <2>8. CASE HaltNotWitnessed(p)
    BY <2>8, Raises DEF HaltNotWitnessed, Quiet
  <2>9. CASE RetireFence(p) \/ Exit(p)
    BY <2>9 DEF RetireFence, Exit, Quiet
  <2> QED
    BY <1>3, <2>1, <2>2, <2>3, <2>4, <2>5, <2>6, <2>7, <2>8, <2>9 DEF EngineNext
<1>4. ASSUME NEW p \in Procs, Crash(p) PROVE Quiet
  BY <1>4 DEF Crash, Quiet
<1>5. CASE OperatorNext
  <2>1. AckHaltShows \/ AckHaltLeaves \/ AckFence => Quiet
    BY DEF AckHaltShows, AckHaltLeaves, AckFence, Quiet
  <2> QED
    BY <1>5, <2>1 DEF OperatorNext
<1> QED
  BY <1>1, <1>2, <1>3, <1>4, <1>5 DEF Next

-----------------------------------------------------------------------------
(* Memory.                                                                 *)

(* A host that may vouch has what the witness vouched for before it.       *)
LEMMA VouchMemory ==
  ASSUME TypeInv, VouchedInv, TailInv, MemoryInv, Vouches
  PROVE  MemoryInv' /\ Vouched'
<1>1. PICK p \in Procs :
        /\ pc[p] \in {"sent", "halting"} /\ Vouch
        /\ UNCHANGED <<log, stamp, placed>>
        /\ owed' = owed \/ (pc[p] = "halting" /\ owed' = owed \cup {log[Len(log)].id})
  BY DEF Vouches
<1>2. /\ Len(log) \in Nat /\ Len(log) # 0 /\ Vouched
      /\ pc[p] = "halting" => IsHalt(Len(log))
  BY <1>1, LogTyped DEF TailInv, VouchedInv, Admitted
<1>3. /\ witness' = [seq |-> Len(log), event |-> log[Len(log)]] /\ witness' # None
      /\ witness'.seq = Len(log) /\ witness'.event = log[Len(log)]
  <2>1. witness' = [seq |-> Len(log), event |-> log[Len(log)]]
    BY <1>1 DEF Vouch
  <2>2. witness'.seq = Len(log) /\ witness'.event = log[Len(log)]
    BY <2>1
  <2>3. log[Len(log)] \in Events
    BY <1>2, LogTyped
  <2> QED
    BY <1>2, <2>1, <2>2, <2>3, NoneApart
<1>4. Vouched'
  BY <1>1, <1>2, <1>3 DEF Vouched
<1>5. witness # None => witness.seq \in Nat /\ witness.seq <= Len(log)
  BY <1>2 DEF Vouched, TypeInv
<1>6. ASSUME NEW e \in placed' PROVE \E s \in 1..witness'.seq : log'[s] = e
  <2>1. PICK s \in 1..witness.seq : log[s] = e /\ witness # None
    BY <1>1, <1>2, <1>6 DEF MemoryInv
  <2> QED
    BY <1>1, <1>2, <1>3, <1>5, <2>1
<1>7. ASSUME NEW h \in owed' \ {0} PROVE Remembered(h)'
  <2>1. CASE h \in owed
    <3>1. PICK s \in 1..witness.seq : witness # None /\ log[s].id = h /\ IsHalt(s)
             /\ \A t \in s + 1..Len(log) : log[t].what # "ack"
      BY <1>2, <1>7, <2>1 DEF MemoryInv, Remembered
    <3>2. s \in 1..witness'.seq
      BY <1>2, <1>3, <1>5, <3>1
    <3> QED
      BY <1>1, <3>1, <3>2 DEF Remembered, IsHalt
  <2>2. CASE h \notin owed
    <3>1. h = log[Len(log)].id /\ IsHalt(Len(log))
      BY <1>1, <1>2, <1>7, <2>2
    <3>2. Len(log) \in 1..witness'.seq /\ Len(log) + 1..Len(log) = {}
      BY <1>2, <1>3
    <3> QED
      BY <1>1, <3>1, <3>2 DEF Remembered, IsHalt
  <2> QED
    BY <2>1, <2>2
<1> QED
  BY <1>3, <1>4, <1>6, <1>7 DEF MemoryInv

LEMMA PlaceMemory ==
  ASSUME TypeInv, VouchedInv, TailInv, MemoryInv, Places
  PROVE  MemoryInv'
<1>1. /\ witness # None /\ witness.seq = Len(log) /\ Len(log) # 0 /\ Len(log) \in Nat
      /\ Vouched
  BY LogTyped DEF Places, TailInv, VouchedInv, Admitted
<1>2. /\ UNCHANGED <<log, witness, owed>> /\ placed' = placed \cup {log[Len(log)]}
  BY DEF Places
<1>3. ASSUME NEW e \in placed' PROVE \E s \in 1..witness'.seq : log'[s] = e
  <2>1. CASE e \in placed
    BY <1>1, <1>2, <2>1 DEF MemoryInv
  <2>2. CASE e = log[Len(log)]
    BY <1>1, <1>2, <2>2
  <2> QED
    BY <1>2, <2>1, <2>2
<1>4. ASSUME NEW h \in owed' \ {0} PROVE Remembered(h)'
  BY <1>1, <1>2, <1>4 DEF MemoryInv, Remembered, IsHalt
<1> QED
  BY <1>1, <1>2, <1>3, <1>4 DEF MemoryInv

(* An acknowledgement is of the latest HALT and clears every earlier one.  *)
LEMMA AckMemory ==
  ASSUME TypeInv, StampInv, MemoryInv, AckHaltWrites
  PROVE  MemoryInv'
<1>1. /\ Commit("ack", ackSeq) /\ UNCHANGED <<witness, placed>>
      /\ owed' = owed \ {log[s].id : s \in DOMAIN log}
      /\ ackSeq \in Nat \cup {None} /\ "ack" \in Whats
  BY DEF AckHaltWrites, TypeInv, Whats
<1>2. CASE witness = None
  BY <1>1, <1>2 DEF MemoryInv
<1>3. ASSUME witness # None, Vouched'
      PROVE  owed' \ {0} = {} /\ \A e \in placed' : \E s \in 1..witness'.seq : log'[s] = e
  <2>1. Vouched
    BY <1>1, <1>3, CommitVouched
  <2>2. witness.seq \in Nat /\ witness.seq <= Len(log) /\ Len(log) \in Nat
    BY <1>3, <2>1, LogTyped DEF Vouched, TypeInv
  <2>3. ASSUME NEW h \in owed' \ {0} PROVE FALSE
    <3>1. h \in owed \ {0}
      BY <1>1, <2>3
    <3>2. PICK s \in 1..witness.seq : log[s].id = h
      BY <1>3, <2>1, <3>1 DEF MemoryInv, Remembered
    <3>3. s \in DOMAIN log
      BY <2>2 DEF TypeInv
    <3> QED
      BY <1>1, <2>3, <3>2, <3>3
  <2>4. \A s \in 1..Len(log) : log'[s] = log[s]
    BY <1>1, CommitLog
  <2>5. \A e \in placed' : \E s \in 1..witness.seq : log[s] = e
    BY <1>1, <1>3, <2>1 DEF MemoryInv
  <2>6. \A s \in 1..witness.seq : log'[s] = log[s]
    BY <2>2, <2>4
  <2> QED
    BY <1>1, <2>3, <2>5, <2>6
<1> QED
  BY <1>1, <1>2, <1>3 DEF MemoryInv

(* What a power loss leaves behind is a prefix: it has all the witness     *)
(* vouches for, or it no longer has that.                                  *)
LEMMA LossMemory ==
  ASSUME TypeInv, StampInv, MemoryInv, PowerLoss
  PROVE  TypeInv' /\ StampInv' /\ MemoryInv'
<1>1. PICK n \in 0..Len(log) : log' = SubSeq(log, 1, n)
  BY DEF PowerLoss
<1>2. /\ log' \in Seq(Events) /\ Len(log') = n /\ n \in Nat /\ n <= Len(log)
      /\ Len(log) \in Nat /\ \A s \in 1..n : log'[s] = log[s]
  BY <1>1 DEF TypeInv
<1>3. UNCHANGED <<stamp, witness, placed, owed>> /\ ackSeq' = None
      /\ pc' = [p \in Procs |-> "off"] /\ mode' = [p \in Procs |-> "NORMAL"]
  BY DEF PowerLoss, history
<1>4. TypeInv'
  BY <1>2, <1>3 DEF TypeInv, PCs, Modes
<1>5. StampInv'
  BY <1>2, <1>3 DEF StampInv
<1>6. CASE witness = None
  BY <1>3, <1>4, <1>5, <1>6 DEF MemoryInv
<1>7. ASSUME witness # None, Vouched'
      PROVE  /\ \A e \in placed' : \E s \in 1..witness'.seq : log'[s] = e
             /\ \A h \in owed' \ {0} : Remembered(h)'
  <2>1. witness.seq \in Nat /\ witness.seq # 0 /\ witness.seq <= n
    BY <1>2, <1>3, <1>7 DEF Vouched, TypeInv, StampInv
  <2>2. \A s \in 1..witness.seq : s \in 1..n /\ log'[s] = log[s]
    BY <1>2, <2>1
  <2>3. witness.seq \in 1..witness.seq /\ log'[witness.seq] = witness.event
    BY <1>3, <1>7, <2>1 DEF Vouched
  <2>4. Vouched
    BY <1>2, <2>1, <2>2, <2>3 DEF Vouched
  <2>5. \A e \in placed' : \E s \in 1..witness'.seq : log'[s] = e
    BY <1>3, <1>7, <2>2, <2>4 DEF MemoryInv
  <2>6. ASSUME NEW h \in owed' \ {0} PROVE Remembered(h)'
    <3>1. PICK s \in 1..witness.seq : log[s].id = h /\ log[s].what = "halt"
             /\ \A t \in s + 1..Len(log) : log[t].what # "ack"
      BY <1>3, <1>7, <2>4, <2>6 DEF MemoryInv, Remembered, IsHalt
    <3>2. \A t \in s + 1..Len(log') : t \in s + 1..Len(log) /\ log'[t] = log[t]
      BY <1>2, <2>1
    <3> QED
      BY <1>3, <2>2, <3>1, <3>2 DEF Remembered, IsHalt
  <2> QED
    BY <2>5, <2>6
<1>8. CASE witness # None
  BY <1>3, <1>4, <1>5, <1>7, <1>8 DEF MemoryInv
<1> QED
  BY <1>6, <1>8

-----------------------------------------------------------------------------
(* The other parts of the invariant, action by action.                     *)

(* What the hosts and the tool hold keeps its type.                        *)
HostsOK == pc \in [Procs -> PCs] /\ mode \in [Procs -> Modes] /\ ackSeq \in Nat \cup {None}

LEMMA HostsTyped ==
  ASSUME TypeInv, [Next]_vars
  PROVE  HostsOK'
<1>0. HostsOK
  BY DEF TypeInv, HostsOK
<1> USE <1>0 DEF HostsOK, PCs, Modes, Goes, Gone, durables, hosts, history
<1>1. CASE UNCHANGED vars
  BY <1>1 DEF vars
<1>2. ASSUME NEW p \in Procs, GatesNext(p) PROVE HostsOK'
  BY <1>2 DEF GatesNext, GateFence, GateOwnership, GateWitness, GateWitnessRefuses, Connect,
       ConnectFails
<1>3. ASSUME NEW p \in Procs, EngineNext(p) PROVE HostsOK'
  <2>1. CASE SendCommitted(p) \/ SendWitnessed(p) \/ PlaceOrder(p)
    BY <2>1 DEF SendCommitted, SendWitnessed, PlaceOrder
  <2>2. CASE SendNotWitnessed(p) \/ JournalFails(p)
    BY <2>2 DEF SendNotWitnessed, JournalFails, FailClosed
  <2>3. CASE HaltCommitted(p) \/ HaltWitnessed(p) \/ HaltNotWitnessed(p)
    BY <2>3 DEF HaltCommitted, HaltWitnessed, HaltNotWitnessed
  <2>4. CASE RetireFence(p) \/ Exit(p)
    BY <2>4 DEF RetireFence, Exit
  <2> QED
    BY <1>3, <2>1, <2>2, <2>3, <2>4 DEF EngineNext
<1>4. ASSUME NEW p \in Procs, Crash(p) PROVE HostsOK'
  BY <1>4 DEF Crash
<1>5. CASE PowerLoss
  BY <1>5 DEF PowerLoss
<1>6. CASE OperatorNext
  <2>1. ActiveHalt \in Nat \cup {None}
    BY ActiveHaltIsSeq
  <2> QED
    BY <1>6, <2>1 DEF OperatorNext, AckHaltShows, AckHaltWrites, AckHaltLeaves, AckFence
<1> QED
  BY <1>1, <1>2, <1>3, <1>4, <1>5, <1>6 DEF Next

LEMMA TypeAndStamp ==
  ASSUME HostInv, [Next]_vars
  PROVE  TypeInv' /\ StampInv' /\ MemoryInv'
<1> USE DEF HostInv
<1>1. CASE Quiet
  <2>1. StampInv' /\ MemoryInv'
    BY <1>1, SameLogMemory DEF Quiet, StampInv
  <2>2. log' \in Seq(Events) /\ stamp' \in Nat /\ placed' \subseteq Events
        /\ (witness' = None \/ witness' \in [seq : Nat, event : Events]) /\ owed' \subseteq Nat
    BY <1>1 DEF Quiet, TypeInv
  <2> QED
    BY <2>1, <2>2, HostsTyped DEF TypeInv, HostsOK
<1>2. CASE Commits
  <2>1. PICK what \in Whats \ {"ack"} : Commit(what, 0)
    BY <1>2 DEF Commits
  <2>2. UNCHANGED <<witness, placed>> /\ owed' \subseteq owed \cup {0}
    BY <1>2 DEF Commits
  <2>3. StampInv' /\ MemoryInv'
    BY <2>1, <2>2, CommitStamp, CommitMemory
  <2>4. log' \in Seq(Events) /\ stamp' \in Nat /\ placed' \subseteq Events
        /\ (witness' = None \/ witness' \in [seq : Nat, event : Events]) /\ owed' \subseteq Nat
    BY <2>1, <2>2, CommitLog DEF TypeInv
  <2> QED
    BY <2>3, <2>4, HostsTyped DEF TypeInv, HostsOK
<1>3. CASE Vouches
  <2>1. PICK p \in Procs :
        /\ pc[p] \in {"sent", "halting"} /\ Vouch
        /\ UNCHANGED <<log, stamp, placed>>
        /\ owed' = owed \/ (pc[p] = "halting" /\ owed' = owed \cup {log[Len(log)].id})
    BY <1>3 DEF Vouches
  <2>2. Len(log) \in 1..Len(log) /\ Len(log) \in Nat /\ Len(log) # 0
    BY <2>1, LogTyped DEF TailInv
  <2>3. log[Len(log)] \in Events /\ log[Len(log)].id \in Nat /\ log[Len(log)].id <= stamp
    BY <2>2, LogTyped DEF StampInv
  <2>4. witness' = [seq |-> Len(log), event |-> log[Len(log)]]
    BY <2>1 DEF Vouch
  <2>5. witness' \in [seq : Nat, event : Events] /\ witness'.seq = Len(log)
        /\ witness'.event = log[Len(log)]
    BY <2>2, <2>3, <2>4
  <2>6. StampInv'
    BY <2>1, <2>2, <2>3, <2>5 DEF StampInv
  <2>7. owed' \subseteq Nat
    BY <2>1, <2>3 DEF TypeInv
  <2>8. log' \in Seq(Events) /\ stamp' \in Nat /\ placed' \subseteq Events
    BY <2>1 DEF TypeInv
  <2> QED
    BY <1>3, <2>5, <2>6, <2>7, <2>8, HostsTyped, VouchMemory DEF TypeInv, HostsOK
<1>4. CASE Places
  <2>1. Len(log) \in 1..Len(log)
    BY <1>4, LogTyped DEF Places, TailInv
  <2>2. placed' \subseteq Events
    BY <1>4, <2>1, LogTyped DEF Places, TypeInv
  <2>3. StampInv' /\ MemoryInv'
    BY <1>4, PlaceMemory DEF Places, StampInv
  <2>4. log' \in Seq(Events) /\ stamp' \in Nat
        /\ (witness' = None \/ witness' \in [seq : Nat, event : Events]) /\ owed' \subseteq Nat
    BY <1>4 DEF Places, TypeInv
  <2> QED
    BY <2>2, <2>3, <2>4, HostsTyped DEF TypeInv, HostsOK
<1>5. CASE AckHaltWrites
  <2>1. /\ Commit("ack", ackSeq) /\ UNCHANGED <<witness, placed>> /\ owed' \subseteq owed
        /\ ackSeq \in Nat \cup {None} /\ "ack" \in Whats
    BY <1>5 DEF AckHaltWrites, TypeInv, Whats
  <2>2. log' \in Seq(Events) /\ stamp' \in Nat
    BY <2>1, CommitLog
  <2>3. placed' \subseteq Events /\ owed' \subseteq Nat
        /\ (witness' = None \/ witness' \in [seq : Nat, event : Events])
    BY <2>1 DEF TypeInv
  <2>4. StampInv' /\ MemoryInv'
    BY <1>5, <2>1, CommitStamp, AckMemory
  <2> QED
    BY <2>2, <2>3, <2>4, HostsTyped DEF TypeInv, HostsOK
<1>6. CASE PowerLoss
  BY <1>6, LossMemory
<1> QED
  BY <1>1, <1>2, <1>3, <1>4, <1>5, <1>6, Classified

LEMMA OneOwner ==
  ASSUME LockInv, NEW p \in Procs, NEW q \in Procs,
         pc[p] \notin {"off", "unfenced"}, pc[q] \notin {"off", "unfenced"}
  PROVE  p = q
BY DEF LockInv

LEMMA LockKept ==
  ASSUME HostInv, [Next]_vars
  PROVE  LockInv'
<1> USE DEF durables, hosts, history
<1>0. /\ pc \in [Procs -> PCs] /\ None \notin Procs /\ "tool" \notin Procs
      /\ \A q \in Procs : pc[q] \notin {"off", "unfenced"} => lock = q
  BY NoneApart DEF HostInv, TypeInv, LockInv
<1>1. CASE UNCHANGED vars
  BY <1>1, <1>0 DEF vars, LockInv
<1>2. ASSUME NEW p \in Procs, Gone(p) PROVE LockInv'
  BY <1>2, <1>0 DEF Gone, Goes, LockInv
<1>3. ASSUME NEW p \in Procs, GatesNext(p) PROVE LockInv'
  <2>1. CASE GateFence(p)
    BY <2>1, <1>0 DEF GateFence, Goes, LockInv
  <2>2. CASE GateOwnership(p)
    BY <2>2, <1>0 DEF GateOwnership, Goes, LockInv
  <2>3. CASE GateWitness(p) \/ Connect(p)
    BY <2>3, <1>0 DEF GateWitness, Connect, Goes, LockInv
  <2>4. CASE GateWitnessRefuses(p) \/ ConnectFails(p)
    BY <2>4, <1>2 DEF GateWitnessRefuses, ConnectFails
  <2> QED
    BY <1>3, <2>1, <2>2, <2>3, <2>4 DEF GatesNext
<1>4. ASSUME NEW p \in Procs, EngineNext(p) PROVE LockInv'
  <2>1. CASE Exit(p)
    BY <2>1, <1>2 DEF Exit
  <2>2. CASE ~Exit(p)
    <3>1. pc[p] \notin {"off", "unfenced"} /\ lock' = lock
          /\ \A q \in Procs : q # p => pc'[q] = pc[q]
      <4>1. CASE SendCommitted(p) \/ SendWitnessed(p) \/ PlaceOrder(p)
        BY <4>1, <1>0 DEF SendCommitted, SendWitnessed, PlaceOrder, Goes
      <4>2. CASE SendNotWitnessed(p) \/ JournalFails(p) \/ RetireFence(p)
        BY <4>2, <1>0 DEF SendNotWitnessed, JournalFails, RetireFence, Goes
      <4>3. CASE HaltCommitted(p) \/ HaltWitnessed(p) \/ HaltNotWitnessed(p)
        BY <4>3, <1>0 DEF HaltCommitted, HaltWitnessed, HaltNotWitnessed, Goes
      <4> QED
        BY <1>4, <2>2, <4>1, <4>2, <4>3 DEF EngineNext
    <3> QED
      BY <3>1, <1>0 DEF LockInv
  <2> QED
    BY <2>1, <2>2
<1>5. ASSUME NEW p \in Procs, Crash(p) PROVE LockInv'
  BY <1>5, <1>2 DEF Crash
<1>6. CASE PowerLoss
  BY <1>6 DEF PowerLoss, LockInv
<1>7. CASE OperatorNext
  <2>1. CASE AckHaltShows
    BY <2>1, <1>0 DEF AckHaltShows, LockInv
  <2>2. CASE AckHaltWrites \/ AckHaltLeaves
    BY <2>2, <1>0 DEF AckHaltWrites, AckHaltLeaves, LockInv
  <2>3. CASE AckFence
    BY <2>3, <1>0 DEF AckFence, LockInv
  <2> QED
    BY <1>7, <2>1, <2>2, <2>3 DEF OperatorNext
<1> QED
  BY <1>1, <1>3, <1>4, <1>5, <1>6, <1>7 DEF Next

(* Only the witness gate lets a host in.                                   *)
LEMMA Admits ==
  ASSUME TypeInv, [Next]_vars, NEW q \in Procs, pc'[q] \in Admitted
  PROVE  pc[q] \in Admitted \/ Vouched
<1> USE DEF durables, hosts, history
<1>0. pc \in [Procs -> PCs]
  BY DEF TypeInv
<1>1. CASE UNCHANGED vars
  BY <1>1 DEF vars
<1>2. ASSUME NEW p \in Procs, Gone(p) PROVE pc[q] \in Admitted
  BY <1>2, <1>0 DEF Gone, Goes, Admitted
<1>3. ASSUME NEW p \in Procs, GatesNext(p) PROVE pc[q] \in Admitted \/ Vouched
  <2>1. CASE GateFence(p) \/ GateOwnership(p)
    BY <2>1, <1>0 DEF GateFence, GateOwnership, Goes, Admitted
  <2>2. CASE GateWitness(p)
    BY <2>2 DEF GateWitness
  <2>3. CASE Connect(p)
    BY <2>3, <1>0 DEF Connect, Goes, Admitted
  <2>4. CASE GateWitnessRefuses(p) \/ ConnectFails(p)
    BY <2>4, <1>2 DEF GateWitnessRefuses, ConnectFails
  <2> QED
    BY <1>3, <2>1, <2>2, <2>3, <2>4 DEF GatesNext
<1>4. ASSUME NEW p \in Procs, EngineNext(p) PROVE pc[q] \in Admitted
  <2>1. CASE Exit(p)
    BY <2>1, <1>2 DEF Exit
  <2>2. CASE SendCommitted(p) \/ SendWitnessed(p) \/ PlaceOrder(p)
    BY <2>2, <1>0 DEF SendCommitted, SendWitnessed, PlaceOrder, Goes, Admitted
  <2>3. CASE SendNotWitnessed(p) \/ JournalFails(p) \/ RetireFence(p)
    BY <2>3, <1>0 DEF SendNotWitnessed, JournalFails, RetireFence, Goes, Admitted
  <2>4. CASE HaltCommitted(p) \/ HaltWitnessed(p) \/ HaltNotWitnessed(p)
    BY <2>4, <1>0 DEF HaltCommitted, HaltWitnessed, HaltNotWitnessed, Goes, Admitted
  <2> QED
    BY <1>4, <2>1, <2>2, <2>3, <2>4 DEF EngineNext
<1>5. ASSUME NEW p \in Procs, Crash(p) PROVE pc[q] \in Admitted
  BY <1>5, <1>2 DEF Crash
<1>6. CASE PowerLoss
  BY <1>6 DEF PowerLoss, Admitted
<1>7. CASE OperatorNext
  BY <1>7 DEF OperatorNext, AckHaltShows, AckHaltWrites, AckHaltLeaves, AckFence
<1> QED
  BY <1>1, <1>3, <1>4, <1>5, <1>6, <1>7 DEF Next

LEMMA VouchedKept ==
  ASSUME HostInv, [Next]_vars
  PROVE  VouchedInv'
<1>1. CASE PowerLoss
  BY <1>1 DEF PowerLoss, VouchedInv, Admitted
<1>2. CASE ~PowerLoss
  <2>0. TypeInv /\ StampInv /\ VouchedInv /\ TailInv /\ MemoryInv
    BY DEF HostInv
  <2>1. ASSUME Vouched PROVE Vouched'
    <3>1. CASE Quiet \/ Places
      BY <3>1, <2>1 DEF Quiet, Places, Vouched
    <3>2. CASE Commits
      BY <3>2, <2>0, <2>1, CommitVouched DEF Commits
    <3>3. CASE Vouches
      BY <3>3, <2>0, VouchMemory
    <3>4. CASE AckHaltWrites
      <4>1. Commit("ack", ackSeq) /\ ackSeq \in Nat \cup {None} /\ "ack" \in Whats
            /\ witness' = witness
        BY <3>4, <2>0 DEF AckHaltWrites, TypeInv, Whats
      <4> QED
        BY <4>1, <2>0, <2>1, CommitVouched
    <3> QED
      BY <1>2, <3>1, <3>2, <3>3, <3>4, Classified
  <2>2. ASSUME NEW q \in Procs, pc'[q] \in Admitted PROVE Vouched'
    BY <2>0, <2>1, <2>2, Admits DEF VouchedInv
  <2> QED
    BY <2>2 DEF VouchedInv
<1> QED
  BY <1>1, <1>2

(* While one host holds the journal, the others are at their first gates.  *)
LEMMA OthersIdle ==
  ASSUME HostInv, NEW p \in Procs, pc[p] \notin {"off", "unfenced"},
         NEW to, pc' = [pc EXCEPT ![p] = to]
  PROVE  \A q \in Procs : q # p => pc'[q] \in {"off", "unfenced"}
<1>1. pc \in [Procs -> PCs] /\ LockInv
  BY DEF HostInv, TypeInv
<1> QED
  BY <1>1, OneOwner

Committed == {"sent", "witnessed", "halting"}

LEMMA TailKept ==
  ASSUME HostInv, [Next]_vars
  PROVE  TailInv'
<1> USE DEF durables, hosts, history
<1>0. /\ pc \in [Procs -> PCs] /\ mode \in [Procs -> Modes] /\ TypeInv /\ TailInv
      /\ None \notin Procs /\ "tool" \notin Procs
  BY NoneApart DEF HostInv, TypeInv
<1>1. ASSUME UNCHANGED <<log, witness>>,
             \A q \in Procs : pc'[q] \in Committed => pc'[q] = pc[q] /\ mode'[q] = mode[q]
      PROVE  TailInv'
  BY <1>0, <1>1 DEF TailInv, IsHalt, Committed
<1>2. ASSUME \A q \in Procs : pc'[q] \notin Committed PROVE TailInv'
  BY <1>2 DEF TailInv, Committed
<1>3. CASE UNCHANGED vars
  BY <1>1, <1>3 DEF vars
<1>4. ASSUME NEW p \in Procs, Gone(p), UNCHANGED <<log, witness>> PROVE TailInv'
  <2>1. \A q \in Procs : pc'[q] \in Committed => pc'[q] = pc[q] /\ mode'[q] = mode[q]
    BY <1>0, <1>4 DEF Gone, Goes, Committed
  <2> QED
    BY <1>1, <1>4, <2>1
<1>5. ASSUME NEW p \in Procs, GatesNext(p) PROVE TailInv'
  <2>1. CASE GateFence(p) \/ GateOwnership(p) \/ GateWitness(p)
    <3>1. \A q \in Procs : pc'[q] \in Committed => pc'[q] = pc[q] /\ mode'[q] = mode[q]
      BY <1>0, <2>1 DEF GateFence, GateOwnership, GateWitness, Goes, Committed
    <3>2. UNCHANGED <<log, witness>>
      BY <2>1 DEF GateFence, GateOwnership, GateWitness
    <3> QED
      BY <1>1, <3>1, <3>2
  <2>2. CASE GateWitnessRefuses(p) \/ ConnectFails(p)
    BY <1>4, <2>2 DEF GateWitnessRefuses, ConnectFails
  <2>3. CASE Connect(p)
    <3>1. pc[p] = "verified" /\ pc' = [pc EXCEPT ![p] = "running"]
      BY <2>3 DEF Connect, Goes
    <3>2. \A q \in Procs : pc'[q] \notin Committed
      BY <1>0, <3>1, OthersIdle DEF Committed
    <3> QED
      BY <1>2, <3>2
  <2> QED
    BY <1>5, <2>1, <2>2, <2>3 DEF GatesNext
<1>6. ASSUME NEW p \in Procs, EngineNext(p) PROVE TailInv'
  <2>1. CASE Exit(p)
    BY <1>4, <2>1 DEF Exit
  <2>2. CASE PlaceOrder(p) \/ SendNotWitnessed(p) \/ JournalFails(p) \/ HaltWitnessed(p)
             \/ HaltNotWitnessed(p) \/ RetireFence(p)
    <3>1. pc[p] \notin {"off", "unfenced"} /\ pc' = [pc EXCEPT ![p] = "running"]
      <4>1. CASE JournalFails(p) \/ RetireFence(p)
        BY <1>0, <4>1 DEF JournalFails, RetireFence
      <4>2. CASE PlaceOrder(p) \/ SendNotWitnessed(p) \/ HaltWitnessed(p) \/ HaltNotWitnessed(p)
        BY <4>2 DEF PlaceOrder, SendNotWitnessed, HaltWitnessed, HaltNotWitnessed, Goes
      <4> QED
        BY <2>2, <4>1, <4>2
    <3>2. \A q \in Procs : pc'[q] \notin Committed
      BY <1>0, <3>1, OthersIdle DEF Committed
    <3> QED
      BY <1>2, <3>2
  <2>3. CASE SendCommitted(p)
    <3>1. pc[p] = "running" /\ pc' = [pc EXCEPT ![p] = "sent"] /\ Commit("send", 0)
      BY <2>3 DEF SendCommitted, Goes
    <3>2. Len(log') # 0
      <4>1. "send" \in Whats /\ 0 \in Nat \cup {None}
        BY DEF Whats
      <4> QED
        BY <1>0, <3>1, <4>1, CommitLog
    <3>3. \A q \in Procs : q # p => pc'[q] \notin Committed
      BY <3>1, OthersIdle DEF Committed
    <3>4. pc'[p] = "sent"
      BY <1>0, <3>1
    <3> QED
      BY <3>2, <3>3, <3>4 DEF TailInv, Committed
  <2>4. CASE SendWitnessed(p)
    <3>1. /\ pc[p] = "sent" /\ pc' = [pc EXCEPT ![p] = "witnessed"]
          /\ log' = log /\ witness' = [seq |-> Len(log), event |-> log[Len(log)]]
      BY <2>4 DEF SendWitnessed, Goes, Vouch
    <3>2. Len(log) # 0 /\ log[Len(log)] \in Events /\ Len(log) \in Nat
      BY <1>0, <3>1, LogTyped DEF TailInv
    <3>3. witness' \in [seq : Nat, event : Events] /\ witness'.seq = Len(log)
      BY <3>1, <3>2
    <3>4. witness' # None
      BY <3>3, NoneApart
    <3>5. \A q \in Procs : q # p => pc'[q] \notin Committed
      BY <3>1, OthersIdle DEF Committed
    <3>6. pc'[p] = "witnessed"
      BY <1>0, <3>1
    <3> QED
      BY <3>1, <3>2, <3>3, <3>4, <3>5, <3>6 DEF TailInv, Committed
  <2>5. CASE HaltCommitted(p)
    <3>1. /\ pc[p] = "running" /\ pc' = [pc EXCEPT ![p] = "halting"] /\ Commit("halt", 0)
          /\ mode' = [mode EXCEPT ![p] = "HALTED"]
      BY <2>5 DEF HaltCommitted, Goes
    <3>2. Len(log') # 0 /\ log'[Len(log')] = Event("halt", 0)
      <4>1. "halt" \in Whats /\ 0 \in Nat \cup {None}
        BY DEF Whats
      <4> QED
        BY <1>0, <3>1, <4>1, CommitLog
    <3>3. log'[Len(log')].what = "halt"
      BY <3>2 DEF Event
    <3>4. \A q \in Procs : q # p => pc'[q] \notin Committed
      BY <3>1, OthersIdle DEF Committed
    <3>5. pc'[p] = "halting" /\ mode'[p] = "HALTED"
      BY <1>0, <3>1
    <3> QED
      BY <3>2, <3>3, <3>4, <3>5 DEF TailInv, Committed, IsHalt
  <2> QED
    BY <1>6, <2>1, <2>2, <2>3, <2>4, <2>5 DEF EngineNext
<1>7. ASSUME NEW p \in Procs, Crash(p) PROVE TailInv'
  BY <1>4, <1>7 DEF Crash
<1>8. CASE PowerLoss
  BY <1>2, <1>8 DEF PowerLoss, Committed
<1>9. CASE OperatorNext
  <2>1. CASE AckHaltShows \/ AckHaltLeaves \/ AckFence
    BY <1>1, <2>1 DEF AckHaltShows, AckHaltLeaves, AckFence
  <2>2. CASE AckHaltWrites
    <3>1. lock = "tool" /\ pc' = pc
      BY <2>2 DEF AckHaltWrites
    <3>2. \A q \in Procs : pc[q] \in {"off", "unfenced"}
      BY <1>0, <3>1 DEF HostInv, LockInv
    <3> QED
      BY <1>2, <3>1, <3>2 DEF Committed
  <2> QED
    BY <1>9, <2>1, <2>2 DEF OperatorNext
<1> QED
  BY <1>3, <1>5, <1>6, <1>7, <1>8, <1>9 DEF Next

(* The two parts about what is owed.                                       *)
LEMMA FenceKept ==
  ASSUME HostInv, [Next]_vars
  PROVE  FenceInv'
<1> USE DEF durables, hosts, history
<1>0. FenceInv /\ TypeInv /\ TailInv /\ StampInv
  BY DEF HostInv
<1>1. ASSUME fence' = fence, owed' \subseteq owed PROVE FenceInv'
  BY <1>0, <1>1 DEF FenceInv
<1>2. ASSUME RaiseFence PROVE FenceInv'
  BY <1>0, <1>2 DEF RaiseFence, Raised, FenceInv
<1>3. CASE UNCHANGED vars
  BY <1>1, <1>3 DEF vars
<1>4. ASSUME NEW p \in Procs, GatesNext(p) \/ Crash(p) PROVE FenceInv'
  <2>1. CASE GateWitnessRefuses(p)
    BY <1>2, <2>1 DEF GateWitnessRefuses
  <2>2. CASE ~GateWitnessRefuses(p)
    BY <1>1, <1>4, <2>2 DEF GatesNext, GateFence, GateOwnership, GateWitness, Connect,
         ConnectFails, Crash
  <2> QED
    BY <2>1, <2>2
<1>5. ASSUME NEW p \in Procs, EngineNext(p) PROVE FenceInv'
  <2>1. CASE SendCommitted(p) \/ SendWitnessed(p) \/ PlaceOrder(p) \/ HaltCommitted(p) \/ Exit(p)
    BY <1>1, <2>1 DEF SendCommitted, SendWitnessed, PlaceOrder, HaltCommitted, Exit
  <2>2. CASE SendNotWitnessed(p) \/ JournalFails(p) \/ HaltNotWitnessed(p)
    BY <1>2, <2>2 DEF SendNotWitnessed, JournalFails, HaltNotWitnessed, FailClosed
  <2>3. CASE HaltWitnessed(p)
    <3>1. pc[p] = "halting" /\ owed' = owed \cup {log[Len(log)].id} /\ fence' = fence
      BY <2>3 DEF HaltWitnessed
    <3>2. log[Len(log)].id # 0
      BY <1>0, <3>1, LogTyped DEF TailInv, StampInv
    <3> QED
      BY <1>0, <3>1, <3>2 DEF FenceInv
  <2>4. CASE RetireFence(p)
    BY <1>0, <2>4 DEF RetireFence, FenceInv
  <2> QED
    BY <1>5, <2>1, <2>2, <2>3, <2>4 DEF EngineNext
<1>6. CASE PowerLoss
  BY <1>1, <1>6 DEF PowerLoss
<1>7. CASE OperatorNext
  <2>1. CASE AckHaltShows \/ AckHaltWrites \/ AckHaltLeaves
    BY <1>1, <2>1 DEF AckHaltShows, AckHaltWrites, AckHaltLeaves
  <2>2. CASE AckFence
    BY <2>2 DEF AckFence, FenceInv
  <2> QED
    BY <1>7, <2>1, <2>2 DEF OperatorNext
<1> QED
  BY <1>3, <1>4, <1>5, <1>6, <1>7 DEF Next

LEMMA SomeIsLeast ==
  ASSUME NEW S \in SUBSET Nat, S # {}
  PROVE  \E x \in S : \A y \in S : x <= y
<1> DEFINE R == {ss \in Nat \X Nat : ss[1] < ss[2]}
<1>1. OpToRel(<, Nat) = R
  BY DEF OpToRel
<1>2. IsWellFoundedOn(R, Nat)
  BY <1>1, NatLessThanWellFounded
<1> HIDE DEF R
<1>3. PICK x \in S : \A y \in S : ~(<<y, x>> \in R)
  BY <1>2, WFMin, Zenon
<1>4. ASSUME NEW y \in S PROVE x <= y
  <2>1. x \in Nat /\ y \in Nat /\ <<y, x>> \in Nat \X Nat
    OBVIOUS
  <2>2. ~(<<y, x>>[1] < <<y, x>>[2])
    BY <1>3, <2>1 DEF R
  <2> QED
    BY <2>1, <2>2
<1> QED
  BY <1>4

(* The last HALT of a log that has one from s on.                          *)
LEMMA LatestHalt ==
  ASSUME TypeInv, NEW s \in 1..Len(log), IsHalt(s)
  PROVE  \E m \in s..Len(log) : IsHalt(m) /\ \A t \in m + 1..Len(log) : ~IsHalt(t)
<1> DEFINE S == {n \in Nat : \E m \in s..Len(log) : IsHalt(m) /\ n = Len(log) - m}
<1>0. Len(log) \in Nat
  BY LogTyped
<1>1. S \in SUBSET Nat /\ S # {}
  <2>1. Len(log) - s \in S
    BY <1>0
  <2> QED
    BY <2>1
<1>2. PICK x \in S : \A y \in S : x <= y
  BY <1>1, SomeIsLeast
<1>3. PICK m \in s..Len(log) : IsHalt(m) /\ x = Len(log) - m
  BY <1>2
<1>4. ASSUME NEW t \in m + 1..Len(log), IsHalt(t) PROVE FALSE
  <2>1. t \in s..Len(log) /\ Len(log) - t \in Nat
    BY <1>0, <1>3, <1>4
  <2>2. Len(log) - t \in S
    BY <1>4, <2>1
  <2>3. x <= Len(log) - t
    BY <1>2, <2>2
  <2> QED
    BY <1>0, <1>3, <1>4, <2>3
<1> QED
  BY <1>3, <1>4

(* A boot that finds no active HALT in a log the witness vouches for owes  *)
(* nobody an acknowledgement of one.                                       *)
LEMMA NoHaltOwed ==
  ASSUME TypeInv, MemoryInv, Vouched, ActiveHalt = None
  PROVE  owed \subseteq {0}
<1>1. SUFFICES ASSUME NEW h \in owed \ {0} PROVE FALSE
  OBVIOUS
<1>2. witness # None /\ Remembered(h)
  BY <1>1 DEF MemoryInv
<1>3. witness.seq \in Nat /\ witness.seq <= Len(log) /\ Len(log) \in Nat
  BY <1>2, LogTyped DEF Vouched, TypeInv
<1>4. PICK s \in 1..witness.seq : IsHalt(s) /\ \A t \in s + 1..Len(log) : log[t].what # "ack"
  BY <1>2 DEF Remembered
<1>5. s \in 1..Len(log)
  BY <1>3
<1>6. PICK m \in s..Len(log) : IsHalt(m) /\ \A t \in m + 1..Len(log) : ~IsHalt(t)
  BY <1>4, <1>5, LatestHalt
<1>7. m \in DOMAIN log
  BY <1>5, <1>6 DEF TypeInv
<1>8. ~AckedIn(m)
  BY <1>3, <1>4, <1>5, <1>6 DEF AckedIn
<1> DEFINE Last(t) == IsHalt(t) /\ \A u \in t + 1..Len(log) : ~IsHalt(u)
           latest == CHOOSE t \in DOMAIN log : Last(t)
<1>9. ActiveHalt = latest
  BY <1>6, <1>7, <1>8 DEF ActiveHalt
<1>10. latest \in DOMAIN log
  BY <1>6, <1>7
<1>11. DOMAIN log \subseteq Nat
  BY DEF TypeInv
<1> QED
  BY <1>9, <1>10, <1>11, NoneApart

LEMMA HaltKept ==
  ASSUME HostInv, [Next]_vars
  PROVE  HaltInv'
<1> USE DEF durables, hosts, history
<1>0. /\ pc \in [Procs -> PCs] /\ mode \in [Procs -> Modes] /\ TypeInv /\ TailInv /\ HaltInv
      /\ MemoryInv /\ VouchedInv
  BY DEF HostInv, TypeInv
<1> DEFINE Trades(q) == HasBroker(q) /\ mode[q] = "NORMAL"
<1>1. ASSUME owed' \subseteq owed \cup {0}, \A q \in Procs : Trades(q)' => Trades(q)
      PROVE  HaltInv'
  BY <1>0, <1>1 DEF HaltInv
<1>2. CASE UNCHANGED vars
  BY <1>1, <1>2 DEF vars, HasBroker
<1>3. ASSUME NEW p \in Procs, Gone(p), owed' \subseteq owed \cup {0} PROVE HaltInv'
  <2>1. \A q \in Procs : Trades(q)' => Trades(q)
    BY <1>0, <1>3 DEF Gone, Goes, HasBroker
  <2> QED
    BY <1>1, <1>3, <2>1
<1>4. ASSUME NEW p \in Procs, GatesNext(p) PROVE HaltInv'
  <2>1. CASE GateFence(p) \/ GateOwnership(p) \/ GateWitness(p)
    <3>1. \A q \in Procs : Trades(q)' => Trades(q)
      BY <1>0, <2>1 DEF GateFence, GateOwnership, GateWitness, Goes, HasBroker
    <3>2. owed' = owed
      BY <2>1 DEF GateFence, GateOwnership, GateWitness
    <3> QED
      BY <1>1, <3>1, <3>2
  <2>2. CASE GateWitnessRefuses(p) \/ ConnectFails(p)
    BY <1>3, <2>2, Raises DEF GateWitnessRefuses, ConnectFails
  <2>3. CASE Connect(p)
    <3>1. /\ pc[p] = "verified" /\ pc' = [pc EXCEPT ![p] = "running"] /\ owed' = owed
          /\ mode' = [mode EXCEPT ![p] = IF ActiveHalt = None THEN "NORMAL" ELSE "HALTED"]
      BY <2>3 DEF Connect, Goes
    <3>2. \A q \in Procs : q # p => ~HasBroker(q)'
      BY <3>1, OthersIdle DEF HasBroker
    <3>3. Vouched
      BY <1>0, <3>1 DEF VouchedInv, Admitted
    <3>4. mode'[p] = "NORMAL" => owed' \subseteq {0}
      <4>1. mode'[p] = "NORMAL" => ActiveHalt = None
        BY <1>0, <3>1
      <4> QED
        BY <1>0, <3>1, <3>3, <4>1, NoHaltOwed
    <3> QED
      BY <3>2, <3>4 DEF HaltInv
  <2> QED
    BY <1>4, <2>1, <2>2, <2>3 DEF GatesNext
<1>5. ASSUME NEW p \in Procs, EngineNext(p) PROVE HaltInv'
  <2>1. CASE Exit(p)
    BY <1>3, <2>1 DEF Exit
  <2>2. CASE SendCommitted(p) \/ SendWitnessed(p) \/ PlaceOrder(p) \/ RetireFence(p)
    <3>1. \A q \in Procs : Trades(q)' => Trades(q)
      BY <1>0, <2>2 DEF SendCommitted, SendWitnessed, PlaceOrder, RetireFence, Goes, HasBroker
    <3>2. owed' = owed
      BY <2>2 DEF SendCommitted, SendWitnessed, PlaceOrder, RetireFence
    <3> QED
      BY <1>1, <3>1, <3>2
  <2>3. CASE SendNotWitnessed(p) \/ JournalFails(p)
    <3>1. \A q \in Procs : Trades(q)' => Trades(q)
      BY <1>0, <2>3 DEF SendNotWitnessed, JournalFails, FailClosed, Goes, HasBroker
    <3>2. owed' \subseteq owed \cup {0}
      BY <2>3, Raises DEF SendNotWitnessed, JournalFails, FailClosed
    <3> QED
      BY <1>1, <3>1, <3>2
  <2>4. CASE HaltCommitted(p) \/ HaltNotWitnessed(p)
    <3>1. \A q \in Procs : Trades(q)' => Trades(q)
      BY <1>0, <2>4 DEF HaltCommitted, HaltNotWitnessed, Goes, HasBroker
    <3>2. owed' \subseteq owed \cup {0}
      BY <2>4, Raises DEF HaltCommitted, HaltNotWitnessed
    <3> QED
      BY <1>1, <3>1, <3>2
  <2>5. CASE HaltWitnessed(p)
    <3>1. pc[p] = "halting" /\ pc' = [pc EXCEPT ![p] = "running"] /\ mode' = mode
      BY <2>5 DEF HaltWitnessed, Goes
    <3>2. \A q \in Procs : q # p => ~HasBroker(q)'
      BY <3>1, OthersIdle DEF HasBroker
    <3>3. mode'[p] = "HALTED"
      BY <1>0, <3>1 DEF TailInv
    <3> QED
      BY <3>2, <3>3 DEF HaltInv
  <2> QED
    BY <1>5, <2>1, <2>2, <2>3, <2>4, <2>5 DEF EngineNext
<1>6. ASSUME NEW p \in Procs, Crash(p) PROVE HaltInv'
  BY <1>3, <1>6 DEF Crash
<1>7. CASE PowerLoss
  BY <1>7 DEF PowerLoss, HaltInv, HasBroker
<1>8. CASE OperatorNext
  <2>1. \A q \in Procs : Trades(q)' => Trades(q)
    BY <1>8 DEF OperatorNext, AckHaltShows, AckHaltWrites, AckHaltLeaves, AckFence, HasBroker
  <2>2. owed' \subseteq owed
    BY <1>8 DEF OperatorNext, AckHaltShows, AckHaltWrites, AckHaltLeaves, AckFence
  <2> QED
    BY <1>1, <2>1, <2>2
<1> QED
  BY <1>2, <1>4, <1>5, <1>6, <1>7, <1>8 DEF Next

-----------------------------------------------------------------------------
(* One host.                                                               *)

Alone == \A p, q \in Procs : p = q

LEMMA AloneKept ==
  ASSUME Alone, HostInv, AloneInv, [Next]_vars
  PROVE  AloneInv'
<1> USE DEF durables, hosts, history
<1>0. /\ pc \in [Procs -> PCs] /\ mode \in [Procs -> Modes] /\ TypeInv /\ TailInv /\ StampInv
      /\ FenceInv
  BY DEF HostInv, TypeInv
<1>1. ASSUME NEW p \in Procs, Gone(p) PROVE AloneInv'
  <2>1. pc'[p] = "off"
    BY <1>0, <1>1 DEF Gone, Goes
  <2> QED
    BY <2>1 DEF Alone, AloneInv
<1> DEFINE Bound(q) == pc[q] # "off" /\ (mode[q] = "NORMAL" \/ ~HasBroker(q))
<1>2. ASSUME 0 \in owed' => 0 \in owed, \A q \in Procs : Bound(q)' => Bound(q)
      PROVE  AloneInv'
  BY <1>2 DEF AloneInv
<1>3. CASE UNCHANGED vars
  BY <1>2, <1>3 DEF vars, HasBroker
<1>4. ASSUME NEW p \in Procs, GatesNext(p) PROVE AloneInv'
  <2>1. CASE GateFence(p)
    BY <1>0, <2>1 DEF GateFence, FenceClear, FenceInv, AloneInv
  <2>2. CASE GateOwnership(p) \/ GateWitness(p) \/ Connect(p)
    <3>1. \A q \in Procs : Bound(q)' => Bound(q)
      <4>1. pc[p] \in {"unfenced", "owner", "verified"}
        BY <2>2 DEF GateOwnership, GateWitness, Connect
      <4>2. Bound(p)
        BY <4>1 DEF HasBroker
      <4> QED
        BY <4>2 DEF Alone
    <3>2. owed' = owed
      BY <2>2 DEF GateOwnership, GateWitness, Connect
    <3> QED
      BY <1>2, <3>1, <3>2
  <2>3. CASE GateWitnessRefuses(p) \/ ConnectFails(p)
    BY <1>1, <2>3 DEF GateWitnessRefuses, ConnectFails
  <2> QED
    BY <1>4, <2>1, <2>2, <2>3 DEF GatesNext
<1>5. ASSUME NEW p \in Procs, EngineNext(p) PROVE AloneInv'
  <2>1. CASE Exit(p)
    BY <1>1, <2>1 DEF Exit
  <2>2. CASE SendCommitted(p) \/ SendWitnessed(p) \/ PlaceOrder(p) \/ RetireFence(p)
             \/ HaltCommitted(p)
    <3>1. \A q \in Procs : Bound(q)' => Bound(q)
      <4>1. CASE SendCommitted(p) \/ SendWitnessed(p) \/ PlaceOrder(p)
        BY <1>0, <4>1 DEF SendCommitted, SendWitnessed, PlaceOrder, Goes, HasBroker
      <4>2. CASE RetireFence(p) \/ HaltCommitted(p)
        BY <1>0, <4>2 DEF RetireFence, HaltCommitted, Goes, HasBroker
      <4> QED
        BY <2>2, <4>1, <4>2
    <3>2. owed' = owed
      BY <2>2 DEF SendCommitted, SendWitnessed, PlaceOrder, RetireFence, HaltCommitted
    <3> QED
      BY <1>2, <3>1, <3>2
  <2>3. CASE SendNotWitnessed(p) \/ JournalFails(p) \/ HaltNotWitnessed(p)
    <3>1. pc'[p] = "running" /\ mode'[p] = "HALTED"
      <4>1. CASE SendNotWitnessed(p) \/ JournalFails(p)
        BY <1>0, <4>1 DEF SendNotWitnessed, JournalFails, FailClosed, Goes
      <4>2. CASE HaltNotWitnessed(p)
        BY <1>0, <4>2 DEF HaltNotWitnessed, Goes, TailInv
      <4> QED
        BY <2>3, <4>1, <4>2
    <3> QED
      BY <3>1 DEF Alone, AloneInv, HasBroker
  <2>4. CASE HaltWitnessed(p)
    <3>1. pc'[p] = "running" /\ mode'[p] = "HALTED"
      BY <1>0, <2>4 DEF HaltWitnessed, Goes, TailInv
    <3> QED
      BY <3>1 DEF Alone, AloneInv, HasBroker
  <2> QED
    BY <1>5, <2>1, <2>2, <2>3, <2>4 DEF EngineNext
<1>6. ASSUME NEW p \in Procs, Crash(p) PROVE AloneInv'
  BY <1>1, <1>6 DEF Crash
<1>7. CASE PowerLoss
  BY <1>7 DEF PowerLoss, AloneInv
<1>8. CASE OperatorNext
  <2>1. \A q \in Procs : Bound(q)' => Bound(q)
    BY <1>8 DEF OperatorNext, AckHaltShows, AckHaltWrites, AckHaltLeaves, AckFence, HasBroker
  <2>2. owed' \subseteq owed
    BY <1>8 DEF OperatorNext, AckHaltShows, AckHaltWrites, AckHaltLeaves, AckFence
  <2> QED
    BY <1>2, <2>1, <2>2
<1> QED
  BY <1>3, <1>4, <1>5, <1>6, <1>7, <1>8 DEF Next

-----------------------------------------------------------------------------
(* The theorems.                                                           *)

LEMMA Starts == ASSUME Init PROVE HostInv /\ AloneInv
<1>1. TypeInv
  <2>1. log \in Seq(Events)
    BY DEF Init
  <2>2. pc \in [Procs -> PCs] /\ mode \in [Procs -> Modes]
    BY DEF Init, PCs, Modes
  <2> QED
    BY <2>1, <2>2 DEF Init, TypeInv
<1>2. StampInv /\ MemoryInv /\ FenceInv
  BY DEF Init, StampInv, MemoryInv, FenceInv
<1>3. LockInv /\ VouchedInv /\ TailInv /\ HaltInv /\ AloneInv
  BY DEF Init, LockInv, VouchedInv, Vouched, TailInv, HaltInv, AloneInv, HasBroker
<1> QED
  BY <1>1, <1>2, <1>3 DEF HostInv

LEMMA Inductive == ASSUME HostInv, [Next]_vars PROVE HostInv'
<1>1. TypeInv' /\ StampInv' /\ MemoryInv'
  BY TypeAndStamp
<1>2. LockInv' /\ VouchedInv' /\ TailInv' /\ FenceInv' /\ HaltInv'
  BY LockKept, VouchedKept, TailKept, FenceKept, HaltKept
<1> QED
  BY <1>1, <1>2 DEF HostInv

(* The inductive invariant holds throughout.                               *)
THEOREM HostSafe == Spec => []HostInv
BY Starts, Inductive, PTL DEF Spec

(* SPEC invariant 2 across storage faults, for any number of hosts: the    *)
(* witness gate lets no engine reach a broker without the journal of every *)
(* order ever placed.                                                      *)
THEOREM AttemptsAreRemembered == Spec => []SendsAreRemembered
<1>1. ASSUME HostInv PROVE SendsAreRemembered
  <2>1. SUFFICES ASSUME NEW p \in Procs, HasBroker(p), NEW e \in placed
                 PROVE  e \in {log[s] : s \in DOMAIN log}
    BY DEF SendsAreRemembered
  <2>2. Vouched /\ TypeInv /\ MemoryInv
    BY <1>1, <2>1 DEF HostInv, VouchedInv, Admitted, HasBroker
  <2>3. witness # None
    BY <2>1, <2>2 DEF MemoryInv
  <2>4. PICK s \in 1..witness.seq : log[s] = e
    BY <2>1, <2>2, <2>3 DEF MemoryInv
  <2>5. s \in DOMAIN log
    BY <2>2, <2>3 DEF Vouched, TypeInv
  <2> QED
    BY <2>4, <2>5
<1> QED
  BY <1>1, HostSafe, PTL

(* SPEC invariant 22, for any number of hosts: an engine that may send     *)
(* owes nobody the acknowledgement of a HALT that was vouched for, over    *)
(* crashes, lost tails and stale acknowledgements.                         *)
THEOREM HaltsAreObeyed ==
  Spec => [](\A p \in Procs : HasBroker(p) /\ mode[p] = "NORMAL" => owed \subseteq {0})
<1>1. HostInv => \A p \in Procs : HasBroker(p) /\ mode[p] = "NORMAL" => owed \subseteq {0}
  BY DEF HostInv, HaltInv
<1> QED
  BY <1>1, HostSafe, PTL

(* With one host on the journal's machine the fence is as good as the      *)
(* HALT: nothing that stopped an engine is forgotten by the next.  With    *)
(* two it is not, since the fence is read before the lock is taken.        *)
THEOREM OneHostLaundersNothing ==
  ASSUME \A p, q \in Procs : p = q
  PROVE  Spec => []NothingIsLaundered
<1>1. ASSUME HostInv, AloneInv PROVE NothingIsLaundered
  BY <1>1 DEF HostInv, HaltInv, AloneInv, NothingIsLaundered, HasBroker
<1>2. Alone
  BY DEF Alone
<1>3. ASSUME HostInv, AloneInv, [Next]_vars PROVE AloneInv'
  BY <1>2, <1>3, AloneKept
<1> QED
  BY <1>1, <1>3, Starts, Inductive, PTL DEF Spec
=============================================================================
