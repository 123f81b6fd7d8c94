------------------------ MODULE ControllerBridge_proofs ------------------------
(***************************************************************************)
(* What becomes of a callback, of a refused write and of a HALT between    *)
(* the broker's loop, the consumer task, the worker thread and the         *)
(* journal's writer, for any queue size, any number of callbacks, commands *)
(* and writes, and any faults.                                             *)
(***************************************************************************)
EXTENDS ControllerBridge, TLAPS, FiniteSetTheorems, SequenceTheorems

Calls == 1 .. Callbacks
Items == Commands \cup Calls
Jobs == Items \cup {OverflowHalt}

LEMMA Apart == None # OverflowHalt /\ None \notin Items /\ OverflowHalt \notin Items
<1>1. None # OverflowHalt
  <2>1. SUFFICES ASSUME None = OverflowHalt PROVE FALSE
    OBVIOUS
  <2>2. {None, OverflowHalt} = {None}
    BY <2>1
  <2>3. Cardinality({None}) = 1
    BY FS_Singleton
  <2> QED
    BY <2>2, <2>3, BridgeAssumption
<1> QED
  BY <1>1, BridgeAssumption DEF Items, Calls

-----------------------------------------------------------------------------
(* The journal.                                                            *)

(* Refusal is for good, and while the journal has not failed the queue     *)
(* holds the caller's request and nothing else that can be committed.      *)
JournalInv ==
  /\ call \in {"idle", "waiting", "ok", "unavailable"}
  /\ failed \in BOOLEAN /\ closed \in BOOLEAN
  /\ wq \in Seq(Requests \cup {"stop"})
  /\ call = "unavailable" => Refuses
  /\ ~failed =>
       /\ call = "waiting" => wq # <<>> /\ Head(wq) \in Requests
       /\ ~closed => Len(wq) = IF call = "waiting" THEN 1 ELSE 0

(* A method waits for the journal when it has asked it; the HALT it waits  *)
(* for is first in the queue, and one that was answered is on disk.        *)
CallInv ==
  /\ job \in {"none", "run", "write", "note", "noteWrite", "halt", "haltWrite"}
  /\ job \in {"write", "noteWrite", "haltWrite"} <=> call # "idle"
  /\ job = "haltWrite" /\ call = "waiting" /\ ~failed => Head(wq) = "halt"
  /\ job = "haltWrite" /\ call = "ok" => onDisk = "halt"

LEMMA JournalStarts == Init => JournalInv /\ CallInv
<1> SUFFICES ASSUME Init PROVE JournalInv /\ CallInv
  OBVIOUS
<1>1. wq = <<>> /\ <<>> \in Seq(Requests \cup {"stop"}) /\ Len(<<>>) = 0
  BY DEF Init, JournalInit
<1>2. /\ failed = FALSE /\ closed = FALSE /\ call = "idle" /\ job = "none"
  BY DEF Init, JournalInit
<1>3. Len(wq) = 0
  BY <1>1
<1>4. JournalInv
  BY <1>1, <1>2, <1>3 DEF JournalInv
<1>5. CallInv
  BY <1>2 DEF CallInv
<1> QED
  BY <1>4, <1>5

(* The method takes the journal's answer.                                   *)
TakesAnswer ==
  /\ call \in {"ok", "unavailable"} /\ call' = "idle"
  /\ UNCHANGED <<wq, writer, failed, closed, onDisk>>

(* A write the method asks for is the only one of an open journal.          *)
LEMMA SubmitKeeps ==
  ASSUME JournalInv, NEW req \in Requests, Submit(req)
  PROVE  /\ JournalInv' /\ onDisk' = onDisk
         /\ call' \in {"waiting", "unavailable"} /\ call = "idle"
         /\ call' = "waiting" /\ ~failed' => Head(wq') = req
         /\ Refuses => call' = "unavailable"
         /\ call' = "unavailable" => Refuses'
<1>1. CASE Refuses
  BY <1>1 DEF Submit, JournalInv, Refuses
<1>2. CASE ~Refuses
  <2>1. wq = <<>>
    <3>1. Len(wq) = 0 /\ wq \in Seq(Requests \cup {"stop"})
      BY <1>2 DEF Submit, JournalInv, Refuses
    <3> QED
      BY <3>1
  <2>2. /\ call = "idle" /\ call' = "waiting" /\ wq' = Append(wq, req)
        /\ UNCHANGED <<failed, writer, closed, onDisk>>
    BY <1>2 DEF Submit
  <2>3. /\ wq' \in Seq(Requests \cup {"stop"}) /\ Len(wq') = 1 /\ Head(wq') = req /\ wq' # <<>>
    BY <2>1, <2>2
  <2> QED
    BY <1>2, <2>2, <2>3 DEF JournalInv, Refuses
<1> QED
  BY <1>1, <1>2

LEMMA TakingKeeps ==
  ASSUME JournalInv, TakesAnswer
  PROVE  JournalInv'
BY DEF JournalInv, TakesAnswer, Refuses

LEMMA JournalKeeps ==
  ASSUME JournalInv, JournalNext
  PROVE  /\ JournalInv'
         /\ Refuses => Refuses'
         /\ call' # "idle" <=> call # "idle"
         /\ call = "unavailable" => call' = "unavailable"
         /\ onDisk = "halt" => onDisk' = "halt"
         /\ call' = "waiting" /\ ~failed' => Head(wq') = Head(wq) /\ call = "waiting" /\ ~failed
         /\ call' = "ok" =>
              \/ call = "ok"
              \/ call = "waiting" /\ ~failed /\ (Head(wq) = "halt" => onDisk' = "halt")
<1> USE DEF JournalInv, Refuses
<1>0. wq # <<>> => /\ Tail(wq) \in Seq(Requests \cup {"stop"}) /\ Len(Tail(wq)) = Len(wq) - 1
                   /\ Len(wq) \in Nat /\ Len(wq) # 0
  BY DEF JournalInv
<1>1. CASE WriterCommits
  <2>1. CASE call = "waiting" /\ ~failed
    BY <1>0, <1>1, <2>1 DEF WriterCommits, Answer, Landed
  <2>2. CASE ~(call = "waiting" /\ ~failed)
    BY <1>0, <1>1, <2>2 DEF WriterCommits, Answer, Landed
  <2> QED
    BY <2>1, <2>2
<1>2. CASE WriterFails
  <2>1. CASE call = "waiting" /\ ~failed
    BY <1>0, <1>2, <2>1 DEF WriterFails, Answer
  <2>2. CASE ~(call = "waiting" /\ ~failed)
    BY <1>0, <1>2, <2>2 DEF WriterFails, Answer
  <2> QED
    BY <2>1, <2>2
<1>3. CASE CallTimesOut
  BY <1>3 DEF CallTimesOut
<1>4. CASE WriterDies
  <2>1. <<>> \in Seq(Requests \cup {"stop"})
    OBVIOUS
  <2> QED
    BY <1>4, <2>1 DEF WriterDies
<1>5. CASE WriterExits
  <2>1. CASE UNCHANGED wq
    BY <1>5, <2>1 DEF WriterExits
  <2>2. CASE wq # <<>> /\ Head(wq) = "stop" /\ wq' = Tail(wq)
    BY <1>0, <1>5, <2>2 DEF WriterExits, Requests
  <2> QED
    BY <1>5, <2>1, <2>2 DEF WriterExits
<1>6. CASE CloseJournal
  <2>1. CASE UNCHANGED wq
    BY <1>6, <2>1 DEF CloseJournal
  <2>2. CASE wq' = Append(wq, "stop")
    <3>1. /\ wq' \in Seq(Requests \cup {"stop"}) /\ wq' # <<>>
          /\ wq # <<>> => Head(wq') = Head(wq)
      BY <2>2
    <3> QED
      BY <1>6, <3>1 DEF CloseJournal
  <2> QED
    BY <1>6, <2>1, <2>2 DEF CloseJournal
<1> QED
  BY <1>1, <1>2, <1>3, <1>4, <1>5, <1>6 DEF JournalNext

LEMMA CallStep == JournalInv /\ CallInv /\ [Next]_bvars => JournalInv' /\ CallInv'
<1> SUFFICES ASSUME JournalInv, CallInv, [Next]_bvars PROVE JournalInv' /\ CallInv'
  OBVIOUS
<1> USE DEF CallInv
<1>1. ASSUME UNCHANGED jvars,
             job' = job \/ {job, job'} \subseteq {"none", "run", "note", "halt"}
      PROVE  JournalInv' /\ CallInv'
  BY <1>1 DEF jvars, JournalInv, Refuses
<1>2. CASE UNCHANGED bvars
  BY <1>1, <1>2 DEF bvars, bridgeVars
<1>3. CASE Journaling
  <2>1. JournalNext /\ job' = job
    BY <1>3 DEF Journaling, bridgeVars
  <2> QED
    BY <2>1, JournalKeeps
<1>4. CASE IngressNext
  <2>1. UNCHANGED <<jvars, job>>
    BY <1>4 DEF IngressNext, Post, PutNow, PutterGoesOn, Request, loopFrame
  <2> QED
    BY <1>1, <2>1
<1>5. CASE TaskNext
  BY <1>1, <1>5 DEF TaskNext, Consume, ConsumerResumes
<1>6. CASE EndNext
  BY <1>1, <1>6 DEF EndNext, Cancelled, Close, CloseShutsDown, CloseReturns
<1>7. CASE StartJob \/ MethodReturns \/ MethodRaises
  BY <1>1, <1>7 DEF StartJob, MethodReturns, MethodRaises, Ends
<1>8. CASE Write \/ NoteFailure
  BY <1>8, SubmitKeeps DEF Write, NoteFailure, Requests
<1>9. CASE HaltInMemory
  BY <1>9, SubmitKeeps DEF HaltInMemory, Requests
<1>10. CASE WriteReturns \/ NoteReturns \/ HaltReturns
  <2>1. TakesAnswer /\ job' \in {"none", "run", "halt"}
    BY <1>10 DEF TakesAnswer, WriteReturns, NoteReturns, HaltReturns, Ends
  <2> QED
    BY <2>1, TakingKeeps DEF TakesAnswer
<1> QED
  BY <1>2, <1>3, <1>4, <1>5, <1>6, <1>7, <1>8, <1>9, <1>10 DEF Next, WorkNext

-----------------------------------------------------------------------------
(* Sequences of items, of which the callbacks are numbers in the order of  *)
(* their delivery.                                                         *)

Inc(s) ==
  \A i, j \in 1 .. Len(s) : i < j /\ s[i] \in Calls /\ s[j] \in Calls => s[i] < s[j]
Below(s, t) ==
  \A i \in 1 .. Len(s), j \in 1 .. Len(t) : s[i] \in Calls /\ t[j] \in Calls => s[i] < t[j]
UpTo(s, n) == \A i \in 1 .. Len(s) : s[i] \in Calls => s[i] <= n
Before(x, t) == \A j \in 1 .. Len(t) : x \in Calls /\ t[j] \in Calls => x < t[j]
After(s, x) == \A i \in 1 .. Len(s) : s[i] \in Calls /\ x \in Calls => s[i] < x

LEMMA Taken ==
  ASSUME NEW S, NEW s \in Seq(S), s # <<>>
  PROVE  /\ Head(s) = s[1] /\ Head(s) \in S /\ Tail(s) \in Seq(S)
         /\ Len(s) \in Nat \ {0} /\ Len(Tail(s)) = Len(s) - 1
         /\ \A i \in 1 .. Len(Tail(s)) : Tail(s)[i] = s[i + 1] /\ i + 1 \in 1 .. Len(s)
BY HeadTailProperties, EmptySeq

LEMMA IncTail ==
  ASSUME NEW S, NEW s \in Seq(S), s # <<>>, Inc(s)
  PROVE  Inc(Tail(s)) /\ Before(Head(s), Tail(s))
<1> DEFINE t == Tail(s)
<1>1. /\ Head(s) = s[1] /\ Len(s) \in Nat \ {0} /\ Len(t) = Len(s) - 1
      /\ \A i \in 1 .. Len(t) : t[i] = s[i + 1] /\ i + 1 \in 1 .. Len(s)
  BY Taken
<1> HIDE DEF t
<1>2. Inc(t)
  BY <1>1 DEF Inc
<1>3. Before(s[1], t)
  BY <1>1 DEF Inc, Before
<1> QED
  BY <1>1, <1>2, <1>3 DEF t

LEMMA IncAppend ==
  ASSUME NEW S, NEW s \in Seq(S), NEW x \in S, Inc(s), After(s, x)
  PROVE  Inc(Append(s, x))
<1> DEFINE t == Append(s, x)
<1>1. /\ Len(s) \in Nat /\ Len(t) = Len(s) + 1 /\ t[Len(s) + 1] = x
      /\ \A i \in 1 .. Len(s) : t[i] = s[i]
  BY AppendProperties, LenProperties
<1> HIDE DEF t
<1>2. Inc(t)
  BY <1>1 DEF Inc, After
<1> QED
  BY <1>2 DEF t

LEMMA BelowTail ==
  ASSUME NEW S, NEW s \in Seq(S), NEW t \in Seq(S), s # <<>>
  PROVE  /\ Below(s, t) => Below(Tail(s), t) /\ Before(Head(s), t)
         /\ Below(t, s) => Below(t, Tail(s)) /\ After(t, Head(s))
<1> DEFINE u == Tail(s)
<1>1. /\ Head(s) = s[1] /\ Len(s) \in Nat \ {0} /\ Len(u) = Len(s) - 1
      /\ \A i \in 1 .. Len(u) : u[i] = s[i + 1] /\ i + 1 \in 1 .. Len(s)
  BY Taken
<1> HIDE DEF u
<1>2. /\ Below(s, t) => Below(u, t)
      /\ Below(t, s) => Below(t, u)
  BY <1>1 DEF Below
<1>3. /\ Below(s, t) => Before(s[1], t)
      /\ Below(t, s) => After(t, s[1])
  BY <1>1 DEF Below, Before, After
<1> QED
  BY <1>1, <1>2, <1>3 DEF u

LEMMA BelowAppend ==
  ASSUME NEW S, NEW s \in Seq(S), NEW t \in Seq(S), NEW x \in S
  PROVE  /\ Below(s, t) /\ Before(x, t) => Below(Append(s, x), t)
         /\ Below(t, s) /\ After(t, x) => Below(t, Append(s, x))
<1> DEFINE u == Append(s, x)
<1>1. /\ Len(s) \in Nat /\ Len(u) = Len(s) + 1 /\ u[Len(s) + 1] = x
      /\ \A i \in 1 .. Len(s) : u[i] = s[i]
  BY AppendProperties, LenProperties
<1> HIDE DEF u
<1>2. /\ Below(s, t) /\ Before(x, t) => Below(u, t)
      /\ Below(t, s) /\ After(t, x) => Below(t, u)
  BY <1>1 DEF Below, Before, After
<1> QED
  BY <1>2 DEF u

LEMMA UpToMoves ==
  ASSUME NEW S, NEW s \in Seq(S), NEW n \in Nat, UpTo(s, n)
  PROVE  /\ UpTo(s, n + 1) /\ After(s, n + 1)
         /\ s # <<>> => UpTo(Tail(s), n) /\ (Head(s) \in Calls => Head(s) <= n)
         /\ \A x \in S : (x \in Calls => x <= n) => UpTo(Append(s, x), n)
<1>1. UpTo(s, n + 1) /\ After(s, n + 1)
  BY BridgeAssumption DEF UpTo, After, Calls
<1>2. ASSUME s # <<>> PROVE UpTo(Tail(s), n) /\ (Head(s) \in Calls => Head(s) <= n)
  <2> DEFINE u == Tail(s)
  <2>1. /\ Head(s) = s[1] /\ Len(s) \in Nat \ {0} /\ Len(u) = Len(s) - 1
        /\ \A i \in 1 .. Len(u) : u[i] = s[i + 1] /\ i + 1 \in 1 .. Len(s)
    BY <1>2, Taken
  <2> HIDE DEF u
  <2>2. UpTo(u, n) /\ (Head(s) \in Calls => Head(s) <= n)
    BY <2>1 DEF UpTo
  <2> QED
    BY <2>2 DEF u
<1>3. ASSUME NEW x \in S, x \in Calls => x <= n PROVE UpTo(Append(s, x), n)
  <2> DEFINE u == Append(s, x)
  <2>1. /\ Len(s) \in Nat /\ Len(u) = Len(s) + 1 /\ u[Len(s) + 1] = x
        /\ \A i \in 1 .. Len(s) : u[i] = s[i]
    BY AppendProperties, LenProperties
  <2> HIDE DEF u
  <2>2. UpTo(u, n)
    BY <2>1, <1>3 DEF UpTo
  <2> QED
    BY <2>2 DEF u
<1> QED
  BY <1>1, <1>2, <1>3

-----------------------------------------------------------------------------
(* The parties: what they hold, and who waits for whom.                     *)

TypeInv ==
  /\ posted \in Nat /\ posted <= Callbacks
  /\ soon \in Seq(Calls) /\ putters \in Seq(Commands) /\ queue \in Seq(Items)
  /\ pool \in Seq(Jobs) /\ handled \in Seq(Items)
  /\ consumer \in {"get", "await", "dead"} /\ item \in Items \cup {None}
  /\ closing \in {"no", "cancelling", "shutdown", "done"}
  /\ lost \subseteq Calls /\ overflowed \in BOOLEAN

(* A job of the executor that has not started.                             *)
Waits(i) == i = 1 => job = "none"

(* A callback that waits in the executor is the item the task awaits; the  *)
(* running job is the executor's first, and the HALT of an overflow only   *)
(* writes a HALT.                                                          *)
WaitInv ==
  /\ \A j \in 1 .. Len(pool) :
       Waits(j) /\ pool[j] \in Calls =>
         pool[j] = item /\ consumer = "await" /\ outcome = None
  /\ consumer = "await" => item # None
  /\ consumer # "await" => item = None /\ outcome = None
  /\ job # "none" => Len(pool) > 0
  /\ job \in {"run", "write", "note", "noteWrite"} => pool[1] # OverflowHalt
  /\ job = "haltWrite" => mode = "HALTED"
  /\ closing \in {"shutdown", "done"} => consumer = "dead"

LEMMA Known == /\ Calls \subseteq Nat /\ Calls \subseteq Items /\ Items \subseteq Jobs
               /\ Commands \subseteq Items /\ OverflowHalt \in Jobs /\ OverflowHalt \notin Items
               /\ None \notin Items /\ OverflowHalt # None
               /\ Items \ Commands = Calls /\ Callbacks \in Nat
               /\ None # "ok" /\ None # "unavailable"
BY Apart, BridgeAssumption DEF Calls, Items, Jobs

LEMMA TypeStarts == Init => TypeInv /\ WaitInv
<1> SUFFICES ASSUME Init PROVE TypeInv /\ WaitInv
  OBVIOUS
<1>1. /\ soon = <<>> /\ queue = <<>> /\ putters = <<>> /\ pool = <<>> /\ handled = <<>>
      /\ Len(pool) = 0
  BY DEF Init
<1>2. /\ <<>> \in Seq(Calls) /\ <<>> \in Seq(Commands) /\ <<>> \in Seq(Items)
      /\ <<>> \in Seq(Jobs)
  BY EmptySeq
<1>5. /\ posted = 0 /\ 0 \in Nat /\ 0 <= Callbacks /\ consumer = "get" /\ item = None
      /\ closing = "no" /\ lost = {} /\ overflowed = FALSE
  BY BridgeAssumption DEF Init
<1>3. TypeInv
  BY <1>1, <1>2, <1>5 DEF TypeInv
<1>4. WaitInv
  BY <1>1 DEF Init, WaitInv
<1> QED
  BY <1>3, <1>4

(* The executor loses a job that has not started, or none.                  *)
LEMMA Withdrawn ==
  ASSUME TypeInv, Withdraw
  PROVE  /\ pool' \in Seq(Jobs)
         /\ \/ /\ pool' = pool
               /\ \A j \in 1 .. Len(pool) : ~(pool[j] = item /\ Waits(j))
            \/ \E i \in 1 .. Len(pool) :
                 /\ pool[i] = item /\ Waits(i) /\ Len(pool') = Len(pool) - 1
                 /\ \A j \in 1 .. Len(pool') : pool'[j] = IF j < i THEN pool[j] ELSE pool[j + 1]
<1> DEFINE Mine(i) == pool[i] = item /\ (i = 1 => job = "none")
<1>1. pool \in Seq(Jobs) /\ Len(pool) \in Nat
  BY LenProperties DEF TypeInv
<1>2. CASE \A i \in 1 .. Len(pool) : ~Mine(i)
  <2>1. pool' = pool
    BY <1>2 DEF Withdraw
  <2> QED
    BY <1>1, <1>2, <2>1 DEF Waits
<1>3. CASE \E i \in 1 .. Len(pool) : Mine(i)
  <2>1. PICK i \in 1 .. Len(pool) :
          Mine(i) /\ pool' = SubSeq(pool, 1, i - 1) \o SubSeq(pool, i + 1, Len(pool))
    BY <1>3 DEF Withdraw
  <2> DEFINE a == SubSeq(pool, 1, i - 1)
             b == SubSeq(pool, i + 1, Len(pool))
  <2>2. \A j \in 1 .. Len(pool) : pool[j] \in Jobs
    BY <1>1, ElementOfSeq
  <2>3. /\ a \in Seq(Jobs) /\ Len(a) = i - 1
        /\ \A j \in 1 .. i - 1 : a[j] = pool[j]
    <3>1. /\ a \in Seq(Jobs)
          /\ Len(a) = IF 1 <= i - 1 THEN i - 1 - 1 + 1 ELSE 0
          /\ \A j \in 1 .. i - 1 - 1 + 1 : a[j] = pool[1 + j - 1]
      BY <1>1, <2>2, SubSeqProperties
    <3> QED
      BY <1>1, <3>1
  <2>4. /\ b \in Seq(Jobs) /\ Len(b) = Len(pool) - i
        /\ \A j \in 1 .. Len(pool) - i : b[j] = pool[i + j]
    <3>1. /\ b \in Seq(Jobs)
          /\ Len(b) = IF i + 1 <= Len(pool) THEN Len(pool) - (i + 1) + 1 ELSE 0
          /\ \A j \in 1 .. Len(pool) - (i + 1) + 1 : b[j] = pool[(i + 1) + j - 1]
      BY <1>1, <2>2, SubSeqProperties
    <3> QED
      BY <1>1, <3>1
  <2> HIDE DEF a, b
  <2>5. /\ a \o b \in Seq(Jobs) /\ Len(a \o b) = Len(a) + Len(b)
        /\ \A j \in 1 .. Len(a) + Len(b) :
             (a \o b)[j] = IF j <= Len(a) THEN a[j] ELSE b[j - Len(a)]
    BY <2>3, <2>4, ConcatProperties
  <2>6. pool' = a \o b
    BY <2>1 DEF a, b
  <2>7. /\ pool' \in Seq(Jobs) /\ Len(pool') = Len(pool) - 1
        /\ \A j \in 1 .. Len(pool') : pool'[j] = IF j < i THEN pool[j] ELSE pool[j + 1]
    <3>1. /\ pool' \in Seq(Jobs) /\ Len(pool') = Len(pool) - 1
      BY <1>1, <2>3, <2>4, <2>5, <2>6
    <3>2. ASSUME NEW j \in 1 .. Len(pool'), j < i PROVE pool'[j] = pool[j]
      BY <1>1, <2>3, <2>4, <2>5, <2>6, <3>1, <3>2
    <3>3. ASSUME NEW j \in 1 .. Len(pool'), ~(j < i) PROVE pool'[j] = pool[j + 1]
      <4>1. pool'[j] = b[j - (i - 1)]
        BY <1>1, <2>3, <2>4, <2>5, <2>6, <3>1, <3>3
      <4>2. j - (i - 1) \in 1 .. Len(pool) - i /\ i + (j - (i - 1)) = j + 1
        BY <1>1, <3>1, <3>3
      <4> QED
        BY <2>4, <4>1, <4>2
    <3> QED
      BY <3>1, <3>2, <3>3
  <2> QED
    BY <2>1, <2>7 DEF Waits
<1> QED
  BY <1>2, <1>3

(* shutdown leaves the executor the running job.                            *)
LEMMA Trimmed ==
  ASSUME TypeInv, WaitInv, CloseShutsDown
  PROVE  /\ pool' \in Seq(Jobs)
         /\ job = "none" => Len(pool') = 0
         /\ job # "none" => Len(pool') = 1 /\ pool'[1] = pool[1]
<1>1. pool \in Seq(Jobs) /\ Len(pool) \in Nat
  BY LenProperties DEF TypeInv
<1>2. CASE job = "none"
  BY <1>2, EmptySeq DEF CloseShutsDown
<1>3. CASE job # "none"
  <2>1. Len(pool) > 0 /\ \A j \in 1 .. 1 : pool[j] \in Jobs
    BY <1>1, <1>3, ElementOfSeq DEF WaitInv
  <2>2. /\ SubSeq(pool, 1, 1) \in Seq(Jobs)
        /\ Len(SubSeq(pool, 1, 1)) = IF 1 <= 1 THEN 1 - 1 + 1 ELSE 0
        /\ \A i \in 1 .. 1 - 1 + 1 : SubSeq(pool, 1, 1)[i] = pool[1 + i - 1]
    BY <2>1, SubSeqProperties
  <2>3. pool' = SubSeq(pool, 1, 1)
    BY <1>3 DEF CloseShutsDown
  <2> QED
    BY <1>3, <2>2, <2>3
<1> QED
  BY <1>2, <1>3

LEMMA TypeStep == TypeInv /\ WaitInv /\ [Next]_bvars => TypeInv'
<1> SUFFICES ASSUME TypeInv, WaitInv, [Next]_bvars PROVE TypeInv'
  OBVIOUS
<1> USE Known
<1>0. /\ posted \in Nat /\ posted <= Callbacks
      /\ soon \in Seq(Calls) /\ putters \in Seq(Commands) /\ queue \in Seq(Items)
      /\ pool \in Seq(Jobs) /\ handled \in Seq(Items)
      /\ consumer \in {"get", "await", "dead"} /\ item \in Items \cup {None}
      /\ closing \in {"no", "cancelling", "shutdown", "done"}
      /\ lost \subseteq Calls /\ overflowed \in BOOLEAN
  BY DEF TypeInv
<1>1. CASE UNCHANGED bridgeVars
  BY <1>1 DEF bridgeVars, TypeInv
<1>2. CASE Post
  <2>1. posted' = posted + 1 /\ posted' \in Nat /\ posted' <= Callbacks /\ posted' \in Calls
    BY <1>0, <1>2 DEF Post, Calls
  <2>2. Append(soon, posted') \in Seq(Calls)
    BY <1>0, <2>1, AppendProperties
  <2>3. /\ soon' \in {soon, Append(soon, posted')}
        /\ UNCHANGED <<putters, queue, pool, handled, consumer, item, closing, lost, overflowed>>
    BY <1>2 DEF Post, loopFrame
  <2> QED
    BY <1>0, <2>1, <2>2, <2>3 DEF TypeInv
<1>3. CASE PutNow
  <2>1. Head(soon) \in Calls /\ Tail(soon) \in Seq(Calls)
    BY <1>0, <1>3, Taken DEF PutNow
  <2>2. Append(queue, Head(soon)) \in Seq(Items) /\ Append(pool, OverflowHalt) \in Seq(Jobs)
    BY <1>0, <2>1, AppendProperties
  <2>3. /\ soon' = Tail(soon) /\ queue' \in {queue, Append(queue, Head(soon))}
        /\ pool' \in {pool, Append(pool, OverflowHalt)}
        /\ lost' \in {lost, lost \cup {Head(soon)}} /\ overflowed' \in {overflowed, TRUE}
        /\ UNCHANGED <<posted, putters, handled, consumer, item, closing>>
    BY <1>3 DEF PutNow, Overflow, SubmitHalt, loopFrame
  <2> QED
    BY <1>0, <2>1, <2>2, <2>3 DEF TypeInv
<1>4. CASE PutterGoesOn
  <2>1. Head(putters) \in Commands /\ Tail(putters) \in Seq(Commands)
    BY <1>0, <1>4, Taken DEF PutterGoesOn
  <2>2. Append(queue, Head(putters)) \in Seq(Items)
    BY <1>0, <2>1, AppendProperties
  <2> QED
    BY <1>0, <1>4, <2>1, <2>2 DEF PutterGoesOn, loopFrame, TypeInv
<1>5. ASSUME NEW c \in Commands, Request(c) PROVE TypeInv'
  <2>1. Append(putters, c) \in Seq(Commands) /\ Append(queue, c) \in Seq(Items)
    BY <1>0, AppendProperties
  <2>2. /\ putters' \in {putters, Append(putters, c)} /\ queue' \in {queue, Append(queue, c)}
        /\ UNCHANGED <<posted, soon, pool, handled, consumer, item, closing, lost, overflowed>>
    BY <1>5 DEF Request, loopFrame
  <2> QED
    BY <1>0, <2>1, <2>2 DEF TypeInv
<1>6. CASE Consume
  <2>1. Head(queue) \in Items /\ Tail(queue) \in Seq(Items)
    BY <1>0, <1>6, Taken DEF Consume
  <2>2. Append(pool, Head(queue)) \in Seq(Jobs)
    BY <1>0, <2>1, AppendProperties
  <2> QED
    BY <1>0, <1>6, <2>1, <2>2 DEF Consume, ingressFrame, TypeInv
<1>7. CASE ConsumerResumes
  BY <1>0, <1>7 DEF ConsumerResumes, ingressFrame, TypeInv
<1>8. CASE StartJob
  <2>1. pool # <<>> /\ Head(pool) \in Jobs
    BY <1>0, <1>8, Taken DEF StartJob
  <2>2. Head(pool) # OverflowHalt => Append(handled, Head(pool)) \in Seq(Items)
    BY <1>0, <2>1, AppendProperties DEF Jobs
  <2>3. /\ handled' = IF Head(pool) = OverflowHalt THEN handled ELSE Append(handled, Head(pool))
        /\ UNCHANGED <<posted, soon, putters, queue, pool, consumer, item, closing, lost,
                       overflowed>>
    BY <1>8 DEF StartJob, workFrame, ingressFrame
  <2> QED
    BY <1>0, <2>2, <2>3 DEF TypeInv
<1>9. CASE Write \/ NoteFailure \/ HaltInMemory \/ NoteReturns
  BY <1>0, <1>9 DEF Write, NoteFailure, HaltInMemory, NoteReturns, workFrame, ingressFrame, TypeInv
<1>10. CASE WriteReturns \/ HaltReturns \/ MethodReturns \/ MethodRaises
  <2>1. job # "none" => Tail(pool) \in Seq(Jobs)
    <3>1. job # "none" => pool # <<>>
      BY EmptySeq DEF WaitInv
    <3> QED
      BY <1>0, <3>1, Taken
  <2>2. /\ job # "none" /\ pool' \in {pool, Tail(pool)}
        /\ UNCHANGED <<posted, soon, putters, queue, handled, consumer, item, closing, lost,
                       overflowed>>
    BY <1>10 DEF WriteReturns, HaltReturns, MethodReturns, MethodRaises, Ends, workFrame,
                 ingressFrame
  <2> QED
    BY <1>0, <2>1, <2>2 DEF TypeInv
<1>11. CASE Cancelled \/ Close
  <2>1. pool' \in Seq(Jobs) /\ consumer' \in {"get", "dead"} /\ item' \in Items \cup {None}
    BY <1>0, <1>11, Withdrawn DEF Cancelled, Close, CancelConsumer
  <2> QED
    BY <1>0, <1>11, <2>1 DEF Cancelled, Close, ingressFrame, TypeInv
<1>12. CASE CloseShutsDown
  BY <1>0, <1>12, Trimmed DEF CloseShutsDown, ingressFrame, TypeInv
<1>13. CASE CloseReturns
  BY <1>0, <1>13 DEF CloseReturns, ingressFrame, TypeInv
<1> QED
  BY <1>1, <1>2, <1>3, <1>4, <1>5, <1>6, <1>7, <1>8, <1>9, <1>10, <1>11, <1>12, <1>13
     DEF Next, Journaling, IngressNext, TaskNext, WorkNext, EndNext, bvars

LEMMA PoolAppends ==
  ASSUME TypeInv, NEW x \in Jobs, pool' = Append(pool, x)
  PROVE  /\ Len(pool) \in Nat /\ Len(pool') = Len(pool) + 1 /\ pool'[Len(pool) + 1] = x
         /\ \A j \in 1 .. Len(pool) : pool'[j] = pool[j]
BY AppendProperties, LenProperties DEF TypeInv

LEMMA PoolPops ==
  ASSUME TypeInv, Len(pool) > 0, pool' = Tail(pool)
  PROVE  /\ Len(pool) \in Nat \ {0} /\ Len(pool') = Len(pool) - 1 /\ Head(pool) = pool[1]
         /\ \A j \in 1 .. Len(pool') : pool'[j] = pool[j + 1] /\ j + 1 \in 1 .. Len(pool)
<1>1. pool \in Seq(Jobs) /\ pool # <<>>
  BY EmptySeq DEF TypeInv
<1> QED
  BY <1>1, Taken

(* The worker thread is over with a job and tells whoever awaits it.        *)
WorkEnds == WriteReturns \/ HaltReturns \/ MethodReturns \/ MethodRaises

LEMMA EndsOrNot ==
  ASSUME WorkEnds
  PROVE  /\ job \in {"run", "write", "haltWrite"}
         /\ UNCHANGED <<ingressFrame, queue, consumer, item, closing, handled>>
         /\ mode' # mode => mode' = "HALTED"
         /\ \/ UNCHANGED <<pool, outcome>> /\ job' \in {"run", "note"}
               /\ job \in {"run", "write"}
            \/ /\ job' = "none" /\ pool' = Tail(pool)
               /\ outcome' # outcome => item = Head(pool)
BY DEF WorkEnds, WriteReturns, HaltReturns, MethodReturns, MethodRaises, Ends, FailClosed, workFrame

(* A task that gives up leaves no callback in the executor but the one that *)
(* runs, and every HALT in its place.                                       *)
LEMMA WithdrawnIsGone ==
  ASSUME TypeInv, WaitInv, Inc(pool), Withdraw
  PROVE  /\ Len(pool') \in Nat
         /\ \A j \in 1 .. Len(pool') : Waits(j) => pool'[j] \notin Calls
         /\ job # "none" => Len(pool') > 0 /\ pool'[1] = pool[1]
         /\ \A k \in 1 .. Len(pool) :
              pool[k] = OverflowHalt => \E j \in 1 .. Len(pool') : pool'[j] = OverflowHalt
<1> USE Known
<1>1. /\ Len(pool) \in Nat /\ item # OverflowHalt
      /\ \A j \in 1 .. Len(pool) : Waits(j) /\ pool[j] \in Calls => pool[j] = item
      /\ job # "none" => Len(pool) > 0
  BY LenProperties DEF TypeInv, WaitInv
<1>2. CASE /\ pool' = pool
           /\ \A j \in 1 .. Len(pool) : ~(pool[j] = item /\ Waits(j))
  BY <1>1, <1>2
<1>3. ASSUME NEW i \in 1 .. Len(pool),
             pool[i] = item, Waits(i), Len(pool') = Len(pool) - 1,
             \A j \in 1 .. Len(pool') : pool'[j] = IF j < i THEN pool[j] ELSE pool[j + 1]
      PROVE  /\ Len(pool') \in Nat
             /\ \A j \in 1 .. Len(pool') : Waits(j) => pool'[j] \notin Calls
             /\ job # "none" => Len(pool') > 0 /\ pool'[1] = pool[1]
             /\ \A k \in 1 .. Len(pool) :
                  pool[k] = OverflowHalt => \E j \in 1 .. Len(pool') : pool'[j] = OverflowHalt
  <2>1. Len(pool') \in Nat
    BY <1>1, <1>3
  <2>2. ASSUME NEW j \in 1 .. Len(pool'), Waits(j), pool'[j] \in Calls PROVE FALSE
    <3>1. CASE j < i
      <4>1. j \in 1 .. Len(pool) /\ pool[j] \in Calls
        BY <1>1, <1>3, <2>2, <3>1
      <4>2. pool[j] = item
        BY <1>1, <2>2, <4>1
      <4> QED
        BY <1>3, <3>1, <4>1, <4>2 DEF Inc, Calls
    <3>2. CASE ~(j < i)
      <4>1. j + 1 \in 1 .. Len(pool) /\ pool[j + 1] \in Calls /\ Waits(j + 1) /\ i < j + 1
        BY <1>1, <1>3, <2>2, <3>2 DEF Waits
      <4>2. pool[j + 1] = item
        BY <1>1, <4>1
      <4> QED
        BY <1>3, <4>1, <4>2 DEF Inc, Calls
    <3> QED
      BY <3>1, <3>2
  <2>3. ASSUME job # "none" PROVE Len(pool') > 0 /\ pool'[1] = pool[1]
    BY <1>1, <1>3, <2>3 DEF Waits
  <2>4. ASSUME NEW k \in 1 .. Len(pool), pool[k] = OverflowHalt
        PROVE  \E j \in 1 .. Len(pool') : pool'[j] = OverflowHalt
    <3>1. CASE k < i
      <4>1. k \in 1 .. Len(pool') /\ pool'[k] = OverflowHalt
        BY <1>1, <1>3, <2>4, <3>1
      <4> QED
        BY <4>1
    <3>2. CASE ~(k < i)
      <4>1. k - 1 \in 1 .. Len(pool') /\ ~(k - 1 < i) /\ (k - 1) + 1 = k
        BY <1>1, <1>3, <2>4, <3>2
      <4>2. pool'[k - 1] = OverflowHalt
        BY <1>3, <2>4, <4>1
      <4> QED
        BY <4>1, <4>2
    <3> QED
      BY <3>1, <3>2
  <2> QED
    BY <2>1, <2>2, <2>3, <2>4
<1> QED
  BY <1>2, <1>3, Withdrawn

LEMMA WaitStep ==
  ASSUME TypeInv, WaitInv, Inc(pool), [Next]_bvars
  PROVE  WaitInv'
<1> USE Known
<1>0. /\ \A j \in 1 .. Len(pool) :
           Waits(j) /\ pool[j] \in Calls =>
             pool[j] = item /\ consumer = "await" /\ outcome = None
      /\ consumer = "await" => item # None
      /\ consumer # "await" => item = None /\ outcome = None
      /\ job # "none" => Len(pool) > 0
      /\ job \in {"run", "write", "note", "noteWrite"} => pool[1] # OverflowHalt
      /\ job = "haltWrite" => mode = "HALTED"
      /\ closing \in {"shutdown", "done"} => consumer = "dead"
  BY DEF WaitInv
<1>i. item \in Items \cup {None} /\ consumer \in {"get", "await", "dead"}
  BY DEF TypeInv
<1>1. ASSUME UNCHANGED <<pool, consumer, item, outcome, closing>>,
             job' = job \/ (job # "none" /\ job' # "none" /\ job' \notin {"run", "write", "note",
                            "noteWrite", "haltWrite"})
                        \/ (job \in {"run", "write", "note", "noteWrite"}
                              /\ job' \in {"run", "write", "note", "noteWrite"})
                        \/ (job # "none" /\ job' = "haltWrite" /\ mode' = "HALTED"),
             mode' = mode \/ mode' = "HALTED"
      PROVE  WaitInv'
  BY <1>0, <1>1 DEF WaitInv, Waits
<1>2. CASE UNCHANGED bridgeVars
  BY <1>1, <1>2 DEF bridgeVars
<1>3. CASE IngressNext
  <2>1. UNCHANGED <<consumer, item, outcome, closing, job>> /\ (mode' = mode \/ mode' = "HALTED")
    BY <1>3 DEF IngressNext, Post, PutNow, PutterGoesOn, Request, FailClosed, loopFrame
  <2>2. pool' = pool \/ pool' = Append(pool, OverflowHalt)
    BY <1>3 DEF IngressNext, Post, PutNow, PutterGoesOn, Request, Overflow, SubmitHalt
  <2>3. CASE pool' = Append(pool, OverflowHalt)
    <3>1. /\ Len(pool) \in Nat /\ Len(pool') = Len(pool) + 1
          /\ pool'[Len(pool) + 1] = OverflowHalt
          /\ \A j \in 1 .. Len(pool) : pool'[j] = pool[j]
      BY <2>3, PoolAppends
    <3> QED
      BY <1>0, <2>1, <3>1 DEF WaitInv, Waits
  <2> QED
    BY <1>1, <2>1, <2>2, <2>3
<1>4. CASE Consume
  <2>1. queue \in Seq(Items) /\ queue # <<>> /\ Head(queue) \in Items
    BY <1>4, Taken DEF Consume, TypeInv
  <2>2. /\ Len(pool) \in Nat /\ Len(pool') = Len(pool) + 1
        /\ pool'[Len(pool) + 1] = item'
        /\ \A j \in 1 .. Len(pool) : pool'[j] = pool[j]
    BY <1>4, <2>1, PoolAppends DEF Consume
  <2>3. /\ consumer = "get" /\ consumer' = "await" /\ outcome' = None /\ item' # None
        /\ UNCHANGED <<job, mode, closing>>
    BY <1>4, <2>1 DEF Consume
  <2> QED
    BY <1>0, <2>2, <2>3 DEF WaitInv, Waits
<1>5. CASE ConsumerResumes
  <2>1. /\ consumer = "await" /\ outcome # None
        /\ consumer' = "get" /\ item' = None /\ outcome' = None
        /\ UNCHANGED <<pool, job, closing>> /\ (mode' = mode \/ mode' = "HALTED")
    BY <1>5 DEF ConsumerResumes, FenceIfUnavailable, FailClosed
  <2> QED
    BY <1>0, <2>1 DEF WaitInv, Waits
<1>6. CASE StartJob
  <2>1. /\ job = "none" /\ pool # <<>> /\ Len(pool) > 0 /\ Head(pool) = pool[1]
        /\ job' = IF Head(pool) = OverflowHalt THEN "halt" ELSE "run"
        /\ UNCHANGED <<pool, consumer, item, outcome, closing, mode>>
    <3>1. pool \in Seq(Jobs) /\ pool # <<>>
      BY <1>6 DEF StartJob, TypeInv
    <3>2. Len(pool) > 0 /\ Head(pool) = pool[1]
      BY <3>1, Taken
    <3> QED
      BY <1>6, <3>1, <3>2 DEF StartJob, workFrame
  <2> QED
    BY <1>0, <2>1 DEF WaitInv, Waits
<1>7. CASE Write \/ NoteFailure \/ HaltInMemory \/ NoteReturns
  <2>1. /\ UNCHANGED <<pool, consumer, item, outcome, closing>>
        /\ mode' = mode \/ mode' = "HALTED"
        /\ \/ job = "run" /\ job' = "write"
           \/ job = "note" /\ job' = "noteWrite"
           \/ job = "halt" /\ job' = "haltWrite" /\ mode' = "HALTED"
           \/ job = "noteWrite" /\ job' = "halt"
    BY <1>7 DEF Write, NoteFailure, HaltInMemory, NoteReturns, workFrame
  <2> QED
    BY <1>1, <2>1
<1>8. CASE WorkEnds
  <2>1. CASE UNCHANGED <<pool, outcome>> /\ job' \in {"run", "note"} /\ job \in {"run", "write"}
    BY <1>1, <1>8, <2>1, EndsOrNot
  <2>2. CASE job' = "none" /\ pool' = Tail(pool) /\ (outcome' # outcome => item = Head(pool))
    <3>1. /\ Len(pool) \in Nat \ {0} /\ Len(pool') = Len(pool) - 1 /\ Head(pool) = pool[1]
          /\ \A j \in 1 .. Len(pool') : pool'[j] = pool[j + 1] /\ j + 1 \in 1 .. Len(pool)
      BY <1>0, <1>8, <2>2, EndsOrNot, PoolPops
    <3>2. UNCHANGED <<consumer, item, closing>> /\ (mode' = mode \/ mode' = "HALTED")
      BY <1>8, EndsOrNot
    <3>3. ASSUME NEW j \in 1 .. Len(pool'), pool'[j] \in Calls
          PROVE  pool'[j] = item' /\ consumer' = "await" /\ outcome' = None
      <4>1. /\ pool[j + 1] \in Calls /\ j + 1 \in 1 .. Len(pool) /\ j + 1 # 1 /\ Waits(j + 1)
            /\ 1 \in 1 .. Len(pool) /\ 1 < j + 1
        BY <3>1, <3>3 DEF Waits
      <4>2. pool[j + 1] = item /\ consumer = "await" /\ outcome = None
        BY <1>0, <4>1
      <4>3. pool[1] # item
        BY <4>1, <4>2 DEF Inc, Calls
      <4> QED
        BY <2>2, <3>1, <3>2, <3>3, <4>2, <4>3
    <3>4. consumer' # "await" => item' = None /\ outcome' = None
      <4>1. pool[1] \in Jobs /\ None \notin Jobs
        BY <3>1, ElementOfSeq DEF TypeInv, Jobs
      <4> QED
        BY <1>0, <2>2, <3>1, <3>2, <4>1
    <3> QED
      BY <1>0, <2>2, <3>2, <3>3, <3>4 DEF WaitInv
  <2> QED
    BY <1>8, <2>1, <2>2, EndsOrNot
<1>9. CASE Cancelled \/ Close
  <2>1. /\ UNCHANGED <<job, mode>> /\ CancelConsumer
        /\ closing = "no" /\ closing' \in {"no", "cancelling"}
    BY <1>9 DEF Cancelled, Close
  <2>2. CASE consumer # "await"
    BY <1>0, <2>1, <2>2 DEF CancelConsumer, WaitInv, Waits
  <2>3. CASE consumer = "await"
    <3>1. Withdraw /\ consumer' = "get" /\ item' = None /\ outcome' = None
      BY <2>1, <2>3 DEF CancelConsumer
    <3>2. \A j \in 1 .. Len(pool') : Waits(j) => pool'[j] \notin Calls
      BY <3>1, WithdrawnIsGone
    <3>3. job # "none" => Len(pool') > 0 /\ pool'[1] = pool[1]
      BY <3>1, WithdrawnIsGone
    <3> QED
      BY <1>0, <2>1, <3>1, <3>2, <3>3 DEF WaitInv, Waits
  <2> QED
    BY <2>2, <2>3
<1>10. CASE CloseShutsDown
  <2>1. UNCHANGED <<consumer, item, outcome, job, mode>> /\ consumer = "dead"
    BY <1>10 DEF CloseShutsDown
  <2>2. /\ job = "none" => Len(pool') = 0
        /\ job # "none" => Len(pool') = 1 /\ pool'[1] = pool[1]
    BY <1>10, Trimmed
  <2> QED
    BY <1>0, <2>1, <2>2 DEF WaitInv, Waits
<1>11. CASE CloseReturns
  BY <1>0, <1>11 DEF CloseReturns, WaitInv, Waits
<1> QED
  BY <1>2, <1>3, <1>4, <1>5, <1>6, <1>7, <1>8, <1>9, <1>10, <1>11
     DEF Next, Journaling, TaskNext, WorkNext, WorkEnds, EndNext, bvars

-----------------------------------------------------------------------------
(* The order of the callbacks: what was handled, then what waits in the    *)
(* executor, the queue and the loop, up to the last one delivered.          *)

OrderInv ==
  /\ Inc(soon) /\ Inc(queue) /\ Inc(pool) /\ Inc(handled)
  /\ Below(queue, soon) /\ Below(pool, soon) /\ Below(handled, soon)
  /\ Below(pool, queue) /\ Below(handled, queue)
  /\ \A i \in 1 .. Len(handled), j \in 1 .. Len(pool) :
       Waits(j) /\ handled[i] \in Calls /\ pool[j] \in Calls => handled[i] < pool[j]
  /\ UpTo(soon, posted) /\ UpTo(queue, posted) /\ UpTo(pool, posted) /\ UpTo(handled, posted)

LEMMA OrderStarts == Init => OrderInv
<1> SUFFICES ASSUME Init PROVE OrderInv
  OBVIOUS
<1>1. Len(soon) = 0 /\ Len(queue) = 0 /\ Len(pool) = 0 /\ Len(handled) = 0
  BY EmptySeq DEF Init
<1> QED
  BY <1>1 DEF OrderInv, Inc, Below, UpTo

LEMMA JobsAll ==
  ASSUME TypeInv
  PROVE  /\ soon \in Seq(Jobs) /\ queue \in Seq(Jobs) /\ pool \in Seq(Jobs) /\ handled \in Seq(Jobs)
         /\ putters \in Seq(Jobs)
<1>1. /\ soon \in Seq(Calls) /\ queue \in Seq(Items) /\ pool \in Seq(Jobs) /\ handled \in Seq(Items)
      /\ putters \in Seq(Commands)
  BY DEF TypeInv
<1>2. Calls \subseteq Jobs /\ Items \subseteq Jobs /\ Commands \subseteq Jobs
  BY Known
<1> QED
  BY <1>1, <1>2, SeqMonotonic

(* What is no callback has no place in the order.                           *)
LEMMA Unordered ==
  ASSUME NEW x, x \notin Calls
  PROVE  /\ \A s : Before(x, s) /\ After(s, x)
         /\ \A n : x \in Calls => x <= n
BY DEF Before, After

LEMMA OrderSame ==
  ASSUME OrderInv, UNCHANGED <<posted, soon, queue, pool, handled>>, job # "none" \/ job' = job
  PROVE  job' # "none" \/ job = "none" => OrderInv'
BY DEF OrderInv, Inc, Below, UpTo, Waits

LEMMA OrderStep ==
  ASSUME TypeInv, WaitInv, OrderInv, [Next]_bvars
  PROVE  OrderInv'
<1> USE Known
<1>0. /\ Inc(soon) /\ Inc(queue) /\ Inc(pool) /\ Inc(handled)
      /\ Below(queue, soon) /\ Below(pool, soon) /\ Below(handled, soon)
      /\ Below(pool, queue) /\ Below(handled, queue)
      /\ \A i \in 1 .. Len(handled), j \in 1 .. Len(pool) :
           Waits(j) /\ handled[i] \in Calls /\ pool[j] \in Calls => handled[i] < pool[j]
      /\ UpTo(soon, posted) /\ UpTo(queue, posted) /\ UpTo(pool, posted) /\ UpTo(handled, posted)
      /\ posted \in Nat
  BY DEF OrderInv, TypeInv
<1>s. /\ soon \in Seq(Jobs) /\ queue \in Seq(Jobs) /\ pool \in Seq(Jobs) /\ handled \in Seq(Jobs)
      /\ putters \in Seq(Jobs)
  BY JobsAll
<1>1. CASE UNCHANGED bridgeVars
  BY <1>1, OrderSame DEF bridgeVars
<1>2. CASE Post
  <2>1. /\ posted' = posted + 1 /\ soon' \in {soon, Append(soon, posted + 1)}
        /\ UNCHANGED <<queue, pool, handled, job>>
    BY <1>2 DEF Post, loopFrame
  <2>2. /\ UpTo(soon, posted + 1) /\ UpTo(queue, posted + 1) /\ UpTo(pool, posted + 1)
        /\ UpTo(handled, posted + 1)
        /\ After(soon, posted + 1) /\ After(queue, posted + 1) /\ After(pool, posted + 1)
        /\ After(handled, posted + 1)
    BY <1>0, <1>s, UpToMoves
  <2>3. posted + 1 \in Jobs /\ posted + 1 \in Nat
    BY <1>0, <1>2 DEF Post, Jobs, Items, Calls
  <2> DEFINE x == posted + 1
             t == Append(soon, x)
  <2>7. x \in Jobs /\ After(soon, x) /\ After(queue, x) /\ After(pool, x) /\ After(handled, x)
        /\ soon' \in {soon, t}
    BY <2>1, <2>2, <2>3
  <2> HIDE DEF x
  <2>8. Inc(t)
    BY <1>0, <1>s, <2>7, IncAppend
  <2>9. Below(queue, t) /\ Below(pool, t) /\ Below(handled, t)
    BY <1>0, <1>s, <2>7, BelowAppend
  <2> HIDE DEF t
  <2>4. /\ Inc(soon') /\ Below(queue, soon') /\ Below(pool, soon') /\ Below(handled, soon')
    BY <1>0, <2>7, <2>8, <2>9
  <2>5. UpTo(soon', posted + 1)
    <3>1. UpTo(Append(soon, posted + 1), posted + 1)
      BY <1>s, <2>2, <2>3, UpToMoves
    <3> QED
      BY <2>1, <2>2, <3>1
  <2>6. \A j : Waits(j)' <=> Waits(j)
    BY <2>1 DEF Waits
  <2> QED
    BY <1>0, <2>1, <2>2, <2>4, <2>5, <2>6 DEF OrderInv
<1>3. CASE PutNow
  <2> DEFINE x == Head(soon)
  <2>1. /\ soon # <<>> /\ soon' = Tail(soon) /\ UNCHANGED <<posted, handled, job>>
        /\ \/ queue' = Append(queue, x) /\ pool' = pool
           \/ queue' = queue /\ pool' \in {pool, Append(pool, OverflowHalt)}
    BY <1>3 DEF PutNow, Overflow, SubmitHalt, loopFrame
  <2>2. /\ Inc(soon') /\ Before(x, soon') /\ x \in Jobs
        /\ Below(queue, soon') /\ Below(pool, soon') /\ Below(handled, soon')
        /\ After(queue, x) /\ After(pool, x) /\ After(handled, x)
        /\ UpTo(soon', posted) /\ (x \in Calls => x <= posted) /\ soon' \in Seq(Jobs)
    BY <1>0, <1>s, <2>1, Taken, IncTail, BelowTail, UpToMoves
  <2> HIDE DEF x
  <2>6. \A j : Waits(j)' <=> Waits(j)
    BY <2>1 DEF Waits
  <2>3. CASE queue' = Append(queue, x) /\ pool' = pool
    <3>1. Inc(queue') /\ Below(queue', soon') /\ Below(pool, queue') /\ Below(handled, queue')
      BY <1>0, <1>s, <2>2, <2>3, IncAppend, BelowAppend
    <3>2. UpTo(queue', posted)
      BY <1>0, <1>s, <2>2, <2>3, UpToMoves
    <3> QED
      BY <1>0, <2>1, <2>2, <2>3, <2>6, <3>1, <3>2 DEF OrderInv
  <2>4. CASE queue' = queue /\ pool' = pool
    BY <1>0, <2>1, <2>2, <2>4, <2>6 DEF OrderInv
  <2>5. CASE queue' = queue /\ pool' = Append(pool, OverflowHalt)
    <3>1. OverflowHalt \notin Calls /\ OverflowHalt \in Jobs
      OBVIOUS
    <3>2. Inc(pool') /\ Below(pool', soon') /\ Below(pool', queue')
      BY <1>0, <1>s, <2>2, <2>5, <3>1, Unordered, IncAppend, BelowAppend
    <3>3. UpTo(pool', posted)
      BY <1>0, <1>s, <2>5, <3>1, UpToMoves
    <3>4. ASSUME NEW i \in 1 .. Len(handled), NEW j \in 1 .. Len(pool'),
                 Waits(j), handled[i] \in Calls, pool'[j] \in Calls
          PROVE  handled[i] < pool'[j]
      <4>1. j \in 1 .. Len(pool) /\ pool'[j] = pool[j]
        BY <2>5, <3>1, <3>4, PoolAppends
      <4> QED
        BY <1>0, <3>4, <4>1
    <3> QED
      BY <1>0, <2>1, <2>2, <2>5, <2>6, <3>2, <3>3, <3>4 DEF OrderInv
  <2> QED
    BY <2>1, <2>3, <2>4, <2>5
<1>4. ASSUME NEW c \in Commands,
             queue' \in {queue, Append(queue, c)}, UNCHANGED <<posted, soon, pool, handled, job>>
      PROVE  OrderInv'
  <2>1. c \in Jobs /\ c \notin Calls
    BY BridgeAssumption DEF Calls
  <2> DEFINE t == Append(queue, c)
  <2>5. Inc(t) /\ UpTo(t, posted)
    BY <1>0, <1>s, <2>1, Unordered, IncAppend, UpToMoves
  <2>6. Below(t, soon) /\ Below(pool, t) /\ Below(handled, t)
    BY <1>0, <1>s, <2>1, Unordered, BelowAppend
  <2> HIDE DEF t
  <2>7. queue' = queue \/ queue' = t
    BY <1>4 DEF t
  <2>2. /\ Inc(queue') /\ Below(queue', soon) /\ Below(pool, queue') /\ Below(handled, queue')
    BY <1>0, <2>5, <2>6, <2>7
  <2>3. UpTo(queue', posted)
    BY <1>0, <2>5, <2>7
  <2>4. \A j : Waits(j)' <=> Waits(j)
    BY <1>4 DEF Waits
  <2> QED
    BY <1>0, <1>4, <2>2, <2>3, <2>4 DEF OrderInv
<1>5. CASE PutterGoesOn \/ \E c \in Commands : Request(c)
  <2>1. CASE PutterGoesOn
    <3>1. putters \in Seq(Commands) /\ putters # <<>> /\ Head(putters) \in Commands
      BY <2>1, Taken DEF PutterGoesOn, TypeInv
    <3> QED
      BY <1>4, <2>1, <3>1 DEF PutterGoesOn, loopFrame
  <2>2. CASE \E c \in Commands : Request(c)
    BY <1>4, <2>2 DEF Request, loopFrame
  <2> QED
    BY <1>5, <2>1, <2>2
<1>6. CASE Consume
  <2> DEFINE x == Head(queue)
  <2>1. /\ queue # <<>> /\ queue' = Tail(queue) /\ pool' = Append(pool, x)
        /\ UNCHANGED <<posted, soon, handled, job>>
    BY <1>6 DEF Consume, ingressFrame
  <2>2. /\ Inc(queue') /\ Before(x, queue') /\ x \in Jobs /\ Before(x, soon)
        /\ Below(queue', soon) /\ Below(pool, queue') /\ Below(handled, queue')
        /\ After(pool, x) /\ After(handled, x)
        /\ UpTo(queue', posted) /\ (x \in Calls => x <= posted) /\ queue' \in Seq(Jobs)
    BY <1>0, <1>s, <2>1, Taken, IncTail, BelowTail, UpToMoves
  <2> HIDE DEF x
  <2>3. Inc(pool') /\ Below(pool', soon) /\ Below(pool', queue')
    BY <1>0, <1>s, <2>1, <2>2, IncAppend, BelowAppend
  <2>4. UpTo(pool', posted)
    BY <1>0, <1>s, <2>1, <2>2, UpToMoves
  <2>5. ASSUME NEW i \in 1 .. Len(handled), NEW j \in 1 .. Len(pool'),
               Waits(j), handled[i] \in Calls, pool'[j] \in Calls
        PROVE  handled[i] < pool'[j]
    <3>1. /\ Len(pool) \in Nat /\ Len(pool') = Len(pool) + 1 /\ pool'[Len(pool) + 1] = x
          /\ \A k \in 1 .. Len(pool) : pool'[k] = pool[k]
      BY <2>1, <2>2, PoolAppends
    <3>2. CASE j = Len(pool) + 1
      BY <2>2, <2>5, <3>1, <3>2 DEF After
    <3>3. CASE j \in 1 .. Len(pool)
      BY <1>0, <2>5, <3>1, <3>3
    <3> QED
      BY <3>1, <3>2, <3>3
  <2>6. \A j : Waits(j)' <=> Waits(j)
    BY <2>1 DEF Waits
  <2> QED
    BY <1>0, <2>1, <2>2, <2>3, <2>4, <2>5, <2>6 DEF OrderInv
<1>7. CASE StartJob
  <2> DEFINE x == pool[1]
  <2>1. /\ job = "none" /\ pool # <<>> /\ job' # "none" /\ Head(pool) = x
        /\ handled' = IF x = OverflowHalt THEN handled ELSE Append(handled, x)
        /\ UNCHANGED <<posted, soon, queue, pool>>
    BY <1>7, <1>s, Taken DEF StartJob, workFrame, ingressFrame
  <2>2. x \in Jobs /\ Len(pool) \in Nat \ {0} /\ Waits(1) /\ 1 \in 1 .. Len(pool)
    BY <1>s, <2>1, Taken DEF Waits
  <2>3. /\ After(handled, x) /\ Before(x, soon) /\ Before(x, queue)
        /\ (x \in Calls => x <= posted)
    BY <1>0, <2>2 DEF After, Before, Below, UpTo
  <2>4. \A j \in 1 .. Len(pool) : Waits(j)' => j # 1 /\ Waits(j)
    BY <2>1 DEF Waits
  <2>5. CASE x = OverflowHalt
    BY <1>0, <2>1, <2>4, <2>5 DEF OrderInv
  <2>6. CASE x # OverflowHalt
    <3>1. Inc(handled') /\ Below(handled', soon) /\ Below(handled', queue)
      BY <1>0, <1>s, <2>1, <2>2, <2>3, <2>6, IncAppend, BelowAppend
    <3>2. UpTo(handled', posted)
      BY <1>0, <1>s, <2>1, <2>2, <2>3, <2>6, UpToMoves
    <3>3. ASSUME NEW i \in 1 .. Len(handled'), NEW j \in 1 .. Len(pool),
                 Waits(j)', handled'[i] \in Calls, pool[j] \in Calls
          PROVE  handled'[i] < pool[j]
      <4>1. /\ Len(handled) \in Nat /\ Len(handled') = Len(handled) + 1
            /\ handled'[Len(handled) + 1] = x
            /\ \A k \in 1 .. Len(handled) : handled'[k] = handled[k]
        BY <1>s, <2>1, <2>2, <2>6, AppendProperties, LenProperties
      <4>2. CASE i = Len(handled) + 1
        BY <1>0, <2>2, <2>4, <3>3, <4>1, <4>2 DEF Inc
      <4>3. CASE i \in 1 .. Len(handled)
        BY <1>0, <2>4, <3>3, <4>1, <4>3
      <4> QED
        BY <4>1, <4>2, <4>3
    <3> QED
      BY <1>0, <2>1, <3>1, <3>2, <3>3 DEF OrderInv
  <2> QED
    BY <2>5, <2>6
<1>8. CASE Write \/ NoteFailure \/ HaltInMemory \/ NoteReturns
  <2>1. UNCHANGED <<posted, soon, queue, pool, handled>> /\ job # "none" /\ job' # "none"
    BY <1>8 DEF Write, NoteFailure, HaltInMemory, NoteReturns, workFrame, ingressFrame
  <2> QED
    BY <2>1, OrderSame
<1>9. CASE WorkEnds
  <2>1. UNCHANGED <<posted, soon, queue, handled>> /\ job # "none" /\ Len(pool) > 0
    BY <1>9, EndsOrNot DEF ingressFrame, WaitInv
  <2>2. CASE pool' = pool /\ job' # "none"
    BY <2>1, <2>2, OrderSame
  <2>3. CASE job' = "none" /\ pool' = Tail(pool)
    <3>1. pool # <<>>
      BY <2>1, EmptySeq
    <3>2. Inc(pool') /\ Below(pool', soon) /\ Below(pool', queue) /\ UpTo(pool', posted)
      BY <1>0, <1>s, <2>3, <3>1, IncTail, BelowTail, UpToMoves
    <3>3. ASSUME NEW i \in 1 .. Len(handled), NEW j \in 1 .. Len(pool'),
                 handled[i] \in Calls, pool'[j] \in Calls
          PROVE  handled[i] < pool'[j]
      <4>1. pool'[j] = pool[j + 1] /\ j + 1 \in 1 .. Len(pool) /\ j + 1 # 1
        BY <2>1, <2>3, PoolPops
      <4> QED
        BY <1>0, <3>3, <4>1 DEF Waits
    <3> QED
      BY <1>0, <2>1, <3>2, <3>3 DEF OrderInv
  <2> QED
    BY <1>9, <2>2, <2>3, EndsOrNot
<1>10. ASSUME UNCHANGED <<posted, soon, queue, handled, job>>, Len(pool') \in Nat,
              \A j \in 1 .. Len(pool') : Waits(j) => pool'[j] \notin Calls,
              job # "none" => Len(pool) > 0 /\ pool'[1] = pool[1]
       PROVE  OrderInv'
  <2>1. \A j \in 1 .. Len(pool') :
          pool'[j] \in Calls => j = 1 /\ pool'[j] = pool[j] /\ j \in 1 .. Len(pool) /\ ~Waits(j)
    BY <1>10, <1>s, LenProperties DEF Waits
  <2>2. Inc(pool')
    BY <2>1 DEF Inc
  <2>3. Below(pool', soon) /\ Below(pool', queue) /\ UpTo(pool', posted)
    BY <1>0, <2>1 DEF Below, UpTo
  <2>4. \A j : Waits(j)' <=> Waits(j)
    BY <1>10 DEF Waits
  <2> QED
    BY <1>0, <1>10, <2>1, <2>2, <2>3, <2>4 DEF OrderInv
<1>11. CASE Cancelled \/ Close
  <2>1. UNCHANGED <<posted, soon, queue, handled, job>> /\ CancelConsumer
    BY <1>11 DEF Cancelled, Close, ingressFrame
  <2>2. CASE consumer # "await"
    <3>1. UNCHANGED pool
      BY <2>1, <2>2 DEF CancelConsumer
    <3> QED
      BY <2>1, <3>1, OrderSame
  <2>3. CASE consumer = "await"
    <3>1. Withdraw
      BY <2>1, <2>3 DEF CancelConsumer
    <3>2. job # "none" => Len(pool) > 0
      BY DEF WaitInv
    <3> QED
      BY <1>0, <1>10, <2>1, <3>1, <3>2, WithdrawnIsGone
  <2> QED
    BY <2>2, <2>3
<1>12. CASE CloseShutsDown
  <2>1. UNCHANGED <<posted, soon, queue, handled, job>> /\ (job # "none" => Len(pool) > 0)
    BY <1>12 DEF CloseShutsDown, ingressFrame, WaitInv
  <2>2. /\ job = "none" => Len(pool') = 0
        /\ job # "none" => Len(pool') = 1 /\ pool'[1] = pool[1]
    BY <1>12, Trimmed
  <2> QED
    BY <1>10, <2>1, <2>2 DEF Waits
<1>13. CASE ConsumerResumes \/ CloseReturns
  <2>1. UNCHANGED <<posted, soon, queue, pool, handled, job>>
    BY <1>13 DEF ConsumerResumes, CloseReturns, ingressFrame
  <2> QED
    BY <2>1, OrderSame
<1> QED
  BY <1>1, <1>2, <1>3, <1>5, <1>6, <1>7, <1>8, <1>9, <1>11, <1>12, <1>13
     DEF Next, Journaling, IngressNext, TaskNext, WorkNext, WorkEnds, EndNext, bvars

-----------------------------------------------------------------------------
(* What a lost callback leaves behind.                                      *)

HaltInPool == \E i \in 1 .. Len(pool) : pool[i] = OverflowHalt

(* Until the engine is halted, the HALT of the overflow is in the executor, *)
(* before every callback that came after a lost one.                        *)
LossInv ==
  /\ lost # {} => overflowed
  /\ overflowed => mode = "HALTED" \/ HaltInPool \/ closing \in {"shutdown", "done"}
  /\ \A j \in 1 .. Len(pool), l \in lost :
       Waits(j) /\ pool[j] \in Calls =>
         pool[j] < l \/ mode = "HALTED" \/ \E i \in 1 .. Len(pool) : i < j /\ pool[i] = OverflowHalt

LEMMA LossStarts == Init => LossInv
BY EmptySeq DEF Init, LossInv

LEMMA HaltedStays == [Next]_bvars => mode' = mode \/ mode' = "HALTED"
BY DEF Next, Journaling, IngressNext, TaskNext, WorkNext, EndNext, bvars, bridgeVars, Post, PutNow,
       PutterGoesOn, Request, Consume, ConsumerResumes, FenceIfUnavailable, FailClosed, StartJob,
       Write, NoteFailure, HaltInMemory, WriteReturns, NoteReturns, HaltReturns, MethodReturns,
       MethodRaises, Cancelled, Close, CloseShutsDown, CloseReturns, loopFrame, workFrame

LEMMA LossIsKnown == [Next]_bvars => UNCHANGED <<lost, overflowed>> \/ overflowed'
BY DEF Next, Journaling, IngressNext, TaskNext, WorkNext, EndNext, bvars, bridgeVars, Post, PutNow,
       Overflow, PutterGoesOn, Request, Consume, ConsumerResumes, StartJob,
       Write, NoteFailure, HaltInMemory, WriteReturns, NoteReturns, HaltReturns, MethodReturns,
       MethodRaises, Cancelled, Close, CloseShutsDown, CloseReturns, workFrame, ingressFrame

LEMMA LossStep ==
  ASSUME TypeInv, WaitInv, OrderInv, LossInv, [Next]_bvars
  PROVE  LossInv'
<1> USE Known
<1>0. /\ lost # {} => overflowed
      /\ overflowed => mode = "HALTED" \/ HaltInPool \/ closing \in {"shutdown", "done"}
      /\ \A j \in 1 .. Len(pool), l \in lost :
           Waits(j) /\ pool[j] \in Calls =>
             pool[j] < l \/ mode = "HALTED"
               \/ \E i \in 1 .. Len(pool) : i < j /\ pool[i] = OverflowHalt
  BY DEF LossInv
<1>1. lost' # {} => overflowed'
  BY <1>0, LossIsKnown
<1>2. CASE mode' = "HALTED"
  BY <1>1, <1>2 DEF LossInv
<1>3. ASSUME mode' # "HALTED" PROVE LossInv'
  <2>1. mode' = mode /\ mode # "HALTED"
    BY <1>3, HaltedStays
  <2>2. ASSUME UNCHANGED <<pool, lost, overflowed>>, job' = job \/ job' # "none",
               closing \in {"shutdown", "done"} => closing' \in {"shutdown", "done"}
        PROVE  LossInv'
    <3>1. \A j : Waits(j)' => Waits(j)
      BY <2>2 DEF Waits
    <3> QED
      BY <1>0, <2>1, <2>2, <3>1 DEF LossInv, HaltInPool
  <2>3. CASE UNCHANGED bridgeVars
    BY <2>2, <2>3 DEF bridgeVars
  <2>4. CASE Post \/ PutterGoesOn \/ \E c \in Commands : Request(c)
    BY <2>2, <2>4 DEF Post, PutterGoesOn, Request, loopFrame
  <2>5. CASE PutNow
    <3>1. CASE UNCHANGED <<pool, lost, overflowed>>
      BY <2>2, <2>5, <3>1 DEF PutNow, loopFrame
    <3>2. CASE Overflow
      <4> DEFINE x == Head(soon)
      <4>1. /\ UNCHANGED <<closing, job>> /\ lost' = lost \cup {x} /\ overflowed'
            /\ pool' = IF overflowed \/ closing \in {"shutdown", "done"} THEN pool
                       ELSE Append(pool, OverflowHalt)
        BY <2>5, <3>2 DEF PutNow, loopFrame, Overflow, SubmitHalt
      <4>2. x \in Calls /\ x = soon[1] /\ 1 \in 1 .. Len(soon)
        BY <2>5, Taken DEF PutNow, TypeInv
      <4>3. \A j \in 1 .. Len(pool) : pool[j] \in Calls => pool[j] < x
        BY <4>2 DEF OrderInv, Below
      <4> HIDE DEF x
      <4>4. \A j : Waits(j)' <=> Waits(j)
        BY <4>1 DEF Waits
      <4>5. CASE overflowed \/ closing \in {"shutdown", "done"}
        BY <1>0, <2>1, <4>1, <4>3, <4>4, <4>5 DEF LossInv, HaltInPool
      <4>6. CASE ~(overflowed \/ closing \in {"shutdown", "done"})
        <5>1. /\ Len(pool) \in Nat /\ Len(pool') = Len(pool) + 1
              /\ pool'[Len(pool) + 1] = OverflowHalt
              /\ \A j \in 1 .. Len(pool) : pool'[j] = pool[j]
          BY <4>1, <4>6, PoolAppends
        <5>2. HaltInPool'
          BY <5>1 DEF HaltInPool
        <5>3. lost = {}
          BY <1>0, <4>6
        <5> QED
          BY <1>1, <4>1, <4>3, <5>1, <5>2, <5>3 DEF LossInv
      <4> QED
        BY <4>5, <4>6
    <3> QED
      BY <2>5, <3>1, <3>2 DEF PutNow
  <2>6. CASE Consume
    <3>1. queue \in Seq(Items) /\ queue # <<>> /\ Head(queue) \in Jobs
      BY <2>6, Taken DEF Consume, TypeInv
    <3>2. /\ Len(pool) \in Nat /\ Len(pool') = Len(pool) + 1
          /\ pool'[Len(pool) + 1] = Head(queue)
          /\ \A j \in 1 .. Len(pool) : pool'[j] = pool[j]
      BY <2>6, <3>1, PoolAppends DEF Consume
    <3>3. /\ consumer = "get" /\ UNCHANGED <<job, closing, lost, overflowed>>
          /\ closing \notin {"shutdown", "done"}
      BY <2>6 DEF Consume, ingressFrame, WaitInv
    <3>4. overflowed => HaltInPool /\ HaltInPool'
      BY <1>0, <2>1, <3>2, <3>3 DEF HaltInPool
    <3>5. ASSUME NEW j \in 1 .. Len(pool'), NEW l \in lost, Waits(j), pool'[j] \in Calls
          PROVE  pool'[j] < l \/ \E i \in 1 .. Len(pool') : i < j /\ pool'[i] = OverflowHalt
      <4>1. PICK i \in 1 .. Len(pool) : pool[i] = OverflowHalt
        BY <1>0, <3>4, <3>5 DEF HaltInPool
      <4>2. CASE j = Len(pool) + 1
        BY <3>2, <4>1, <4>2
      <4>3. CASE j \in 1 .. Len(pool)
        BY <1>0, <2>1, <3>2, <3>5, <4>3
      <4> QED
        BY <3>2, <4>2, <4>3
    <3>6. \A j : Waits(j)' <=> Waits(j)
      BY <3>3 DEF Waits
    <3> QED
      BY <1>1, <3>3, <3>4, <3>5, <3>6 DEF LossInv
  <2>7. CASE ConsumerResumes \/ StartJob \/ Write \/ NoteFailure \/ HaltInMemory \/ NoteReturns
               \/ CloseReturns
    BY <2>2, <2>7 DEF ConsumerResumes, StartJob, Write, NoteFailure, HaltInMemory, NoteReturns,
                      CloseReturns, ingressFrame, workFrame
  <2>8. CASE WorkEnds
    <3>1. UNCHANGED <<lost, overflowed, closing>> /\ job \in {"run", "write"}
      BY <2>1, <2>8, EndsOrNot DEF ingressFrame, WaitInv
    <3>2. CASE pool' = pool /\ job' # "none"
      BY <2>2, <3>1, <3>2
    <3>3. CASE job' = "none" /\ pool' = Tail(pool)
      <4>1. Len(pool) > 0 /\ pool[1] # OverflowHalt
        BY <3>1 DEF WaitInv
      <4>2. /\ Len(pool) \in Nat \ {0} /\ Len(pool') = Len(pool) - 1
            /\ \A j \in 1 .. Len(pool') : pool'[j] = pool[j + 1] /\ j + 1 \in 1 .. Len(pool)
        BY <3>3, <4>1, PoolPops
      <4>3. ASSUME NEW i \in 1 .. Len(pool), pool[i] = OverflowHalt
            PROVE  i - 1 \in 1 .. Len(pool') /\ pool'[i - 1] = OverflowHalt
        <5>1. i # 1
          BY <4>1, <4>3
        <5>2. i - 1 \in 1 .. Len(pool') /\ (i - 1) + 1 = i
          BY <4>2, <5>1
        <5> QED
          BY <4>2, <4>3, <5>2
      <4>4. HaltInPool => HaltInPool'
        BY <4>3 DEF HaltInPool
      <4>5. ASSUME NEW j \in 1 .. Len(pool'), NEW l \in lost, pool'[j] \in Calls
            PROVE  pool'[j] < l \/ \E i \in 1 .. Len(pool') : i < j /\ pool'[i] = OverflowHalt
        <5>1. /\ j + 1 \in 1 .. Len(pool) /\ pool'[j] = pool[j + 1] /\ Waits(j + 1)
          BY <4>2 DEF Waits
        <5>2. CASE pool[j + 1] < l
          BY <5>1, <5>2
        <5>3. CASE \E i \in 1 .. Len(pool) : i < j + 1 /\ pool[i] = OverflowHalt
          <6>1. PICK i \in 1 .. Len(pool) : i < j + 1 /\ pool[i] = OverflowHalt
            BY <5>3
          <6>2. i - 1 \in 1 .. Len(pool') /\ i - 1 < j /\ pool'[i - 1] = OverflowHalt
            BY <4>3, <6>1
          <6> QED
            BY <6>2
        <5> QED
          BY <1>0, <2>1, <4>5, <5>1, <5>2, <5>3
      <4> QED
        BY <1>0, <1>1, <2>1, <3>1, <4>4, <4>5 DEF LossInv
    <3> QED
      BY <2>8, <3>2, <3>3, EndsOrNot
  <2>9. CASE Cancelled \/ Close
    <3>1. /\ UNCHANGED <<lost, overflowed, job>> /\ closing = "no" /\ CancelConsumer
      BY <2>9 DEF Cancelled, Close, ingressFrame
    <3>2. CASE consumer # "await"
      BY <2>2, <3>1, <3>2 DEF CancelConsumer
    <3>3. CASE consumer = "await"
      <4>1. Withdraw
        BY <3>1, <3>3 DEF CancelConsumer
      <4>2. \A j \in 1 .. Len(pool') : Waits(j) => pool'[j] \notin Calls
        BY <4>1, WithdrawnIsGone DEF OrderInv
      <4>3. HaltInPool => HaltInPool'
        BY <4>1, WithdrawnIsGone DEF HaltInPool, OrderInv
      <4>4. \A j : Waits(j)' <=> Waits(j)
        BY <3>1 DEF Waits
      <4> QED
        BY <1>0, <1>1, <2>1, <3>1, <4>2, <4>3, <4>4 DEF LossInv
    <3> QED
      BY <3>2, <3>3
  <2>10. CASE CloseShutsDown
    <3>1. closing' = "shutdown" /\ UNCHANGED <<lost, overflowed, job>>
      BY <2>10 DEF CloseShutsDown, ingressFrame
    <3>2. /\ job = "none" => Len(pool') = 0
          /\ job # "none" => Len(pool') = 1
      BY <2>10, Trimmed
    <3>3. ASSUME NEW j \in 1 .. Len(pool'), Waits(j)' PROVE FALSE
      <4>1. CASE job = "none"
        <5>1. Len(pool') = 0
          BY <3>2, <4>1
        <5>2. ~(j \in 1 .. 0)
          OBVIOUS
        <5> QED
          BY <5>1, <5>2
      <4>2. CASE job # "none"
        <5>1. Len(pool') = 1
          BY <3>2, <4>2
        <5>2. j = 1
          BY <5>1
        <5>3. job' = "none"
          BY <3>3, <5>2 DEF Waits
        <5> QED
          BY <3>1, <4>2, <5>3
      <4> QED
        BY <4>1, <4>2
    <3> QED
      BY <1>1, <3>1, <3>3 DEF LossInv
  <2> QED
    BY <2>3, <2>4, <2>5, <2>6, <2>7, <2>8, <2>9, <2>10
       DEF Next, Journaling, IngressNext, TaskNext, WorkNext, WorkEnds, EndNext, bvars
<1> QED
  BY <1>2, <1>3

-----------------------------------------------------------------------------
(* A refused write and a HALT, as long as the bridge is open.               *)

(* The executor holds the awaited item once, until its future is set, and  *)
(* otherwise HALTs of an overflow.                                         *)
OpenInv ==
  closing = "no" =>
    /\ \A i \in 1 .. Len(pool) :
         /\ pool[i] # OverflowHalt => pool[i] = item /\ consumer = "await" /\ outcome = None
         /\ pool[i] = OverflowHalt => overflowed
    /\ \A i, j \in 1 .. Len(pool) : i < j => pool[i] = OverflowHalt \/ pool[j] = OverflowHalt

(* A refusal that has not fenced the engine yet is about to: the future of *)
(* the method says so, or the HALT that follows its note is refused too.   *)
Pending == consumer = "await" /\ outcome = "unavailable"

RefusalInv ==
  closing = "no" /\ refused /\ ~fatal =>
    \/ Pending
    \/ /\ job \in {"halt", "haltWrite"} /\ pool[1] # OverflowHalt /\ Refuses
       /\ job = "haltWrite" => call = "unavailable"

(* A HALT that is only in memory is being written, or its refusal is known.*)
HaltInv ==
  closing = "no" /\ mode = "HALTED" /\ ~overflowed /\ ~fatal =>
    onDisk = "halt" \/ Pending \/ job = "haltWrite"

LEMMA OpenStarts == Init => OpenInv /\ RefusalInv /\ HaltInv
<1> SUFFICES ASSUME Init PROVE OpenInv /\ RefusalInv /\ HaltInv
  OBVIOUS
<1>1. Len(pool) = 0 /\ refused = FALSE /\ mode = "NORMAL"
  BY EmptySeq DEF Init
<1> QED
  BY <1>1 DEF OpenInv, RefusalInv, HaltInv

(* A bridge that is open was never closed.                                  *)
LEMMA ClosedStays == [Next]_bvars => (closing' = "no" => closing = "no" /\ ~Close)
BY DEF Next, Journaling, IngressNext, TaskNext, WorkNext, EndNext, bvars, bridgeVars, Post, PutNow,
       PutterGoesOn, Request, Consume, ConsumerResumes, StartJob,
       Write, NoteFailure, HaltInMemory, WriteReturns, NoteReturns, HaltReturns, MethodReturns,
       MethodRaises, Cancelled, Close, CloseShutsDown, CloseReturns, loopFrame, workFrame

LEMMA OpenStep ==
  ASSUME TypeInv, WaitInv, OpenInv, [Next]_bvars
  PROVE  OpenInv'
<1> USE Known
<1> SUFFICES ASSUME closing' = "no" PROVE OpenInv'
  BY DEF OpenInv
<1>0. /\ closing = "no" /\ ~Close
      /\ \A i \in 1 .. Len(pool) :
           /\ pool[i] # OverflowHalt => pool[i] = item /\ consumer = "await" /\ outcome = None
           /\ pool[i] = OverflowHalt => overflowed
      /\ \A i, j \in 1 .. Len(pool) : i < j => pool[i] = OverflowHalt \/ pool[j] = OverflowHalt
  BY ClosedStays DEF OpenInv
<1>1. ASSUME UNCHANGED <<pool, item, consumer, outcome>>, overflowed' = overflowed \/ overflowed'
      PROVE  OpenInv'
  BY <1>0, <1>1 DEF OpenInv
<1>2. CASE UNCHANGED bridgeVars
  BY <1>1, <1>2 DEF bridgeVars
<1>3. CASE Post \/ PutterGoesOn \/ \E c \in Commands : Request(c)
  BY <1>1, <1>3 DEF Post, PutterGoesOn, Request, loopFrame
<1>4. CASE PutNow
  <2>1. /\ UNCHANGED <<item, consumer, outcome>>
        /\ \/ UNCHANGED <<pool, overflowed>>
           \/ overflowed' = TRUE /\ pool' \in {pool, Append(pool, OverflowHalt)}
    BY <1>4 DEF PutNow, Overflow, SubmitHalt, loopFrame
  <2>2. CASE pool' = Append(pool, OverflowHalt) /\ overflowed' = TRUE
    <3>1. /\ Len(pool) \in Nat /\ Len(pool') = Len(pool) + 1
          /\ pool'[Len(pool) + 1] = OverflowHalt
          /\ \A j \in 1 .. Len(pool) : pool'[j] = pool[j]
      BY <2>2, PoolAppends
    <3> QED
      BY <1>0, <2>1, <2>2, <3>1 DEF OpenInv
  <2> QED
    BY <1>1, <2>1, <2>2
<1>5. CASE Consume
  <2>1. queue \in Seq(Items) /\ queue # <<>> /\ Head(queue) \in Items
    BY <1>5, Taken DEF Consume, TypeInv
  <2>2. /\ Len(pool) \in Nat /\ Len(pool') = Len(pool) + 1
        /\ pool'[Len(pool) + 1] = item'
        /\ \A j \in 1 .. Len(pool) : pool'[j] = pool[j]
    BY <1>5, <2>1, PoolAppends DEF Consume
  <2>3. /\ consumer = "get" /\ consumer' = "await" /\ outcome' = None /\ item' # OverflowHalt
        /\ UNCHANGED overflowed
    BY <1>5, <2>1 DEF Consume, ingressFrame
  <2>4. \A i \in 1 .. Len(pool) : pool[i] = OverflowHalt
    BY <1>0, <2>3
  <2> QED
    BY <1>0, <2>2, <2>3, <2>4 DEF OpenInv
<1>6. CASE ConsumerResumes
  <2>1. UNCHANGED <<pool, overflowed>> /\ outcome # None
    BY <1>6 DEF ConsumerResumes, ingressFrame
  <2> QED
    BY <1>0, <2>1 DEF OpenInv
<1>7. CASE StartJob \/ Write \/ NoteFailure \/ HaltInMemory \/ NoteReturns
  BY <1>1, <1>7 DEF StartJob, Write, NoteFailure, HaltInMemory, NoteReturns, workFrame, ingressFrame
<1>8. CASE WorkEnds
  <2>1. UNCHANGED <<item, consumer, overflowed>> /\ Len(pool) > 0
    BY <1>8, EndsOrNot DEF ingressFrame, WaitInv
  <2>2. CASE UNCHANGED <<pool, outcome>>
    BY <1>1, <2>1, <2>2
  <2>3. CASE pool' = Tail(pool) /\ (outcome' # outcome => item = Head(pool))
    <3>1. /\ Len(pool) \in Nat \ {0} /\ Len(pool') = Len(pool) - 1 /\ Head(pool) = pool[1]
          /\ \A j \in 1 .. Len(pool') : pool'[j] = pool[j + 1] /\ j + 1 \in 1 .. Len(pool)
      BY <2>1, <2>3, PoolPops
    <3>2. item # OverflowHalt
      BY DEF TypeInv
    <3>3. ASSUME NEW i \in 1 .. Len(pool'), pool'[i] # OverflowHalt
          PROVE  pool'[i] = item /\ consumer = "await" /\ outcome' = None
      <4>1. /\ i + 1 \in 1 .. Len(pool) /\ pool[i + 1] # OverflowHalt /\ 1 < i + 1
            /\ 1 \in 1 .. Len(pool) /\ pool'[i] = pool[i + 1]
        BY <3>1, <3>3
      <4>2. pool[1] = OverflowHalt
        BY <1>0, <4>1
      <4> QED
        BY <1>0, <2>3, <3>1, <3>2, <4>1, <4>2
    <3>4. ASSUME NEW i \in 1 .. Len(pool'), NEW j \in 1 .. Len(pool'), i < j
          PROVE  pool'[i] = OverflowHalt \/ pool'[j] = OverflowHalt
      BY <1>0, <3>1, <3>4
    <3> QED
      BY <1>0, <2>1, <3>1, <3>3, <3>4 DEF OpenInv
  <2> QED
    BY <1>8, <2>2, <2>3, EndsOrNot
<1>9. CASE Cancelled
  <2>1. consumer = "get" /\ consumer' = "dead" /\ UNCHANGED <<pool, item, outcome, overflowed>>
    BY <1>9 DEF Cancelled, CancelConsumer, ingressFrame
  <2> QED
    BY <1>0, <2>1 DEF OpenInv
<1>10. CASE CloseShutsDown \/ CloseReturns
  BY <1>0, <1>10 DEF CloseShutsDown, CloseReturns
<1> QED
  BY <1>0, <1>2, <1>3, <1>4, <1>5, <1>6, <1>7, <1>8, <1>9, <1>10
     DEF Next, Journaling, IngressNext, TaskNext, WorkNext, WorkEnds, EndNext, bvars

LEMMA FatalStays == [Next]_bvars => fatal' = fatal \/ fatal' = TRUE
BY DEF Next, Journaling, IngressNext, TaskNext, WorkNext, EndNext, bvars, bridgeVars, Post, PutNow,
       PutterGoesOn, Request, Consume, ConsumerResumes, FenceIfUnavailable, FailClosed, StartJob,
       Write, NoteFailure, HaltInMemory, WriteReturns, NoteReturns, HaltReturns, MethodReturns,
       MethodRaises, Cancelled, Close, CloseShutsDown, CloseReturns, loopFrame, workFrame

(* A refusal its future tells of waits for the task; the executor holds     *)
(* HALTs of an overflow then.                                               *)
LEMMA PendingHolds ==
  ASSUME TypeInv, OpenInv, closing = "no", Pending
  PROVE  \A i \in 1 .. Len(pool) : pool[i] = OverflowHalt
BY Known DEF OpenInv, Pending, TypeInv

LEMMA RefusalStep ==
  ASSUME TypeInv, WaitInv, JournalInv, CallInv, OpenInv, RefusalInv, [Next]_bvars
  PROVE  RefusalInv'
<1> USE Known
<1> SUFFICES ASSUME closing' = "no", refused', ~fatal' PROVE RefusalInv'
  BY DEF RefusalInv
<1>0. /\ closing = "no" /\ ~Close /\ ~fatal /\ item # OverflowHalt
      /\ \A i \in 1 .. Len(pool) :
           pool[i] # OverflowHalt => pool[i] = item /\ consumer = "await" /\ outcome = None
      /\ refused => \/ Pending
                    \/ /\ job \in {"halt", "haltWrite"} /\ pool[1] # OverflowHalt /\ Refuses
                       /\ job = "haltWrite" => call = "unavailable"
      /\ job # "none" => Len(pool) > 0 /\ 1 \in 1 .. Len(pool) /\ Head(pool) = pool[1]
  <2>1. closing = "no" /\ ~Close /\ ~fatal
    BY ClosedStays, FatalStays
  <2>2. ASSUME job # "none" PROVE Len(pool) > 0 /\ 1 \in 1 .. Len(pool) /\ Head(pool) = pool[1]
    <3>1. pool \in Seq(Jobs) /\ Len(pool) > 0 /\ pool # <<>>
      BY <2>2, EmptySeq DEF TypeInv, WaitInv
    <3> QED
      BY <3>1, Taken
  <2> QED
    BY <2>1, <2>2 DEF OpenInv, RefusalInv, TypeInv
<1>1. ASSUME refused' = refused, UNCHANGED <<consumer, outcome>>, job' = job,
             pool'[1] = pool[1] \/ job = "none",
             Refuses => Refuses', call = "unavailable" => call' = "unavailable"
      PROVE  RefusalInv'
  BY <1>0, <1>1 DEF RefusalInv, Pending
<1>2. CASE UNCHANGED bvars
  BY <1>1, <1>2 DEF bvars, bridgeVars, jvars, Refuses
<1>3. CASE Journaling
  <2>1. UNCHANGED bridgeVars /\ JournalNext
    BY <1>3 DEF Journaling
  <2> QED
    BY <1>1, <2>1, JournalKeeps DEF bridgeVars
<1>4. CASE IngressNext
  <2>1. UNCHANGED <<jvars, refused, consumer, outcome, job>>
    BY <1>4 DEF IngressNext, Post, PutNow, PutterGoesOn, Request, loopFrame
  <2>2. pool' = pool \/ pool' = Append(pool, OverflowHalt)
    BY <1>4 DEF IngressNext, Post, PutNow, PutterGoesOn, Request, Overflow, SubmitHalt
  <2>3. job # "none" => pool'[1] = pool[1]
    BY <1>0, <2>2, PoolAppends
  <2> QED
    BY <1>1, <2>1, <2>3 DEF jvars, Refuses
<1>5. CASE Consume \/ Cancelled
  <2>1. consumer = "get" /\ refused
    BY <1>5 DEF Consume, Cancelled
  <2> QED
    BY <1>0, <2>1 DEF Pending
<1>6. CASE ConsumerResumes
  <2>1. outcome # None /\ refused /\ outcome # "unavailable"
    BY <1>6 DEF ConsumerResumes, FenceIfUnavailable, FailClosed
  <2> QED
    BY <1>0, <2>1 DEF Pending
<1>7. CASE StartJob \/ Write \/ NoteFailure
  <2>1. UNCHANGED <<consumer, outcome>> /\ refused /\ job \notin {"halt", "haltWrite"}
    BY <1>7 DEF StartJob, Write, NoteFailure, workFrame
  <2> QED
    BY <1>0, <2>1 DEF RefusalInv, Pending
<1>8. CASE HaltInMemory
  <2>1. UNCHANGED <<consumer, outcome, pool>> /\ refused /\ job = "halt" /\ job' = "haltWrite"
        /\ Submit("halt")
    BY <1>8 DEF HaltInMemory, workFrame
  <2>2. Refuses => call' = "unavailable" /\ Refuses'
    BY <2>1, SubmitKeeps DEF Requests
  <2> QED
    BY <1>0, <2>1, <2>2 DEF RefusalInv, Pending
<1>9. CASE NoteReturns
  <2>1. /\ UNCHANGED <<consumer, outcome, pool, wq, writer, failed, closed>>
        /\ job = "noteWrite" /\ job' = "halt"
        /\ refused' => refused \/ call = "unavailable"
    BY <1>9 DEF NoteReturns, NoteRefusal, workFrame
  <2>2. call = "unavailable" => Refuses'
    BY <2>1 DEF JournalInv, Refuses
  <2>3. pool[1] # OverflowHalt
    BY <2>1 DEF WaitInv
  <2> QED
    BY <1>0, <2>1, <2>2, <2>3 DEF RefusalInv, Pending
<1>10. CASE WorkEnds
  <2>1. UNCHANGED <<consumer, item>> /\ job # "none"
    BY <1>10, EndsOrNot
  <2>2. Pending => outcome # None
    BY DEF Pending
  <2>3. Pending => Pending'
    <3>1. Pending => pool[1] = OverflowHalt
      BY <1>0, <2>1, PendingHolds
    <3> QED
      BY <1>0, <1>10, <2>1, <3>1, EndsOrNot DEF Pending
  <2>4. CASE WriteReturns \/ MethodReturns \/ MethodRaises
    <3>1. refused /\ job \in {"run", "write"}
      BY <1>0, <2>4 DEF WriteReturns, MethodReturns, MethodRaises, NoteRefusal, FailClosed
    <3> QED
      BY <1>0, <2>3, <3>1 DEF RefusalInv
  <2>5. CASE HaltReturns
    <3>1. /\ job = "haltWrite" /\ call \in {"ok", "unavailable"}
          /\ refused' = (refused \/ (call = "unavailable" /\ pool[1] # OverflowHalt))
          /\ outcome' = IF item = pool[1] THEN call ELSE outcome
      BY <1>0, <2>1, <2>5 DEF HaltReturns, NoteRefusal, Ends
    <3>2. CASE call = "unavailable" /\ pool[1] # OverflowHalt
      BY <1>0, <2>1, <3>1, <3>2 DEF RefusalInv, Pending
    <3>3. CASE ~(call = "unavailable" /\ pool[1] # OverflowHalt)
      BY <1>0, <2>3, <3>1, <3>3 DEF RefusalInv
    <3> QED
      BY <3>2, <3>3
  <2> QED
    BY <1>10, <2>4, <2>5 DEF WorkEnds
<1>11. CASE CloseShutsDown \/ CloseReturns
  BY <1>0, <1>11 DEF CloseShutsDown, CloseReturns
<1> QED
  BY <1>0, <1>2, <1>3, <1>4, <1>5, <1>6, <1>7, <1>8, <1>9, <1>10, <1>11
     DEF Next, TaskNext, WorkNext, WorkEnds, EndNext

LEMMA HaltStep ==
  ASSUME TypeInv, WaitInv, JournalInv, CallInv, OpenInv, HaltInv, [Next]_bvars
  PROVE  HaltInv'
<1> USE Known
<1> SUFFICES ASSUME closing' = "no", mode' = "HALTED", ~overflowed', ~fatal' PROVE HaltInv'
  BY DEF HaltInv
<1>0. /\ closing = "no" /\ ~Close /\ ~fatal /\ ~overflowed
      /\ \A i \in 1 .. Len(pool) : pool[i] = item /\ consumer = "await" /\ outcome = None
      /\ mode = "HALTED" => onDisk = "halt" \/ Pending \/ job = "haltWrite"
      /\ job # "none" => Len(pool) > 0 /\ 1 \in 1 .. Len(pool) /\ Head(pool) = pool[1]
  <2>1. closing = "no" /\ ~Close /\ ~fatal /\ ~overflowed
    BY ClosedStays, FatalStays, LossIsKnown
  <2>2. ASSUME job # "none" PROVE Len(pool) > 0 /\ 1 \in 1 .. Len(pool) /\ Head(pool) = pool[1]
    <3>1. pool \in Seq(Jobs) /\ Len(pool) > 0 /\ pool # <<>>
      BY <2>2, EmptySeq DEF TypeInv, WaitInv
    <3> QED
      BY <3>1, Taken
  <2> QED
    BY <2>1, <2>2 DEF OpenInv, HaltInv
<1>1. ASSUME UNCHANGED <<mode, consumer, outcome>>, job' = job \/ job # "haltWrite",
             onDisk = "halt" => onDisk' = "halt"
      PROVE  HaltInv'
  BY <1>0, <1>1 DEF HaltInv, Pending
<1>2. CASE UNCHANGED bvars
  BY <1>1, <1>2 DEF bvars, bridgeVars, jvars
<1>3. CASE Journaling
  <2>1. UNCHANGED bridgeVars /\ JournalNext
    BY <1>3 DEF Journaling
  <2> QED
    BY <1>1, <2>1, JournalKeeps DEF bridgeVars
<1>4. CASE IngressNext
  <2>1. UNCHANGED <<jvars, mode, consumer, outcome, job>>
    BY <1>0, <1>4 DEF IngressNext, Post, PutNow, PutterGoesOn, Request, FailClosed, loopFrame
  <2> QED
    BY <1>1, <2>1 DEF jvars
<1>5. CASE Consume \/ Cancelled
  <2>1. consumer = "get" /\ UNCHANGED <<jvars, mode, job>>
    BY <1>5 DEF Consume, Cancelled
  <2> QED
    BY <1>0, <2>1 DEF jvars, HaltInv, Pending
<1>6. CASE ConsumerResumes
  <2>1. outcome # "unavailable" /\ UNCHANGED <<jvars, mode, job>>
    BY <1>6 DEF ConsumerResumes, FenceIfUnavailable, FailClosed
  <2> QED
    BY <1>0, <2>1 DEF jvars, HaltInv, Pending
<1>7. CASE StartJob
  BY <1>1, <1>7 DEF StartJob, workFrame, jvars
<1>8. CASE Write \/ NoteFailure
  BY <1>1, <1>8 DEF Write, NoteFailure, Submit, workFrame
<1>9. CASE HaltInMemory
  BY <1>9 DEF HaltInMemory, HaltInv
<1>10. CASE NoteReturns
  BY <1>1, <1>10 DEF NoteReturns, workFrame
<1>11. CASE WorkEnds
  <2>1. /\ UNCHANGED <<consumer, item, onDisk>> /\ job # "none" /\ outcome = None
        /\ consumer = "await" /\ pool[1] = item
    BY <1>0, <1>11, EndsOrNot
       DEF WorkEnds, WriteReturns, HaltReturns, MethodReturns, MethodRaises, jvars
  <2>2. CASE WriteReturns \/ MethodReturns \/ MethodRaises
    <3>1. mode' = mode /\ job # "haltWrite"
      BY <1>0, <2>2 DEF WriteReturns, MethodReturns, MethodRaises, FailClosed
    <3> QED
      BY <1>0, <2>1, <3>1 DEF HaltInv, Pending
  <2>3. CASE HaltReturns
    <3>1. /\ job = "haltWrite" /\ call \in {"ok", "unavailable"} /\ outcome' = call
      BY <1>0, <2>1, <2>3 DEF HaltReturns, Ends
    <3>2. call = "ok" => onDisk = "halt"
      BY <3>1 DEF CallInv
    <3> QED
      BY <2>1, <3>1, <3>2 DEF HaltInv, Pending
  <2> QED
    BY <1>11, <2>2, <2>3 DEF WorkEnds
<1>12. CASE CloseShutsDown \/ CloseReturns
  BY <1>0, <1>12 DEF CloseShutsDown, CloseReturns
<1> QED
  BY <1>0, <1>2, <1>3, <1>4, <1>5, <1>6, <1>7, <1>8, <1>9, <1>10, <1>11, <1>12
     DEF Next, TaskNext, WorkNext, WorkEnds, EndNext

-----------------------------------------------------------------------------
(* The theorems.                                                           *)

BridgeInv ==
  /\ TypeInv /\ WaitInv /\ OrderInv /\ LossInv
  /\ JournalInv /\ CallInv /\ OpenInv /\ RefusalInv /\ HaltInv

LEMMA BridgeInvHolds == Spec => []BridgeInv
<1>1. Init => BridgeInv
  BY TypeStarts, OrderStarts, LossStarts, JournalStarts, OpenStarts DEF BridgeInv
<1>2. BridgeInv /\ [Next]_bvars => BridgeInv'
  <2> SUFFICES ASSUME BridgeInv, [Next]_bvars PROVE BridgeInv'
    OBVIOUS
  <2>1. /\ TypeInv /\ WaitInv /\ OrderInv /\ LossInv
        /\ JournalInv /\ CallInv /\ OpenInv /\ RefusalInv /\ HaltInv /\ Inc(pool)
    BY DEF BridgeInv, OrderInv
  <2> QED
    BY <2>1, TypeStep, WaitStep, OrderStep, LossStep, CallStep, OpenStep, RefusalStep, HaltStep
       DEF BridgeInv
<1> QED
  BY <1>1, <1>2, PTL DEF Spec

(* The controller's methods are run for the callbacks in the order the     *)
(* broker delivered them, whatever is dropped, cancelled or closed on the  *)
(* way (async_bridge.py, _post and _consume).                               *)
THEOREM CallbacksInOrder == Spec => []AppliedInOrder
<1>1. BridgeInv => AppliedInOrder
  <2> SUFFICES ASSUME BridgeInv,
                      NEW i \in 1 .. Len(handled), NEW j \in 1 .. Len(handled),
                      i < j, handled[i] \notin Commands, handled[j] \notin Commands
               PROVE  handled[i] < handled[j]
    BY DEF AppliedInOrder
  <2>1. handled \in Seq(Items) /\ Inc(handled)
    BY DEF BridgeInv, TypeInv, OrderInv
  <2>2. handled[i] \in Calls /\ handled[j] \in Calls
    BY <2>1, ElementOfSeq, Known
  <2> QED
    BY <2>1, <2>2 DEF Inc
<1> QED
  BY <1>1, BridgeInvHolds, PTL

(* What arrives after a dropped callback is applied by a halted controller *)
(* only: the HALT of the overflow is in the worker thread's queue before it *)
(* (async_bridge.py, _post.put).                                            *)
THEOREM LossesAreFenced == Spec => LossIsFenced
<1>1. ASSUME BridgeInv, [Next]_bvars,
             handled' # handled, handled'[Len(handled')] \notin Commands
      PROVE  mode = "HALTED" \/ \A l \in lost : handled'[Len(handled')] < l
  <2>1. StartJob
    BY <1>1 DEF Next, Journaling, IngressNext, TaskNext, WorkNext, EndNext, bvars, bridgeVars, Post,
       PutNow, PutterGoesOn, Request, Consume, ConsumerResumes, Write, NoteFailure, HaltInMemory,
       WriteReturns, NoteReturns, HaltReturns, MethodReturns, MethodRaises, Cancelled, Close,
       CloseShutsDown, CloseReturns, loopFrame, workFrame
  <2>2. pool \in Seq(Jobs) /\ handled \in Seq(Items) /\ pool # <<>>
    BY <1>1, <2>1 DEF BridgeInv, TypeInv, StartJob
  <2>3. /\ Head(pool) = pool[1] /\ pool[1] \in Jobs /\ 1 \in 1 .. Len(pool) /\ Waits(1)
        /\ pool[1] # OverflowHalt /\ handled' = Append(handled, pool[1])
    BY <1>1, <2>1, <2>2, Taken DEF StartJob, Waits
  <2>4. pool[1] \in Items /\ handled'[Len(handled')] = pool[1]
    <3>1. pool[1] \in Items
      BY <2>3 DEF Jobs
    <3> QED
      BY <2>2, <2>3, <3>1, AppendProperties, LenProperties
  <2>5. pool[1] \in Calls
    BY <1>1, <2>4, Known
  <2>6. \A l \in lost :
          \/ pool[1] < l \/ mode = "HALTED"
          \/ \E i \in 1 .. Len(pool) : i < 1 /\ pool[i] = OverflowHalt
    BY <1>1, <2>3, <2>5 DEF BridgeInv, LossInv
  <2>7. \A i \in 1 .. Len(pool) : ~(i < 1)
    OBVIOUS
  <2> QED
    BY <2>4, <2>6, <2>7
<1>2. BridgeInv /\ [Next]_bvars =>
        [handled' # handled /\ handled'[Len(handled')] \notin Commands =>
           mode = "HALTED" \/ \A l \in lost : handled'[Len(handled')] < l]_bvars
  BY <1>1
<1> QED
  BY <1>2, BridgeInvHolds, PTL DEF Spec, LossIsFenced

(* A write the journal refused, in a method, in its failure note or in its *)
(* HALT, has fenced the engine once the method and the task are done with  *)
(* it (controller.py, _guarded; async_bridge.py, _consume).                 *)
THEOREM RefusalsAreFenced == Spec => []RefusalIsFenced
<1>1. BridgeInv => RefusalIsFenced
  BY DEF BridgeInv, RefusalInv, RefusalIsFenced, Pending
<1> QED
  BY <1>1, BridgeInvHolds, PTL

(* A HALT is on disk or in the durable fence once the method and the task  *)
(* are done with it (controller.py, set_mode and _fail_closed_runtime).     *)
THEOREM HaltsLeaveATrace == Spec => []HaltLeavesATrace
<1>1. BridgeInv => HaltLeavesATrace
  BY DEF BridgeInv, HaltInv, HaltLeavesATrace, Pending
<1> QED
  BY <1>1, BridgeInvHolds, PTL

================================================================================
