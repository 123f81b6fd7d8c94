--------------------------- MODULE ControllerBridge ---------------------------
(***************************************************************************)
(* The asyncio bridge between the broker's event loop and the synchronous  *)
(* controller: callbacks and commands wait in one bounded queue, one task  *)
(* takes them, and one worker thread runs the controller's methods, whose  *)
(* journal writes wait for the writer thread of JournalWriter.             *)
(* A method is its sequence of durable writes and the way it ends.         *)
(***************************************************************************)
EXTENDS JournalWriter, FiniteSets

CONSTANTS
  Callbacks,    \* how many callbacks the broker delivers, 1, 2, ... in order
  Commands,     \* what the host and the strategy ask for, each once
  MaxQueue,     \* max_queue
  MaxWrites,    \* bound on the durable writes of one method
  BridgeFaults, \* which of BridgeFaultKinds may happen
  OverflowHalt, \* the job of the worker thread that is no item: halt()
  None

(* "raise": a method raises; "cancelled": the task is cancelled from outside; *)
(* "close": close() is called.                                             *)
BridgeFaultKinds == {"raise", "cancelled", "close"}

ASSUME BridgeAssumption ==
  /\ Callbacks \in Nat /\ MaxQueue \in Nat \ {0} /\ MaxWrites \in Nat
  /\ BridgeFaults \subseteq BridgeFaultKinds
  /\ Cardinality({None, OverflowHalt}) = 2
  /\ {None, OverflowHalt} \cap (Commands \cup 1..Callbacks) = {}
  /\ Commands \cap 1..Callbacks = {}
  /\ None \notin {"ok", "unavailable", "raised"}

VARIABLES
  posted,      \* callbacks delivered so far
  soon,        \* call_soon_threadsafe: puts the loop has not run yet
  queue,       \* the asyncio queue
  putters,     \* commands waiting for room in it
  asked,       \* command -> "no", "pending", "answered"
  consumer,    \* the task: "get", "await", "dead"
  item,        \* what it awaits the executor for, or None
  pool,        \* jobs of the single-thread executor; the first one runs
  job,         \* where the running one is
  writes,      \* its writes so far
  outcome,     \* of the awaited future: None until the method is over
  closing,     \* close(): "no", "cancelling", "shutdown", "done"
  overflowed, lost,  \* _overflowed, and the callbacks dropped
  mode, fatal,       \* of the controller: HALTED?, fatal_shutdown_requested
  handled,           \* history: items whose method was started, in order
  refused            \* history: an item's method was refused a write

bridgeVars == <<posted, soon, queue, putters, asked, consumer, item, pool, job, writes,
                outcome, closing, overflowed, lost, mode, fatal, handled, refused>>
bvars == <<jvars, bridgeVars>>

Init ==
  /\ JournalInit
  /\ posted = 0 /\ soon = <<>> /\ queue = <<>> /\ putters = <<>>
  /\ asked = [c \in Commands |-> "no"]
  /\ consumer = "get" /\ item = None /\ outcome = None
  /\ pool = <<>> /\ job = "none" /\ writes = 0
  /\ closing = "no" /\ overflowed = FALSE /\ lost = {}
  /\ mode = "NORMAL" /\ fatal = FALSE
  /\ handled = <<>> /\ refused = FALSE

Full == Len(queue) >= MaxQueue

(* _fail_closed_runtime: in memory, and the durable fence.                  *)
FailClosed == fatal' = TRUE /\ mode' = "HALTED"

-----------------------------------------------------------------------------
(* Ingress.                                                                *)

loopFrame == <<jvars, consumer, item, outcome, job, writes, closing, handled, refused>>

(* _require_queue: refused once closed; a dead task fences the engine.      *)
Post ==
  /\ posted < Callbacks
  /\ posted' = posted + 1
  /\ IF closing = "no" /\ consumer = "dead"
     THEN FailClosed /\ UNCHANGED soon
     ELSE /\ soon' = IF closing = "no" THEN Append(soon, posted') ELSE soon
          /\ UNCHANGED <<mode, fatal>>
  /\ UNCHANGED <<loopFrame, queue, putters, asked, pool, overflowed, lost>>

DropOnly == UNCHANGED pool \* mutant: the callback is dropped and nothing more

(* The first overflow submits halt() to the worker thread itself, past the *)
(* queue; a shut down executor refuses it.                                 *)
SubmitHalt ==
  pool' = IF overflowed \/ closing \in {"shutdown", "done"} THEN pool
          ELSE Append(pool, OverflowHalt)

PutAgain ==  \* mutant: an overflowing callback is scheduled once more
  /\ soon' = Append(Tail(soon), Head(soon))
  /\ UNCHANGED <<pool, overflowed, lost>>

Overflow ==
  /\ soon' = Tail(soon)
  /\ lost' = lost \cup {Head(soon)}
  /\ overflowed' = TRUE
  /\ SubmitHalt

PutNow ==
  /\ soon # <<>>
  /\ IF Full
     THEN Overflow /\ UNCHANGED queue
     ELSE /\ queue' = Append(queue, Head(soon)) /\ soon' = Tail(soon)
          /\ UNCHANGED <<pool, overflowed, lost>>
  /\ UNCHANGED <<loopFrame, posted, putters, asked, mode, fatal>>

Request(c) ==
  /\ asked[c] = "no"
  /\ closing = "no"
  /\ IF consumer = "dead"
     THEN /\ asked' = [asked EXCEPT ![c] = "answered"]
          /\ FailClosed
          /\ UNCHANGED <<queue, putters>>
     ELSE /\ asked' = [asked EXCEPT ![c] = "pending"]
          /\ IF Full THEN putters' = Append(putters, c) /\ UNCHANGED queue
                     ELSE queue' = Append(queue, c) /\ UNCHANGED putters
          /\ UNCHANGED <<mode, fatal>>
  /\ UNCHANGED <<loopFrame, posted, soon, pool, overflowed, lost>>

PutterGoesOn ==
  /\ putters # <<>> /\ ~Full
  /\ queue' = Append(queue, Head(putters))
  /\ putters' = Tail(putters)
  /\ UNCHANGED <<loopFrame, posted, soon, asked, pool, overflowed, lost, mode, fatal>>

-----------------------------------------------------------------------------
(* The consumer task.                                                      *)

ingressFrame == <<posted, soon, putters, overflowed, lost>>

Consume ==
  /\ consumer = "get" /\ queue # <<>>
  /\ item' = Head(queue) /\ queue' = Tail(queue)
  /\ pool' = Append(pool, item')
  /\ consumer' = "await" /\ outcome' = None
  /\ UNCHANGED <<jvars, ingressFrame, asked, job, writes, closing, mode, fatal, handled, refused>>

Answered(i) == IF i \in Commands THEN [asked EXCEPT ![i] = "answered"] ELSE asked

LeaveOpen == UNCHANGED <<mode, fatal>> \* mutant: the exception is only logged

(* A JournalUnavailable that leaves the method fences the engine; any other *)
(* exception only goes to whoever waits for the item.                      *)
FenceIfUnavailable ==
  IF outcome = "unavailable" THEN FailClosed ELSE UNCHANGED <<mode, fatal>>

ConsumerResumes ==
  /\ consumer = "await" /\ outcome # None
  /\ asked' = Answered(item)
  /\ FenceIfUnavailable
  /\ consumer' = "get" /\ item' = None /\ outcome' = None
  /\ UNCHANGED <<jvars, ingressFrame, queue, pool, job, writes, closing, handled, refused>>

-----------------------------------------------------------------------------
(* The worker thread and the methods it runs.                              *)

workFrame == <<ingressFrame, queue, asked, consumer, item, closing>>

NoteRefusal == refused' = (refused \/ (call = "unavailable" /\ Head(pool) # OverflowHalt))

StartJob ==
  /\ job = "none" /\ pool # <<>>
  /\ writes' = 0
  /\ IF Head(pool) = OverflowHalt
     THEN job' = "halt" /\ UNCHANGED handled
     ELSE job' = "run" /\ handled' = Append(handled, Head(pool))
  /\ UNCHANGED <<jvars, workFrame, pool, outcome, mode, fatal, refused>>

(* A durable write of the method, of CALLBACK_FAILURE, or of the HALT.      *)
Write ==
  /\ job = "run" /\ writes < MaxWrites
  /\ Submit("event")
  /\ job' = "write" /\ writes' = writes + 1
  /\ UNCHANGED <<workFrame, pool, outcome, mode, fatal, handled, refused>>

NoteFailure ==
  /\ job = "note"
  /\ Submit("event")
  /\ job' = "noteWrite"
  /\ UNCHANGED <<workFrame, pool, writes, outcome, mode, fatal, handled, refused>>

(* set_mode changes the mode in memory first.                              *)
HaltInMemory ==
  /\ job = "halt"
  /\ mode' = "HALTED"
  /\ Submit("halt")
  /\ job' = "haltWrite"
  /\ UNCHANGED <<workFrame, pool, writes, outcome, fatal, handled, refused>>

(* The method is over; its future, if someone still awaits it, is set.      *)
EndsIfOk(o) ==  \* mutant: an exception never reaches the awaited future
  /\ job' = "none" /\ pool' = Tail(pool)
  /\ outcome' = IF item = Head(pool) /\ o = "ok" THEN o ELSE outcome

Ends(o) ==
  /\ job' = "none" /\ pool' = Tail(pool)
  /\ outcome' = IF item = Head(pool) THEN o ELSE outcome

(* A JournalUnavailable in a guarded method fences at once; a command also *)
(* raises it to its caller.                                                *)
WriteReturns ==
  /\ job = "write" /\ call \in {"ok", "unavailable"}
  /\ call' = "idle" /\ NoteRefusal
  /\ IF call = "ok"
     THEN job' = "run" /\ UNCHANGED <<pool, outcome, mode, fatal>>
     ELSE /\ FailClosed
          /\ Ends(IF Head(pool) \in Commands THEN "unavailable" ELSE "ok")
  /\ UNCHANGED <<wq, writer, failed, closed, onDisk, workFrame, writes, handled>>

(* Whether the note is on disk or not, the HALT follows.                   *)
NoteReturns ==
  /\ job = "noteWrite" /\ call \in {"ok", "unavailable"}
  /\ call' = "idle" /\ job' = "halt" /\ NoteRefusal
  /\ UNCHANGED <<wq, writer, failed, closed, onDisk, workFrame, pool, writes, outcome,
                 mode, fatal, handled>>

HaltReturns ==
  /\ job = "haltWrite" /\ call \in {"ok", "unavailable"}
  /\ call' = "idle" /\ NoteRefusal
  /\ Ends(call)
  /\ UNCHANGED <<wq, writer, failed, closed, onDisk, workFrame, writes, mode, fatal, handled>>

MethodReturns ==
  /\ job = "run"
  /\ Ends("ok")
  /\ UNCHANGED <<jvars, workFrame, writes, mode, fatal, handled, refused>>

(* A callback that raises is guarded; a command's exception is its caller's. *)
MethodRaises ==
  /\ "raise" \in BridgeFaults
  /\ job = "run"
  /\ IF Head(pool) \in Commands THEN Ends("raised")
                                ELSE job' = "note" /\ UNCHANGED <<pool, outcome>>
  /\ UNCHANGED <<jvars, workFrame, writes, mode, fatal, handled, refused>>

-----------------------------------------------------------------------------
(* The end of the task.                                                    *)

(* A job that has not started is dropped with its future.                  *)
Withdraw ==
  LET mine == {i \in 1..Len(pool) : pool[i] = item /\ (i = 1 => job = "none")}
  IN IF mine = {} THEN UNCHANGED pool
     ELSE \E i \in mine : pool' = SubSeq(pool, 1, i - 1) \o SubSeq(pool, i + 1, Len(pool))

(* A cancellation that reaches the task in _queue.get() ends it; one that  *)
(* reaches it while it awaits the executor is caught with every other      *)
(* exception, and the task goes on.                                        *)
CancelConsumer ==
  IF consumer = "await"
  THEN /\ consumer' = "get" /\ item' = None /\ outcome' = None
       /\ asked' = Answered(item)
       /\ Withdraw
  ELSE /\ consumer' = "dead"
       /\ UNCHANGED <<item, outcome, asked, pool>>

Cancelled ==
  /\ "cancelled" \in BridgeFaults
  /\ closing = "no" /\ consumer = "get"
  /\ CancelConsumer
  /\ UNCHANGED <<jvars, ingressFrame, queue, job, writes, closing, mode, fatal, handled, refused>>

Close ==
  /\ "close" \in BridgeFaults
  /\ closing = "no"
  /\ closing' = "cancelling"
  /\ CancelConsumer
  /\ UNCHANGED <<jvars, ingressFrame, queue, job, writes, mode, fatal, handled, refused>>

(* shutdown(wait=True, cancel_futures=True).                               *)
CloseShutsDown ==
  /\ closing = "cancelling" /\ consumer = "dead"
  /\ closing' = "shutdown"
  /\ pool' = IF job = "none" THEN <<>> ELSE SubSeq(pool, 1, 1)
  /\ UNCHANGED <<jvars, ingressFrame, queue, asked, consumer, item, outcome, job, writes,
                 mode, fatal, handled, refused>>

CloseReturns ==
  /\ closing = "shutdown" /\ pool = <<>>
  /\ closing' = "done"
  /\ UNCHANGED <<jvars, ingressFrame, queue, asked, consumer, item, outcome, pool, job, writes,
                 mode, fatal, handled, refused>>

-----------------------------------------------------------------------------
Journaling == JournalNext /\ UNCHANGED bridgeVars

IngressNext == Post \/ PutNow \/ PutterGoesOn \/ \E c \in Commands : Request(c)
TaskNext == Consume \/ ConsumerResumes
WorkNext ==
  StartJob \/ Write \/ NoteFailure \/ HaltInMemory \/ WriteReturns \/ NoteReturns
    \/ HaltReturns \/ MethodReturns \/ MethodRaises
EndNext == Cancelled \/ Close \/ CloseShutsDown \/ CloseReturns

Next == Journaling \/ IngressNext \/ TaskNext \/ WorkNext \/ EndNext

Spec == Init /\ [][Next]_bvars

(* The threads and the loop run; a request of the journal is answered or   *)
(* times out.  Nobody is obliged to call the bridge or to fail.            *)
Fairness ==
  /\ WF_bvars(PutNow) /\ WF_bvars(PutterGoesOn)
  /\ WF_bvars(TaskNext) /\ WF_bvars(WorkNext)
  /\ WF_bvars(CloseShutsDown) /\ WF_bvars(CloseReturns)
  /\ WF_bvars(Journaling /\ (WriterCommits \/ WriterFails \/ CallTimesOut))
  /\ WF_bvars(Journaling /\ WriterExits)

FairSpec == Spec /\ Fairness

-----------------------------------------------------------------------------
(* Properties.                                                             *)

(* The controller sees callbacks in the order the broker delivered them.    *)
AppliedInOrder ==
  \A i, j \in 1..Len(handled) :
    i < j /\ handled[i] \notin Commands /\ handled[j] \notin Commands =>
      handled[i] < handled[j]

(* async_bridge.py: "Losing a callback is unrecoverable": what arrives      *)
(* after a dropped callback is never applied by an unhalted controller,    *)
(* however far the queue and the worker thread have fallen behind.         *)
LossIsFenced ==
  [][handled' # handled /\ handled'[Len(handled')] \notin Commands =>
       mode = "HALTED" \/ \A l \in lost : handled'[Len(handled')] < l]_bvars

(* SPEC invariant 18 and journal.py: "There is exactly one correct          *)
(* response: stop trading."  When the worker thread and the task are done  *)
(* with a method that was refused a write, wherever in it that happened,   *)
(* the engine is fenced, unless close() has taken the task away.           *)
RefusalIsFenced ==
  refused /\ job = "none" /\ consumer # "await" /\ closing = "no" => fatal

(* As long as the task is there, and whatever a method and the journal do: *)
(* every command that got into the bridge is answered, and every callback  *)
(* the broker delivered is applied or known to be lost.                    *)
Over == closing # "no" \/ consumer = "dead"
NothingIsLeftWaiting ==
  /\ \A c \in Commands : asked[c] = "pending" ~> asked[c] = "answered" \/ Over
  /\ \A k \in 1..Callbacks :
       posted = k ~> \/ \E i \in 1..Len(handled) : handled[i] = k
                     \/ k \in lost \/ fatal \/ Over

(* SPEC invariant 22: a HALT outlives the process, through the journal or  *)
(* the durable fence, also when the write that carries it is refused.  The *)
(* HALT of the overflow job is outside of it: nobody looks at its future.  *)
HaltLeavesATrace ==
  mode = "HALTED" /\ job = "none" /\ consumer # "await" /\ closing = "no" /\ ~overflowed =>
    onDisk = "halt" \/ fatal
=============================================================================
