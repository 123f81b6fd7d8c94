---------------------------- MODULE RawEventLog ----------------------------
(***************************************************************************)
(* The recorder's raw event log and the finalization of a session:         *)
(* RawEventLog (a bounded queue, one writer thread, rolling segments, a    *)
(* session lock) and _finalize_day (accounting, a segment snapshot, three  *)
(* files replaced one after the other, the manifest last).                 *)
(*                                                                         *)
(* Several runs of the program may record one session: a run that died is  *)
(* succeeded by another, which may already be recording while its          *)
(* predecessor finalizes.  A run writes the rows it accepted in order, so  *)
(* its rows on disk are counted, not listed.                               *)
(***************************************************************************)
EXTENDS Naturals, Sequences, FiniteSets

CONSTANTS
  Runs,       \* processes that record this session, numbered in start order
  Capacity,   \* queue_capacity
  BatchMax,   \* batch_records
  MaxTicks,   \* bound: run r is offered MaxTicks + 1 - r events
  Faults      \* which of FaultKinds may happen

FaultKinds == {"io", "slow", "crash"}

ASSUME RunsAssumption == Runs \subseteq Nat \ {0}
ASSUME LogAssumption ==
  /\ Capacity \in Nat \ {0} /\ BatchMax \in Nat \ {0} /\ MaxTicks \in Nat
  /\ Faults \subseteq FaultKinds

Nobody == 0

VARIABLES
  pc,         \* where the run's main thread is
  queue,      \* _queue: "tick", "barrier" or "stop"
  accepted,   \* _accepted
  dropped,    \* _dropped
  failure,    \* _failure is set
  barrier,    \* the caller's view of its flush: "none" .. "error"
  goal,       \* rows accepted when the running flush began
  acked,      \* history: rows the last successful flush vouched for
  wpc,        \* where the writer thread is
  batch,      \* rows of the batch in hand
  todo,       \* of these, rows not yet written
  control,    \* the control object met while collecting, or "none"
  counted,    \* _count: rows reported as persisted
  partial,    \* a .partial- file of the run exists
  written,    \* rows handed to the run's files
  synced,     \* rows an fsync has covered
  published,  \* rows in segment- and crashed- files
  session,    \* holder of .recorder.lock
  finalizer,  \* holder of .finalize.lock
  snapshot,   \* the rows of every run a finalization read back
  output,     \* events.parquet, health.json, manifest.json: rows vouched for
  sealed      \* history: runs that published a manifest

mainVars == <<pc, accepted, dropped, goal, acked>>
writerVars == <<wpc, batch, todo, control, counted>>
diskVars == <<partial, written, synced, published>>
lockVars == <<session, finalizer>>
outVars == <<snapshot, output, sealed>>
vars == <<mainVars, queue, failure, barrier, writerVars, diskVars, lockVars,
          outVars>>

Outputs == {"parquet", "health", "manifest"}
NoRows == [r \in Runs |-> 0]

Live(r) == pc[r] \notin {"new", "dead"}

Init ==
  /\ pc = [r \in Runs |-> "new"]
  /\ queue = [r \in Runs |-> <<>>]
  /\ accepted = NoRows /\ dropped = NoRows
  /\ failure = [r \in Runs |-> FALSE]
  /\ barrier = [r \in Runs |-> "none"]
  /\ goal = NoRows /\ acked = NoRows
  /\ wpc = [r \in Runs |-> "idle"]
  /\ batch = NoRows /\ todo = NoRows
  /\ control = [r \in Runs |-> "none"]
  /\ counted = NoRows
  /\ partial = [r \in Runs |-> FALSE]
  /\ written = NoRows /\ synced = NoRows /\ published = NoRows
  /\ session = Nobody /\ finalizer = Nobody
  /\ snapshot = [r \in Runs |-> NoRows]
  /\ output = [f \in Outputs |-> NoRows]
  /\ sealed = {}

-----------------------------------------------------------------------------
(* The main thread: __init__, append, flush, close.                         *)

At(r, place) == pc[r] = place
Goto(r, place) == pc' = [pc EXCEPT ![r] = place]

(* __init__: take the session lock, rename every partial file in sight.     *)
(* Mutant: the names of earlier segments are used again.                    *)
Start_overwrites(r) ==
  /\ At(r, "new") /\ \A s \in Runs : s < r => pc[s] # "new"
  /\ session = Nobody
  /\ session' = r
  /\ Goto(r, "recording")
  /\ published' = [s \in Runs |-> IF partial[s] THEN written[s] ELSE 0]
  /\ partial' = [s \in Runs |-> FALSE]
  /\ UNCHANGED <<queue, accepted, dropped, failure, barrier, goal, acked,
                 writerVars, written, synced, finalizer, outVars>>

Start(r) ==
  /\ At(r, "new") /\ \A s \in Runs : s < r => pc[s] # "new"
  /\ session = Nobody
  /\ session' = r
  /\ Goto(r, "recording")
  /\ published' = [s \in Runs |-> IF partial[s] THEN written[s]
                                               ELSE published[s]]
  /\ partial' = [s \in Runs |-> FALSE]
  /\ UNCHANGED <<queue, accepted, dropped, failure, barrier, goal, acked,
                 writerVars, written, synced, finalizer, outVars>>

HasRoom(r) == Len(queue[r]) < Capacity

Put(r, item) == queue' = [queue EXCEPT ![r] = Append(@, item)]

Latch(r) == failure' = [failure EXCEPT ![r] = TRUE]

AppendTick(r) ==
  /\ At(r, "recording") /\ ~failure[r] /\ accepted[r] + r <= MaxTicks
  /\ HasRoom(r)
  /\ Put(r, "tick")
  /\ accepted' = [accepted EXCEPT ![r] = @ + 1]
  /\ UNCHANGED <<pc, dropped, goal, acked, failure, barrier, writerVars,
                 diskVars, lockVars, outVars>>

AppendOverflows(r) ==
  /\ At(r, "recording") /\ ~failure[r]
  /\ ~HasRoom(r)
  /\ dropped' = [dropped EXCEPT ![r] = @ + 1]
  /\ Latch(r)
  /\ UNCHANGED <<pc, accepted, goal, acked, queue, barrier, writerVars,
                 diskVars, lockVars, outVars>>

(* flush(publish=True): checked, enqueued, waited for, each with the writer *)
(* running in between.                                                      *)
FlushBegins(r) ==
  /\ At(r, "recording") /\ ~failure[r]
  /\ Goto(r, "enqueueing")
  /\ goal' = [goal EXCEPT ![r] = accepted[r]]
  /\ UNCHANGED <<accepted, dropped, acked, queue, failure, barrier,
                 writerVars, diskVars, lockVars, outVars>>

FlushEnqueues(r) ==
  /\ At(r, "enqueueing") /\ HasRoom(r)
  /\ Put(r, "barrier")
  /\ barrier' = [barrier EXCEPT ![r] = "pending"]
  /\ Goto(r, "flushing")
  /\ UNCHANGED <<accepted, dropped, goal, acked, failure, writerVars,
                 diskVars, lockVars, outVars>>

FlushNotQueued(r) ==
  /\ At(r, "enqueueing") /\ ~HasRoom(r) /\ "slow" \in Faults
  /\ Goto(r, "recording")
  /\ UNCHANGED <<accepted, dropped, goal, acked, queue, failure, barrier,
                 writerVars, diskVars, lockVars, outVars>>

FlushReturns(r) ==
  /\ At(r, "flushing") /\ barrier[r] \in {"ok", "error"}
  /\ Goto(r, "recording")
  /\ barrier' = [barrier EXCEPT ![r] = "none"]
  /\ acked' = [acked EXCEPT ![r] =
                 IF barrier[r] = "ok" /\ ~failure[r] THEN goal[r] ELSE @]
  /\ UNCHANGED <<accepted, dropped, goal, queue, failure, writerVars,
                 diskVars, lockVars, outVars>>

Unanswered(r) == "slow" \in Faults \/ wpc[r] = "exited"

FlushTimesOut(r) ==
  /\ At(r, "flushing") /\ barrier[r] = "pending" /\ Unanswered(r)
  /\ Goto(r, "recording")
  /\ barrier' = [barrier EXCEPT ![r] = "none"]
  /\ Latch(r)
  /\ UNCHANGED <<accepted, dropped, goal, acked, queue, writerVars, diskVars,
                 lockVars, outVars>>

(* close, also called a second time on a log whose first close failed.      *)
CloseBegins(r) ==
  /\ pc[r] \in {"recording", "stuck"}
  /\ Goto(r, "closing")
  /\ UNCHANGED <<accepted, dropped, goal, acked, queue, failure, barrier,
                 writerVars, diskVars, lockVars, outVars>>

CloseEnqueues(r) ==
  /\ At(r, "closing") /\ HasRoom(r)
  /\ Put(r, "stop")
  /\ Goto(r, "joining")
  /\ UNCHANGED <<accepted, dropped, goal, acked, failure, barrier,
                 writerVars, diskVars, lockVars, outVars>>

CloseNotQueued(r) ==
  /\ At(r, "closing") /\ ~HasRoom(r) /\ Unanswered(r)
  /\ Latch(r)
  /\ Goto(r, "joining")
  /\ UNCHANGED <<accepted, dropped, goal, acked, queue, barrier, writerVars,
                 diskVars, lockVars, outVars>>

CloseJoins(r) ==
  /\ At(r, "joining") /\ wpc[r] = "exited"
  /\ session' = Nobody
  /\ Goto(r, IF failure[r] THEN "failed" ELSE "closed")
  /\ UNCHANGED <<accepted, dropped, goal, acked, queue, failure, barrier,
                 writerVars, diskVars, finalizer, outVars>>

(* Mutant: the session is released although the writer may still write.     *)
CloseTimesOut_releases(r) ==
  /\ At(r, "joining") /\ wpc[r] # "exited" /\ "slow" \in Faults
  /\ Latch(r)
  /\ Goto(r, "stuck")
  /\ session' = Nobody
  /\ UNCHANGED <<accepted, dropped, goal, acked, queue, barrier, writerVars,
                 diskVars, finalizer, outVars>>

CloseTimesOut(r) ==
  /\ At(r, "joining") /\ wpc[r] # "exited" /\ "slow" \in Faults
  /\ Latch(r)
  /\ Goto(r, "stuck")
  /\ UNCHANGED <<accepted, dropped, goal, acked, queue, barrier, writerVars,
                 diskVars, lockVars, outVars>>

-----------------------------------------------------------------------------
(* The writer thread.                                                       *)

Writing(r) == Live(r) /\ wpc[r] # "exited"

TakeFirst(r) ==
  /\ Writing(r) /\ wpc[r] = "idle" /\ queue[r] # <<>>
  /\ queue' = [queue EXCEPT ![r] = Tail(@)]
  /\ LET tick == Head(queue[r]) = "tick"
     IN /\ wpc' = [wpc EXCEPT ![r] = IF tick THEN "collect" ELSE "control"]
        /\ batch' = [batch EXCEPT ![r] = IF tick THEN 1 ELSE 0]
        /\ control' = [control EXCEPT ![r] =
                         IF tick THEN "none" ELSE Head(queue[r])]
  /\ UNCHANGED <<mainVars, failure, barrier, todo, counted, diskVars,
                 lockVars, outVars>>

TakeMore(r) ==
  /\ Writing(r) /\ wpc[r] = "collect" /\ batch[r] < BatchMax
  /\ queue[r] # <<>> /\ Head(queue[r]) = "tick"
  /\ queue' = [queue EXCEPT ![r] = Tail(@)]
  /\ batch' = [batch EXCEPT ![r] = @ + 1]
  /\ UNCHANGED <<mainVars, failure, barrier, wpc, todo, control, counted,
                 diskVars, lockVars, outVars>>

(* The batch is full, the queue is empty, or a control object ends it.      *)
Collected(r) ==
  /\ Writing(r) /\ wpc[r] = "collect"
  /\ wpc' = [wpc EXCEPT ![r] = "write"]
  /\ todo' = [todo EXCEPT ![r] = batch[r]]
  /\ IF batch[r] < BatchMax /\ queue[r] # <<>>
     THEN /\ Head(queue[r]) # "tick"
          /\ control' = [control EXCEPT ![r] = Head(queue[r])]
          /\ queue' = [queue EXCEPT ![r] = Tail(@)]
     ELSE UNCHANGED <<control, queue>>
  /\ UNCHANGED <<mainVars, failure, barrier, batch, counted, diskVars,
                 lockVars, outVars>>

(* _close_segment: footer, fsync, atomic rename.                            *)
CloseSegment(r) ==
  /\ synced' = [synced EXCEPT ![r] = written[r]]
  /\ published' = [published EXCEPT ![r] = written[r]]
  /\ partial' = [partial EXCEPT ![r] = FALSE]
  /\ UNCHANGED written

RollSegment(r) ==
  /\ Writing(r) /\ wpc[r] = "write" /\ todo[r] > 0 /\ partial[r]
  /\ CloseSegment(r)
  /\ UNCHANGED <<mainVars, queue, failure, barrier, writerVars, lockVars,
                 outVars>>

WriteRow(r) ==
  /\ Writing(r) /\ wpc[r] = "write" /\ todo[r] > 0
  /\ partial' = [partial EXCEPT ![r] = TRUE]
  /\ written' = [written EXCEPT ![r] = @ + 1]
  /\ todo' = [todo EXCEPT ![r] = @ - 1]
  /\ UNCHANGED <<mainVars, queue, failure, barrier, wpc, batch, control,
                 counted, synced, published, lockVars, outVars>>

(* The batch is flushed, fsynced when sync_seconds have passed, and only    *)
(* then counted as persisted.                                               *)
CountBatch(r) ==
  /\ Writing(r) /\ wpc[r] = "write" /\ todo[r] = 0
  /\ \E rows \in {synced[r], written[r]} : synced' = [synced EXCEPT ![r] = rows]
  /\ counted' = [counted EXCEPT ![r] = @ + batch[r]]
  /\ batch' = [batch EXCEPT ![r] = 0]
  /\ wpc' = [wpc EXCEPT ![r] = IF control[r] = "none" THEN "idle"
                                                     ELSE "control"]
  /\ UNCHANGED <<mainVars, queue, failure, barrier, todo, control, partial,
                 written, published, lockVars, outVars>>

(* A quiet queue still brings the rows of the last batch to the disk.       *)
(* Mutant: an empty queue is waited on without a flush.                     *)
IdleSync_waits(r) ==
  /\ Writing(r) /\ wpc[r] = "idle" /\ queue[r] = <<>>
  /\ UNCHANGED vars

IdleSync(r) ==
  /\ Writing(r) /\ wpc[r] = "idle" /\ queue[r] = <<>>
  /\ partial[r] /\ synced[r] < written[r]
  /\ synced' = [synced EXCEPT ![r] = written[r]]
  /\ UNCHANGED <<mainVars, queue, failure, barrier, writerVars, partial,
                 written, published, lockVars, outVars>>

(* _finish_control: a barrier publishes the segment and answers its caller, *)
(* a stop publishes it and ends the thread.                                 *)
Answer(r, how) ==
  barrier' = [barrier EXCEPT ![r] = IF @ = "pending" THEN how ELSE @]

(* Mutant: a barrier is answered with its segment still open.               *)
FinishControl_early(r) ==
  /\ Writing(r) /\ wpc[r] = "control"
  /\ IF partial[r] /\ control[r] = "stop" THEN CloseSegment(r)
                                         ELSE UNCHANGED diskVars
  /\ IF control[r] = "barrier" THEN Answer(r, "ok") ELSE UNCHANGED barrier
  /\ wpc' = [wpc EXCEPT ![r] = IF control[r] = "stop" THEN "exited"
                                                     ELSE "idle"]
  /\ control' = [control EXCEPT ![r] = "none"]
  /\ UNCHANGED <<mainVars, queue, failure, batch, todo, counted, lockVars,
                 outVars>>

FinishControl(r) ==
  /\ Writing(r) /\ wpc[r] = "control"
  /\ IF partial[r] THEN CloseSegment(r) ELSE UNCHANGED diskVars
  /\ IF control[r] = "barrier" THEN Answer(r, "ok") ELSE UNCHANGED barrier
  /\ wpc' = [wpc EXCEPT ![r] = IF control[r] = "stop" THEN "exited"
                                                     ELSE "idle"]
  /\ control' = [control EXCEPT ![r] = "none"]
  /\ UNCHANGED <<mainVars, queue, failure, batch, todo, counted, lockVars,
                 outVars>>

(* Any I/O error: latched, then the queue is drained and the callers found  *)
(* in it are released.  A barrier already taken is answered when it is what *)
(* failed, and not when the batch before it did.                            *)
WriterFails(r) ==
  /\ "io" \in Faults /\ Writing(r)
  /\ wpc[r] \in {"write", "control"} \/ (wpc[r] = "idle" /\ partial[r])
  /\ Latch(r)
  /\ IF control[r] = "barrier" /\ wpc[r] = "write"
     THEN UNCHANGED barrier
     ELSE Answer(r, "error")
  /\ queue' = [queue EXCEPT ![r] = <<>>]
  /\ wpc' = [wpc EXCEPT ![r] = "exited"]
  /\ UNCHANGED <<mainVars, batch, todo, control, counted, diskVars, lockVars,
                 outVars>>

-----------------------------------------------------------------------------
(* _finalize_day.                                                           *)

AccountingHolds(r) ==
  accepted[r] = counted[r] /\ dropped[r] = 0 /\ ~failure[r]

(* read_all: the rows of every file with a final name, partial ones not.    *)
ReadBack == published

(* Mutant: two processes may finalize at once.                              *)
FinalizeBegins_unlocked(r) ==
  /\ At(r, "closed") /\ AccountingHolds(r)
  /\ finalizer' = r
  /\ snapshot' = [snapshot EXCEPT ![r] = ReadBack]
  /\ Goto(r, "building")
  /\ UNCHANGED <<accepted, dropped, goal, acked, queue, failure, barrier,
                 writerVars, diskVars, session, output, sealed>>

FinalizeBegins(r) ==
  /\ At(r, "closed") /\ AccountingHolds(r) /\ finalizer = Nobody
  /\ finalizer' = r
  /\ snapshot' = [snapshot EXCEPT ![r] = ReadBack]
  /\ Goto(r, "building")
  /\ UNCHANGED <<accepted, dropped, goal, acked, queue, failure, barrier,
                 writerVars, diskVars, session, output, sealed>>

(* A mismatch, or another process finalizing: the run ends without one.     *)
FinalizeRefused(r) ==
  /\ At(r, "closed") /\ (AccountingHolds(r) => finalizer # Nobody)
  /\ Goto(r, "failed")
  /\ UNCHANGED <<accepted, dropped, goal, acked, queue, failure, barrier,
                 writerVars, diskVars, lockVars, outVars>>

(* The files are replaced one after the other, the manifest last.           *)
Publishes(r, file, next) ==
  /\ output' = [output EXCEPT ![file] = snapshot[r]]
  /\ Goto(r, next)
  /\ UNCHANGED <<accepted, dropped, goal, acked, queue, failure, barrier,
                 writerVars, diskVars, session, snapshot>>

PublishParquet(r) ==
  /\ At(r, "building") /\ snapshot[r][r] = counted[r]
  /\ Publishes(r, "parquet", "parquetOut")
  /\ UNCHANGED <<finalizer, sealed>>

(* Mutant: the manifest is replaced before the health report it hashes.     *)
PublishHealth_last(r) ==
  /\ At(r, "parquetOut") /\ Publishes(r, "manifest", "healthOut")
  /\ UNCHANGED <<finalizer, sealed>>

PublishHealth(r) ==
  /\ At(r, "parquetOut") /\ Publishes(r, "health", "healthOut")
  /\ UNCHANGED <<finalizer, sealed>>

PublishManifest(r) ==
  /\ At(r, "healthOut") /\ Publishes(r, "manifest", "done")
  /\ finalizer' = Nobody
  /\ sealed' = sealed \cup {r}

Finalizing(r) == pc[r] \in {"building", "parquetOut", "healthOut"}

FinalizeFails(r) ==
  /\ Finalizing(r)
  /\ "io" \in Faults \/ snapshot[r][r] # counted[r]
  /\ finalizer' = Nobody
  /\ Goto(r, "failed")
  /\ UNCHANGED <<accepted, dropped, goal, acked, queue, failure, barrier,
                 writerVars, diskVars, session, outVars>>

-----------------------------------------------------------------------------
(* The process ends, killed or of its own accord: both locks fall, and of   *)
(* an unfinished segment some prefix that includes the synced rows is left. *)
Dies(r) ==
  /\ Live(r) /\ ("crash" \in Faults \/ pc[r] \in {"failed", "stuck", "done"})
  /\ Goto(r, "dead")
  /\ IF partial[r]
     THEN \E rows \in synced[r] .. written[r] :
            written' = [written EXCEPT ![r] = rows]
     ELSE UNCHANGED written
  /\ session' = IF session = r THEN Nobody ELSE session
  /\ finalizer' = IF finalizer = r THEN Nobody ELSE finalizer
  /\ queue' = [queue EXCEPT ![r] = <<>>]
  /\ goal' = [goal EXCEPT ![r] = 0]
  /\ barrier' = [barrier EXCEPT ![r] = "none"]
  /\ wpc' = [wpc EXCEPT ![r] = "exited"]
  /\ batch' = [batch EXCEPT ![r] = 0]
  /\ todo' = [todo EXCEPT ![r] = 0]
  /\ control' = [control EXCEPT ![r] = "none"]
  /\ counted' = [counted EXCEPT ![r] = 0]
  /\ UNCHANGED <<accepted, dropped, acked, failure, partial, synced,
                 published, outVars>>

MainNext(r) ==
  \/ Start(r) \/ AppendTick(r) \/ AppendOverflows(r)
  \/ FlushBegins(r) \/ FlushEnqueues(r) \/ FlushNotQueued(r)
  \/ FlushReturns(r) \/ FlushTimesOut(r)
  \/ CloseBegins(r) \/ CloseEnqueues(r) \/ CloseNotQueued(r)
  \/ CloseJoins(r) \/ CloseTimesOut(r)

WriterSteps(r) ==
  \/ TakeFirst(r) \/ TakeMore(r) \/ Collected(r) \/ RollSegment(r)
  \/ WriteRow(r) \/ CountBatch(r) \/ IdleSync(r) \/ FinishControl(r)

FinalizeNext(r) ==
  \/ FinalizeBegins(r) \/ FinalizeRefused(r) \/ PublishParquet(r)
  \/ PublishHealth(r) \/ PublishManifest(r) \/ FinalizeFails(r)

Next ==
  \E r \in Runs :
    MainNext(r) \/ WriterSteps(r) \/ WriterFails(r) \/ FinalizeNext(r) \/ Dies(r)

Spec == Init /\ [][Next]_vars /\ \A r \in Runs : WF_vars(WriterSteps(r))

-----------------------------------------------------------------------------
(* Type correctness.                                                        *)
Places == {"new", "recording", "enqueueing", "flushing", "closing", "joining",
           "stuck", "closed", "building", "parquetOut", "healthOut",
           "done", "failed", "dead"}

TypeOK ==
  /\ pc \in [Runs -> Places]
  /\ queue \in [Runs -> Seq({"tick", "barrier", "stop"})]
  /\ accepted \in [Runs -> Nat] /\ dropped \in [Runs -> Nat]
  /\ failure \in [Runs -> BOOLEAN]
  /\ barrier \in [Runs -> {"none", "pending", "ok", "error"}]
  /\ goal \in [Runs -> Nat] /\ acked \in [Runs -> Nat]
  /\ wpc \in [Runs -> {"idle", "collect", "write", "control", "exited"}]
  /\ batch \in [Runs -> Nat] /\ todo \in [Runs -> Nat]
  /\ control \in [Runs -> {"none", "barrier", "stop"}]
  /\ counted \in [Runs -> Nat]
  /\ partial \in [Runs -> BOOLEAN]
  /\ written \in [Runs -> Nat] /\ synced \in [Runs -> Nat]
  /\ published \in [Runs -> Nat]
  /\ session \in Runs \cup {Nobody} /\ finalizer \in Runs \cup {Nobody}
  /\ snapshot \in [Runs -> [Runs -> Nat]]
  /\ output \in [Outputs -> [Runs -> Nat]]
  /\ sealed \subseteq Runs

(* _finalize_day: "the manifest remains the last completion marker".        *)
(* Whoever reads the manifest finds the rows it lists in the health report  *)
(* and in the parquet file, whenever it looks and whoever died: outputs are *)
(* replaced in that order and under one lock.  (That they are all the rows  *)
(* of its run is part of ImplementsDurableLog: Seal.)                       *)
Within(f, g) == \A r \in Runs : output[f][r] <= output[g][r]
ManifestIsLast == Within("manifest", "health") /\ Within("health", "parquet")

(* A flush that returned without an error vouches for every row accepted    *)
(* before it, and a crash of the process takes none of them.                *)
FlushIsDurable == \A r \in Runs : acked[r] <= published[r]

(* Only the holder of the session lock has a writer that may still touch    *)
(* its segment, also after a close that gave up waiting: close, "Do not     *)
(* release session ownership while the writer can still touch its segment". *)
WriterOwnsSession == \A r \in Runs : Writing(r) => session = r

(* Two finalizations of one session never take a row out of what is         *)
(* published: the later snapshot is the larger one.                         *)
OutputsOnlyGrow ==
  [][\A f \in Outputs : \A r \in Runs : output[f][r] <= output'[f][r]]_vars

(* The detailed log implements the abstract one.                            *)
Gone == {r \in Runs : \/ pc[r] \notin {"new", "recording", "enqueueing",
                                       "flushing"}
                      \/ failure[r]}
Safe == [r \in Runs |-> IF partial[r] THEN synced[r] ELSE published[r]]
Promise == INSTANCE DurableLog WITH stable <- Safe, stopped <- Gone
ImplementsDurableLog == Promise!Spec

(* Every accepted event reaches the disk, quiet feed or not, unless the     *)
(* log failed or its process died.                                          *)
EveryTickSettles ==
  \A r \in Runs : \A n \in 1 .. MaxTicks :
    accepted[r] >= n ~> (synced[r] >= n \/ failure[r] \/ pc[r] = "dead")
=============================================================================
