--------------------------- MODULE RawEventLog_proofs ---------------------------
(***************************************************************************)
(* The two locks of a recorded session, the order of what is published,    *)
(* the promise of DurableLog and that of flush, proved for any number of   *)
(* runs, any queue and batch sizes and any combination of faults.          *)
(***************************************************************************)
EXTENDS RawEventLog, TLAPS

LEMMA RunsAreNumbers == Runs \subseteq Nat /\ Nobody \notin Runs
BY RunsAssumption DEF Nobody

-----------------------------------------------------------------------------
(* The session lock.                                                       *)

(* Where the main thread holds the lock, and where its writer has gone.    *)
Owning == {"recording", "enqueueing", "flushing", "closing", "joining", "stuck"}
Later == {"closed", "building", "parquetOut", "healthOut", "done", "failed"}

LockTypeOK ==
  /\ pc \in [Runs -> Places]
  /\ wpc \in [Runs -> {"idle", "collect", "write", "control", "exited"}]

OwnerInv ==
  /\ LockTypeOK
  /\ \A r \in Runs : pc[r] \in Owning => session = r
  /\ \A r \in Runs : pc[r] \in Later => wpc[r] = "exited"

LEMMA OwnerInit == Init => OwnerInv
BY DEF Init, OwnerInv, LockTypeOK, Places, Owning, Later

LEMMA OwnerMain ==
  ASSUME OwnerInv, NEW r \in Runs, MainNext(r)
  PROVE  OwnerInv'
<1> USE RunsAreNumbers DEF OwnerInv, LockTypeOK, Places, Owning, Later, At, Goto
<1>1. CASE Start(r)
  BY <1>1 DEF Start, writerVars
<1>2. CASE AppendTick(r) \/ AppendOverflows(r)
  BY <1>2 DEF AppendTick, AppendOverflows, writerVars, lockVars
<1>3. CASE FlushBegins(r) \/ FlushEnqueues(r) \/ FlushNotQueued(r)
  BY <1>3 DEF FlushBegins, FlushEnqueues, FlushNotQueued, writerVars, lockVars
<1>4. CASE FlushReturns(r) \/ FlushTimesOut(r)
  BY <1>4 DEF FlushReturns, FlushTimesOut, writerVars, lockVars
<1>5. CASE CloseBegins(r) \/ CloseEnqueues(r) \/ CloseNotQueued(r)
  BY <1>5 DEF CloseBegins, CloseEnqueues, CloseNotQueued, writerVars, lockVars
<1>6. CASE CloseJoins(r)
  BY <1>6 DEF CloseJoins, writerVars
<1>7. CASE CloseTimesOut(r)
  BY <1>7 DEF CloseTimesOut, writerVars, lockVars
<1> QED
  BY <1>1, <1>2, <1>3, <1>4, <1>5, <1>6, <1>7 DEF MainNext

(* The writer thread moves nobody else's state, and once gone stays gone.  *)
WriterFrame(r) ==
  /\ UNCHANGED <<mainVars, lockVars, outVars>>
  /\ wpc[r] # "exited"
  /\ \E to \in {"idle", "collect", "write", "control", "exited"} :
       wpc' = [wpc EXCEPT ![r] = to]

LEMMA WriterMoves ==
  ASSUME LockTypeOK, NEW r \in Runs, WriterSteps(r) \/ WriterFails(r)
  PROVE  WriterFrame(r)
<1> USE DEF LockTypeOK, WriterFrame, Writing
<1>1. CASE TakeFirst(r)
  BY <1>1 DEF TakeFirst
<1>2. CASE TakeMore(r)
  BY <1>2 DEF TakeMore
<1>3. CASE Collected(r)
  BY <1>3 DEF Collected
<1>4. CASE RollSegment(r)
  BY <1>4 DEF RollSegment, writerVars
<1>5. CASE WriteRow(r)
  BY <1>5 DEF WriteRow
<1>6. CASE CountBatch(r)
  BY <1>6 DEF CountBatch
<1>7. CASE IdleSync(r)
  BY <1>7 DEF IdleSync, writerVars
<1>8. CASE FinishControl(r)
  BY <1>8 DEF FinishControl
<1>9. CASE WriterFails(r)
  BY <1>9 DEF WriterFails
<1> QED
  BY <1>1, <1>2, <1>3, <1>4, <1>5, <1>6, <1>7, <1>8, <1>9 DEF WriterSteps

LEMMA OwnerStep == OwnerInv /\ [Next]_vars => OwnerInv'
<1> SUFFICES ASSUME OwnerInv, [Next]_vars PROVE OwnerInv'
  OBVIOUS
<1>1. ASSUME NEW r \in Runs, MainNext(r) PROVE OwnerInv'
  BY <1>1, OwnerMain
<1>2. ASSUME NEW r \in Runs, WriterSteps(r) \/ WriterFails(r) PROVE OwnerInv'
  <2>1. WriterFrame(r)
    BY <1>2, WriterMoves DEF OwnerInv
  <2> QED
    BY <2>1 DEF WriterFrame, OwnerInv, LockTypeOK, mainVars, lockVars
<1>3. ASSUME NEW r \in Runs, FinalizeNext(r) PROVE OwnerInv'
  <2> USE DEF OwnerInv, LockTypeOK, Places, Owning, Later, At, Goto, writerVars
  <2>1. CASE FinalizeBegins(r) \/ FinalizeRefused(r)
    BY <2>1 DEF FinalizeBegins, FinalizeRefused, lockVars
  <2>2. CASE PublishParquet(r) \/ PublishHealth(r) \/ PublishManifest(r)
    BY <2>2 DEF PublishParquet, PublishHealth, PublishManifest, Publishes
  <2>3. CASE FinalizeFails(r)
    BY <2>3 DEF FinalizeFails, Finalizing
  <2> QED
    BY <1>3, <2>1, <2>2, <2>3 DEF FinalizeNext
<1>4. ASSUME NEW r \in Runs, Dies(r) PROVE OwnerInv'
  BY <1>4, RunsAreNumbers
    DEF Dies, Goto, OwnerInv, LockTypeOK, Places, Owning, Later
<1>5. CASE UNCHANGED vars
  BY <1>5 DEF vars, mainVars, writerVars, lockVars, OwnerInv, LockTypeOK
<1> QED
  BY <1>1, <1>2, <1>3, <1>4, <1>5 DEF Next

LEMMA OwnersWrite == OwnerInv => WriterOwnsSession
BY DEF OwnerInv, LockTypeOK, Places, Owning, Later, WriterOwnsSession, Writing, Live

(* Nobody but the holder of the session lock can touch a segment of the    *)
(* session: a process that gave up waiting for its writer keeps the lock.  *)
THEOREM WritersHoldTheLock == Spec => []WriterOwnsSession
<1>1. Init /\ [][Next]_vars => []OwnerInv
  BY OwnerInit, OwnerStep, PTL
<1> QED
  BY <1>1, OwnersWrite, PTL DEF Spec

-----------------------------------------------------------------------------
(* The files of the disk.                                                  *)

DiskTypeOK ==
  /\ partial \in [Runs -> BOOLEAN]
  /\ written \in [Runs -> Nat] /\ synced \in [Runs -> Nat]
  /\ published \in [Runs -> Nat]

(* What is published is covered by an fsync while a segment is open, and a *)
(* run that can write has nothing but published rows when none is.         *)
DiskInv ==
  /\ DiskTypeOK
  /\ \A r \in Runs : synced[r] <= written[r]
  /\ \A r \in Runs : partial[r] => published[r] <= synced[r]
  /\ \A r \in Runs : pc[r] = "new" => ~partial[r]
  /\ \A r \in Runs : ~partial[r] /\ (pc[r] = "new" \/ Writing(r))
       => published[r] = written[r] /\ synced[r] = written[r]

LEMMA DiskInit == Init => DiskInv
BY DEF Init, DiskInv, DiskTypeOK, NoRows, Writing, Live

(* Actions that touch no file and start or end no process.                 *)
StillDisk ==
  /\ UNCHANGED diskVars
  /\ \A r \in Runs : pc'[r] = "new" => pc[r] = "new"
  /\ \A r \in Runs : Writing(r)' => Writing(r)

LEMMA StillDiskStep == DiskInv /\ StillDisk => DiskInv'
BY DEF DiskInv, DiskTypeOK, StillDisk, diskVars

LEMMA MainLeavesDisk ==
  ASSUME LockTypeOK, NEW r \in Runs, MainNext(r), ~Start(r)
  PROVE  StillDisk
<1> USE DEF LockTypeOK, StillDisk, Writing, Live, At, Goto, writerVars, diskVars
<1>1. CASE AppendTick(r) \/ AppendOverflows(r)
  BY <1>1 DEF AppendTick, AppendOverflows
<1>2. CASE FlushBegins(r) \/ FlushEnqueues(r) \/ FlushNotQueued(r)
  BY <1>2 DEF FlushBegins, FlushEnqueues, FlushNotQueued
<1>3. CASE FlushReturns(r) \/ FlushTimesOut(r)
  BY <1>3 DEF FlushReturns, FlushTimesOut
<1>4. CASE CloseBegins(r) \/ CloseEnqueues(r) \/ CloseNotQueued(r)
  BY <1>4 DEF CloseBegins, CloseEnqueues, CloseNotQueued
<1>5. CASE CloseJoins(r) \/ CloseTimesOut(r)
  BY <1>5 DEF CloseJoins, CloseTimesOut
<1> QED
  BY <1>1, <1>2, <1>3, <1>4, <1>5 DEF MainNext

LEMMA FinalizeLeavesDisk ==
  ASSUME LockTypeOK, NEW r \in Runs, FinalizeNext(r)
  PROVE  StillDisk
<1> USE DEF LockTypeOK, StillDisk, Writing, Live, At, Goto, writerVars, diskVars
<1>1. CASE FinalizeBegins(r) \/ FinalizeRefused(r)
  BY <1>1 DEF FinalizeBegins, FinalizeRefused
<1>2. CASE PublishParquet(r) \/ PublishHealth(r) \/ PublishManifest(r)
  BY <1>2 DEF PublishParquet, PublishHealth, PublishManifest, Publishes
<1>3. CASE FinalizeFails(r)
  BY <1>3 DEF FinalizeFails, Finalizing
<1> QED
  BY <1>1, <1>2, <1>3 DEF FinalizeNext

(* What one step of a writer does to the files: each way keeps DiskInv and *)
(* takes no published row back.                                            *)
LEMMA WriterOnDisk ==
  ASSUME DiskInv, LockTypeOK, NEW r \in Runs, WriterSteps(r) \/ WriterFails(r)
  PROVE  DiskInv' /\ \A s \in Runs : published[s] <= published'[s]
<1>1. Writing(r) /\ pc' = pc /\ (\A s \in Runs : Writing(s)' => Writing(s))
  <2>1. WriterFrame(r)
    BY WriterMoves
  <2>2. Writing(r)
    BY DEF WriterSteps, WriterFails, TakeFirst, TakeMore, Collected, RollSegment,
       WriteRow, CountBatch, IdleSync, FinishControl
  <2>3. pc' = pc
    BY <2>1 DEF WriterFrame, mainVars
  <2>4. ASSUME NEW s \in Runs, Writing(s)' PROVE Writing(s)
    BY <2>1, <2>2, <2>3, <2>4 DEF WriterFrame, Writing, Live, LockTypeOK
  <2> QED
    BY <2>2, <2>3, <2>4
<1>2. ASSUME CloseSegment(r), partial[r]
      PROVE  DiskInv' /\ \A s \in Runs : published[s] <= published'[s]
  BY <1>1, <1>2 DEF CloseSegment, DiskInv, DiskTypeOK
<1>3. ASSUME UNCHANGED diskVars
      PROVE  DiskInv' /\ \A s \in Runs : published[s] <= published'[s]
  BY <1>1, <1>3 DEF diskVars, DiskInv, DiskTypeOK
<1>4. CASE TakeFirst(r) \/ TakeMore(r) \/ Collected(r) \/ WriterFails(r)
  BY <1>3, <1>4 DEF TakeFirst, TakeMore, Collected, WriterFails
<1>5. CASE RollSegment(r)
  BY <1>2, <1>5 DEF RollSegment
<1>6. CASE FinishControl(r)
  BY <1>2, <1>3, <1>6 DEF FinishControl
<1>7. CASE WriteRow(r)
  <2>1. /\ partial' = [partial EXCEPT ![r] = TRUE]
        /\ written' = [written EXCEPT ![r] = @ + 1]
        /\ UNCHANGED <<synced, published>>
    BY <1>7 DEF WriteRow
  <2>2. published[r] <= synced[r] /\ synced[r] <= written[r]
    BY <1>1 DEF DiskInv, DiskTypeOK
  <2>3. \A s \in Runs : s # r => partial'[s] = partial[s] /\ written'[s] = written[s]
    BY <2>1 DEF DiskInv, DiskTypeOK
  <2>4. partial'[r] = TRUE /\ written'[r] = written[r] + 1
    BY <2>1 DEF DiskInv, DiskTypeOK
  <2>5. DiskTypeOK'
    BY <2>1 DEF DiskInv, DiskTypeOK
  <2>6. pc[r] # "new"
    BY <1>1 DEF Writing, Live
  <2>7. \A s \in Runs : synced'[s] = synced[s] /\ published'[s] = published[s]
    BY <2>1
  <2>8. \A s \in Runs : published[s] <= published'[s]
    BY <2>7 DEF DiskInv, DiskTypeOK
  <2> QED
    BY <1>1, <2>2, <2>3, <2>4, <2>5, <2>6, <2>7, <2>8 DEF DiskInv, DiskTypeOK
<1>8. CASE CountBatch(r)
  <2>1. PICK rows \in {synced[r], written[r]} : synced' = [synced EXCEPT ![r] = rows]
    BY <1>8 DEF CountBatch
  <2>2. UNCHANGED <<partial, written, published>>
    BY <1>8 DEF CountBatch
  <2> QED
    BY <1>1, <2>1, <2>2 DEF DiskInv, DiskTypeOK
<1>9. CASE IdleSync(r)
  BY <1>1, <1>9 DEF IdleSync, DiskInv, DiskTypeOK
<1> QED
  BY <1>4, <1>5, <1>6, <1>7, <1>8, <1>9 DEF WriterSteps

(* A new process salvages every open segment: nobody is writing one.       *)
LEMMA StartOnDisk ==
  ASSUME DiskInv, OwnerInv, NEW r \in Runs, Start(r)
  PROVE  DiskInv' /\ \A s \in Runs : published[s] <= published'[s]
<1>1. \A s \in Runs : ~Writing(s)
  BY OwnersWrite, RunsAreNumbers DEF Start, WriterOwnsSession
<1>2. \A s \in Runs : s # r => ~Writing(s)' /\ (pc'[s] = "new" => pc[s] = "new")
  BY <1>1 DEF Start, Goto, Writing, Live, writerVars, OwnerInv, LockTypeOK
<1>3. pc'[r] = "recording" /\ pc[r] = "new"
  BY DEF Start, At, Goto, OwnerInv, LockTypeOK
<1>4. /\ partial' = [s \in Runs |-> FALSE]
      /\ published' = [s \in Runs |-> IF partial[s] THEN written[s] ELSE published[s]]
      /\ UNCHANGED <<written, synced>>
  BY DEF Start
<1> QED
  BY <1>2, <1>3, <1>4 DEF DiskInv, DiskTypeOK

LEMMA DiesOnDisk ==
  ASSUME DiskInv, LockTypeOK, NEW r \in Runs, Dies(r)
  PROVE  DiskInv' /\ \A s \in Runs : published[s] <= published'[s]
<1>1. pc' = [pc EXCEPT ![r] = "dead"] /\ wpc' = [wpc EXCEPT ![r] = "exited"]
  BY DEF Dies, Goto
<1>2. \A s \in Runs : (Writing(s)' => Writing(s)) /\ (pc'[s] = "new" => pc[s] = "new")
  BY <1>1 DEF Writing, Live, LockTypeOK
<1>3. ~Writing(r)' /\ pc'[r] # "new"
  BY <1>1 DEF Writing, Live, LockTypeOK
<1>4. UNCHANGED <<partial, synced, published>>
  BY DEF Dies
<1>5. \/ UNCHANGED written
      \/ \E rows \in synced[r] .. written[r] : written' = [written EXCEPT ![r] = rows]
  BY DEF Dies
<1>6. CASE UNCHANGED written
  BY <1>2, <1>4, <1>6 DEF DiskInv, DiskTypeOK
<1>7. CASE \E rows \in synced[r] .. written[r] : written' = [written EXCEPT ![r] = rows]
  <2>1. PICK rows \in synced[r] .. written[r] : written' = [written EXCEPT ![r] = rows]
    BY <1>7
  <2>2. rows \in Nat /\ synced[r] <= rows
    BY <2>1 DEF DiskInv, DiskTypeOK
  <2> QED
    BY <1>2, <1>3, <1>4, <2>1, <2>2 DEF DiskInv, DiskTypeOK
<1> QED
  BY <1>5, <1>6, <1>7

LEMMA DiskStep ==
  DiskInv /\ OwnerInv /\ [Next]_vars
    => DiskInv' /\ \A s \in Runs : published[s] <= published'[s]
<1> SUFFICES ASSUME DiskInv, OwnerInv, [Next]_vars
             PROVE  DiskInv' /\ \A s \in Runs : published[s] <= published'[s]
  OBVIOUS
<1>1. LockTypeOK
  BY DEF OwnerInv
<1>2. ASSUME StillDisk PROVE \A s \in Runs : published[s] <= published'[s]
  BY <1>2 DEF StillDisk, diskVars, DiskInv, DiskTypeOK
<1>3. ASSUME NEW r \in Runs, MainNext(r) \/ FinalizeNext(r), ~Start(r) PROVE StillDisk
  BY <1>1, <1>3, MainLeavesDisk, FinalizeLeavesDisk
<1>4. CASE UNCHANGED vars
  <2>1. StillDisk
    BY <1>4 DEF vars, StillDisk, mainVars, writerVars, Writing, Live
  <2> QED
    BY <1>2, <2>1, StillDiskStep
<1>5. CASE Next
  <2>1. PICK r \in Runs :
          MainNext(r) \/ WriterSteps(r) \/ WriterFails(r) \/ FinalizeNext(r) \/ Dies(r)
    BY <1>5 DEF Next
  <2>2. CASE Start(r)
    BY <2>2, StartOnDisk
  <2>3. CASE WriterSteps(r) \/ WriterFails(r)
    BY <1>1, <2>3, WriterOnDisk
  <2>4. CASE Dies(r)
    BY <1>1, <2>4, DiesOnDisk
  <2>5. CASE (MainNext(r) \/ FinalizeNext(r)) /\ ~Start(r)
    BY <1>2, <1>3, <2>5, StillDiskStep
  <2> QED
    BY <2>1, <2>2, <2>3, <2>4, <2>5
<1> QED
  BY <1>4, <1>5

-----------------------------------------------------------------------------
(* The files a reader finds.                                               *)

Table == [Runs -> Nat]

AtMost(a, b) == \A s \in Runs : a[s] <= b[s]

(* One run at a time finalizes; nothing published is newer than its        *)
(* snapshot, and each file it has replaced holds exactly that snapshot.    *)
FinInv ==
  /\ snapshot \in [Runs -> Table]
  /\ output \in [Outputs -> Table]
  /\ \A f \in Outputs : AtMost(output[f], published)
  /\ \A r \in Runs : Finalizing(r) =>
       /\ finalizer = r
       /\ AtMost(snapshot[r], published)
       /\ \A f \in Outputs : AtMost(output[f], snapshot[r])
       /\ pc[r] \in {"parquetOut", "healthOut"} => output["parquet"] = snapshot[r]
       /\ pc[r] = "healthOut" => output["health"] = snapshot[r]
  /\ ManifestIsLast

LEMMA FinInit == Init => FinInv
<1> SUFFICES ASSUME Init PROVE FinInv
  OBVIOUS
<1>1. NoRows \in Table /\ \A s \in Runs : NoRows[s] = 0
  BY DEF NoRows, Table
<1>2. /\ snapshot = [r \in Runs |-> NoRows]
      /\ output = [f \in Outputs |-> NoRows]
      /\ published = NoRows /\ \A r \in Runs : pc[r] = "new"
  BY DEF Init
<1>3. snapshot \in [Runs -> Table] /\ output \in [Outputs -> Table]
  BY <1>1, <1>2
<1>4. \A f \in Outputs : \A s \in Runs : output[f][s] = 0 /\ published[s] = 0
  BY <1>1, <1>2
<1>5. \A f, g \in Outputs : Within(f, g) /\ AtMost(output[f], published)
  BY <1>4 DEF Within, AtMost
<1>6. ManifestIsLast
  BY <1>5 DEF ManifestIsLast, Outputs
<1> QED
  BY <1>2, <1>3, <1>5, <1>6 DEF FinInv, Finalizing

(* A step that publishes nothing: the disk may have gained rows, and a run *)
(* may have stopped finalizing.                                            *)
NothingPublished ==
  /\ UNCHANGED <<snapshot, output>>
  /\ \A s \in Runs : Finalizing(s)' => Finalizing(s) /\ pc'[s] = pc[s] /\ finalizer' = finalizer

LEMMA NothingPublishedStep ==
  ASSUME FinInv, NothingPublished, published \in Table, published' \in Table,
         AtMost(published, published')
  PROVE  FinInv'
<1>1. /\ \A f \in Outputs : output[f] \in Table
      /\ \A r \in Runs : snapshot[r] \in Table
  BY DEF FinInv
<1>2. \A a \in Table : AtMost(a, published) => AtMost(a, published')
  BY DEF AtMost, Table
<1>3. \A f \in Outputs : AtMost(output[f], published)'
  BY <1>1, <1>2 DEF FinInv, NothingPublished, AtMost
<1>4. ASSUME NEW r \in Runs, Finalizing(r)'
      PROVE  /\ finalizer' = r
             /\ AtMost(snapshot[r], published)'
             /\ \A f \in Outputs : AtMost(output[f], snapshot[r])'
             /\ pc'[r] \in {"parquetOut", "healthOut"} => output'["parquet"] = snapshot'[r]
             /\ pc'[r] = "healthOut" => output'["health"] = snapshot'[r]
  <2>1. Finalizing(r) /\ pc'[r] = pc[r] /\ finalizer' = finalizer
    BY <1>4 DEF NothingPublished
  <2>2. AtMost(snapshot[r], published)'
    BY <1>1, <1>2, <2>1 DEF FinInv, NothingPublished, AtMost
  <2>3. \A f \in Outputs : AtMost(output[f], snapshot[r])'
    BY <2>1 DEF FinInv, NothingPublished, AtMost
  <2> QED
    BY <2>1, <2>2, <2>3 DEF FinInv, NothingPublished
<1>5. ManifestIsLast'
  BY DEF FinInv, NothingPublished, ManifestIsLast, Within
<1>6. snapshot' \in [Runs -> Table] /\ output' \in [Outputs -> Table]
  BY DEF FinInv, NothingPublished
<1> QED
  BY <1>3, <1>4, <1>5, <1>6 DEF FinInv

LEMMA MainPublishesNothing ==
  ASSUME LockTypeOK, NEW r \in Runs, MainNext(r)
  PROVE  NothingPublished
<1> USE DEF LockTypeOK, NothingPublished, Finalizing, At, Goto, outVars, lockVars
<1>1. CASE Start(r)
  BY <1>1 DEF Start
<1>2. CASE AppendTick(r) \/ AppendOverflows(r)
  BY <1>2 DEF AppendTick, AppendOverflows
<1>3. CASE FlushBegins(r) \/ FlushEnqueues(r) \/ FlushNotQueued(r)
  BY <1>3 DEF FlushBegins, FlushEnqueues, FlushNotQueued
<1>4. CASE FlushReturns(r) \/ FlushTimesOut(r)
  BY <1>4 DEF FlushReturns, FlushTimesOut
<1>5. CASE CloseBegins(r) \/ CloseEnqueues(r) \/ CloseNotQueued(r)
  BY <1>5 DEF CloseBegins, CloseEnqueues, CloseNotQueued
<1>6. CASE CloseJoins(r) \/ CloseTimesOut(r)
  BY <1>6 DEF CloseJoins, CloseTimesOut
<1> QED
  BY <1>1, <1>2, <1>3, <1>4, <1>5, <1>6 DEF MainNext

LEMMA WriterPublishesNothing ==
  ASSUME LockTypeOK, NEW r \in Runs, WriterSteps(r) \/ WriterFails(r)
  PROVE  NothingPublished
<1>1. WriterFrame(r)
  BY WriterMoves
<1>2. UNCHANGED <<pc, finalizer, snapshot, output>>
  BY <1>1 DEF WriterFrame, mainVars, lockVars, outVars
<1> QED
  BY <1>2 DEF NothingPublished, Finalizing

LEMMA DiesPublishesNothing ==
  ASSUME LockTypeOK, FinInv, NEW r \in Runs, Dies(r)
  PROVE  NothingPublished
<1>1. /\ pc' = [pc EXCEPT ![r] = "dead"] /\ UNCHANGED <<snapshot, output>>
      /\ finalizer' = IF finalizer = r THEN Nobody ELSE finalizer
  BY DEF Dies, Goto, outVars
<1>2. ASSUME NEW s \in Runs, Finalizing(s)'
      PROVE  Finalizing(s) /\ pc'[s] = pc[s] /\ finalizer' = finalizer
  <2>1. s # r /\ pc'[s] = pc[s]
    BY <1>1, <1>2 DEF LockTypeOK, Finalizing
  <2>2. Finalizing(s)
    BY <1>2, <2>1 DEF Finalizing
  <2>3. finalizer = s
    BY <2>2 DEF FinInv
  <2> QED
    BY <1>1, <2>1, <2>2, <2>3
<1> QED
  BY <1>1, <1>2 DEF NothingPublished

(* Taking the finalization lock: nobody else is finalizing, and what is    *)
(* out already is among the rows read back.                                *)
LEMMA BeginsFinalizing ==
  ASSUME FinInv, LockTypeOK, published \in Table, NEW r \in Runs, FinalizeBegins(r)
  PROVE  FinInv' /\ UNCHANGED output
<1>1. /\ finalizer = Nobody /\ finalizer' = r
      /\ snapshot' = [snapshot EXCEPT ![r] = published]
      /\ pc' = [pc EXCEPT ![r] = "building"]
      /\ UNCHANGED <<output, published>>
  BY DEF FinalizeBegins, ReadBack, Goto, diskVars
<1>2. \A s \in Runs : ~Finalizing(s)
  BY <1>1, RunsAreNumbers DEF FinInv
<1>3. \A s \in Runs : Finalizing(s)' => s = r
  BY <1>1, <1>2 DEF Finalizing, LockTypeOK
<1>4. pc'[r] = "building" /\ snapshot'[r] = published
  BY <1>1 DEF LockTypeOK, FinInv
<1>5. snapshot' \in [Runs -> Table] /\ output' \in [Outputs -> Table]
  BY <1>1 DEF FinInv
<1>6. AtMost(published, published)
  BY DEF AtMost, Table
<1>7. \A f \in Outputs : AtMost(output[f], published)
  BY DEF FinInv
<1>8. ManifestIsLast'
  BY <1>1 DEF FinInv, ManifestIsLast, Within
<1>9. AtMost(snapshot[r], published)'
  BY <1>1, <1>4, <1>6 DEF AtMost
<1>10. \A f \in Outputs : AtMost(output[f], snapshot[r])'
  BY <1>1, <1>4, <1>7 DEF AtMost
<1>11. \A f \in Outputs : AtMost(output[f], published)'
  BY <1>1, <1>7 DEF AtMost
<1> QED
  BY <1>1, <1>3, <1>4, <1>5, <1>8, <1>9, <1>10, <1>11 DEF FinInv

(* Replacing one file by the snapshot, in the order of finalization.       *)
LEMMA Publishing ==
  ASSUME FinInv, LockTypeOK, published \in Table, NEW r \in Runs, NEW file \in Outputs,
         Finalizing(r), output' = [output EXCEPT ![file] = snapshot[r]],
         UNCHANGED <<snapshot, published>>,
         \A s \in Runs : Finalizing(s)' =>
           s = r /\ finalizer' = r /\ file # "manifest",
         file = "parquet" => pc'[r] # "healthOut",
         file = "health" => pc[r] = "parquetOut",
         file = "manifest" => pc[r] = "healthOut"
  PROVE  FinInv' /\ \A f \in Outputs : AtMost(output[f], output'[f])
<1>1. snapshot[r] \in Table /\ \A f \in Outputs : output[f] \in Table
  BY DEF FinInv
<1>2. /\ AtMost(snapshot[r], published)
      /\ \A f \in Outputs : AtMost(output[f], snapshot[r])
      /\ \A f \in Outputs : AtMost(output[f], published)
  BY DEF FinInv
<1>3. \A a \in Table : AtMost(a, a)
  BY DEF AtMost, Table
<1>4. output'[file] = snapshot[r] /\ \A f \in Outputs \ {file} : output'[f] = output[f]
  BY DEF FinInv
<1>5. \A f \in Outputs : AtMost(output[f], output'[f])
  BY <1>1, <1>2, <1>3, <1>4
<1>6. \A f \in Outputs : AtMost(output'[f], snapshot[r]) /\ AtMost(output'[f], published)
  BY <1>1, <1>2, <1>3, <1>4
<1>7. snapshot' \in [Runs -> Table] /\ output' \in [Outputs -> Table]
  BY <1>1 DEF FinInv
<1>8. ManifestIsLast'
  <2>1. CASE file = "parquet"
    <3>1. AtMost(output'["health"], output'["parquet"])
      BY <1>2, <1>4, <2>1 DEF Outputs
    <3>2. output'["manifest"] = output["manifest"] /\ output'["health"] = output["health"]
      BY <1>4, <2>1 DEF Outputs
    <3> QED
      BY <3>1, <3>2 DEF FinInv, ManifestIsLast, Within, AtMost
  <2>2. CASE file = "health"
    <3>1. output'["parquet"] = snapshot[r] /\ output'["health"] = snapshot[r]
      BY <1>4, <2>2 DEF FinInv, Outputs
    <3>2. AtMost(output'["manifest"], output'["health"])
      BY <1>2, <1>4, <2>2, <3>1 DEF Outputs
    <3> QED
      BY <1>1, <1>3, <3>1, <3>2 DEF ManifestIsLast, Within, AtMost
  <2>3. CASE file = "manifest"
    <3>1. output["parquet"] = snapshot[r] /\ output["health"] = snapshot[r]
      BY <2>3 DEF FinInv
    <3>2. /\ output'["parquet"] = snapshot[r] /\ output'["health"] = snapshot[r]
          /\ output'["manifest"] = snapshot[r]
      BY <1>4, <2>3, <3>1 DEF Outputs
    <3> QED
      BY <1>1, <1>3, <3>2 DEF ManifestIsLast, Within, AtMost
  <2> QED
    BY <2>1, <2>2, <2>3 DEF Outputs
<1>9. ASSUME NEW s \in Runs, Finalizing(s)'
      PROVE  /\ finalizer' = s
             /\ AtMost(snapshot[s], published)'
             /\ \A f \in Outputs : AtMost(output[f], snapshot[s])'
             /\ pc'[s] \in {"parquetOut", "healthOut"} => output'["parquet"] = snapshot'[s]
             /\ pc'[s] = "healthOut" => output'["health"] = snapshot'[s]
  <2>1. s = r /\ finalizer' = r /\ file \in {"parquet", "health"}
    BY <1>9 DEF Outputs
  <2>2. AtMost(snapshot[r], published)'
    BY <1>2 DEF AtMost
  <2>3. \A f \in Outputs : AtMost(output[f], snapshot[r])'
    BY <1>6 DEF AtMost
  <2>4. output'["parquet"] = snapshot[r]
    BY <1>4, <2>1 DEF FinInv, Outputs
  <2>5. pc'[r] = "healthOut" => output'["health"] = snapshot[r]
    BY <1>4, <2>1
  <2> QED
    BY <2>1, <2>2, <2>3, <2>4, <2>5
<1>10. \A f \in Outputs : AtMost(output[f], published)'
  BY <1>6 DEF AtMost
<1> QED
  BY <1>5, <1>7, <1>8, <1>9, <1>10 DEF FinInv

LEMMA FinalizePublishes ==
  ASSUME FinInv, LockTypeOK, published \in Table, NEW r \in Runs,
         PublishParquet(r) \/ PublishHealth(r) \/ PublishManifest(r)
  PROVE  FinInv' /\ \A f \in Outputs : AtMost(output[f], output'[f])
<1>1. Finalizing(r) /\ finalizer = r
  BY DEF PublishParquet, PublishHealth, PublishManifest, At, Finalizing, FinInv
<1>2. \A s \in Runs : Finalizing(s) => s = r
  BY <1>1 DEF FinInv
<1>3. ASSUME NEW file \in Outputs, NEW next \in Places, Publishes(r, file, next)
      PROVE  /\ output' = [output EXCEPT ![file] = snapshot[r]]
             /\ UNCHANGED <<snapshot, published>>
             /\ pc'[r] = next
             /\ \A s \in Runs : Finalizing(s)' => s = r
  BY <1>2, <1>3 DEF Publishes, Goto, Finalizing, LockTypeOK, diskVars
<1>4. CASE PublishParquet(r)
  <2>1. Publishes(r, "parquet", "parquetOut") /\ finalizer' = finalizer
    BY <1>4 DEF PublishParquet
  <2>2. "parquet" \in Outputs /\ "parquetOut" \in Places
    BY DEF Outputs, Places
  <2> QED
    BY <1>1, <1>3, <2>1, <2>2, Publishing
<1>5. CASE PublishHealth(r)
  <2>1. Publishes(r, "health", "healthOut") /\ finalizer' = finalizer /\ pc[r] = "parquetOut"
    BY <1>5 DEF PublishHealth, At
  <2>2. "health" \in Outputs /\ "healthOut" \in Places
    BY DEF Outputs, Places
  <2> QED
    BY <1>1, <1>3, <2>1, <2>2, Publishing
<1>6. CASE PublishManifest(r)
  <2>1. Publishes(r, "manifest", "done") /\ pc[r] = "healthOut"
    BY <1>6 DEF PublishManifest, At
  <2>2. "manifest" \in Outputs /\ "done" \in Places
    BY DEF Outputs, Places
  <2>3. ~Finalizing(r)'
    BY <1>3, <2>1, <2>2 DEF Finalizing
  <2>4. \A s \in Runs : ~Finalizing(s)'
    BY <1>3, <2>1, <2>2, <2>3
  <2> QED
    BY <1>1, <1>3, <2>1, <2>2, <2>4, Publishing
<1> QED
  BY <1>4, <1>5, <1>6

LEMMA FinStep ==
  DiskInv /\ OwnerInv /\ FinInv /\ [Next]_vars
    => FinInv' /\ \A f \in Outputs : AtMost(output[f], output'[f])
<1> SUFFICES ASSUME DiskInv, OwnerInv, FinInv, [Next]_vars
             PROVE  FinInv' /\ \A f \in Outputs : AtMost(output[f], output'[f])
  OBVIOUS
<1>1. LockTypeOK /\ published \in Table
  BY DEF OwnerInv, DiskInv, DiskTypeOK, Table
<1>2. published' \in Table /\ AtMost(published, published')
  BY DiskStep DEF DiskInv, DiskTypeOK, Table, AtMost
<1>3. ASSUME UNCHANGED output PROVE \A f \in Outputs : AtMost(output[f], output'[f])
  BY <1>3 DEF FinInv, AtMost, Table
<1>4. ASSUME NothingPublished
      PROVE  FinInv' /\ \A f \in Outputs : AtMost(output[f], output'[f])
  BY <1>1, <1>2, <1>3, <1>4, NothingPublishedStep DEF NothingPublished
<1>5. CASE UNCHANGED vars
  <2>1. NothingPublished
    BY <1>5 DEF vars, mainVars, lockVars, outVars, NothingPublished, Finalizing
  <2> QED
    BY <1>4, <2>1
<1>6. CASE Next
  <2>1. PICK r \in Runs :
          MainNext(r) \/ WriterSteps(r) \/ WriterFails(r) \/ FinalizeNext(r) \/ Dies(r)
    BY <1>6 DEF Next
  <2>2. CASE MainNext(r)
    BY <1>1, <1>4, <2>2, MainPublishesNothing
  <2>3. CASE WriterSteps(r) \/ WriterFails(r)
    BY <1>1, <1>4, <2>3, WriterPublishesNothing
  <2>4. CASE Dies(r)
    BY <1>1, <1>4, <2>4, DiesPublishesNothing
  <2>5. CASE FinalizeBegins(r)
    BY <1>1, <1>3, <2>5, BeginsFinalizing
  <2>6. CASE PublishParquet(r) \/ PublishHealth(r) \/ PublishManifest(r)
    BY <1>1, <2>6, FinalizePublishes
  <2>7. CASE FinalizeRefused(r)
    <3>1. NothingPublished
      BY <1>1, <2>7 DEF FinalizeRefused, Goto, Finalizing, LockTypeOK, lockVars, outVars,
         NothingPublished
    <3> QED
      BY <1>4, <3>1
  <2>8. CASE FinalizeFails(r)
    <3>1. /\ Finalizing(r) /\ pc' = [pc EXCEPT ![r] = "failed"]
          /\ UNCHANGED <<snapshot, output>>
      BY <2>8 DEF FinalizeFails, Goto, outVars
    <3>2. finalizer = r /\ \A s \in Runs : Finalizing(s) => s = r
      BY <3>1 DEF FinInv
    <3>3. \A s \in Runs : ~Finalizing(s)'
      BY <1>1, <3>1, <3>2 DEF Finalizing, LockTypeOK
    <3>4. NothingPublished
      BY <3>1, <3>3 DEF NothingPublished
    <3> QED
      BY <1>4, <3>4
  <2> QED
    BY <2>1, <2>2, <2>3, <2>4, <2>5, <2>6, <2>7, <2>8 DEF FinalizeNext
<1> QED
  BY <1>5, <1>6

(* Together the three invariants are inductive.                            *)
LEMMA LogInvariant == Init /\ [][Next]_vars => [](OwnerInv /\ DiskInv /\ FinInv)
<1>1. OwnerInv /\ DiskInv /\ FinInv /\ [Next]_vars => (OwnerInv /\ DiskInv /\ FinInv)'
  BY OwnerStep, DiskStep, FinStep
<1> QED
  BY OwnerInit, DiskInit, FinInit, <1>1, PTL

(* Whoever reads the manifest finds what it lists in the health report and *)
(* in the parquet file, however many runs finalize, fail or die.           *)
THEOREM ManifestCompletes == Spec => []ManifestIsLast
<1>1. FinInv => ManifestIsLast
  BY DEF FinInv
<1> QED
  BY LogInvariant, <1>1, PTL DEF Spec

(* A later finalization never takes a published row back.                  *)
THEOREM PublishedRowsStay == Spec => OutputsOnlyGrow
<1>1. DiskInv /\ OwnerInv /\ FinInv /\ [Next]_vars
        => [\A f \in Outputs : \A r \in Runs : output[f][r] <= output'[f][r]]_vars
  BY FinStep DEF AtMost
<1> QED
  BY LogInvariant, <1>1, PTL DEF Spec, OutputsOnlyGrow

-----------------------------------------------------------------------------
(* The rows of a run.                                                      *)

Items == {"tick", "barrier", "stop"}

(* The ticks of a queue, numbered: the first is row from + 1, the last is  *)
(* row to.                                                                 *)
Numbered(q, from, to) ==
  \E row \in [0 .. Len(q) -> Nat] :
    /\ row[0] = from /\ row[Len(q)] = to
    /\ \A i \in 1 .. Len(q) :
         row[i] = IF q[i] = "tick" THEN row[i - 1] + 1 ELSE row[i - 1]
    /\ \A i \in 0 .. Len(q) : row[i] <= to

LEMMA EmptyNumbered ==
  ASSUME NEW n \in Nat
  PROVE  Numbered(<<>>, n, n)
<1> DEFINE row == [i \in 0 .. 0 |-> n]
<1>1. Len(<<>>) = 0
  OBVIOUS
<1>2. row \in [0 .. Len(<<>>) -> Nat] /\ \A i \in 0 .. 0 : row[i] = n
  BY <1>1
<1>3. row[0] = n /\ row[Len(<<>>)] = n /\ \A i \in 0 .. Len(<<>>) : row[i] <= n
  BY <1>1, <1>2
<1>4. \A i \in 1 .. Len(<<>>) : FALSE
  BY <1>1
<1> HIDE DEF row
<1> QED
  BY <1>2, <1>3, <1>4 DEF Numbered

LEMMA NumberedBound ==
  ASSUME NEW q \in Seq(Items), NEW from, NEW to, Numbered(q, from, to)
  PROVE  from <= to /\ (q = <<>> => from = to)
<1>1. Len(q) \in Nat /\ (q = <<>> => Len(q) = 0)
  OBVIOUS
<1> QED
  BY <1>1 DEF Numbered

LEMMA NumberedAppend ==
  ASSUME NEW q \in Seq(Items), NEW item \in Items, NEW from \in Nat, NEW to \in Nat,
         Numbered(q, from, to)
  PROVE  Numbered(Append(q, item), from, IF item = "tick" THEN to + 1 ELSE to)
<1> DEFINE n == Len(q)
           last == IF item = "tick" THEN to + 1 ELSE to
<1>1. n \in Nat /\ Len(Append(q, item)) = n + 1
  OBVIOUS
<1>2. /\ \A i \in 1 .. n : Append(q, item)[i] = q[i]
      /\ Append(q, item)[n + 1] = item
  OBVIOUS
<1>3. PICK row \in [0 .. n -> Nat] :
        /\ row[0] = from /\ row[n] = to
        /\ \A i \in 1 .. n : row[i] = IF q[i] = "tick" THEN row[i - 1] + 1 ELSE row[i - 1]
        /\ \A i \in 0 .. n : row[i] <= to
  BY DEF Numbered
<1> DEFINE longer == [i \in 0 .. n + 1 |-> IF i = n + 1 THEN last ELSE row[i]]
<1>4. last \in Nat /\ to <= last
  OBVIOUS
<1>5. longer \in [0 .. n + 1 -> Nat]
  BY <1>1, <1>4
<1>6. longer[0] = from /\ longer[n + 1] = last
  BY <1>1, <1>3
<1>7. ASSUME NEW i \in 1 .. n + 1
      PROVE  longer[i] = IF Append(q, item)[i] = "tick" THEN longer[i - 1] + 1
                                                       ELSE longer[i - 1]
  <2>1. CASE i = n + 1
    <3>1. longer[i] = last /\ longer[i - 1] = to
      BY <1>1, <1>3, <2>1
    <3> QED
      BY <1>2, <2>1, <3>1
  <2>2. CASE i \in 1 .. n
    <3>1. longer[i] = row[i] /\ longer[i - 1] = row[i - 1]
      BY <1>1, <2>2
    <3> QED
      BY <1>2, <1>3, <2>2, <3>1
  <2> QED
    BY <1>1, <2>1, <2>2
<1>8. \A i \in 0 .. n + 1 : longer[i] <= last
  BY <1>1, <1>3, <1>4
<1> HIDE DEF longer, last
<1>9. Numbered(Append(q, item), from, last)
  BY <1>1, <1>5, <1>6, <1>7, <1>8 DEF Numbered
<1> QED
  BY <1>9 DEF last

LEMMA NumberedTail ==
  ASSUME NEW q \in Seq(Items), q # <<>>, NEW from \in Nat, NEW to \in Nat,
         Numbered(q, from, to)
  PROVE  Numbered(Tail(q), IF Head(q) = "tick" THEN from + 1 ELSE from, to)
<1> DEFINE n == Len(q)
<1>1. n \in Nat /\ n >= 1 /\ Len(Tail(q)) = n - 1
  OBVIOUS
<1>2. Head(q) = q[1] /\ \A i \in 1 .. n - 1 : Tail(q)[i] = q[i + 1]
  OBVIOUS
<1>3. PICK row \in [0 .. n -> Nat] :
        /\ row[0] = from /\ row[n] = to
        /\ \A i \in 1 .. n : row[i] = IF q[i] = "tick" THEN row[i - 1] + 1 ELSE row[i - 1]
        /\ \A i \in 0 .. n : row[i] <= to
  BY DEF Numbered
<1> DEFINE rest == [i \in 0 .. n - 1 |-> row[i + 1]]
<1>4. rest \in [0 .. n - 1 -> Nat] /\ \A i \in 0 .. n - 1 : rest[i] = row[i + 1]
  BY <1>1
<1>5. row[1] = IF Head(q) = "tick" THEN from + 1 ELSE from
  BY <1>1, <1>2, <1>3
<1>6. rest[0] = row[1] /\ rest[n - 1] = to
  BY <1>1, <1>3, <1>4
<1>7. \A i \in 1 .. n - 1 :
        rest[i] = IF Tail(q)[i] = "tick" THEN rest[i - 1] + 1 ELSE rest[i - 1]
  <2>1. TAKE i \in 1 .. n - 1
  <2>2. i + 1 \in 1 .. n /\ i \in 0 .. n - 1 /\ i - 1 \in 0 .. n - 1 /\ (i + 1) - 1 = i
    BY <1>1
  <2>3. rest[i] = row[i + 1] /\ rest[i - 1] = row[i]
    BY <1>4, <2>2
  <2> QED
    BY <1>2, <1>3, <2>2, <2>3
<1>8. \A i \in 0 .. n - 1 : rest[i] <= to
  BY <1>1, <1>3, <1>4
<1> HIDE DEF rest
<1> QED
  BY <1>1, <1>4, <1>5, <1>6, <1>7, <1>8 DEF Numbered

(* Rows taken off the queue and not yet written.                           *)
InHand(r) == IF wpc[r] = "collect" THEN batch[r] ELSE todo[r]

RowTypeOK ==
  /\ queue \in [Runs -> Seq(Items)]
  /\ accepted \in [Runs -> Nat] /\ goal \in [Runs -> Nat] /\ acked \in [Runs -> Nat]
  /\ batch \in [Runs -> Nat] /\ todo \in [Runs -> Nat] /\ counted \in [Runs -> Nat]
  /\ control \in [Runs -> {"none", "barrier", "stop"}]

(* Every accepted row is in a file, in the writer's hands or in the queue  *)
(* while there is a writer; later some of them may be lost.                *)
RowsOf(r) ==
  /\ written[r] + InHand(r) <= accepted[r]
  /\ wpc[r] # "exited" => Numbered(queue[r], written[r] + InHand(r), accepted[r])
  /\ wpc[r] \in {"idle", "control"} => todo[r] = 0
  /\ published[r] <= written[r]

RowInv == RowTypeOK /\ \A r \in Runs : RowsOf(r)

LEMMA RowInit == Init => RowInv
<1> SUFFICES ASSUME Init PROVE RowInv
  OBVIOUS
<1>1. RowTypeOK
  BY DEF Init, RowTypeOK, NoRows, Items
<1>2. ASSUME NEW r \in Runs PROVE RowsOf(r)
  BY EmptyNumbered DEF Init, NoRows, RowsOf, InHand
<1> QED
  BY <1>1, <1>2 DEF RowInv

SameRows(s) ==
  /\ queue'[s] = queue[s] /\ accepted'[s] = accepted[s] /\ wpc'[s] = wpc[s]
  /\ batch'[s] = batch[s] /\ todo'[s] = todo[s] /\ written'[s] = written[s]

LEMMA SameRowsKept ==
  ASSUME NEW s \in Runs, RowsOf(s), SameRows(s), published'[s] <= written'[s]
  PROVE  RowsOf(s)'
BY DEF RowsOf, SameRows, InHand

(* The main thread of a run touches its rows by what it puts in the queue. *)
MainRows(r) ==
  /\ UNCHANGED <<wpc, batch, todo, written, counted, control>>
  /\ \/ UNCHANGED <<queue, accepted>>
     \/ \E item \in Items :
          /\ queue' = [queue EXCEPT ![r] = Append(@, item)]
          /\ accepted' = IF item = "tick" THEN [accepted EXCEPT ![r] = @ + 1]
                                          ELSE accepted
          /\ published' = published

LEMMA MainPuts ==
  ASSUME NEW r \in Runs, MainNext(r)
  PROVE  MainRows(r)
<1> USE DEF MainRows, Items, writerVars, diskVars, Put
<1>1. CASE Start(r)
  BY <1>1 DEF Start
<1>2. CASE AppendTick(r)
  BY <1>2 DEF AppendTick
<1>3. CASE FlushEnqueues(r)
  BY <1>3 DEF FlushEnqueues
<1>4. CASE CloseEnqueues(r)
  BY <1>4 DEF CloseEnqueues
<1>5. CASE AppendOverflows(r) \/ FlushBegins(r) \/ FlushNotQueued(r)
  BY <1>5 DEF AppendOverflows, FlushBegins, FlushNotQueued
<1>6. CASE FlushReturns(r) \/ FlushTimesOut(r) \/ CloseBegins(r)
  BY <1>6 DEF FlushReturns, FlushTimesOut, CloseBegins
<1>7. CASE CloseNotQueued(r) \/ CloseJoins(r) \/ CloseTimesOut(r)
  BY <1>7 DEF CloseNotQueued, CloseJoins, CloseTimesOut
<1> QED
  BY <1>1, <1>2, <1>3, <1>4, <1>5, <1>6, <1>7 DEF MainNext

LEMMA RowNumbers ==
  ASSUME RowTypeOK, DiskInv, NEW r \in Runs
  PROVE  /\ queue[r] \in Seq(Items) /\ accepted[r] \in Nat /\ written[r] \in Nat
         /\ InHand(r) \in Nat /\ written[r] + InHand(r) \in Nat
<1>1. queue[r] \in Seq(Items) /\ accepted[r] \in Nat
  BY DEF RowTypeOK
<1>2. written[r] \in Nat
  BY DEF DiskInv, DiskTypeOK
<1>3. batch[r] \in Nat /\ todo[r] \in Nat
  BY DEF RowTypeOK
<1>4. InHand(r) \in Nat
  BY <1>3 DEF InHand
<1> QED
  BY <1>1, <1>2, <1>4

LEMMA MainKeepsRows ==
  ASSUME RowInv, DiskInv, NEW r \in Runs, MainRows(r),
         \A s \in Runs : published'[s] <= written[s]
  PROVE  \A s \in Runs : RowsOf(s)'
<1> TAKE s \in Runs
<1>0. RowsOf(s) /\ published'[s] <= written'[s]
  BY DEF RowInv, MainRows
<1>1. CASE SameRows(s)
  BY <1>0, <1>1, SameRowsKept
<1>2. CASE UNCHANGED <<queue, accepted>>
  BY <1>1, <1>2 DEF SameRows, MainRows
<1>3. CASE \E item \in Items :
             /\ queue' = [queue EXCEPT ![r] = Append(@, item)]
             /\ accepted' = IF item = "tick" THEN [accepted EXCEPT ![r] = @ + 1]
                                             ELSE accepted
  <2>1. PICK item \in Items :
          /\ queue' = [queue EXCEPT ![r] = Append(@, item)]
          /\ accepted' = IF item = "tick" THEN [accepted EXCEPT ![r] = @ + 1]
                                          ELSE accepted
    BY <1>3
  <2>2. CASE s # r
    <3>1. queue'[s] = queue[s] /\ accepted'[s] = accepted[s]
      BY <2>1, <2>2 DEF RowInv, RowTypeOK
    <3> QED
      BY <1>1, <3>1 DEF SameRows, MainRows
  <2>3. CASE s = r
    <3>1. /\ queue'[r] = Append(queue[r], item)
          /\ accepted'[r] = IF item = "tick" THEN accepted[r] + 1 ELSE accepted[r]
      BY <2>1 DEF RowInv, RowTypeOK
    <3>2. /\ wpc'[r] = wpc[r] /\ todo'[r] = todo[r] /\ written'[r] = written[r]
          /\ InHand(r)' = InHand(r)
      BY DEF MainRows, InHand
    <3>3. /\ queue[r] \in Seq(Items) /\ accepted[r] \in Nat /\ written[r] \in Nat
          /\ InHand(r) \in Nat /\ written[r] + InHand(r) \in Nat
      BY RowNumbers DEF RowInv
    <3>4. wpc[r] # "exited"
            => Numbered(queue'[r], written[r] + InHand(r), accepted'[r])
      <4> DEFINE from == written[r] + InHand(r)
      <4>1. HAVE wpc[r] # "exited"
      <4>2. from \in Nat /\ Numbered(queue[r], from, accepted[r])
        BY <1>0, <2>3, <3>3, <4>1 DEF RowsOf
      <4> HIDE DEF from
      <4>3. Numbered(Append(queue[r], item), from,
                     IF item = "tick" THEN accepted[r] + 1 ELSE accepted[r])
        BY <3>3, <4>2, NumberedAppend
      <4> QED
        BY <3>1, <4>3 DEF from
    <3>5. written[r] + InHand(r) <= accepted'[r]
      BY <1>0, <2>3, <3>1, <3>3 DEF RowsOf
    <3> QED
      BY <1>0, <2>3, <3>2, <3>4, <3>5 DEF RowsOf
  <2> QED
    BY <2>2, <2>3
<1> QED
  BY <1>2, <1>3 DEF MainRows

LEMMA MainKeepsRowTypes ==
  ASSUME RowInv, NEW r \in Runs, MainNext(r)
  PROVE  RowTypeOK'
<1>1. /\ batch' \in [Runs -> Nat] /\ todo' \in [Runs -> Nat] /\ counted' \in [Runs -> Nat]
      /\ control' \in [Runs -> {"none", "barrier", "stop"}]
  BY MainPuts DEF MainRows, RowInv, RowTypeOK
<1>2. queue' \in [Runs -> Seq(Items)] /\ accepted' \in [Runs -> Nat]
  <2>1. CASE UNCHANGED <<queue, accepted>>
    BY <2>1 DEF RowInv, RowTypeOK
  <2>2. CASE \E item \in Items :
               /\ queue' = [queue EXCEPT ![r] = Append(@, item)]
               /\ accepted' = IF item = "tick" THEN [accepted EXCEPT ![r] = @ + 1]
                                               ELSE accepted
    BY <2>2 DEF RowInv, RowTypeOK
  <2> QED
    BY <2>1, <2>2, MainPuts DEF MainRows
<1>3. goal' \in [Runs -> Nat] /\ acked' \in [Runs -> Nat]
  <2> USE DEF RowInv, RowTypeOK
  <2>1. CASE FlushBegins(r)
    BY <2>1 DEF FlushBegins
  <2>2. CASE FlushReturns(r)
    BY <2>2 DEF FlushReturns
  <2>3. CASE Start(r) \/ AppendTick(r) \/ AppendOverflows(r) \/ FlushEnqueues(r)
    BY <2>3 DEF Start, AppendTick, AppendOverflows, FlushEnqueues
  <2>4. CASE FlushNotQueued(r) \/ FlushTimesOut(r) \/ CloseBegins(r) \/ CloseEnqueues(r)
    BY <2>4 DEF FlushNotQueued, FlushTimesOut, CloseBegins, CloseEnqueues
  <2>5. CASE CloseNotQueued(r) \/ CloseJoins(r) \/ CloseTimesOut(r)
    BY <2>5 DEF CloseNotQueued, CloseJoins, CloseTimesOut
  <2> QED
    BY <2>1, <2>2, <2>3, <2>4, <2>5 DEF MainNext
<1> QED
  BY <1>1, <1>2, <1>3 DEF RowTypeOK

LEMMA Renumbered ==
  ASSUME NEW r \in Runs, queue'[r] \in Seq(Items),
         Numbered(queue'[r], written'[r] + InHand(r)', accepted'[r]),
         wpc'[r] \in {"idle", "control"} => todo'[r] = 0,
         published'[r] <= written'[r]
  PROVE  RowsOf(r)'
<1>1. written'[r] + InHand(r)' <= accepted'[r]
  BY NumberedBound
<1> QED
  BY <1>1 DEF RowsOf

(* A step changes f of the run r alone, if at all.                         *)
Moves(f, r, S) == f' \in [Runs -> S] /\ \A s \in Runs : s # r => f'[s] = f[s]

WriterRows(r) ==
  /\ Moves(queue, r, Seq(Items))
  /\ Moves(batch, r, Nat) /\ Moves(todo, r, Nat) /\ Moves(counted, r, Nat)
  /\ Moves(control, r, {"none", "barrier", "stop"})
  /\ Moves(written, r, Nat) /\ Moves(published, r, Nat)

(* The writer takes rows from the queue and puts them into files.          *)
LEMMA WriterTakes ==
  ASSUME RowTypeOK, DiskTypeOK, NEW r \in Runs, WriterSteps(r) \/ WriterFails(r)
  PROVE  WriterRows(r)
<1> USE DEF writerVars, diskVars, RowTypeOK, DiskTypeOK
<1>1. /\ queue[r] \in Seq(Items) /\ batch[r] \in Nat /\ todo[r] \in Nat /\ counted[r] \in Nat
      /\ written[r] \in Nat
  BY DEF RowTypeOK, DiskTypeOK
<1>2. queue[r] # <<>> => Tail(queue[r]) \in Seq(Items) /\ Head(queue[r]) \in Items
  BY <1>1
<1>3. CASE TakeFirst(r)
  <2>1. Moves(queue, r, Seq(Items))
    BY <1>2, <1>3 DEF TakeFirst, Moves
  <2>2. Moves(control, r, {"none", "barrier", "stop"})
    BY <1>2, <1>3 DEF TakeFirst, Moves, Items
  <2>3. Moves(batch, r, Nat)
    BY <1>3 DEF TakeFirst, Moves
  <2> QED
    BY <1>3, <2>1, <2>2, <2>3 DEF TakeFirst, WriterRows, Moves
<1>4. CASE TakeMore(r)
  <2>1. Moves(queue, r, Seq(Items))
    BY <1>2, <1>4 DEF TakeMore, Moves
  <2>2. Moves(batch, r, Nat)
    BY <1>1, <1>4 DEF TakeMore, Moves
  <2> QED
    BY <1>4, <2>1, <2>2 DEF TakeMore, WriterRows, Moves
<1>5. CASE Collected(r)
  <2>1. Moves(queue, r, Seq(Items))
    BY <1>2, <1>5 DEF Collected, Moves
  <2>2. Moves(control, r, {"none", "barrier", "stop"})
    BY <1>2, <1>5 DEF Collected, Moves, Items
  <2>3. Moves(todo, r, Nat)
    BY <1>1, <1>5 DEF Collected, Moves
  <2> QED
    BY <1>5, <2>1, <2>2, <2>3 DEF Collected, WriterRows, Moves
<1>6. CASE RollSegment(r)
  <2>1. Moves(published, r, Nat)
    BY <1>1, <1>6 DEF RollSegment, CloseSegment, Moves
  <2> QED
    BY <1>6, <2>1 DEF RollSegment, CloseSegment, WriterRows, Moves
<1>7. CASE WriteRow(r)
  <2>1. Moves(written, r, Nat)
    BY <1>1, <1>7 DEF WriteRow, Moves
  <2>2. Moves(todo, r, Nat)
    BY <1>1, <1>7 DEF WriteRow, Moves
  <2> QED
    BY <1>7, <2>1, <2>2 DEF WriteRow, WriterRows, Moves
<1>8. CASE CountBatch(r)
  <2>1. Moves(counted, r, Nat)
    BY <1>1, <1>8 DEF CountBatch, Moves
  <2>2. Moves(batch, r, Nat)
    BY <1>8 DEF CountBatch, Moves
  <2> QED
    BY <1>8, <2>1, <2>2 DEF CountBatch, WriterRows, Moves
<1>9. CASE IdleSync(r)
  BY <1>9 DEF IdleSync, WriterRows, Moves
<1>10. CASE FinishControl(r)
  <2>1. Moves(published, r, Nat) /\ written' = written
    BY <1>1, <1>10 DEF FinishControl, CloseSegment, Moves
  <2>2. Moves(control, r, {"none", "barrier", "stop"})
    BY <1>10 DEF FinishControl, Moves
  <2> QED
    BY <1>10, <2>1, <2>2 DEF FinishControl, WriterRows, Moves
<1>11. CASE WriterFails(r)
  <2>1. <<>> \in Seq(Items)
    OBVIOUS
  <2> QED
    BY <1>11, <2>1 DEF WriterFails, WriterRows, Moves
<1> QED
  BY <1>3, <1>4, <1>5, <1>6, <1>7, <1>8, <1>9, <1>10, <1>11 DEF WriterSteps

LEMMA WriterKeepsOthers ==
  ASSUME RowInv, DiskInv, LockTypeOK, NEW r \in Runs, WriterSteps(r) \/ WriterFails(r)
  PROVE  /\ RowTypeOK'
         /\ \A s \in Runs : s # r => SameRows(s) /\ published'[s] = published[s]
         /\ accepted' = accepted
<1>1. WriterRows(r) /\ WriterFrame(r)
  BY WriterTakes, WriterMoves DEF RowInv, DiskInv
<1>2. UNCHANGED <<accepted, goal, acked>>
  BY <1>1 DEF WriterFrame, mainVars
<1>3. queue' \in [Runs -> Seq(Items)] /\ \A s \in Runs : s # r => queue'[s] = queue[s]
  BY <1>1 DEF WriterRows, Moves
<1>4. /\ batch' \in [Runs -> Nat] /\ todo' \in [Runs -> Nat]
      /\ \A s \in Runs : s # r => batch'[s] = batch[s] /\ todo'[s] = todo[s]
  BY <1>1 DEF WriterRows, Moves
<1>5. counted' \in [Runs -> Nat] /\ control' \in [Runs -> {"none", "barrier", "stop"}]
  BY <1>1 DEF WriterRows, Moves
<1>6. \A s \in Runs : s # r => written'[s] = written[s] /\ published'[s] = published[s]
  BY <1>1 DEF WriterRows, Moves
<1>7. \A s \in Runs : s # r => wpc'[s] = wpc[s]
  BY <1>1 DEF WriterFrame, LockTypeOK
<1>8. RowTypeOK'
  BY <1>2, <1>3, <1>4, <1>5 DEF RowInv, RowTypeOK
<1> QED
  BY <1>2, <1>3, <1>4, <1>6, <1>7, <1>8 DEF SameRows

LEMMA WriterKeepsOwn ==
  ASSUME RowInv, DiskInv, LockTypeOK, NEW r \in Runs, WriterSteps(r) \/ WriterFails(r)
  PROVE  RowsOf(r)'
<1> DEFINE from == written[r] + InHand(r)
<1>1. /\ wpc[r] # "exited" /\ Numbered(queue[r], from, accepted[r]) /\ from <= accepted[r]
      /\ wpc[r] \in {"idle", "control"} => todo[r] = 0
      /\ published[r] <= written[r]
  <2>1. WriterFrame(r) /\ RowsOf(r)
    BY WriterMoves DEF RowInv
  <2> QED
    BY <2>1 DEF WriterFrame, RowsOf
<1>2. /\ queue[r] \in Seq(Items) /\ accepted[r] \in Nat /\ written[r] \in Nat /\ from \in Nat
      /\ batch[r] \in Nat /\ todo[r] \in Nat /\ published[r] \in Nat
  BY RowNumbers DEF RowInv, RowTypeOK, DiskInv, DiskTypeOK
<1>3. queue'[r] \in Seq(Items) /\ accepted'[r] = accepted[r]
  BY WriterKeepsOthers DEF RowTypeOK
<1> USE DEF RowInv, RowTypeOK, DiskInv, DiskTypeOK, LockTypeOK, writerVars, diskVars
<1>4. ASSUME queue[r] # <<>>
      PROVE  Numbered(Tail(queue[r]), IF Head(queue[r]) = "tick" THEN from + 1 ELSE from,
                      accepted[r])
  <2> HIDE DEF from
  <2> QED
    BY <1>1, <1>2, <1>4, NumberedTail
<1>5. ASSUME queue'[r] = queue[r], written'[r] + InHand(r)' = from,
             wpc'[r] \in {"idle", "control"} => todo'[r] = 0, published'[r] <= written'[r]
      PROVE  RowsOf(r)'
  BY <1>1, <1>3, <1>5, Renumbered
<1>6. CASE TakeFirst(r)
  <2>1. wpc[r] = "idle" /\ queue[r] # <<>> /\ queue'[r] = Tail(queue[r])
    BY <1>6 DEF TakeFirst
  <2>2. /\ todo'[r] = todo[r] /\ written'[r] = written[r] /\ published'[r] = published[r]
        /\ wpc'[r] = IF Head(queue[r]) = "tick" THEN "collect" ELSE "control"
        /\ batch'[r] = IF Head(queue[r]) = "tick" THEN 1 ELSE 0
    BY <1>6 DEF TakeFirst
  <2>3. from = written[r] /\ todo[r] = 0
    BY <1>1, <1>2, <2>1 DEF InHand
  <2>4. written'[r] + InHand(r)' = IF Head(queue[r]) = "tick" THEN from + 1 ELSE from
    BY <1>2, <2>2, <2>3 DEF InHand
  <2>5. Numbered(queue'[r], written'[r] + InHand(r)', accepted'[r])
    BY <1>3, <1>4, <2>1, <2>4
  <2> QED
    BY <1>1, <1>3, <2>2, <2>3, <2>5, Renumbered
<1>7. CASE TakeMore(r)
  <2>1. /\ wpc[r] = "collect" /\ queue[r] # <<>> /\ Head(queue[r]) = "tick"
        /\ queue'[r] = Tail(queue[r])
    BY <1>7 DEF TakeMore
  <2>2. /\ written'[r] = written[r] /\ published'[r] = published[r] /\ wpc'[r] = "collect"
        /\ batch'[r] = batch[r] + 1
    BY <1>7, <2>1 DEF TakeMore
  <2>3. written'[r] + InHand(r)' = from + 1
    BY <1>2, <2>1, <2>2 DEF InHand
  <2>4. Numbered(queue'[r], written'[r] + InHand(r)', accepted'[r])
    BY <1>3, <1>4, <2>1, <2>3
  <2> QED
    BY <1>1, <1>3, <2>2, <2>4, Renumbered
<1>8. CASE Collected(r)
  <2>1. wpc[r] = "collect" /\ wpc'[r] = "write" /\ todo'[r] = batch[r]
    BY <1>8 DEF Collected
  <2>2. written'[r] = written[r] /\ published'[r] = published[r]
    BY <1>8 DEF Collected
  <2>3. written'[r] + InHand(r)' = from
    BY <2>1, <2>2 DEF InHand
  <2>4. \/ queue'[r] = queue[r]
        \/ queue[r] # <<>> /\ Head(queue[r]) # "tick" /\ queue'[r] = Tail(queue[r])
    BY <1>8 DEF Collected
  <2>5. Numbered(queue'[r], written'[r] + InHand(r)', accepted'[r])
    BY <1>1, <1>3, <1>4, <2>3, <2>4
  <2> QED
    BY <1>1, <1>3, <2>1, <2>2, <2>5, Renumbered
<1>9. CASE RollSegment(r)
  <2>1. /\ queue'[r] = queue[r] /\ InHand(r)' = InHand(r) /\ wpc'[r] = wpc[r]
        /\ todo'[r] = todo[r] /\ written'[r] = written[r] /\ published'[r] = written[r]
    BY <1>9 DEF RollSegment, CloseSegment, InHand
  <2> QED
    BY <1>1, <1>2, <1>5, <2>1
<1>10. CASE WriteRow(r)
  <2>1. /\ wpc[r] = "write" /\ wpc'[r] = "write" /\ todo[r] > 0 /\ todo'[r] = todo[r] - 1
        /\ written'[r] = written[r] + 1 /\ published'[r] = published[r]
        /\ queue'[r] = queue[r]
    BY <1>10 DEF WriteRow
  <2>2. written'[r] + InHand(r)' = from /\ published'[r] <= written'[r]
    BY <1>1, <1>2, <2>1 DEF InHand
  <2> QED
    BY <1>5, <2>1, <2>2
<1>11. CASE CountBatch(r)
  <2>1. /\ wpc[r] = "write" /\ todo[r] = 0 /\ wpc'[r] \in {"idle", "control"}
        /\ todo'[r] = todo[r] /\ queue'[r] = queue[r]
        /\ written'[r] = written[r] /\ published'[r] = published[r]
    BY <1>11 DEF CountBatch
  <2>2. written'[r] + InHand(r)' = from
    BY <2>1 DEF InHand
  <2> QED
    BY <1>1, <1>5, <2>1, <2>2
<1>12. CASE IdleSync(r)
  <2>1. /\ queue'[r] = queue[r] /\ InHand(r)' = InHand(r) /\ wpc'[r] = wpc[r]
        /\ todo'[r] = todo[r] /\ written'[r] = written[r] /\ published'[r] = published[r]
    BY <1>12 DEF IdleSync, InHand
  <2> QED
    BY <1>1, <1>5, <2>1
<1>13. CASE FinishControl(r)
  <2>1. wpc[r] = "control" /\ wpc'[r] \in {"idle", "exited"} /\ todo'[r] = todo[r]
    BY <1>13 DEF FinishControl
  <2>2. queue'[r] = queue[r] /\ InHand(r)' = InHand(r)
    BY <1>13, <2>1 DEF FinishControl, InHand
  <2>3. written'[r] = written[r] /\ published'[r] \in {published[r], written[r]}
    BY <1>13 DEF FinishControl, CloseSegment
  <2> QED
    BY <1>1, <1>2, <1>5, <2>1, <2>2, <2>3
<1>14. CASE WriterFails(r)
  <2>1. /\ wpc'[r] = "exited" /\ todo'[r] = todo[r] /\ batch'[r] = batch[r]
        /\ written'[r] = written[r] /\ published'[r] = published[r]
        /\ wpc[r] # "collect"
    BY <1>14 DEF WriterFails
  <2>2. InHand(r)' = InHand(r)
    BY <2>1 DEF InHand
  <2> QED
    BY <1>1, <1>3, <2>1, <2>2 DEF RowsOf
<1> QED
  BY <1>6, <1>7, <1>8, <1>9, <1>10, <1>11, <1>12, <1>13, <1>14 DEF WriterSteps

(* A death loses what was in hand and what no fsync had covered.           *)
LEMMA DiesKeepsRows ==
  ASSUME RowInv, DiskInv, LockTypeOK, NEW r \in Runs, Dies(r)
  PROVE  RowInv'
<1> USE DEF RowInv, RowTypeOK, DiskInv, DiskTypeOK, LockTypeOK
<1>1. <<>> \in Seq(Items)
  OBVIOUS
<1>2. RowTypeOK'
  BY <1>1 DEF Dies
<1>3. written'[r] \in Nat /\ written'[r] <= written[r] /\ published[r] <= written'[r]
  <2>1. CASE partial[r]
    <3>1. PICK rows \in synced[r] .. written[r] : written' = [written EXCEPT ![r] = rows]
      BY <2>1 DEF Dies
    <3>2. written[r] \in Nat /\ synced[r] \in Nat /\ published[r] \in Nat
          /\ published[r] <= synced[r]
      BY <2>1
    <3> QED
      BY <3>1, <3>2
  <2>2. CASE ~partial[r]
    BY <2>2 DEF Dies, RowsOf
  <2> QED
    BY <2>1, <2>2
<1>4. RowsOf(r)'
  <2>1. /\ wpc'[r] = "exited" /\ todo'[r] = 0 /\ accepted'[r] = accepted[r]
        /\ published'[r] = published[r]
    BY DEF Dies
  <2>2. written[r] + InHand(r) <= accepted[r] /\ written[r] \in Nat /\ InHand(r) \in Nat
    BY RowNumbers DEF RowsOf
  <2> QED
    BY <1>3, <2>1, <2>2 DEF RowsOf, InHand
<1>5. ASSUME NEW s \in Runs, s # r PROVE RowsOf(s)'
  <2>1. written'[s] = written[s]
    BY <1>5 DEF Dies
  <2>2. SameRows(s) /\ published'[s] = published[s]
    BY <1>5, <2>1 DEF Dies, SameRows
  <2>3. RowsOf(s)
    OBVIOUS
  <2> QED
    BY <2>1, <2>2, <2>3, SameRowsKept DEF RowsOf
<1> QED
  BY <1>2, <1>4, <1>5

LEMMA RowStep == RowInv /\ DiskInv /\ OwnerInv /\ [Next]_vars => RowInv'
<1> SUFFICES ASSUME RowInv, DiskInv, OwnerInv, [Next]_vars PROVE RowInv'
  OBVIOUS
<1>1. LockTypeOK
  BY DEF OwnerInv
<1>2. ASSUME UNCHANGED <<queue, accepted, goal, acked, wpc, batch, todo, counted, control,
                         written, published>>
      PROVE  RowInv'
  <2>1. RowTypeOK'
    BY <1>2 DEF RowInv, RowTypeOK
  <2>2. \A s \in Runs : RowsOf(s)'
    BY <1>2 DEF RowInv, RowsOf, InHand
  <2> QED
    BY <2>1, <2>2 DEF RowInv
<1>3. CASE UNCHANGED vars
  BY <1>2, <1>3 DEF vars, mainVars, writerVars, diskVars
<1>4. ASSUME NEW r \in Runs, MainNext(r) PROVE RowInv'
  <2>1. \A s \in Runs : published'[s] <= written[s]
    <3>1. CASE Start(r)
      BY <3>1 DEF Start, RowInv, RowsOf, DiskInv, DiskTypeOK
    <3>2. CASE ~Start(r)
      <4>1. published' = published
        BY <1>1, <1>4, <3>2, MainLeavesDisk DEF StillDisk, diskVars
      <4> QED
        BY <4>1 DEF RowInv, RowsOf
    <3> QED
      BY <3>1, <3>2
  <2> QED
    BY <1>4, <2>1, MainPuts, MainKeepsRows, MainKeepsRowTypes DEF RowInv
<1>5. ASSUME NEW r \in Runs, WriterSteps(r) \/ WriterFails(r) PROVE RowInv'
  <2>1. RowTypeOK' /\ RowsOf(r)'
    BY <1>1, <1>5, WriterKeepsOthers, WriterKeepsOwn
  <2>2. ASSUME NEW s \in Runs, s # r PROVE RowsOf(s)'
    <3>1. SameRows(s) /\ published'[s] = published[s] /\ RowsOf(s)
      BY <1>1, <1>5, <2>2, WriterKeepsOthers DEF RowInv
    <3>2. published'[s] <= written'[s]
      BY <3>1 DEF SameRows, RowsOf
    <3> QED
      BY <3>1, <3>2, SameRowsKept
  <2> QED
    BY <2>1, <2>2 DEF RowInv
<1>6. ASSUME NEW r \in Runs, FinalizeNext(r) PROVE RowInv'
  <2> USE DEF writerVars, diskVars
  <2>1. CASE FinalizeBegins(r) \/ FinalizeRefused(r)
    BY <1>2, <2>1 DEF FinalizeBegins, FinalizeRefused
  <2>2. CASE PublishParquet(r) \/ PublishHealth(r) \/ PublishManifest(r)
    BY <1>2, <2>2 DEF PublishParquet, PublishHealth, PublishManifest, Publishes
  <2>3. CASE FinalizeFails(r)
    BY <1>2, <2>3 DEF FinalizeFails
  <2> QED
    BY <1>6, <2>1, <2>2, <2>3 DEF FinalizeNext
<1>7. ASSUME NEW r \in Runs, Dies(r) PROVE RowInv'
  BY <1>1, <1>7, DiesKeepsRows
<1> QED
  BY <1>3, <1>4, <1>5, <1>6, <1>7 DEF Next

(* A run that publishes has counted all it accepted, and after the first   *)
(* file it has read all of that back.                                      *)
SealInv ==
  /\ \A r \in Runs : Finalizing(r) => accepted[r] = counted[r]
  /\ \A r \in Runs : pc[r] \in {"parquetOut", "healthOut"} => snapshot[r][r] = counted[r]

LEMMA SealInit == Init => SealInv
BY DEF Init, SealInv, Finalizing

(* Steps that leave alone what a finalizing run compares.                  *)
SealFrame ==
  \A s \in Runs : Finalizing(s)' =>
    /\ Finalizing(s) /\ accepted'[s] = accepted[s] /\ counted'[s] = counted[s]
    /\ snapshot'[s] = snapshot[s]
    /\ pc'[s] \in {"parquetOut", "healthOut"} =>
         pc[s] \in {"parquetOut", "healthOut"} \/ snapshot[s][s] = counted[s]

LEMMA SealFramed == SealInv /\ SealFrame => SealInv'
BY DEF SealInv, SealFrame, Finalizing

LEMMA SealStep == SealInv /\ RowTypeOK /\ FinInv /\ OwnerInv /\ [Next]_vars => SealInv'
<1> SUFFICES ASSUME SealInv, RowTypeOK, FinInv, OwnerInv, [Next]_vars PROVE SealInv'
  OBVIOUS
<1>1. LockTypeOK
  BY DEF OwnerInv
<1>2. CASE UNCHANGED vars
  BY <1>2 DEF vars, mainVars, writerVars, outVars, SealInv, Finalizing
<1>3. ASSUME NEW r \in Runs, MainNext(r) PROVE SealFrame
  <2>1. NothingPublished /\ MainRows(r)
    BY <1>1, <1>3, MainPublishesNothing, MainPuts
  <2>2. ~Finalizing(r)
    BY <1>3 DEF MainNext, At, Finalizing, Start, AppendTick, AppendOverflows, FlushBegins,
       FlushEnqueues, FlushNotQueued, FlushReturns, FlushTimesOut, CloseBegins, CloseEnqueues,
       CloseNotQueued, CloseJoins, CloseTimesOut
  <2>3. \A s \in Runs : s # r => accepted'[s] = accepted[s]
    BY <2>1 DEF MainRows, RowTypeOK
  <2> QED
    BY <2>1, <2>2, <2>3 DEF NothingPublished, MainRows, SealFrame
<1>4. ASSUME NEW r \in Runs, WriterSteps(r) \/ WriterFails(r) PROVE SealFrame
  <2>1. WriterFrame(r)
    BY <1>1, <1>4, WriterMoves
  <2>2. UNCHANGED <<pc, accepted, snapshot>> /\ wpc[r] # "exited"
    BY <2>1 DEF WriterFrame, mainVars, outVars
  <2>3. ~Finalizing(r)
    BY <2>2 DEF OwnerInv, Later, Finalizing
  <2>4. \A s \in Runs : s # r => counted'[s] = counted[s]
    <3>1. CASE CountBatch(r)
      BY <3>1 DEF CountBatch, RowTypeOK
    <3>2. CASE ~CountBatch(r)
      BY <1>4, <3>2 DEF WriterSteps, WriterFails, TakeFirst, TakeMore, Collected, RollSegment,
         WriteRow, IdleSync, FinishControl, writerVars
    <3> QED
      BY <3>1, <3>2
  <2> QED
    BY <2>2, <2>3, <2>4 DEF SealFrame, Finalizing
<1>5. ASSUME NEW r \in Runs, Dies(r) PROVE SealFrame
  <2>1. /\ \A s \in Runs : s # r => pc'[s] = pc[s] /\ counted'[s] = counted[s]
        /\ pc'[r] = "dead" /\ UNCHANGED <<accepted, snapshot>>
    BY <1>1, <1>5 DEF Dies, Goto, LockTypeOK, RowTypeOK, outVars
  <2> QED
    BY <2>1 DEF SealFrame, Finalizing
<1>6. ASSUME NEW r \in Runs, FinalizeNext(r) PROVE SealInv'
  <2>0. UNCHANGED <<accepted, counted>>
    BY <1>6 DEF FinalizeNext, FinalizeBegins, FinalizeRefused, PublishParquet, PublishHealth,
       PublishManifest, Publishes, FinalizeFails, writerVars
  <2>1. CASE FinalizeBegins(r)
    <3>1. /\ accepted[r] = counted[r] /\ pc' = [pc EXCEPT ![r] = "building"]
          /\ \A s \in Runs : s # r => snapshot'[s] = snapshot[s]
      BY <2>1 DEF FinalizeBegins, AccountingHolds, Goto, FinInv
    <3> QED
      BY <1>1, <2>0, <3>1 DEF SealInv, Finalizing, LockTypeOK
  <2>2. CASE FinalizeRefused(r) \/ FinalizeFails(r)
    <3>1. pc' = [pc EXCEPT ![r] = "failed"] /\ UNCHANGED snapshot
      BY <2>2 DEF FinalizeRefused, FinalizeFails, Goto, outVars
    <3> QED
      BY <1>1, <2>0, <3>1 DEF SealInv, Finalizing, LockTypeOK
  <2>3. CASE PublishParquet(r)
    <3>1. /\ snapshot[r][r] = counted[r] /\ pc[r] = "building"
          /\ pc' = [pc EXCEPT ![r] = "parquetOut"] /\ UNCHANGED snapshot
      BY <2>3 DEF PublishParquet, Publishes, Goto, At
    <3> QED
      BY <1>1, <2>0, <3>1 DEF SealInv, Finalizing, LockTypeOK
  <2>4. CASE PublishHealth(r)
    <3>1. /\ pc[r] = "parquetOut"
          /\ pc' = [pc EXCEPT ![r] = "healthOut"] /\ UNCHANGED snapshot
      BY <2>4 DEF PublishHealth, Publishes, Goto, At
    <3> QED
      BY <1>1, <2>0, <3>1 DEF SealInv, Finalizing, LockTypeOK
  <2>5. CASE PublishManifest(r)
    <3>1. pc' = [pc EXCEPT ![r] = "done"] /\ UNCHANGED snapshot
      BY <2>5 DEF PublishManifest, Publishes, Goto
    <3> QED
      BY <1>1, <2>0, <3>1 DEF SealInv, Finalizing, LockTypeOK
  <2> QED
    BY <1>6, <2>1, <2>2, <2>3, <2>4, <2>5 DEF FinalizeNext
<1> QED
  BY <1>2, <1>3, <1>4, <1>5, <1>6, SealFramed DEF Next

-----------------------------------------------------------------------------
(* The abstract log.                                                       *)

RefInv == OwnerInv /\ DiskInv /\ FinInv /\ RowInv /\ SealInv

LEMMA SafeIsAccepted ==
  ASSUME RefInv, NEW r \in Runs
  PROVE  /\ Safe[r] \in Nat /\ accepted[r] \in Nat /\ written[r] \in Nat
         /\ Safe[r] <= written[r] /\ written[r] <= accepted[r]
<1>1. /\ accepted[r] \in Nat /\ written[r] \in Nat /\ InHand(r) \in Nat /\ synced[r] \in Nat
      /\ published[r] \in Nat
  BY RowNumbers DEF RefInv, RowInv, DiskInv, DiskTypeOK
<1>2. written[r] + InHand(r) <= accepted[r] /\ published[r] <= written[r]
  BY DEF RefInv, RowInv, RowsOf
<1>3. synced[r] <= written[r]
  BY DEF RefInv, DiskInv
<1>4. Safe[r] = IF partial[r] THEN synced[r] ELSE published[r]
  BY DEF Safe
<1> QED
  BY <1>1, <1>2, <1>3, <1>4

(* Who has stopped changes at the run that steps.                          *)
LEMMA GoneMoves ==
  ASSUME NEW r \in Runs,
         \A s \in Runs : s # r => pc'[s] = pc[s] /\ failure'[s] = failure[s],
         r \in Gone => r \in Gone'
  PROVE  Gone' = Gone \/ Gone' = Gone \cup {r}
<1>1. \A s \in Runs : s # r => (s \in Gone' <=> s \in Gone)
  BY DEF Gone
<1>2. Gone \subseteq Runs /\ Gone' \subseteq Runs
  BY DEF Gone
<1> QED
  BY <1>1, <1>2

(* A step that only stops a run, or does less.                             *)
LEMMA MayStop ==
  ASSUME NEW r \in Runs, UNCHANGED <<accepted, Safe, sealed>>,
         Gone' = Gone \/ Gone' = Gone \cup {r}
  PROVE  [Promise!Next]_<<accepted, Safe, Gone, sealed>>
<1>1. CASE Gone' = Gone
  BY <1>1
<1>2. CASE Gone' = Gone \cup {r}
  BY <1>2 DEF Promise!Next, Promise!Stop
<1> QED
  BY <1>1, <1>2

LEMMA MaySettle ==
  ASSUME RefInv, NEW r \in Runs, UNCHANGED <<accepted, Gone, sealed>>,
         \A s \in Runs : s # r => Safe'[s] = Safe[s],
         Safe'[r] \in {Safe[r], written[r]}
  PROVE  [Promise!Next]_<<accepted, Safe, Gone, sealed>>
<1>1. Safe'[r] \in Safe[r] .. accepted[r]
  BY SafeIsAccepted
<1>2. Safe' = [Safe EXCEPT ![r] = Safe'[r]]
  BY DEF Safe
<1>3. Promise!Stabilise(r)
  BY <1>1, <1>2 DEF Promise!Stabilise
<1> QED
  BY <1>3 DEF Promise!Next

LEMMA DiskLeavesSafe == UNCHANGED diskVars => UNCHANGED Safe
BY DEF diskVars, Safe

(* A new process finds open segments only of runs that have stopped.       *)
LEMMA StartSalvages ==
  ASSUME RefInv, NEW r \in Runs, Start(r)
  PROVE  [Promise!Next]_<<accepted, Safe, Gone, sealed>>
<1>1. /\ session = Nobody /\ pc[r] = "new" /\ pc' = [pc EXCEPT ![r] = "recording"]
      /\ published' = [s \in Runs |-> IF partial[s] THEN written[s] ELSE published[s]]
      /\ partial' = [s \in Runs |-> FALSE]
      /\ UNCHANGED <<accepted, failure, sealed>>
  BY DEF Start, At, Goto, outVars
<1>2. LockTypeOK /\ DiskInv
  BY DEF RefInv, OwnerInv
<1>3. Gone' = Gone
  BY <1>1, <1>2 DEF Gone, LockTypeOK
<1>4. ASSUME NEW s \in Runs, partial[s] PROVE s \in Gone
  <2>1. pc[s] # "new" /\ pc[s] \notin Owning
    BY <1>1, <1>2, <1>4, RunsAreNumbers DEF DiskInv, RefInv, OwnerInv
  <2> QED
    BY <2>1 DEF Gone, Owning
<1>5. \A s \in Runs : Safe'[s] = IF partial[s] THEN written[s] ELSE Safe[s]
  BY <1>1 DEF Safe
<1>6. \A s \in Runs : /\ Safe'[s] \in Nat /\ Safe[s] <= Safe'[s] /\ Safe'[s] <= accepted[s]
                      /\ Safe'[s] # Safe[s] => s \in Gone
  BY <1>4, <1>5, SafeIsAccepted
<1>7. Safe' \in [Runs -> Nat]
  BY <1>6 DEF Safe
<1>8. Promise!Salvage
  BY <1>1, <1>3, <1>6, <1>7 DEF Promise!Salvage
<1> QED
  BY <1>8 DEF Promise!Next

LEMMA AppendAccepts ==
  ASSUME RefInv, NEW r \in Runs, AppendTick(r)
  PROVE  [Promise!Next]_<<accepted, Safe, Gone, sealed>>
<1>1. /\ accepted' = [accepted EXCEPT ![r] = @ + 1]
      /\ UNCHANGED <<pc, failure, diskVars, sealed>> /\ pc[r] = "recording" /\ ~failure[r]
  BY DEF AppendTick, At, outVars
<1>2. Safe' = Safe /\ Gone' = Gone
  BY <1>1, DiskLeavesSafe DEF Gone
<1>3. r \notin Gone
  BY <1>1 DEF Gone
<1>4. Promise!Accept(r)
  BY <1>1, <1>2, <1>3 DEF Promise!Accept
<1> QED
  BY <1>4 DEF Promise!Next

LEMMA MainRefines ==
  ASSUME RefInv, NEW r \in Runs, MainNext(r)
  PROVE  [Promise!Next]_<<accepted, Safe, Gone, sealed>>
<1>0. LockTypeOK
  BY DEF RefInv, OwnerInv
<1>1. ASSUME ~Start(r), ~AppendTick(r)
      PROVE  [Promise!Next]_<<accepted, Safe, Gone, sealed>>
  <2>1. UNCHANGED Safe
    BY <1>0, <1>1, MainLeavesDisk, DiskLeavesSafe DEF StillDisk
  <2>2. /\ UNCHANGED <<accepted, sealed>>
        /\ \A s \in Runs : s # r => pc'[s] = pc[s] /\ failure'[s] = failure[s]
        /\ r \in Gone => r \in Gone'
    <3> USE <1>0 DEF LockTypeOK, At, Goto, Latch, outVars, Gone
    <3>1. CASE AppendOverflows(r)
      BY <3>1 DEF AppendOverflows
    <3>2. CASE FlushBegins(r) \/ FlushEnqueues(r) \/ FlushNotQueued(r)
      BY <3>2 DEF FlushBegins, FlushEnqueues, FlushNotQueued
    <3>3. CASE FlushReturns(r)
      BY <3>3 DEF FlushReturns
    <3>4. CASE FlushTimesOut(r)
      BY <3>4 DEF FlushTimesOut
    <3>5. CASE CloseBegins(r) \/ CloseEnqueues(r)
      BY <3>5 DEF CloseBegins, CloseEnqueues
    <3>6. CASE CloseNotQueued(r)
      BY <3>6 DEF CloseNotQueued
    <3>7. CASE CloseJoins(r)
      BY <3>7 DEF CloseJoins
    <3>8. CASE CloseTimesOut(r)
      BY <3>8 DEF CloseTimesOut
    <3> QED
      BY <1>1, <3>1, <3>2, <3>3, <3>4, <3>5, <3>6, <3>7, <3>8 DEF MainNext
  <2> QED
    BY <2>1, <2>2, GoneMoves, MayStop
<1> QED
  BY <1>1, StartSalvages, AppendAccepts

LEMMA WriterRefines ==
  ASSUME RefInv, NEW r \in Runs, WriterSteps(r)
  PROVE  [Promise!Next]_<<accepted, Safe, Gone, sealed>>
<1>0. LockTypeOK /\ DiskInv /\ DiskTypeOK
  BY DEF RefInv, OwnerInv, DiskInv
<1>1. WriterFrame(r) /\ WriterRows(r)
  BY <1>0, WriterMoves, WriterTakes DEF RefInv, RowInv
<1>2. UNCHANGED <<pc, accepted, sealed>>
  BY <1>1 DEF WriterFrame, mainVars, outVars
<1>3. UNCHANGED failure
  BY DEF WriterSteps, TakeFirst, TakeMore, Collected, RollSegment, WriteRow, CountBatch,
     IdleSync, FinishControl
<1>4. UNCHANGED Gone
  BY <1>2, <1>3 DEF Gone
<1>5. \A s \in Runs : s # r => written'[s] = written[s] /\ published'[s] = published[s]
  BY <1>1 DEF WriterRows, Moves
<1>6. /\ \A s \in Runs : s # r => partial'[s] = partial[s] /\ synced'[s] = synced[s]
      /\ Safe'[r] \in {Safe[r], written[r]}
  <2> USE <1>0 DEF DiskTypeOK, Safe, diskVars
  <2>1. CASE TakeFirst(r) \/ TakeMore(r) \/ Collected(r)
    BY <2>1 DEF TakeFirst, TakeMore, Collected
  <2>2. ASSUME CloseSegment(r)
        PROVE  /\ \A s \in Runs : s # r => partial'[s] = partial[s] /\ synced'[s] = synced[s]
               /\ Safe'[r] \in {Safe[r], written[r]}
    BY <2>2 DEF CloseSegment
  <2>3. CASE RollSegment(r)
    BY <2>2, <2>3 DEF RollSegment
  <2>4. CASE WriteRow(r)
    <3>1. Writing(r) /\ partial' = [partial EXCEPT ![r] = TRUE] /\ synced' = synced
      BY <2>4 DEF WriteRow
    <3>2. ~partial[r] => published[r] = synced[r]
      BY <3>1 DEF DiskInv
    <3> QED
      BY <3>1, <3>2
  <2>5. CASE CountBatch(r)
    <3>1. PICK rows \in {synced[r], written[r]} : synced' = [synced EXCEPT ![r] = rows]
      BY <2>5 DEF CountBatch
    <3>2. UNCHANGED <<partial, published>>
      BY <2>5 DEF CountBatch
    <3> QED
      BY <3>1, <3>2
  <2>6. CASE IdleSync(r)
    BY <2>6 DEF IdleSync
  <2>7. CASE FinishControl(r)
    BY <2>2, <2>7 DEF FinishControl
  <2> QED
    BY <2>1, <2>3, <2>4, <2>5, <2>6, <2>7 DEF WriterSteps
<1>7. \A s \in Runs : s # r => Safe'[s] = Safe[s]
  BY <1>5, <1>6 DEF Safe
<1> QED
  BY <1>2, <1>4, <1>6, <1>7, MaySettle

LEMMA FinalizeRefines ==
  ASSUME RefInv, NEW r \in Runs, FinalizeNext(r)
  PROVE  [Promise!Next]_<<accepted, Safe, Gone, sealed>>
<1>0. LockTypeOK
  BY DEF RefInv, OwnerInv
<1>1. UNCHANGED Safe
  BY <1>0, FinalizeLeavesDisk, DiskLeavesSafe DEF StillDisk
<1>2. UNCHANGED <<accepted, failure>> /\ (\A s \in Runs : s # r => pc'[s] = pc[s])
      /\ pc[r] \in Later /\ pc'[r] \in Later
  <2> USE <1>0 DEF LockTypeOK, Goto, At, Later
  <2>1. CASE FinalizeBegins(r) \/ FinalizeRefused(r)
    BY <2>1 DEF FinalizeBegins, FinalizeRefused
  <2>2. CASE PublishParquet(r) \/ PublishHealth(r) \/ PublishManifest(r)
    BY <2>2 DEF PublishParquet, PublishHealth, PublishManifest, Publishes
  <2>3. CASE FinalizeFails(r)
    BY <2>3 DEF FinalizeFails, Finalizing
  <2> QED
    BY <2>1, <2>2, <2>3 DEF FinalizeNext
<1>3. Gone' = Gone /\ r \in Gone
  BY <1>2 DEF Gone, Later
<1>4. CASE PublishManifest(r)
  <2>1. pc[r] = "healthOut" /\ Finalizing(r) /\ sealed' = sealed \cup {r}
    BY <1>4 DEF PublishManifest, At, Finalizing
  <2>2. accepted[r] = counted[r] /\ snapshot[r][r] = counted[r]
    BY <2>1 DEF RefInv, SealInv
  <2>3. snapshot[r][r] <= published[r]
    BY <2>1 DEF RefInv, FinInv, AtMost
  <2>4. Safe[r] = accepted[r]
    <3>1. partial[r] => published[r] <= synced[r]
      BY DEF RefInv, DiskInv
    <3>2. published[r] \in Nat /\ synced[r] \in Nat
      BY DEF RefInv, DiskInv, DiskTypeOK
    <3>3. Safe[r] = IF partial[r] THEN synced[r] ELSE published[r]
      BY DEF Safe
    <3> QED
      BY <2>2, <2>3, <3>1, <3>2, <3>3, SafeIsAccepted
  <2>5. Promise!Seal(r)
    BY <1>1, <1>2, <1>3, <2>1, <2>4 DEF Promise!Seal
  <2> QED
    BY <2>5 DEF Promise!Next
<1>5. CASE ~PublishManifest(r)
  <2>1. UNCHANGED sealed
    BY <1>5 DEF FinalizeNext, FinalizeBegins, FinalizeRefused, PublishParquet, PublishHealth,
       FinalizeFails, outVars
  <2> QED
    BY <1>1, <1>2, <1>3, <2>1, MayStop
<1> QED
  BY <1>4, <1>5

LEMMA EndRefines ==
  ASSUME RefInv, NEW r \in Runs, WriterFails(r) \/ Dies(r)
  PROVE  [Promise!Next]_<<accepted, Safe, Gone, sealed>>
<1>1. LockTypeOK
  BY DEF RefInv, OwnerInv
<1>2. CASE WriterFails(r)
  <2>1. /\ failure' = [failure EXCEPT ![r] = TRUE]
        /\ UNCHANGED <<pc, accepted, sealed, diskVars>>
    BY <1>2 DEF WriterFails, Latch, mainVars, outVars
  <2>2. Gone' = Gone \/ Gone' = Gone \cup {r}
    BY <2>1, GoneMoves DEF Gone
  <2> QED
    BY <2>1, <2>2, DiskLeavesSafe, MayStop
<1>3. CASE Dies(r)
  <2>1. /\ pc' = [pc EXCEPT ![r] = "dead"]
        /\ UNCHANGED <<accepted, failure, sealed, partial, synced, published>>
    BY <1>3 DEF Dies, Goto, outVars
  <2>2. Gone' = Gone \/ Gone' = Gone \cup {r}
    BY <1>1, <2>1, GoneMoves DEF Gone, LockTypeOK
  <2>3. Safe' = Safe
    BY <2>1 DEF Safe
  <2> QED
    BY <2>1, <2>2, <2>3, MayStop
<1> QED
  BY <1>2, <1>3

LEMMA RefInvariant == Init /\ [][Next]_vars => []RefInv
<1>1. Init => RefInv
  BY OwnerInit, DiskInit, FinInit, RowInit, SealInit DEF RefInv
<1>2. RefInv /\ [Next]_vars => RefInv'
  <2>1. RowInv => RowTypeOK
    BY DEF RowInv
  <2> QED
    BY <2>1, OwnerStep, DiskStep, FinStep, RowStep, SealStep DEF RefInv
<1> QED
  BY <1>1, <1>2, PTL

(* The recorder's log implements the abstract one, for any number of runs, *)
(* any queue, any batch size and any combination of faults: no run has     *)
(* more stable rows than it accepted, no crash takes a stable row back,    *)
(* and what is sealed is complete.                                         *)
THEOREM LogImplementsPromise == Spec => ImplementsDurableLog
<1>1. Init => Promise!Init
  BY DEF Init, Promise!Init, NoRows, Safe, Gone
<1>2. RefInv /\ [Next]_vars => [Promise!Next]_<<accepted, Safe, Gone, sealed>>
  <2> SUFFICES ASSUME RefInv, [Next]_vars
               PROVE  [Promise!Next]_<<accepted, Safe, Gone, sealed>>
    OBVIOUS
  <2>1. CASE UNCHANGED vars
    BY <2>1 DEF vars, mainVars, diskVars, outVars, Safe, Gone
  <2> QED
    BY <2>1, MainRefines, WriterRefines, FinalizeRefines, EndRefines DEF Next
<1> QED
  BY <1>1, <1>2, RefInvariant, PTL DEF Spec, ImplementsDurableLog, Promise!Spec, Promise!lvars

-----------------------------------------------------------------------------
(* Flush.                                                                  *)

(* While the log has not failed, the caller of flush has the only barrier  *)
(* there is, nothing comes after it, and its answer finds all published.   *)
FlushOf(r) ==
  /\ barrier[r] # "none" => pc[r] = "flushing"
  /\ pc[r] \in {"enqueueing", "flushing"} => goal[r] = accepted[r]
  /\ ~failure[r] =>
       /\ \A i \in 1 .. Len(queue[r]) :
            queue[r][i] = "barrier" => i = Len(queue[r]) /\ barrier[r] = "pending"
       /\ control[r] = "barrier" => queue[r] = <<>> /\ barrier[r] = "pending"
       /\ barrier[r] = "ok" => goal[r] <= published[r]
  /\ acked[r] <= published[r]

FlushTypeOK ==
  /\ barrier \in [Runs -> {"none", "pending", "ok", "error"}]
  /\ failure \in [Runs -> BOOLEAN]

FlushInv == FlushTypeOK /\ \A r \in Runs : FlushOf(r)

LEMMA FlushInit == Init => FlushInv
<1> SUFFICES ASSUME Init PROVE FlushInv
  OBVIOUS
<1>1. FlushTypeOK
  BY DEF Init, FlushTypeOK
<1>2. ASSUME NEW r \in Runs PROVE FlushOf(r)
  <2>1. Len(queue[r]) = 0
    BY DEF Init
  <2> QED
    BY <2>1 DEF Init, FlushOf, NoRows
<1> QED
  BY <1>1, <1>2 DEF FlushInv

SameFlush(s) ==
  /\ pc'[s] = pc[s] /\ barrier'[s] = barrier[s] /\ failure'[s] = failure[s]
  /\ goal'[s] = goal[s] /\ accepted'[s] = accepted[s] /\ acked'[s] = acked[s]
  /\ queue'[s] = queue[s] /\ control'[s] = control[s]

LEMMA SameFlushKept ==
  ASSUME RowTypeOK, DiskTypeOK, DiskTypeOK', NEW s \in Runs, FlushOf(s), SameFlush(s),
         published[s] <= published'[s]
  PROVE  FlushOf(s)'
<1>1. goal[s] \in Nat /\ acked[s] \in Nat /\ published[s] \in Nat /\ published'[s] \in Nat
  BY DEF RowTypeOK, DiskTypeOK
<1> QED
  BY <1>1 DEF FlushOf, SameFlush

(* A barrier that waits has nothing behind it: what is left of the queue   *)
(* when its head is taken.                                                 *)
LEMMA HeadTaken ==
  ASSUME NEW q \in Seq(Items), q # <<>>,
         \A i \in 1 .. Len(q) : q[i] = "barrier" => i = Len(q)
  PROVE  /\ \A i \in 1 .. Len(Tail(q)) : Tail(q)[i] = "barrier" =>
              i = Len(Tail(q)) /\ \E j \in 1 .. Len(q) : q[j] = "barrier"
         /\ Head(q) = "barrier" => Tail(q) = <<>> /\ \E j \in 1 .. Len(q) : q[j] = "barrier"
<1> DEFINE n == Len(q)
           rest == Tail(q)
<1>1. n \in Nat /\ n >= 1 /\ Len(rest) = n - 1
  OBVIOUS
<1>2. Head(q) = q[1] /\ \A i \in 1 .. n - 1 : rest[i] = q[i + 1]
  <2>1. Head(q) = q[1]
    OBVIOUS
  <2>2. \A i \in 1 .. Len(q) - 1 : Tail(q)[i] = q[i + 1]
    OBVIOUS
  <2> QED
    BY <2>1, <2>2
<1>3. n = 1 => rest = <<>>
  <2>1. rest \in Seq(Items)
    OBVIOUS
  <2>2. Len(rest) = 0 => rest = <<>>
    <3> HIDE DEF rest
    <3> QED
      BY <2>1
  <2> QED
    BY <1>1, <2>2
<1>4. \A i \in 1 .. n : q[i] = "barrier" => i = n
  OBVIOUS
<1> HIDE DEF n, rest
<1>5. ASSUME NEW i \in 1 .. n - 1, rest[i] = "barrier"
      PROVE  i = n - 1 /\ \E j \in 1 .. n : q[j] = "barrier"
  <2>1. i + 1 \in 1 .. n
    BY <1>1
  <2>2. q[i + 1] = "barrier"
    BY <1>2, <1>5
  <2>3. i + 1 = n
    BY <1>4, <2>1, <2>2
  <2> QED
    BY <1>1, <2>1, <2>2, <2>3
<1>6. Head(q) = "barrier" => n = 1 /\ \E j \in 1 .. n : q[j] = "barrier"
  <2>1. 1 \in 1 .. n
    BY <1>1
  <2> QED
    BY <1>2, <1>4, <2>1
<1> QED
  BY <1>1, <1>3, <1>5, <1>6 DEF n, rest

LEMMA TookHead ==
  ASSUME NEW r \in Runs, RowTypeOK, FlushOf(r), queue[r] # <<>>, queue'[r] = Tail(queue[r]),
         control'[r] \in {"none", Head(queue[r])} \/ control'[r] = control[r],
         pc'[r] = pc[r], barrier'[r] = barrier[r], failure'[r] = failure[r],
         goal'[r] = goal[r], accepted'[r] = accepted[r], acked'[r] = acked[r],
         published'[r] = published[r]
  PROVE  FlushOf(r)'
<1> DEFINE q == queue[r]
<1>1. CASE failure[r]
  BY <1>1 DEF FlushOf
<1>2. CASE ~failure[r]
  <2>1. q \in Seq(Items) /\ q # <<>>
    BY DEF RowTypeOK
  <2>2. /\ \A i \in 1 .. Len(q) : q[i] = "barrier" => i = Len(q)
        /\ (\E i \in 1 .. Len(q) : q[i] = "barrier") => barrier[r] = "pending"
        /\ control[r] # "barrier"
    BY <1>2 DEF FlushOf
  <2>3. /\ \A i \in 1 .. Len(Tail(q)) :
             Tail(q)[i] = "barrier" => i = Len(Tail(q)) /\ barrier[r] = "pending"
        /\ Head(q) = "barrier" => Tail(q) = <<>> /\ barrier[r] = "pending"
    BY <2>1, <2>2, HeadTaken
  <2>4. control'[r] = "barrier" => Tail(q) = <<>> /\ barrier[r] = "pending"
    BY <2>2, <2>3
  <2> QED
    BY <2>3, <2>4 DEF FlushOf
<1> QED
  BY <1>1, <1>2

(* What is put in the queue comes from a caller with no barrier there.     *)
LEMMA PutLast ==
  ASSUME NEW r \in Runs, RowTypeOK, FlushOf(r), barrier[r] = "none", NEW item \in Items,
         queue'[r] = Append(queue[r], item), control'[r] = control[r],
         failure'[r] = failure[r], goal'[r] = goal[r], acked'[r] = acked[r],
         published'[r] = published[r],
         barrier'[r] = IF item = "barrier" THEN "pending" ELSE "none",
         barrier'[r] # "none" => pc'[r] = "flushing",
         pc'[r] \in {"enqueueing", "flushing"} => goal[r] = accepted'[r]
  PROVE  FlushOf(r)'
<1>1. CASE failure[r]
  BY <1>1 DEF FlushOf
<1>2. CASE ~failure[r]
  <2> DEFINE q == queue[r]
  <2>1. q \in Seq(Items) /\ Len(q) \in Nat
    BY DEF RowTypeOK
  <2>2. (\A i \in 1 .. Len(q) : q[i] # "barrier") /\ control[r] # "barrier"
    BY <1>2 DEF FlushOf
  <2>3. /\ Len(Append(q, item)) = Len(q) + 1 /\ Append(q, item)[Len(q) + 1] = item
        /\ \A i \in 1 .. Len(q) : Append(q, item)[i] = q[i]
    BY <2>1
  <2>4. ASSUME NEW i \in 1 .. Len(Append(q, item)), Append(q, item)[i] = "barrier"
        PROVE  i = Len(Append(q, item)) /\ item = "barrier"
    BY <2>1, <2>2, <2>3, <2>4
  <2> QED
    BY <2>2, <2>4 DEF FlushOf
<1> QED
  BY <1>1, <1>2

(* The run that steps; the others see at most more published rows.         *)
LEMMA MainFlushes ==
  ASSUME FlushInv, RowInv, DiskTypeOK, DiskTypeOK', LockTypeOK, NEW r \in Runs, MainNext(r),
         published[r] <= published'[r]
  PROVE  FlushTypeOK' /\ FlushOf(r)' /\ \A s \in Runs : s # r => SameFlush(s)
<1>1. /\ FlushOf(r) /\ FlushTypeOK /\ RowTypeOK
      /\ goal[r] \in Nat /\ acked[r] \in Nat /\ accepted[r] \in Nat
      /\ published[r] \in Nat /\ published'[r] \in Nat
  BY DEF FlushInv, RowInv, RowTypeOK, DiskTypeOK
<1> USE DEF FlushTypeOK, RowTypeOK, LockTypeOK, SameFlush, At, Goto, Latch, Put, writerVars,
            diskVars
<1>2. CASE Start(r)
  <2>1. FlushOf(r)'
    BY <1>1, <1>2 DEF Start, FlushOf
  <2> QED
    BY <1>1, <1>2, <2>1 DEF Start
<1>3. CASE AppendTick(r)
  <2>1. FlushOf(r)'
    <3>1. barrier[r] = "none" /\ "tick" \in Items
      BY <1>1, <1>3 DEF AppendTick, FlushOf, Items
    <3> QED
      BY <1>1, <1>3, <3>1, PutLast DEF AppendTick
  <2> QED
    BY <1>1, <1>3, <2>1 DEF AppendTick
<1>4. CASE FlushEnqueues(r)
  <2>1. FlushOf(r)'
    <3>1. barrier[r] = "none" /\ "barrier" \in Items /\ goal[r] = accepted[r]
      BY <1>1, <1>4 DEF FlushEnqueues, FlushOf, Items
    <3> QED
      BY <1>1, <1>4, <3>1, PutLast DEF FlushEnqueues
  <2> QED
    BY <1>1, <1>4, <2>1 DEF FlushEnqueues
<1>5. CASE CloseEnqueues(r)
  <2>1. FlushOf(r)'
    <3>1. barrier[r] = "none" /\ "stop" \in Items
      BY <1>1, <1>5 DEF CloseEnqueues, FlushOf, Items
    <3> QED
      BY <1>1, <1>5, <3>1, PutLast DEF CloseEnqueues
  <2> QED
    BY <1>1, <1>5, <2>1 DEF CloseEnqueues
<1>6. CASE AppendOverflows(r)
  <2>1. FlushOf(r)'
    BY <1>1, <1>6 DEF AppendOverflows, FlushOf
  <2> QED
    BY <1>1, <1>6, <2>1 DEF AppendOverflows
<1>7. CASE FlushBegins(r)
  <2>1. FlushOf(r)'
    BY <1>1, <1>7 DEF FlushBegins, FlushOf
  <2> QED
    BY <1>1, <1>7, <2>1 DEF FlushBegins
<1>8. CASE FlushNotQueued(r)
  <2>1. FlushOf(r)'
    BY <1>1, <1>8 DEF FlushNotQueued, FlushOf
  <2> QED
    BY <1>1, <1>8, <2>1 DEF FlushNotQueued
<1>9. CASE FlushReturns(r)
  <2>1. FlushOf(r)'
    BY <1>1, <1>9 DEF FlushReturns, FlushOf
  <2> QED
    BY <1>1, <1>9, <2>1 DEF FlushReturns
<1>10. CASE FlushTimesOut(r)
  <2>1. FlushOf(r)'
    BY <1>1, <1>10 DEF FlushTimesOut, FlushOf
  <2> QED
    BY <1>1, <1>10, <2>1 DEF FlushTimesOut
<1>11. CASE CloseBegins(r)
  <2>1. FlushOf(r)'
    BY <1>1, <1>11 DEF CloseBegins, FlushOf
  <2> QED
    BY <1>1, <1>11, <2>1 DEF CloseBegins
<1>12. CASE CloseNotQueued(r)
  <2>1. FlushOf(r)'
    BY <1>1, <1>12 DEF CloseNotQueued, FlushOf
  <2> QED
    BY <1>1, <1>12, <2>1 DEF CloseNotQueued
<1>13. CASE CloseJoins(r)
  <2>1. FlushOf(r)'
    BY <1>1, <1>13 DEF CloseJoins, FlushOf
  <2> QED
    BY <1>1, <1>13, <2>1 DEF CloseJoins
<1>14. CASE CloseTimesOut(r)
  <2>1. FlushOf(r)'
    BY <1>1, <1>14 DEF CloseTimesOut, FlushOf
  <2> QED
    BY <1>1, <1>14, <2>1 DEF CloseTimesOut
<1> QED
  BY <1>2, <1>3, <1>4, <1>5, <1>6, <1>7, <1>8, <1>9, <1>10, <1>11, <1>12, <1>13, <1>14
    DEF MainNext

(* The answer to a barrier: the writer has published all there is.         *)
LEMMA BarrierAnswered ==
  ASSUME RefInv, NEW r \in Runs, FlushOf(r), ~failure[r], FinishControl(r),
         control[r] = "barrier"
  PROVE  pc[r] = "flushing" /\ goal[r] = published'[r] /\ queue[r] = <<>>
<1>1. queue[r] = <<>> /\ pc[r] = "flushing" /\ goal[r] = accepted[r]
  BY DEF FlushOf
<1>2. wpc[r] = "control" /\ Writing(r)
  BY DEF FinishControl
<1>3. written[r] = accepted[r]
  <2>1. /\ queue[r] \in Seq(Items) /\ written[r] \in Nat /\ InHand(r) = 0
        /\ Numbered(queue[r], written[r] + InHand(r), accepted[r])
    BY <1>2, RowNumbers DEF RefInv, RowInv, RowsOf, InHand
  <2>2. written[r] + InHand(r) = accepted[r]
    BY <1>1, <2>1, NumberedBound
  <2> QED
    BY <2>1, <2>2
<1>4. published'[r] = written[r]
  <2>1. CASE partial[r]
    BY <2>1 DEF FinishControl, CloseSegment, RefInv, DiskInv, DiskTypeOK
  <2>2. CASE ~partial[r]
    <3>1. published' = published
      BY <2>2 DEF FinishControl, diskVars
    <3> QED
      BY <1>2, <2>2, <3>1 DEF RefInv, DiskInv
  <2> QED
    BY <2>1, <2>2
<1> QED
  BY <1>1, <1>3, <1>4

LEMMA WriterFlushes ==
  ASSUME FlushInv, RefInv, DiskTypeOK', NEW r \in Runs, WriterSteps(r) \/ WriterFails(r),
         published[r] <= published'[r]
  PROVE  FlushTypeOK' /\ FlushOf(r)' /\ \A s \in Runs : s # r => SameFlush(s)
<1>1. /\ FlushOf(r) /\ FlushTypeOK /\ RowTypeOK /\ DiskTypeOK /\ LockTypeOK
      /\ WriterFrame(r) /\ WriterRows(r)
  BY WriterMoves, WriterTakes DEF FlushInv, RefInv, RowInv, DiskInv, OwnerInv
<1>2. UNCHANGED <<pc, accepted, goal, acked>>
  BY <1>1 DEF WriterFrame, mainVars
<1>3. \A s \in Runs : s # r => queue'[s] = queue[s] /\ control'[s] = control[s]
  BY <1>1 DEF WriterRows, Moves
<1>4. /\ goal[r] \in Nat /\ acked[r] \in Nat /\ published[r] \in Nat /\ published'[r] \in Nat
  BY <1>1 DEF RowTypeOK, DiskTypeOK
<1>5. ASSUME UNCHANGED <<barrier, failure>>, FlushOf(r)'
      PROVE  FlushTypeOK' /\ FlushOf(r)' /\ \A s \in Runs : s # r => SameFlush(s)
  BY <1>1, <1>2, <1>3, <1>5 DEF FlushTypeOK, SameFlush
<1>6. ASSUME UNCHANGED <<barrier, failure, queue, control>>
      PROVE  FlushOf(r)'
  BY <1>1, <1>2, <1>4, <1>6 DEF FlushOf
<1>7. CASE TakeFirst(r)
  <2>1. /\ queue[r] # <<>> /\ queue'[r] = Tail(queue[r]) /\ published'[r] = published[r]
        /\ UNCHANGED <<barrier, failure>>
    BY <1>1, <1>7 DEF TakeFirst, RowTypeOK, diskVars
  <2>2. control'[r] \in {"none", Head(queue[r])}
    BY <1>1, <1>7 DEF TakeFirst, RowTypeOK
  <2>3. FlushOf(r)'
    BY <1>1, <1>2, <2>1, <2>2, TookHead
  <2> QED
    BY <1>5, <2>1, <2>3
<1>8. CASE TakeMore(r)
  <2>1. /\ queue[r] # <<>> /\ queue'[r] = Tail(queue[r]) /\ published'[r] = published[r]
        /\ UNCHANGED <<barrier, failure>> /\ control'[r] = control[r]
    BY <1>1, <1>8 DEF TakeMore, RowTypeOK, diskVars
  <2>2. FlushOf(r)'
    BY <1>1, <1>2, <2>1, TookHead
  <2> QED
    BY <1>5, <2>1, <2>2
<1>9. CASE Collected(r)
  <2>1. published'[r] = published[r] /\ UNCHANGED <<barrier, failure>>
    BY <1>9 DEF Collected, diskVars
  <2>2. CASE UNCHANGED <<queue, control>>
    BY <1>5, <1>6, <2>1, <2>2
  <2>3. CASE ~UNCHANGED <<queue, control>>
    <3>1. /\ queue[r] # <<>> /\ queue'[r] = Tail(queue[r])
          /\ control'[r] = Head(queue[r])
      BY <1>1, <1>9, <2>3 DEF Collected, RowTypeOK
    <3>2. FlushOf(r)'
      BY <1>1, <1>2, <2>1, <3>1, TookHead
    <3> QED
      BY <1>5, <2>1, <3>2
  <2> QED
    BY <2>2, <2>3
<1>10. CASE RollSegment(r) \/ WriteRow(r) \/ CountBatch(r) \/ IdleSync(r)
  <2>1. UNCHANGED <<barrier, failure, queue, control>>
    BY <1>10 DEF RollSegment, WriteRow, CountBatch, IdleSync, writerVars
  <2> QED
    BY <1>5, <1>6, <2>1
<1>11. CASE FinishControl(r)
  <2>1. UNCHANGED <<failure, queue>> /\ control'[r] = "none"
    BY <1>1, <1>11 DEF FinishControl, RowTypeOK
  <2>2. /\ control[r] = "barrier" =>
             barrier' = [barrier EXCEPT ![r] = IF @ = "pending" THEN "ok" ELSE @]
        /\ control[r] # "barrier" => barrier' = barrier
    BY <1>11 DEF FinishControl, Answer
  <2>3. FlushTypeOK' /\ \A s \in Runs : s # r => barrier'[s] = barrier[s]
    BY <1>1, <2>1, <2>2 DEF FlushTypeOK
  <2>4. \A s \in Runs : s # r => SameFlush(s)
    BY <1>2, <1>3, <2>1, <2>3 DEF SameFlush
  <2>5. barrier'[r] # "none" => barrier[r] # "none"
    BY <1>1, <2>2 DEF FlushTypeOK
  <2>6. CASE failure[r]
    BY <1>1, <1>2, <1>4, <2>1, <2>3, <2>4, <2>5, <2>6 DEF FlushOf
  <2>7. CASE ~failure[r] /\ control[r] = "barrier"
    <3>1. pc[r] = "flushing" /\ goal[r] = published'[r] /\ queue[r] = <<>>
      BY <1>1, <1>11, <2>7, BarrierAnswered
    <3>2. Len(queue[r]) = 0
      BY <3>1
    <3>3. FlushOf(r)'
      BY <1>1, <1>2, <1>4, <2>1, <2>5, <3>1, <3>2 DEF FlushOf
    <3> QED
      BY <2>3, <2>4, <3>3
  <2>8. CASE ~failure[r] /\ control[r] # "barrier"
    BY <1>1, <1>2, <1>4, <2>1, <2>2, <2>3, <2>4, <2>8 DEF FlushOf
  <2> QED
    BY <2>3, <2>4, <2>6, <2>7, <2>8
<1>12. CASE WriterFails(r)
  <2>1. /\ failure' = [failure EXCEPT ![r] = TRUE]
        /\ barrier' = barrier
             \/ barrier' = [barrier EXCEPT ![r] = IF @ = "pending" THEN "error" ELSE @]
        /\ published' = published
    BY <1>12 DEF WriterFails, Latch, Answer, diskVars
  <2>2. FlushTypeOK' /\ \A s \in Runs : s # r => SameFlush(s)
    BY <1>1, <1>2, <1>3, <2>1 DEF FlushTypeOK, SameFlush
  <2>3. failure'[r] /\ (barrier'[r] # "none" => barrier[r] # "none")
    BY <1>1, <2>1 DEF FlushTypeOK
  <2>4. FlushOf(r)'
    BY <1>1, <1>2, <2>1, <2>3 DEF FlushOf
  <2> QED
    BY <2>2, <2>4
<1> QED
  BY <1>7, <1>8, <1>9, <1>10, <1>11, <1>12 DEF WriterSteps

LEMMA LateFlushes ==
  ASSUME FlushInv, RefInv, NEW r \in Runs, FinalizeNext(r) \/ Dies(r),
         published' = published
  PROVE  FlushTypeOK' /\ FlushOf(r)' /\ \A s \in Runs : s # r => SameFlush(s)
<1>1. FlushOf(r) /\ FlushTypeOK /\ RowTypeOK /\ LockTypeOK
  BY DEF FlushInv, RefInv, RowInv, OwnerInv
<1>2. CASE FinalizeNext(r)
  <2>1. /\ UNCHANGED <<barrier, failure, goal, accepted, acked, queue, control>>
        /\ \A s \in Runs : s # r => pc'[s] = pc[s]
        /\ pc[r] \in Later /\ pc'[r] \in Later
    <3> USE <1>1 DEF LockTypeOK, Goto, At, Later, writerVars
    <3>1. CASE FinalizeBegins(r) \/ FinalizeRefused(r)
      BY <3>1 DEF FinalizeBegins, FinalizeRefused
    <3>2. CASE PublishParquet(r) \/ PublishHealth(r) \/ PublishManifest(r)
      BY <3>2 DEF PublishParquet, PublishHealth, PublishManifest, Publishes
    <3>3. CASE FinalizeFails(r)
      BY <3>3 DEF FinalizeFails, Finalizing
    <3> QED
      BY <1>2, <3>1, <3>2, <3>3 DEF FinalizeNext
  <2>2. FlushOf(r)'
    BY <1>1, <2>1 DEF FlushOf, Later
  <2> QED
    BY <1>1, <2>1, <2>2 DEF FlushTypeOK, SameFlush
<1>3. CASE Dies(r)
  <2>1. /\ pc' = [pc EXCEPT ![r] = "dead"] /\ barrier' = [barrier EXCEPT ![r] = "none"]
        /\ control' = [control EXCEPT ![r] = "none"] /\ queue' = [queue EXCEPT ![r] = <<>>]
        /\ goal' = [goal EXCEPT ![r] = 0] /\ UNCHANGED <<failure, accepted, acked>>
    BY <1>3 DEF Dies, Goto
  <2>2. FlushTypeOK' /\ \A s \in Runs : s # r => SameFlush(s)
    BY <1>1, <2>1 DEF FlushTypeOK, SameFlush, LockTypeOK, RowTypeOK
  <2>3. /\ pc'[r] = "dead" /\ barrier'[r] = "none" /\ control'[r] = "none"
        /\ queue'[r] = <<>> /\ Len(queue'[r]) = 0
    BY <1>1, <2>1 DEF FlushTypeOK, LockTypeOK, RowTypeOK
  <2>4. FlushOf(r)'
    BY <1>1, <2>1, <2>3 DEF FlushOf
  <2> QED
    BY <2>2, <2>4
<1> QED
  BY <1>2, <1>3

LEMMA FlushStep == FlushInv /\ RefInv /\ RefInv' /\ [Next]_vars => FlushInv'
<1> SUFFICES ASSUME FlushInv, RefInv, RefInv', [Next]_vars PROVE FlushInv'
  OBVIOUS
<1>1. LockTypeOK /\ DiskTypeOK /\ DiskTypeOK' /\ RowTypeOK /\ RowInv
  BY DEF RefInv, OwnerInv, DiskInv, RowInv
<1>2. \A s \in Runs : published[s] <= published'[s]
  BY DiskStep DEF RefInv
<1>3. ASSUME NEW r \in Runs, FlushTypeOK', FlushOf(r)',
             \A s \in Runs : s # r => SameFlush(s)
      PROVE  FlushInv'
  <2>1. ASSUME NEW s \in Runs, s # r PROVE FlushOf(s)'
    BY <1>1, <1>2, <1>3, <2>1, SameFlushKept DEF FlushInv
  <2> QED
    BY <1>3, <2>1 DEF FlushInv
<1>4. CASE UNCHANGED vars
  BY <1>4 DEF vars, mainVars, writerVars, diskVars, FlushInv, FlushTypeOK, FlushOf
<1>5. ASSUME NEW r \in Runs, MainNext(r) PROVE FlushInv'
  BY <1>1, <1>2, <1>3, <1>5, MainFlushes
<1>6. ASSUME NEW r \in Runs, WriterSteps(r) \/ WriterFails(r) PROVE FlushInv'
  BY <1>1, <1>2, <1>3, <1>6, WriterFlushes
<1>7. ASSUME NEW r \in Runs, FinalizeNext(r) \/ Dies(r) PROVE FlushInv'
  <2>1. published' = published
    <3>1. CASE Dies(r)
      BY <3>1 DEF Dies
    <3>2. CASE FinalizeNext(r)
      BY <1>1, <3>2, FinalizeLeavesDisk DEF StillDisk, diskVars
    <3> QED
      BY <1>7, <3>1, <3>2
  <2> QED
    BY <1>3, <1>7, <2>1, LateFlushes
<1> QED
  BY <1>4, <1>5, <1>6, <1>7 DEF Next

(* For any number of runs, any queue, batch and combination of faults:     *)
(* what a successful flush vouched for is in published files for good.     *)
THEOREM FlushesAreDurable == Spec => []FlushIsDurable
<1>1. Init => FlushInv
  BY FlushInit
<1>2. FlushInv /\ RefInv /\ RefInv' /\ [Next]_vars => FlushInv'
  BY FlushStep
<1>3. FlushInv => FlushIsDurable
  BY DEF FlushInv, FlushOf, FlushIsDurable
<1> QED
  BY <1>1, <1>2, <1>3, RefInvariant, PTL DEF Spec
=============================================================================
