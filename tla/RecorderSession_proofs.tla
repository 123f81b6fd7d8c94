------------------------- MODULE RecorderSession_proofs -------------------------
(***************************************************************************)
(* What the recorder writes and publishes, and whom the watchdog signals,  *)
(* proved for every deadline, budget and set of faults of RecorderSession. *)
(***************************************************************************)
EXTENDS RecorderSession, TLAPS

(* The counters of a day are naturals.                                     *)
CountsOK == handled \in Nat /\ selected \in Nat /\ filtered \in Nat

(* Where callbacks can run, the session of the loop is that of its log:    *)
(* Resolve lets nothing past it otherwise.                                 *)
Recording == {"waiting", "subscribing", "capturing", "skew"}
SessionInv == pc \in Recording => session = logDay

(* Handled events are accounted for one by one until a callback raises,    *)
(* and never again after that; nothing is counted once the run is over.    *)
AccountInv ==
  /\ CountsOK
  /\ handled >= selected + filtered
  /\ missed => handled > selected + filtered
  /\ published # 0 => handled = selected + filtered /\ pc \in {"finalized", "gone"}

(* The loop itself counts no event: only its callbacks and _finalize do.    *)
LEMMA LoopCountsNothing == LoopNext => UNCHANGED <<handled, selected, filtered, missed, published>>
<1>1. Resolve => UNCHANGED <<handled, selected, filtered, missed, published>>
  BY DEF Resolve
<1>2. ErrorRaised => UNCHANGED <<handled, selected, filtered, missed, published>>
  BY DEF ErrorRaised, dayVars
<1>3. Connect \/ Connected \/ RequestTime \/ WaitForOpen \/ Subscribed \/ CaptureTurn
        \/ SkewMeasured => UNCHANGED <<handled, selected, filtered, missed, published>>
  BY DEF Connect, Connected, RequestTime, WaitForOpen, Subscribed, CaptureTurn, SkewMeasured,
       dayVars
<1>4. SessionEnds \/ Prerequisite \/ SlowReconnect \/ BackoffTurn \/ GiveUp
        => UNCHANGED <<handled, selected, filtered, missed, published>>
  BY DEF SessionEnds, Prerequisite, SlowReconnect, BackoffTurn, GiveUp, dayVars
<1> QED
  BY <1>1, <1>2, <1>3, <1>4 DEF LoopNext

LEMMA SessionInit == Init => SessionInv
BY DEF Init, SessionInv, Recording

LEMMA SessionStep == SessionInv /\ [Next]_vars => SessionInv'
<1> SUFFICES ASSUME SessionInv, [Next]_vars PROVE SessionInv'
  OBVIOUS
<1> USE DEF SessionInv, Recording
<1>1. CASE LoopNext
  <2>1. CASE Connect \/ Connected \/ RequestTime
    BY <2>1 DEF Connect, Connected, RequestTime, Goto
  <2>2. CASE Resolve
    BY <2>2 DEF Resolve, Goto
  <2>3. CASE WaitForOpen \/ Subscribed \/ CaptureTurn \/ SkewMeasured
    BY <2>3 DEF WaitForOpen, Subscribed, CaptureTurn, SkewMeasured, At, dayVars
  <2>4. CASE SessionEnds \/ Prerequisite \/ SlowReconnect \/ BackoffTurn \/ GiveUp
    BY <2>4 DEF SessionEnds, Prerequisite, SlowReconnect, BackoffTurn, GiveUp, Fail, Goto
  <2>5. CASE ErrorRaised
    BY <2>5 DEF ErrorRaised, Fail, Goto
  <2> QED
    BY <1>1, <2>1, <2>2, <2>3, <2>4, <2>5 DEF LoopNext
<1>2. CASE FinalizeNext
  BY <1>2 DEF FinalizeNext, Drained, FinalizeProgress, FinalizeRefused, FinalizeFails,
       Finalized, Exit, Fail, At, Goto, dayVars
<1>3. CASE CallbackNext
  BY <1>3 DEF CallbackNext, OnMarketEvent, CallbackFails, OnFatalError, dayVars
<1>4. CASE WatchNext
  BY <1>4 DEF WatchNext, Publish, Poll, TermDelivered, ForceKill, dayVars
<1>5. CASE FaultNext
  BY <1>5 DEF FaultNext, StorageFails, PublisherFails, Wedge, dayVars
<1>6. CASE ClockMoves \/ DeadlineExpires \/ Tick
  BY <1>6 DEF ClockMoves, DeadlineExpires, Tick, dayVars
<1>7. CASE UNCHANGED vars
  BY <1>7 DEF vars, dayVars
<1> QED
  BY <1>1, <1>2, <1>3, <1>4, <1>5, <1>6, <1>7 DEF Next

(* A market event enters only the log of the session it belongs to: the    *)
(* callbacks run where SessionInv holds, and it survives every reconnect.  *)
THEOREM EventsKeepToTheirSession == Spec => OneSessionPerLog
<1>1. SessionInv /\ [Next]_vars => [handled' # handled => session = logDay]_vars
  <2> SUFFICES ASSUME SessionInv, Next, handled' # handled PROVE session = logDay
    OBVIOUS
  <2>1. CASE CallbackNext
    <3>1. UNCHANGED handled \/ Listening
      BY <2>1 DEF CallbackNext, OnMarketEvent, CallbackFails, OnFatalError, dayVars
    <3> QED
      BY <3>1 DEF Listening, At, SessionInv, Recording
  <2>2. CASE LoopNext
    BY <2>2, LoopCountsNothing
  <2>3. CASE FinalizeNext
    BY <2>3 DEF FinalizeNext, Drained, FinalizeProgress, FinalizeRefused, FinalizeFails,
         Finalized, Exit, dayVars
  <2>4. CASE WatchNext \/ FaultNext
    BY <2>4 DEF WatchNext, Publish, Poll, TermDelivered, ForceKill, FaultNext, StorageFails,
         PublisherFails, Wedge, dayVars
  <2>5. CASE ClockMoves \/ DeadlineExpires \/ Tick
    BY <2>5 DEF ClockMoves, DeadlineExpires, Tick, dayVars
  <2> QED
    BY <2>1, <2>2, <2>3, <2>4, <2>5 DEF Next
<1> QED
  BY <1>1, SessionInit, SessionStep, PTL DEF Spec, OneSessionPerLog

LEMMA AccountInit == Init => AccountInv
BY DEF Init, AccountInv, CountsOK

LEMMA AccountStep == AccountInv /\ [Next]_vars => AccountInv'
<1> SUFFICES ASSUME AccountInv, [Next]_vars PROVE AccountInv'
  OBVIOUS
<1> USE DEF AccountInv, CountsOK
<1>1. CASE LoopNext
  <2>1. pc \notin {"finalized", "gone"}
    BY <1>1 DEF LoopNext, Connect, Connected, RequestTime, Resolve, WaitForOpen, Subscribed,
         CaptureTurn, SkewMeasured, SessionEnds, Prerequisite, SlowReconnect, ErrorRaised,
         Raises, BackoffTurn, GiveUp, At, Active
  <2> QED
    BY <1>1, <2>1, LoopCountsNothing
<1>2. CASE FinalizeNext
  <2>1. CASE Finalized
    BY <2>1 DEF Finalized, Accounted, At, Goto
  <2>2. CASE Drained \/ FinalizeProgress \/ FinalizeRefused \/ FinalizeFails
    BY <2>2 DEF Drained, FinalizeProgress, FinalizeRefused, FinalizeFails, Fail, At, Goto,
         dayVars
  <2>3. CASE Exit
    BY <2>3 DEF Exit, dayVars
  <2> QED
    BY <1>2, <2>1, <2>2, <2>3 DEF FinalizeNext
<1>3. CASE CallbackNext
  <2>1. CASE OnMarketEvent
    <3>1. published = 0
      BY <2>1 DEF OnMarketEvent, Listening, At
    <3>2. /\ handled' = handled + 1 /\ missed' = missed /\ published' = published
          /\ \/ selected' = selected + 1 /\ filtered' = filtered
             \/ selected' = selected /\ filtered' = filtered + 1
      BY <2>1 DEF OnMarketEvent, ShouldPersist
    <3> QED
      BY <3>1, <3>2
  <2>2. CASE CallbackFails
    <3>1. published = 0
      BY <2>2 DEF CallbackFails, Listening, At
    <3> QED
      BY <2>2, <3>1 DEF CallbackFails
  <2>3. CASE OnFatalError
    BY <2>3 DEF OnFatalError, dayVars
  <2> QED
    BY <1>3, <2>1, <2>2, <2>3 DEF CallbackNext
<1>4. CASE WatchNext
  BY <1>4 DEF WatchNext, Publish, Poll, TermDelivered, ForceKill, dayVars
<1>5. CASE FaultNext
  BY <1>5 DEF FaultNext, StorageFails, PublisherFails, Wedge, dayVars
<1>6. CASE ClockMoves \/ DeadlineExpires \/ Tick
  BY <1>6 DEF ClockMoves, DeadlineExpires, Tick, dayVars
<1>7. CASE UNCHANGED vars
  BY <1>7 DEF vars, dayVars
<1> QED
  BY <1>1, <1>2, <1>3, <1>4, <1>5, <1>6, <1>7 DEF Next

(* No manifest names a run one of whose callbacks raised, however often    *)
(* the loop reconnected and forgot the stored failure in between.          *)
THEOREM NoShortLogPublished == Spec => []ShortLogIsNotPublished
<1>1. AccountInv => ShortLogIsNotPublished
  BY DEF AccountInv, CountsOK, ShortLogIsNotPublished
<1> QED
  BY <1>1, AccountInit, AccountStep, PTL DEF Spec

-----------------------------------------------------------------------------
(* The watchdog.  What a publication would say, how old a status is, and   *)
(* for how long the watchdog takes it.                                     *)
Beat == [phase |-> phase, pulse |-> pulseAge, progress |-> progressAge]
Age(s) == IF s.phase = "FINALIZING" THEN s.progress ELSE s.pulse
Patience == HeartbeatTimeout + Grace

Phases == {"RUNNING", "FINALIZING", "FAILED", "STOPPED"}
BeatTypeOK ==
  /\ left \in Nat /\ pulseAge \in Nat /\ progressAge \in Nat /\ phase \in Phases
  /\ status \in [phase : Phases, pulse : Nat, progress : Nat]
  /\ unhealthy \in Int /\ unhealthy <= Grace

(* The phase pulsed is that of the place, and the file shows no later one. *)
Before == {"start"} \cup (Active \ {"finalizing"})
PhaseFollows ==
  /\ pc \in Before => phase = "RUNNING" /\ status.phase = "RUNNING"
  /\ pc = "finalizing" => phase = "FINALIZING" /\ status.phase \in {"RUNNING", "FINALIZING"}
  /\ pc = "failed" => phase = "FAILED"
  /\ pc = "finalized" => phase = "STOPPED"
  /\ owner = "recorder" => pc \in {"start"} \cup Active \cup Ended

(* The file shows the last pulse, or there has just been another one.      *)
StatusFollows ==
  ~publisherFailed =>
    /\ hasPublished => status = Beat
    /\ status = Beat \/ Age(Beat) = 0

(* A loop that is not stuck has pulsed within its deadlines.               *)
LoopInTime ==
  owner = "recorder" /\ ~wedged =>
    /\ pc \in Active \ {"draining"} => Age(Beat) + left <= Patience
    /\ pc \in Ended \cup {"start"} => Age(Beat) = 0

(* And so the file never shows more than the watchdog takes.               *)
ShownInTime ==
  owner = "recorder" /\ ~wedged /\ ~publisherFailed /\ ~Closing => Age(status) <= Patience

(* The watchdog's clock runs behind the status that started it.            *)
Behind ==
  unhealthy >= 0 =>
    IF Stale THEN unhealthy + HeartbeatTimeout + 1 <= Age(status)
    ELSE \/ status.phase = "STOPPED" \/ Age(status) = 0
         \/ Age(status) = 1 /\ ~hasPolled

WatchInv ==
  /\ BeatTypeOK /\ PhaseFollows /\ StatusFollows /\ LoopInTime /\ ShownInTime /\ Behind

(* The deadlines of the loop, and what the finalizer does in silence, are  *)
(* shorter than what the watchdog takes before it signals.                 *)
DeadlinesFit == 2 * RequestTicks <= Patience /\ FinalizeTicks <= Patience

watchVars == <<pc, left, wedged, beatVars, pubVars, dogVars, owner>>

LEMMA Deadlines ==
  /\ HeartbeatTimeout \in Nat /\ HeartbeatTimeout > 0 /\ Grace \in Nat /\ Grace > 0
  /\ RequestTicks \in Nat /\ RequestTicks > 0 /\ CloseTicks \in Nat /\ FinalizeTicks \in Nat
  /\ Patience \in Nat /\ Patience > 1
BY SessionAssumption DEF Patience

LEMMA AllowedTime ==
  ASSUME DeadlinesFit
  PROVE  /\ \A place : Allowance(place) \in Nat
         /\ \A place \in Active \ {"draining"} : Allowance(place) <= Patience
<1> HIDE DEF Patience
<1>1. /\ 2 * RequestTicks \in Nat /\ RequestTicks <= 2 * RequestTicks
      /\ RequestTicks \in Nat /\ CloseTicks \in Nat /\ FinalizeTicks \in Nat
      /\ Patience \in Nat /\ 1 <= Patience
  BY Deadlines
<1>2. \A place : Allowance(place) \in
        {2 * RequestTicks, CloseTicks, FinalizeTicks, 1, RequestTicks}
  BY DEF Allowance
<1>3. \A place : place # "draining" =>
        Allowance(place) \in {2 * RequestTicks, FinalizeTicks, 1, RequestTicks}
  BY DEF Allowance
<1> QED
  BY <1>1, <1>2, <1>3 DEF DeadlinesFit

(* What a step of the loop does to the beat: it pulses, goes on in silence, *)
(* reports the finalizer's progress, or ends.                              *)
PulseStep ==
  /\ pc \in Before \ {"draining"} /\ pc' \in Before \ {"start"}
  /\ phase' = "RUNNING" /\ pulseAge' = 0 /\ progressAge' = progressAge /\ hasPublished' = FALSE
  /\ left' = Allowance(pc')
SilentStep ==
  /\ pc \in Before \ {"start", "draining"}
  /\ UNCHANGED <<phase, pulseAge, progressAge, hasPublished>>
  /\ \/ pc' = "draining" /\ left' = CloseTicks
     \/ pc' = "subscribing" /\ pulseAge = 0 /\ left' = Allowance(pc')
     \/ pc' = "capturing" /\ pc = "subscribing" /\ left' = 0
ProgressStep ==
  /\ pc \in {"draining", "finalizing"} /\ pc' = "finalizing" /\ left' = FinalizeTicks
  /\ phase' = "FINALIZING" /\ pulseAge' = pulseAge /\ progressAge' = 0 /\ hasPublished' = FALSE
EndStep ==
  /\ pc \in Active /\ left' = RequestTicks
  /\ pulseAge' = 0 /\ progressAge' = 0 /\ hasPublished' = FALSE
  /\ \/ pc' = "failed" /\ phase' = "FAILED"
     \/ pc = "finalizing" /\ pc' = "finalized" /\ phase' = "STOPPED"

LoopStep ==
  /\ owner = "recorder" /\ ~wedged
  /\ UNCHANGED <<wedged, status, publisherFailed, unhealthy, hasPolled, signal, owner>>
  /\ PulseStep \/ SilentStep \/ ProgressStep \/ EndStep

LEMMA LoopSteps == ASSUME LoopNext PROVE LoopStep
<1> USE DEF At, Goto, Pulse, Silent, SameElsewhere, Active, Before, Allowance, beatVars, dogVars
<1>1. CASE Connect \/ Connected \/ RequestTime
  BY <1>1 DEF Connect, Connected, RequestTime, LoopStep, PulseStep
<1>2. CASE Resolve
  BY <1>2 DEF Resolve, LoopStep, PulseStep
<1>3. CASE WaitForOpen
  BY <1>3 DEF WaitForOpen, LoopStep, PulseStep, SilentStep
<1>4. CASE Subscribed
  BY <1>4 DEF Subscribed, LoopStep, SilentStep
<1>5. CASE CaptureTurn \/ SkewMeasured \/ SlowReconnect \/ BackoffTurn
  BY <1>5 DEF CaptureTurn, SkewMeasured, SlowReconnect, BackoffTurn, LoopStep, PulseStep
<1>6. CASE SessionEnds \/ Prerequisite
  BY <1>6 DEF SessionEnds, Prerequisite, LoopStep, SilentStep
<1>7. CASE ErrorRaised
  <2>1. PICK place \in {"connecting", "resolving", "timing", "waiting", "subscribing",
                        "capturing", "skew"} : At(place)
    BY <1>7 DEF ErrorRaised, Raises
  <2>2. CASE Goto("backoff") /\ Pulse
    BY <1>7, <2>1, <2>2 DEF ErrorRaised, LoopStep, PulseStep
  <2>3. CASE Goto("draining") /\ Silent
    BY <1>7, <2>1, <2>3 DEF ErrorRaised, LoopStep, SilentStep
  <2>4. CASE Fail
    BY <1>7, <2>1, <2>4 DEF ErrorRaised, Fail, LoopStep, EndStep
  <2> QED
    BY <1>7, <2>2, <2>3, <2>4 DEF ErrorRaised
<1>8. CASE GiveUp
  BY <1>8 DEF GiveUp, Fail, LoopStep, EndStep
<1> QED
  BY <1>1, <1>2, <1>3, <1>4, <1>5, <1>6, <1>7, <1>8 DEF LoopNext

EndsProcess ==
  /\ owner' = "nobody" /\ pc' = "gone" /\ left' = 0 /\ signal' \in {signal, "kill"}
  /\ UNCHANGED <<wedged, beatVars, pubVars, unhealthy, hasPolled>>

LEMMA FinalizeSteps == ASSUME PhaseFollows, FinalizeNext PROVE LoopStep \/ EndsProcess
<1> USE DEF At, Goto, Pulse, SameElsewhere, Active, Before, Allowance, beatVars, dogVars
<1>1. CASE Drained \/ FinalizeProgress
  <2>1. ProgressStep
    BY <1>1 DEF Drained, FinalizeProgress, ProgressStep, PhaseFollows
  <2>2. /\ owner = "recorder" /\ ~wedged
        /\ UNCHANGED <<wedged, status, publisherFailed, unhealthy, hasPolled, signal, owner>>
    BY <1>1 DEF Drained, FinalizeProgress
  <2> QED
    BY <2>1, <2>2 DEF LoopStep
<1>2. CASE FinalizeRefused \/ FinalizeFails
  BY <1>2 DEF FinalizeRefused, FinalizeFails, Fail, LoopStep, EndStep
<1>3. CASE Finalized
  BY <1>3 DEF Finalized, LoopStep, EndStep
<1>4. CASE Exit
  BY <1>4 DEF Exit, EndsProcess
<1> QED
  BY <1>1, <1>2, <1>3, <1>4 DEF FinalizeNext

LEMMA WatchSteps ==
  ASSUME PhaseFollows, [Next]_vars
  PROVE  \/ LoopStep \/ EndsProcess \/ Publish \/ Poll \/ Tick
         \/ UNCHANGED watchVars
         \/ UNCHANGED <<pc, left, beatVars, status, hasPublished, dogVars, owner>>
            /\ (wedged => wedged') /\ (publisherFailed => publisherFailed')
<1> USE DEF watchVars, beatVars, pubVars, dogVars
<1>1. CASE CallbackNext \/ ClockMoves
  BY <1>1 DEF CallbackNext, OnMarketEvent, CallbackFails, OnFatalError, ClockMoves
<1>2. CASE WatchNext
  BY <1>2 DEF WatchNext, TermDelivered, ForceKill, EndsProcess
<1>3. CASE FaultNext
  BY <1>3 DEF FaultNext, StorageFails, PublisherFails, Wedge
<1>4. CASE DeadlineExpires
  BY <1>4 DEF DeadlineExpires, EndsProcess
<1>5. CASE UNCHANGED vars
  BY <1>5 DEF vars
<1> QED
  BY <1>1, <1>2, <1>3, <1>4, <1>5, LoopSteps, FinalizeSteps DEF Next

(* Staleness is the age of the phase shown, for any phase but the last.    *)
LEMMA StaleIsOld ==
  Stale <=> status.phase \notin {"FINALIZED", "STOPPED"} /\ Age(status) > HeartbeatTimeout
BY DEF Stale, Age

(* A tick makes what is shown older by one, up to the cap.                 *)
LEMMA TickAges ==
  ASSUME BeatTypeOK, Tick
  PROVE  /\ Age(Beat)' = Older(Age(Beat)) /\ Age(status)' = Older(Age(status))
         /\ status'.phase = status.phase /\ phase' = phase
         /\ status = Beat => status' = Beat'
         /\ BeatTypeOK'
<1>1. HeartbeatTimeout \in Nat /\ Grace \in Nat /\ AgeCap \in Nat
  BY SessionAssumption DEF AgeCap
<1>2. \A age \in Nat : Older(age) \in Nat
  BY <1>1 DEF Older
<1>3. /\ phase' = phase /\ pulseAge' = Older(pulseAge)
      /\ progressAge' = IF phase = "FINALIZING" THEN Older(progressAge) ELSE progressAge
  BY DEF Tick
<1> DEFINE shown == IF status.phase = "FINALIZING" THEN Older(status.progress) ELSE status.progress
<1>4. status' = [phase |-> status.phase, pulse |-> Older(status.pulse), progress |-> shown]
  BY DEF Tick, BeatTypeOK
<1>5. Age(status)' = Older(Age(status)) /\ status'.phase = status.phase
  BY <1>4 DEF Age
<1>6. Age(Beat)' = Older(Age(Beat))
  BY <1>3 DEF Age, Beat
<1>7. status = Beat => status' = Beat'
  BY <1>3, <1>4 DEF Beat
<1>8. BeatTypeOK'
  <2>1. left' \in Nat
    BY DEF Tick, BeatTypeOK
  <2>2. pulseAge' \in Nat /\ progressAge' \in Nat /\ phase' \in Phases
    BY <1>2, <1>3 DEF BeatTypeOK
  <2>3. status' \in [phase : Phases, pulse : Nat, progress : Nat]
    BY <1>2, <1>4 DEF BeatTypeOK
  <2>4. unhealthy' \in Int /\ unhealthy' <= Grace
    BY <1>1 DEF Tick, BeatTypeOK
  <2> QED
    BY <2>1, <2>2, <2>3, <2>4 DEF BeatTypeOK
<1> QED
  BY <1>3, <1>5, <1>6, <1>7, <1>8

LEMMA WatchInit == Init => WatchInv
<1> SUFFICES ASSUME Init PROVE WatchInv
  OBVIOUS
<1>0. Grace \in Nat /\ HeartbeatTimeout \in Nat /\ Patience \in Nat
  BY Deadlines
<1>1. BeatTypeOK
  BY <1>0 DEF Init, BeatTypeOK, Phases
<1>2. PhaseFollows /\ StatusFollows
  BY DEF Init, PhaseFollows, StatusFollows, Before, Active, Ended, Beat, Age
<1>3. LoopInTime
  BY DEF Init, LoopInTime, Beat, Age, Active, Ended
<1>4. ShownInTime /\ Behind
  BY <1>0 DEF Init, ShownInTime, Behind, Age
<1> QED
  BY <1>1, <1>2, <1>3, <1>4 DEF WatchInv

(* The kinds of step, for the lemmas that follow.                          *)
Quiet ==
  \/ UNCHANGED watchVars
  \/ UNCHANGED <<pc, left, beatVars, status, hasPublished, dogVars, owner>>
     /\ (wedged => wedged') /\ (publisherFailed => publisherFailed')

LEMMA QuietSteps ==
  ASSUME WatchInv, Quiet \/ EndsProcess
  PROVE  WatchInv'
<1> USE DEF Quiet, EndsProcess, watchVars, beatVars, pubVars, dogVars
<1>1. UNCHANGED <<beatVars, status, hasPublished, unhealthy, hasPolled>>
  OBVIOUS
<1>2. /\ wedged => wedged'
      /\ publisherFailed => publisherFailed'
      /\ \/ UNCHANGED <<pc, left, owner>>
         \/ owner' = "nobody" /\ pc' = "gone" /\ left' = 0
  OBVIOUS
<1>3. BeatTypeOK'
  BY <1>1, <1>2 DEF WatchInv, BeatTypeOK
<1>4. PhaseFollows'
  BY <1>1, <1>2 DEF WatchInv, PhaseFollows, Before, Active, Ended
<1>5. StatusFollows'
  BY <1>1, <1>2 DEF WatchInv, StatusFollows, Beat, Age
<1>6. LoopInTime'
  BY <1>1, <1>2 DEF WatchInv, LoopInTime, Beat, Age
<1>7. ShownInTime'
  BY <1>1, <1>2 DEF WatchInv, ShownInTime, Closing, Age
<1>8. Behind'
  BY <1>1 DEF WatchInv, Behind, Stale, Age
<1> QED
  BY <1>3, <1>4, <1>5, <1>6, <1>7, <1>8 DEF WatchInv

LEMMA LoopStepKeepsWatch ==
  ASSUME DeadlinesFit, WatchInv, LoopStep
  PROVE  WatchInv'
<1>0. /\ UNCHANGED <<wedged, status, publisherFailed, unhealthy, hasPolled, signal, owner>>
      /\ owner = "recorder" /\ ~wedged
      /\ PulseStep \/ SilentStep \/ ProgressStep \/ EndStep
  BY DEF LoopStep
<1>1. BeatTypeOK'
  <2>1. left' \in Nat
    BY <1>0, Deadlines, AllowedTime DEF PulseStep, SilentStep, ProgressStep, EndStep
  <2>2. pulseAge' \in Nat /\ progressAge' \in Nat /\ phase' \in Phases
    BY <1>0 DEF PulseStep, SilentStep, ProgressStep, EndStep, WatchInv, BeatTypeOK, Phases
  <2> QED
    BY <1>0, <2>1, <2>2 DEF WatchInv, BeatTypeOK
<1>2. PhaseFollows'
  BY <1>0 DEF PulseStep, SilentStep, ProgressStep, EndStep, WatchInv, PhaseFollows, Before,
       Active, Ended
<1>3. StatusFollows'
  BY <1>0 DEF PulseStep, SilentStep, ProgressStep, EndStep, WatchInv, StatusFollows, Beat, Age
<1>4. LoopInTime'
  <2>0. left \in Nat /\ pulseAge \in Nat /\ progressAge \in Nat /\ Patience \in Nat
    BY Deadlines DEF WatchInv, BeatTypeOK
  <2>1. CASE PulseStep
    <3>1. Age(Beat)' = 0 /\ left' = Allowance(pc') /\ pc' \in Before \ {"start"}
      BY <2>1 DEF PulseStep, Age, Beat
    <3>2. pc' # "draining" => left' \in Nat /\ left' <= Patience
      BY <3>1, AllowedTime DEF Before
    <3> QED
      BY <2>0, <3>1, <3>2 DEF LoopInTime, Before, Active, Ended
  <2>2. CASE SilentStep
    <3>1. phase = "RUNNING" /\ Age(Beat)' = pulseAge /\ Age(Beat) = pulseAge
      BY <2>2 DEF SilentStep, WatchInv, PhaseFollows, Before, Age, Beat
    <3>2. CASE pc' = "draining"
      BY <3>2 DEF LoopInTime, Active, Ended
    <3>3. CASE pc' = "subscribing" /\ pulseAge = 0 /\ left' = Allowance(pc')
      <4>1. left' \in Nat /\ left' <= Patience
        BY <3>3, AllowedTime DEF Active
      <4> QED
        BY <2>0, <3>1, <3>3, <4>1 DEF LoopInTime, Active, Ended
    <3>4. CASE pc' = "capturing" /\ pc = "subscribing" /\ left' = 0
      <4>1. Age(Beat) + left <= Patience
        BY <1>0, <3>4 DEF WatchInv, LoopInTime, Active
      <4> QED
        BY <2>0, <3>1, <3>4, <4>1 DEF LoopInTime, Active, Ended
    <3> QED
      BY <2>2, <3>2, <3>3, <3>4 DEF SilentStep
  <2>3. CASE ProgressStep
    <3>1. Age(Beat)' = 0 /\ left' = FinalizeTicks /\ pc' = "finalizing"
      BY <2>3 DEF ProgressStep, Age, Beat
    <3> QED
      BY <2>0, <3>1, Deadlines DEF DeadlinesFit, LoopInTime, Active, Ended
  <2>4. CASE EndStep
    <3>1. Age(Beat)' = 0 /\ pc' \in Ended
      BY <2>4 DEF EndStep, Age, Beat, Ended
    <3> QED
      BY <3>1 DEF LoopInTime, Active, Ended
  <2> QED
    BY <1>0, <2>1, <2>2, <2>3, <2>4
<1>5. ShownInTime'
  <2>1. ~Closing' /\ ~publisherFailed' => ~Closing /\ ~publisherFailed
    BY <1>0 DEF PulseStep, SilentStep, ProgressStep, EndStep, WatchInv, PhaseFollows, Before,
         Active, Ended, Closing
  <2> QED
    BY <1>0, <2>1 DEF WatchInv, ShownInTime, Age
<1>6. Behind'
  BY <1>0 DEF WatchInv, Behind, Stale, Age
<1> QED
  BY <1>1, <1>2, <1>3, <1>4, <1>5, <1>6 DEF WatchInv

(* A publication shows what the loop pulsed: what it has been, or new.      *)
LEMMA PublishKeepsWatch ==
  ASSUME WatchInv, Publish
  PROVE  WatchInv'
<1>1. /\ owner = "recorder" /\ ~publisherFailed /\ status' = Beat /\ hasPublished' = TRUE
      /\ UNCHANGED <<pc, left, wedged, beatVars, publisherFailed, dogVars, owner>>
  BY DEF Publish, Publishing, Beat
<1>2. Beat' = Beat
  BY <1>1 DEF Beat, beatVars
<1>3. Age(Beat)' = Age(Beat) /\ Age(status)' = Age(Beat)
  BY <1>1, <1>2 DEF Age
<1>4. BeatTypeOK'
  BY <1>1 DEF WatchInv, BeatTypeOK, Beat, beatVars, dogVars
<1>5. PhaseFollows'
  BY <1>1 DEF WatchInv, PhaseFollows, Beat, beatVars
<1>6. StatusFollows'
  BY <1>1, <1>2 DEF StatusFollows
<1>7. LoopInTime'
  BY <1>1, <1>3 DEF WatchInv, LoopInTime
<1>8. ShownInTime'
  <2> SUFFICES ASSUME ~wedged, ~Closing' PROVE Age(Beat) <= Patience
    BY <1>1, <1>3 DEF ShownInTime
  <2>1. pc # "draining" /\ pc \in {"start"} \cup Active \cup Ended
    BY <1>1 DEF Closing, WatchInv, PhaseFollows
  <2>2. left \in Nat /\ Age(Beat) \in Nat /\ Patience \in Nat
    BY Deadlines DEF WatchInv, BeatTypeOK, Age, Beat
  <2>3. Age(Beat) + left <= Patience \/ Age(Beat) = 0
    BY <1>1, <2>1 DEF WatchInv, LoopInTime
  <2> QED
    BY <2>2, <2>3
<1>9. Behind'
  <2>1. CASE status = Beat
    BY <1>1, <2>1 DEF WatchInv, Behind, Stale, Age, dogVars
  <2>2. CASE Age(Beat) = 0
    <3>1. Age(status)' = 0 /\ HeartbeatTimeout \in Nat
      BY <1>3, <2>2, Deadlines
    <3>2. ~Stale'
      BY <3>1 DEF Stale, Age
    <3> QED
      BY <3>1, <3>2 DEF Behind
  <2> QED
    BY <1>1, <2>1, <2>2 DEF WatchInv, StatusFollows
<1> QED
  BY <1>4, <1>5, <1>6, <1>7, <1>8, <1>9 DEF WatchInv

LEMMA PollKeepsWatch ==
  ASSUME WatchInv, Poll
  PROVE  WatchInv'
<1>1. /\ UNCHANGED <<pc, left, wedged, beatVars, pubVars, owner>>
      /\ unhealthy' = IF ~Stale THEN -1 ELSE IF unhealthy < 0 THEN 0 ELSE unhealthy
  BY DEF Poll
<1>2. /\ Grace \in Nat /\ HeartbeatTimeout \in Nat
      /\ unhealthy \in Int /\ unhealthy <= Grace /\ Age(status) \in Nat
  BY Deadlines DEF WatchInv, BeatTypeOK, Age
<1>3. BeatTypeOK'
  BY <1>1, <1>2 DEF WatchInv, BeatTypeOK, beatVars, pubVars
<1>4. PhaseFollows' /\ StatusFollows'
  BY <1>1 DEF WatchInv, PhaseFollows, StatusFollows, Beat, Age, beatVars, pubVars
<1>5. LoopInTime' /\ ShownInTime'
  BY <1>1 DEF WatchInv, LoopInTime, ShownInTime, Closing, Beat, Age, beatVars, pubVars
<1>6. Behind'
  <2>1. Stale' = Stale /\ Age(status)' = Age(status)
    BY <1>1 DEF Stale, Age, pubVars
  <2>2. CASE ~Stale
    BY <1>1, <2>2 DEF Behind
  <2>3. CASE Stale
    <3>1. HeartbeatTimeout + 1 <= Age(status)
      BY <1>2, <2>3, StaleIsOld
    <3>2. unhealthy >= 0 => unhealthy + HeartbeatTimeout + 1 <= Age(status)
      BY <2>3 DEF WatchInv, Behind
    <3>3. unhealthy' = 0 \/ (unhealthy >= 0 /\ unhealthy' = unhealthy)
      BY <1>1, <1>2, <2>3
    <3>4. unhealthy' + HeartbeatTimeout + 1 <= Age(status)
      BY <1>2, <3>1, <3>2, <3>3
    <3> QED
      BY <2>1, <2>3, <3>4 DEF Behind
  <2> QED
    BY <2>2, <2>3
<1> QED
  BY <1>3, <1>4, <1>5, <1>6 DEF WatchInv

(* Time passes for everybody at once.                                      *)
LEMMA TickKeepsWatch ==
  ASSUME WatchInv, Tick
  PROVE  WatchInv'
<1>1. /\ pc \in Active /\ hasPolled /\ (hasPublished \/ publisherFailed)
      /\ owner = "recorder"
      /\ UNCHANGED <<pc, wedged, phase, publisherFailed, owner>>
      /\ hasPublished' = FALSE /\ hasPolled' = FALSE
      /\ wedged \/ left > 0
      /\ left' = IF wedged THEN left ELSE left - 1
      /\ unhealthy' = IF unhealthy < 0 THEN unhealthy
                      ELSE IF unhealthy < Grace THEN unhealthy + 1 ELSE Grace
  BY DEF Tick
<1>2. BeatTypeOK'
  BY TickAges DEF WatchInv
<1>3. /\ Age(Beat)' = Older(Age(Beat)) /\ Age(status)' = Older(Age(status))
      /\ status'.phase = status.phase
      /\ status = Beat => status' = Beat'
  BY TickAges DEF WatchInv
<1>4. /\ HeartbeatTimeout \in Nat /\ HeartbeatTimeout > 0 /\ Grace \in Nat
      /\ Patience \in Nat /\ AgeCap = HeartbeatTimeout + Grace + 1
      /\ left \in Nat /\ Age(Beat) \in Nat /\ Age(status) \in Nat
      /\ unhealthy \in Int /\ unhealthy <= Grace
  BY Deadlines DEF WatchInv, BeatTypeOK, Age, Beat, AgeCap
<1>5. PhaseFollows'
  BY <1>1, <1>3 DEF WatchInv, PhaseFollows
<1>6. StatusFollows'
  BY <1>1, <1>3 DEF WatchInv, StatusFollows
<1>7. ~wedged /\ pc # "draining" => Age(Beat)' + left' <= Patience
  <2> SUFFICES ASSUME ~wedged, pc # "draining" PROVE Age(Beat)' + left' <= Patience
    OBVIOUS
  <2>1. left > 0 /\ left' = left - 1
    BY <1>1
  <2>2. Age(Beat) + left <= Patience
    BY <1>1 DEF WatchInv, LoopInTime
  <2>3. Age(Beat)' \in Nat /\ Age(Beat)' <= Age(Beat) + 1
    BY <1>3, <1>4 DEF Older
  <2> QED
    BY <1>4, <2>1, <2>2, <2>3
<1>8. LoopInTime'
  BY <1>1, <1>7 DEF LoopInTime, Active, Ended
<1>9. ShownInTime'
  <2> SUFFICES ASSUME ~wedged, ~publisherFailed, ~Closing' PROVE Age(status)' <= Patience
    BY <1>1 DEF ShownInTime
  <2>1. pc # "draining"
    BY <1>1 DEF Closing
  <2>2. Age(status)' = Age(Beat)'
    BY <1>1, <1>3 DEF WatchInv, StatusFollows, Age
  <2>3. Age(Beat)' \in Nat /\ left' \in Nat
    BY <1>2, <1>3, <1>4 DEF BeatTypeOK, Older
  <2> QED
    BY <1>4, <1>7, <2>1, <2>2, <2>3
<1>10. Behind'
  <2> SUFFICES ASSUME unhealthy' >= 0
               PROVE  IF Stale' THEN unhealthy' + HeartbeatTimeout + 1 <= Age(status)'
                      ELSE \/ status'.phase = "STOPPED" \/ Age(status)' = 0
                           \/ Age(status)' = 1 /\ ~hasPolled'
    BY DEF Behind, Age
  <2>1. unhealthy >= 0 /\ unhealthy' \in Int /\ unhealthy' <= unhealthy + 1 /\ unhealthy' <= Grace
    BY <1>1, <1>4
  <2>2. Stale' <=> status.phase \notin {"FINALIZED", "STOPPED"} /\ Age(status)' > HeartbeatTimeout
    BY <1>3 DEF Stale, Age
  <2>3. CASE Stale
    <3>1. unhealthy + HeartbeatTimeout + 1 <= Age(status)
      BY <2>1, <2>3 DEF WatchInv, Behind
    <3>2. unhealthy' + HeartbeatTimeout + 1 <= Age(status)'
      BY <1>3, <1>4, <2>1, <3>1 DEF Older
    <3>3. Age(status)' > HeartbeatTimeout
      BY <1>3, <1>4, <2>1, <3>2 DEF Older
    <3>4. Stale'
      BY <2>2, <2>3, <3>3, StaleIsOld
    <3> QED
      BY <3>2, <3>4
  <2>4. CASE ~Stale
    <3>1. status.phase = "STOPPED" \/ Age(status) = 0
      BY <1>1, <2>1, <2>4 DEF WatchInv, Behind
    <3>2. CASE status.phase = "STOPPED"
      BY <1>3, <2>2, <3>2
    <3>3. CASE Age(status) = 0
      <4>1. Age(status)' = 1
        BY <1>3, <1>4, <3>3 DEF Older
      <4>2. ~Stale'
        BY <1>4, <2>2, <4>1
      <4> QED
        BY <1>1, <4>1, <4>2
    <3> QED
      BY <3>1, <3>2, <3>3
  <2> QED
    BY <2>3, <2>4
<1> QED
  BY <1>2, <1>5, <1>6, <1>8, <1>9, <1>10 DEF WatchInv

LEMMA WatchStep == DeadlinesFit /\ WatchInv /\ [Next]_vars => WatchInv'
<1> SUFFICES ASSUME DeadlinesFit, WatchInv, [Next]_vars PROVE WatchInv'
  OBVIOUS
<1>1. LoopStep \/ EndsProcess \/ Publish \/ Poll \/ Tick \/ Quiet
  BY WatchSteps DEF Quiet, WatchInv
<1> QED
  BY <1>1, QuietSteps, LoopStepKeepsWatch, PublishKeepsWatch, PollKeepsWatch, TickKeepsWatch

(* Only a poll signals, and it does so after the grace period of a status  *)
(* that was stale when the period began.                                   *)
LEMMA SignalledIsSilent ==
  ASSUME WatchInv, [Next]_vars, signal = "none", signal' = "term"
  PROVE  wedged \/ publisherFailed \/ Closing
<1>1. Poll
  <2>1. \/ LoopStep \/ EndsProcess \/ Publish \/ Poll \/ Tick \/ Quiet
    BY WatchSteps DEF Quiet, WatchInv
  <2>2. LoopStep \/ Quiet => signal' = signal
    BY DEF LoopStep, Quiet, watchVars, dogVars
  <2>3. Publish \/ Tick => signal' = signal
    BY DEF Publish, Tick, dogVars
  <2>4. EndsProcess => signal' # "term"
    BY DEF EndsProcess
  <2> QED
    BY <2>1, <2>2, <2>3, <2>4
<1>2. Stale /\ unhealthy >= Grace /\ owner = "recorder"
  BY <1>1 DEF Poll, SameProcess
<1>3. /\ Grace \in Nat /\ HeartbeatTimeout \in Nat /\ Patience = HeartbeatTimeout + Grace
      /\ Age(status) \in Nat /\ unhealthy \in Int
  BY Deadlines DEF WatchInv, BeatTypeOK, Age, Patience
<1>4. unhealthy + HeartbeatTimeout + 1 <= Age(status)
  BY <1>2, <1>3 DEF WatchInv, Behind
<1>5. ~(Age(status) <= Patience)
  BY <1>2, <1>3, <1>4
<1> QED
  BY <1>2, <1>5 DEF WatchInv, ShownInTime

(* The watchdog is fencing, not supervision: a recorder that is not stuck  *)
(* and whose status can be published is never signalled, but for the close *)
(* of its log, whenever the deadlines of its calls fit what the watchdog   *)
(* takes.  Its status is then never older than that, and the grace period  *)
(* has always begun with a status already stale.                           *)
THEOREM TheLivingAreSpared == DeadlinesFit => (Spec => OnlyTheWedgedIsKilled)
<1> SUFFICES ASSUME DeadlinesFit PROVE Spec => OnlyTheWedgedIsKilled
  OBVIOUS
<1>1. Init => WatchInv
  BY WatchInit
<1>2. WatchInv /\ [Next]_vars => WatchInv'
  BY WatchStep
<1>3. WatchInv /\ [Next]_vars
        => [signal = "none" /\ signal' = "term" => wedged \/ publisherFailed \/ Closing]_vars
  BY SignalledIsSilent
<1> QED
  BY <1>1, <1>2, <1>3, PTL DEF Spec, OnlyTheWedgedIsKilled
=============================================================================
