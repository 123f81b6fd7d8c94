---------------------------- MODULE RecorderSession ----------------------------
(***************************************************************************)
(* One run of the quote recorder: the session loop of QuoteRecorder        *)
(* (src/ib_execution/quote_recorder.py), the thread that publishes its     *)
(* heartbeat (event_loop_heartbeat.py), the external watchdog that reads   *)
(* the published status and may kill the process (watchdog.py), and the    *)
(* task host that owns the process (scripts/run_full_rth_recorder_task.py).*)
(*                                                                         *)
(* Time is counted in ticks (of fifteen seconds in the checked instance,   *)
(* rounded against the recorder).  A blocking call of the loop is given    *)
(* the ticks its deadline allows; the session clock moves on its own.      *)
(* What is captured is a count; the log itself is RawEventLog, and what    *)
(* the feed does is FeedRecovery.                                          *)
(***************************************************************************)
EXTENDS Integers

CONSTANTS
  HeartbeatTimeout,  \* WatchdogConfig.heartbeat_timeout_seconds
  Grace,             \* WatchdogConfig.grace_seconds_before_kill
  RequestTicks,      \* request_deadline_seconds: connect, qualify, server time
  CloseTicks,        \* writer_close_timeout_seconds
  FinalizeTicks,     \* longest step of the finalizer between two progress reports
  ShortLimit,        \* ReconnectBudget.short_limit
  SessionLimit,      \* ReconnectBudget.session_limit
  MaxEvents,         \* market events of a behaviour
  Faults             \* a subset of {"wedge", "storage", "publisher"}

ASSUME SessionAssumption ==
  /\ {HeartbeatTimeout, Grace, RequestTicks, CloseTicks, FinalizeTicks} \subseteq Nat \ {0}
  /\ {ShortLimit, SessionLimit, MaxEvents} \subseteq Nat
  /\ Faults \subseteq {"wedge", "storage", "publisher"}

VARIABLES
  clock,     \* exchange time: 0 before day 1, 1 its session, 2 after it, 3 day 2, 4 after
  \* QuoteRecorder
  pc,        \* what the loop is doing
  left,      \* ticks its present blocking call may still take
  wedged,    \* the loop is stuck below Python and will not come back
  session,   \* the local variable of _run_session_loop, 0 for None
  logDay,    \* the session RawEventLog was opened for, 0 for None
  fatal,     \* _fatal_prerequisite_error is set
  logFailed, \* RawEventLog has latched a failure
  recent, total,              \* ReconnectBudget
  handled, selected, filtered, \* market events counted by the callbacks
  missed,    \* history: a callback raised and dropped the rest of its buffer
  published, \* manifest.json names this run: the session window it was given, 0 for none
  \* EventLoopHeartbeat
  phase, pulseAge, progressAge, \* the state the loop pulses into
  status,                       \* the file: the same three as published
  hasPublished,                 \* since the last pulse, and in this tick
  publisherFailed,
  \* Watchdog
  unhealthy, \* ticks since the first unhealthy reading, -1 for none
  hasPolled, signal,            \* "none", "term", "kill"
  \* the operating system
  owner      \* who has the recorder's pid

dayVars == <<session, logDay, handled, selected, filtered, missed, published>>
errVars == <<fatal, logFailed, recent, total>>
beatVars == <<phase, pulseAge, progressAge>>
dogVars == <<unhealthy, hasPolled, signal>>
pubVars == <<status, hasPublished, publisherFailed>>
vars == <<clock, pc, left, wedged, dayVars, errVars, beatVars, pubVars, dogVars, owner>>

Active == {"connecting", "resolving", "timing", "waiting", "subscribing", "capturing",
           "skew", "backoff", "draining", "finalizing"}
Ended == {"finalized", "failed"}
AgeCap == HeartbeatTimeout + Grace + 1
Older(age) == IF age < AgeCap THEN age + 1 ELSE age

\* Ticks the loop may spend in a place before it moves or pulses again.
Allowance(place) ==
  CASE place = "resolving" -> 2 * RequestTicks
    [] place = "draining" -> CloseTicks
    [] place = "finalizing" -> FinalizeTicks
    [] place \in {"waiting", "capturing", "backoff"} -> 1
    [] OTHER -> RequestTicks

(* QuoteRecorder._session: the first session that has not ended.           *)
SessionAt(t) == IF t <= 1 THEN 1 ELSE 2
Opens(s) == 2 * s - 1

Init ==
  /\ clock \in {0, 1}
  /\ pc = "start" /\ left = 0 /\ wedged = FALSE
  /\ session = 0 /\ logDay = 0
  /\ handled = 0 /\ selected = 0 /\ filtered = 0 /\ missed = FALSE /\ published = 0
  /\ fatal = FALSE /\ logFailed = FALSE /\ recent = 0 /\ total = 0
  /\ phase = "RUNNING" /\ pulseAge = 0 /\ progressAge = 0
  /\ status = [phase |-> "RUNNING", pulse |-> 0, progress |-> 0]
  /\ hasPublished = FALSE /\ publisherFailed = FALSE
  /\ unhealthy = -1 /\ hasPolled = FALSE /\ signal = "none"
  /\ owner = "recorder"

-----------------------------------------------------------------------------
(* Pieces of the loop.                                                     *)

At(place) == owner = "recorder" /\ ~wedged /\ pc = place
Goto(place) == pc' = place /\ left' = Allowance(place)

(* EventLoopHeartbeat.pulse, which raises once the publisher has failed.   *)
(* Every phase before the finalizer's is RUNNING to the watchdog.          *)
Pulse ==
  /\ ~publisherFailed
  /\ phase' = "RUNNING" /\ pulseAge' = 0 /\ hasPublished' = FALSE
  /\ UNCHANGED progressAge
Silent == UNCHANGED <<beatVars, hasPublished>>

(* run() ends: phase FAILED, and the heartbeat's last publication.         *)
Fail ==
  /\ Goto("failed")
  /\ phase' = "FAILED" /\ pulseAge' = 0 /\ progressAge' = 0 /\ hasPublished' = FALSE

SameElsewhere == UNCHANGED <<clock, wedged, status, publisherFailed, dogVars, owner>>

-----------------------------------------------------------------------------
(* _run_session_loop.                                                      *)

Connect ==
  /\ At("start") \/ At("backoff")
  /\ Goto("connecting") /\ Pulse
  /\ fatal' = FALSE
  /\ UNCHANGED <<logFailed, recent, total, dayVars>> /\ SameElsewhere

Connected ==
  /\ At("connecting")
  /\ Goto("resolving") /\ Pulse
  /\ UNCHANGED <<errVars, dayVars>> /\ SameElsewhere

RequestTime ==
  /\ At("resolving")
  /\ Goto("timing") /\ Pulse
  /\ UNCHANGED <<errVars, dayVars>> /\ SameElsewhere

ResolveKeepsSession == \* mutant: the rollover is not looked for
  /\ At("timing")
  /\ session' = SessionAt(clock)
  /\ logDay' = IF logDay = 0 THEN session' ELSE logDay
  /\ Goto("waiting")
  /\ Pulse
  /\ UNCHANGED <<errVars, handled, selected, filtered, missed, published>> /\ SameElsewhere

(* The session is resolved, checked against _session_key, and its log      *)
(* opened.  A rollover finalizes: with the session just resolved.          *)
Resolve ==
  /\ At("timing")
  /\ session' = SessionAt(clock)
  /\ \/ /\ logDay \in {0, session'}
        /\ logDay' = session'
        /\ Goto("waiting")
     \/ /\ logDay \notin {0, session'}
        /\ UNCHANGED logDay
        /\ Goto("draining")
  /\ Pulse
  /\ UNCHANGED <<errVars, handled, selected, filtered, missed, published>> /\ SameElsewhere

(* A turn of a loop pulses at its end and is shorter than a tick.          *)
WaitForOpen ==
  /\ At("waiting") /\ ~fatal /\ ~logFailed
  /\ \/ Goto("waiting") /\ Pulse
     \/ clock >= Opens(session) /\ pulseAge = 0 /\ Goto("subscribing") /\ Silent
  /\ UNCHANGED <<errVars, dayVars>> /\ SameElsewhere

Subscribed ==
  /\ At("subscribing") /\ ~fatal /\ ~logFailed
  /\ pc' = "capturing" /\ left' = 0 /\ Silent
  /\ UNCHANGED <<errVars, dayVars>> /\ SameElsewhere

(* A turn of the capture loop; now and then it measures the clock skew.    *)
CaptureTurn ==
  /\ At("capturing") /\ ~fatal /\ ~logFailed
  /\ Pulse
  /\ Goto("capturing") \/ Goto("skew")
  /\ UNCHANGED <<errVars, dayVars>> /\ SameElsewhere

SkewMeasured ==
  /\ At("skew")
  /\ Pulse
  /\ Goto("capturing")
  /\ UNCHANGED <<errVars, dayVars>> /\ SameElsewhere

SessionEnds ==
  /\ At("capturing") /\ clock > Opens(session)
  /\ Goto("draining") /\ Silent
  /\ UNCHANGED <<errVars, dayVars>> /\ SameElsewhere

(* RecorderPrerequisiteError: the stored failure becomes control flow, or  *)
(* the subscription is not LIVE.  What there is gets finalized.            *)
Prerequisite ==
  /\ \/ fatal /\ (At("waiting") \/ At("subscribing") \/ At("capturing"))
     \/ At("subscribing")
  /\ ~logFailed
  /\ Goto("draining") /\ Silent
  /\ UNCHANGED <<errVars, dayVars>> /\ SameElsewhere

(* SlowRecoveryReconnect is not charged to the budget.                     *)
SlowReconnect ==
  /\ At("capturing") /\ ~fatal /\ ~logFailed
  /\ Goto("connecting") /\ Pulse
  /\ fatal' = FALSE
  /\ UNCHANGED <<logFailed, recent, total, dayVars>> /\ SameElsewhere

(* Any other exception, a lost connection or a request past its deadline   *)
(* among them: ReconnectBudget.record, and a backoff or the end of the day.*)
(* Which of the recent reconnects have left the window is the clock's      *)
(* choice.                                                                 *)
Raises == \E place \in {"connecting", "resolving", "timing", "waiting", "subscribing",
                        "capturing", "skew"} : At(place)
Exhausted == recent' > ShortLimit \/ total' > SessionLimit
ErrorRaised ==
  /\ Raises /\ ~logFailed
  /\ total' = total + 1
  /\ \E still \in 0..recent : recent' = still + 1
  /\ \/ ~Exhausted /\ Goto("backoff") /\ Pulse
     \/ Exhausted /\ logDay # 0 /\ Goto("draining") /\ Silent
     \/ Exhausted /\ logDay = 0 /\ Fail
  /\ UNCHANGED <<fatal, logFailed, dayVars>> /\ SameElsewhere

BackoffTurn ==
  /\ At("backoff")
  /\ Goto("backoff") /\ Pulse
  /\ UNCHANGED <<errVars, dayVars>> /\ SameElsewhere

(* RecorderWriteFailed, or a heartbeat nobody can observe any more: both   *)
(* end the run without finalizing.                                         *)
GiveUp ==
  /\ pc \in Active /\ At(pc)
  /\ logFailed \/ publisherFailed
  /\ Fail
  /\ UNCHANGED <<errVars, dayVars>> /\ SameElsewhere

-----------------------------------------------------------------------------
(* _finalize: the log is closed, read back and compared with the counts    *)
(* of the callbacks, and the manifest is written last.                     *)

Drained ==
  /\ At("draining") /\ ~logFailed
  /\ Goto("finalizing")
  /\ ~publisherFailed
  /\ phase' = "FINALIZING" /\ progressAge' = 0 /\ hasPublished' = FALSE
  /\ UNCHANGED pulseAge
  /\ UNCHANGED <<errVars, dayVars>> /\ SameElsewhere

FinalizeProgress ==
  /\ At("finalizing") /\ ~publisherFailed
  /\ Goto("finalizing")
  /\ progressAge' = 0 /\ hasPublished' = FALSE /\ UNCHANGED <<phase, pulseAge>>
  /\ UNCHANGED <<errVars, dayVars>> /\ SameElsewhere

SelectedOnly == selected >= 0 \* mutant: what was handled is not looked at

Accounted == handled = selected + filtered

FinalizeRefused ==
  /\ At("finalizing") /\ ~Accounted
  /\ Fail
  /\ UNCHANGED <<errVars, dayVars>> /\ SameElsewhere

(* The lock is taken, the disk is full, a readback disagrees.              *)
FinalizeFails ==
  /\ At("draining") \/ At("finalizing")
  /\ Fail
  /\ UNCHANGED <<errVars, dayVars>> /\ SameElsewhere

Finalized ==
  /\ At("finalizing") /\ Accounted /\ ~publisherFailed
  /\ published' = session
  /\ Goto("finalized")
  /\ phase' = "STOPPED" /\ pulseAge' = 0 /\ progressAge' = 0 /\ hasPublished' = FALSE
  /\ UNCHANGED <<errVars, session, logDay, handled, selected, filtered, missed>>
  /\ SameElsewhere

(* Back in the host: the offline verdict, then the process exits.          *)
Exit ==
  /\ \E place \in Ended : At(place)
  /\ pc' = "gone" /\ left' = 0 /\ owner' = "nobody"
  /\ UNCHANGED <<clock, wedged, dayVars, errVars, beatVars, pubVars, dogVars>>

-----------------------------------------------------------------------------
(* Callbacks, run by the loop whenever it sleeps in a subscription.        *)

Listening == At("subscribing") \/ At("capturing") \/ At("skew")

(* CapturePolicy.should_persist: quotes and the sampling interval decide.  *)
ShouldPersist == BOOLEAN

(* _note_handled, then the policy.                                         *)
OnMarketEvent ==
  /\ Listening /\ handled < MaxEvents /\ ~logFailed
  /\ handled' = handled + 1
  /\ \E keep \in ShouldPersist :
       /\ selected' = IF keep THEN selected + 1 ELSE selected
       /\ filtered' = IF keep THEN filtered ELSE filtered + 1
  /\ UNCHANGED <<clock, pc, left, wedged, session, logDay, missed, published,
                 errVars, beatVars, pubVars, dogVars, owner>>

(* _handler_failed: the event was counted, the rest of the buffer is gone. *)
CallbackFails ==
  /\ Listening /\ handled < MaxEvents
  /\ handled' = handled + 1
  /\ fatal' = TRUE /\ missed' = TRUE
  /\ UNCHANGED <<clock, pc, left, wedged, session, logDay, selected, filtered, published,
                 logFailed, recent, total, beatVars, pubVars, dogVars, owner>>

(* An entitlement error of the broker.                                     *)
OnFatalError ==
  /\ pc \in Active /\ At(pc) /\ pc \notin {"connecting", "backoff", "draining", "finalizing"}
  /\ fatal' = TRUE
  /\ UNCHANGED <<clock, pc, left, wedged, dayVars, logFailed, recent, total,
                 beatVars, pubVars, dogVars, owner>>

StorageFails ==
  /\ "storage" \in Faults
  /\ logDay # 0 /\ pc \in Active /\ owner = "recorder" /\ ~logFailed
  /\ logFailed' = TRUE
  /\ UNCHANGED <<clock, pc, left, wedged, dayVars, fatal, recent, total,
                 beatVars, pubVars, dogVars, owner>>

-----------------------------------------------------------------------------
(* EventLoopHeartbeat._run: publishes what the loop pulsed, never a time   *)
(* of its own.                                                             *)

Publishing == owner = "recorder" /\ ~publisherFailed

PublishNow == \* mutant: the thread vouches for the loop
  /\ Publishing /\ ~hasPublished
  /\ status' = [phase |-> phase, pulse |-> 0, progress |-> progressAge]
  /\ hasPublished' = TRUE
  /\ UNCHANGED <<clock, pc, left, wedged, dayVars, errVars, beatVars, publisherFailed,
                 dogVars, owner>>

Publish ==
  /\ Publishing /\ ~hasPublished
  /\ status' = [phase |-> phase, pulse |-> pulseAge, progress |-> progressAge]
  /\ hasPublished' = TRUE
  /\ UNCHANGED <<clock, pc, left, wedged, dayVars, errVars, beatVars, publisherFailed,
                 dogVars, owner>>

PublisherFails ==
  /\ "publisher" \in Faults
  /\ Publishing
  /\ publisherFailed' = TRUE
  /\ UNCHANGED <<clock, pc, left, wedged, dayVars, errVars, beatVars, status, hasPublished,
                 dogVars, owner>>

-----------------------------------------------------------------------------
(* Watchdog.run_once: read_status, evaluate, kill_engine.                  *)

StaleByPulse == \* mutant: one clock for the loop and the finalizer
  status.phase \notin {"FINALIZED", "STOPPED"} /\ status.pulse > HeartbeatTimeout

Stale ==
  CASE status.phase \in {"FINALIZED", "STOPPED"} -> FALSE
    [] status.phase = "FINALIZING" -> status.progress > HeartbeatTimeout
    [] OTHER -> status.pulse > HeartbeatTimeout

(* _pid_start_ticks still has the start time the status names.             *)
SameProcess == owner = "recorder"

Poll ==
  /\ ~hasPolled /\ signal = "none"
  /\ hasPolled' = TRUE
  /\ unhealthy' = IF ~Stale THEN -1 ELSE IF unhealthy < 0 THEN 0 ELSE unhealthy
  /\ signal' = IF Stale /\ unhealthy >= Grace /\ SameProcess THEN "term" ELSE signal
  /\ UNCHANGED <<clock, pc, left, wedged, dayVars, errVars, beatVars, pubVars, owner>>

(* SIGTERM ends a process that can still be ended; five seconds later      *)
(* whatever has the pid gets SIGKILL.                                      *)
TermDelivered ==
  /\ signal = "term" /\ owner = "recorder" /\ ~wedged
  /\ owner' = "nobody" /\ pc' = "gone" /\ left' = 0
  /\ UNCHANGED <<clock, wedged, dayVars, errVars, beatVars, pubVars, dogVars>>

ForceKill ==
  /\ signal = "term" /\ (owner = "recorder" => wedged)
  /\ signal' = "kill"
  /\ owner' = "nobody" /\ pc' = "gone" /\ left' = 0
  /\ UNCHANGED <<clock, wedged, dayVars, errVars, beatVars, pubVars, unhealthy, hasPolled>>

-----------------------------------------------------------------------------
(* Time and the rest of the machine.                                       *)

ClockMoves ==
  /\ clock < 4 /\ owner = "recorder"
  /\ clock' = clock + 1
  /\ UNCHANGED <<pc, left, wedged, dayVars, errVars, beatVars, pubVars, dogVars, owner>>

(* DeadlineWatchdog: the process exits by itself, half an hour after its   *)
(* start if it has no session yet and hours after the close of the one     *)
(* resolved last.  It bounds a stuck disk; no property relies on it.       *)
DeadlineExpires ==
  /\ owner = "recorder" /\ pc # "gone"
  /\ session # 0 => clock > Opens(session)
  /\ pc' = "gone" /\ left' = 0 /\ owner' = "nobody"
  /\ UNCHANGED <<clock, wedged, dayVars, errVars, beatVars, pubVars, dogVars>>

Wedge ==
  /\ "wedge" \in Faults
  /\ pc \in Active /\ owner = "recorder" /\ ~wedged
  /\ wedged' = TRUE
  /\ UNCHANGED <<clock, pc, left, dayVars, errVars, beatVars, pubVars, dogVars, owner>>

(* Nobody who is due waits for the tick to pass: the loop has its          *)
(* allowance, and the publisher and the watchdog run many times in one, so *)
(* the file shows the last pulse and the watchdog has seen it.             *)
Tick ==
  /\ owner = "recorder" /\ pc \in Active /\ signal = "none"
  /\ wedged \/ left > 0
  /\ hasPublished \/ publisherFailed
  /\ hasPolled
  /\ left' = IF wedged THEN left ELSE left - 1
  /\ pulseAge' = Older(pulseAge)
  /\ progressAge' = IF phase = "FINALIZING" THEN Older(progressAge) ELSE progressAge
  /\ status' = [status EXCEPT !.pulse = Older(@), 
                              !.progress = IF status.phase = "FINALIZING" THEN Older(@) ELSE @]
  /\ unhealthy' = IF unhealthy < 0 THEN unhealthy
                  ELSE IF unhealthy < Grace THEN unhealthy + 1 ELSE Grace
  /\ hasPublished' = FALSE /\ hasPolled' = FALSE
  /\ UNCHANGED <<clock, pc, wedged, dayVars, errVars, phase, publisherFailed, signal, owner>>

-----------------------------------------------------------------------------
LoopNext ==
  \/ Connect
  \/ Connected
  \/ RequestTime
  \/ Resolve
  \/ WaitForOpen
  \/ Subscribed
  \/ CaptureTurn
  \/ SkewMeasured
  \/ SessionEnds
  \/ Prerequisite
  \/ SlowReconnect
  \/ ErrorRaised
  \/ BackoffTurn
  \/ GiveUp

FinalizeNext ==
  \/ Drained
  \/ FinalizeProgress
  \/ FinalizeRefused
  \/ FinalizeFails
  \/ Finalized
  \/ Exit

CallbackNext == OnMarketEvent \/ CallbackFails \/ OnFatalError

WatchNext == Publish \/ Poll \/ TermDelivered \/ ForceKill

FaultNext == StorageFails \/ PublisherFails \/ Wedge

Next ==
  \/ LoopNext
  \/ FinalizeNext
  \/ CallbackNext
  \/ WatchNext
  \/ FaultNext
  \/ ClockMoves
  \/ DeadlineExpires
  \/ Tick

Spec == Init /\ [][Next]_vars

(* The threads are scheduled and time passes; nothing is assumed of the    *)
(* loop itself.                                                            *)
FairSpec ==
  Spec /\ WF_vars(Publish) /\ WF_vars(Poll) /\ WF_vars(TermDelivered)
       /\ WF_vars(ForceKill) /\ WF_vars(Tick)

-----------------------------------------------------------------------------
(* Properties.                                                             *)

(* quote_recorder.py: "A short log that claims to be complete is worse     *)
(* than a failed run."  A run whose callback raised publishes no manifest, *)
(* although a reconnect forgets the stored failure.                        *)
ShortLogIsNotPublished == missed => published = 0

(* "ONE PROCESS RECORDS ONE SESSION": whatever reconnects in between, a    *)
(* market event is only taken into the log of the session it belongs to.   *)
OneSessionPerLog ==
  [][handled' # handled => session = logDay]_vars

(* The watchdog is fencing, not supervision: a recorder whose calls return *)
(* by their deadlines is not signalled, through connecting, capturing and  *)
(* finalizing, while its status can be published.  Closing the log is the  *)
(* exception: it may take CloseTicks and reports nothing meanwhile, until  *)
(* what follows it is in the file.                                         *)
Closing == pc = "draining" \/ (pc \in {"finalizing"} \cup Ended /\ status.phase # phase)
OnlyTheWedgedIsKilled ==
  [][signal = "none" /\ signal' = "term" => wedged \/ publisherFailed \/ Closing]_vars

(* And one that hangs is ended, although the thread that publishes its     *)
(* status never stops.                                                     *)
WedgedIsKilled == wedged ~> owner # "recorder"
=============================================================================
