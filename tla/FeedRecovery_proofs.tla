------------------------- MODULE FeedRecovery_proofs -------------------------
(* What the log says of a silent feed, and how often the recorder           *)
(* reconnects, for every choice of the intervals.                           *)
EXTENDS FeedRecovery, TLAPS

Kinds == {"none", "EXPECTED_SILENCE", "FEED_OUTAGE", "GAP_SUSPECTED"}

(* The part of the type the arguments need.                                 *)
FeedInv ==
  /\ socket \in {"up", "down"} /\ pending \in {"none", "lost", "reset", "idle"}
  /\ halted \in BOOLEAN /\ outage \in BOOLEAN /\ barSince \in BOOLEAN
  /\ barAge \in 0..Late /\ dark \in 0..Late /\ fastUsed \in Nat

(* A clock that a reconnect has set back behind the history belongs to an   *)
(* open incident in which no bar has come yet; a socket that a repair has   *)
(* taken down leaves one open.                                              *)
LabelInv ==
  /\ socket = "up" /\ dark # barAge => incident # "none" /\ ~barSince
  /\ socket = "down" /\ dark # 0 => incident # "none"

(* A reconnect is at least one base interval away, counted from the last.   *)
PaceInv ==
  /\ slowDelay \in Nat /\ slowDelay >= SlowBase
  /\ nextFull \in Nat /\ sinceFull \in 0..SlowMax
  /\ sinceFull + nextFull >= SlowBase

RecoveryInv == FeedInv /\ LabelInv /\ SilenceIsLabelled /\ PaceInv

-----------------------------------------------------------------------------
LEMMA Bounds == /\ BarTimeout \in Nat /\ SlowBase \in Nat /\ SlowBase # 0 /\ SlowMax \in Nat
                /\ SlowBase <= SlowMax /\ FastAttempts \in Nat
BY FeedAssumption

(* Unless everything is calm there is a kind of incident.                   *)
LEMMA OverdueIsAKind == ASSUME FeedInv, Overdue PROVE Kind # "none"
BY DEF FeedInv, Kind, Explained

LEMMA RepairIsAKind == ASSUME FeedInv, Recovers PROVE Kind # "none"
<1>1. ~Explained /\ (pending # "none" \/ Overdue)
  BY DEF Recovers, Waits
<1>2. CASE pending # "none"
  BY <1>1, <1>2 DEF FeedInv, Kind, Explained
<1>3. CASE Overdue
  BY <1>3, OverdueIsAKind
<1> QED
  BY <1>1, <1>2, <1>3

(* The history and the clock of the subscription under one poll.            *)
LEMMA PollLabels ==
  ASSUME RecoveryInv, socket = "up", Observe, barAge' = Up(barAge, Late), dark' = Up(dark, Late)
  PROVE  /\ dark' # barAge' => incident' # "none" /\ ~barSince'
         /\ dark' > BarTimeout => incident' # "none"
         /\ barSince' \in BOOLEAN /\ barAge' \in 0..Late /\ dark' \in 0..Late
<1>1. /\ BarTimeout \in Nat /\ barAge \in 0..Late /\ dark \in 0..Late /\ barSince \in BOOLEAN
      /\ dark # barAge => incident # "none" /\ ~barSince
  BY Bounds DEF RecoveryInv, FeedInv, LabelInv
<1>2. barAge' \in 0..Late /\ dark' \in 0..Late /\ (dark' # barAge' => dark # barAge)
  BY <1>1 DEF Up, Least, Late
<1>3. /\ incident' = IF GraceOnly THEN incident ELSE Kind
      /\ barSince' = (barSince /\ incident' = incident)
  BY DEF Observe
<1>4. barSince' \in BOOLEAN /\ (~barSince => ~barSince')
  BY <1>3
<1>5. incident # "none" /\ ~barSince => incident' # "none"
  BY <1>3 DEF GraceOnly
<1>6. dark' > BarTimeout /\ dark' = barAge' => incident' # "none"
  <2>1. HAVE dark' > BarTimeout /\ dark' = barAge'
  <2>2. Kind # "none"
    BY <2>1, OverdueIsAKind DEF Overdue, RecoveryInv
  <2> QED
    BY <2>2, <1>3 DEF GraceOnly
<1> QED
  BY <1>1, <1>2, <1>4, <1>5, <1>6

(* Timers and the paces they keep.                                          *)
LEMMA TimersPace ==
  ASSUME PaceInv, slowDelay' = slowDelay, nextFull' = Down(nextFull),
         sinceFull' = Up(sinceFull, SlowMax)
  PROVE  PaceInv'
BY Bounds DEF PaceInv, Down, Up, Least

LEMMA NearerPace ==
  ASSUME PaceInv, NoteActivity, sinceFull' = sinceFull
  PROVE  PaceInv'
BY Bounds DEF PaceInv, NoteActivity, Least

LEMMA SamePace ==
  ASSUME PaceInv, UNCHANGED <<slowDelay, nextFull, sinceFull>>
  PROVE  PaceInv'
BY DEF PaceInv

LEMMA SlowIsPaced ==
  ASSUME RecoveryInv, SlowAttempt
  PROVE  Up(sinceFull, SlowMax) >= SlowBase
<1>1. Reconnect /\ fastUsed' = fastUsed /\ PaceInv /\ fastUsed \in Nat
  BY DEF SlowAttempt, RecoveryInv, FeedInv
<1>2. repair' = Plan /\ repair' = "full_reconnect"
  BY <1>1 DEF Reconnect, PollRepairs
<1>3. fastUsed < FastAttempts \/ Down(nextFull) = 0
  BY <1>2 DEF Plan, Asked
<1>4. ~(fastUsed < FastAttempts)
  BY <1>1 DEF Reconnect
<1>5. nextFull <= 1
  BY <1>1, <1>3, <1>4 DEF Down, PaceInv
<1> QED
  BY <1>1, <1>5, Bounds DEF PaceInv, Up, Least

-----------------------------------------------------------------------------
(* The steps.                                                               *)

(* Callbacks take nothing back from the log; only a bar ends a silence.     *)
LEMMA CallbackKeeps ==
  ASSUME RecoveryInv, Callbacks
  PROVE  RecoveryInv'
<1> USE DEF RecoveryInv, feedVars, statusVars, trackVars, schedVars, histVars
<1>0. BarTimeout \in Nat /\ SlowBase \in Nat /\ SlowMax \in Nat /\ SlowBase <= SlowMax
  BY Bounds
<1>1. CASE Bar
  <2>1. PaceInv'
    BY <1>0, <1>1 DEF Bar, PaceInv
  <2>2. FeedInv' /\ LabelInv' /\ SilenceIsLabelled'
    BY <1>0, <1>1 DEF Bar, Arrives, FeedInv, LabelInv, SilenceIsLabelled, Late
  <2> QED
    BY <2>1, <2>2
<1>2. ASSUME PaceInv',
             UNCHANGED <<socket, barAge, dark, incident, barSince>>, fastUsed' \in Nat,
             pending' \in {"none", "lost", "reset", "idle"}, halted' \in BOOLEAN,
             outage' \in BOOLEAN
      PROVE  RecoveryInv'
  BY <1>2 DEF FeedInv, LabelInv, SilenceIsLabelled, Late
<1>3. CASE Quote
  <2>1. PaceInv'
    BY <1>3, SamePace DEF Quote
  <2> QED
    BY <1>2, <1>3, <2>1 DEF Quote, FeedInv
<1>4. CASE Probe
  <2>1. PaceInv'
    BY <1>4, NearerPace DEF Probe
  <2> QED
    BY <1>2, <1>4, <2>1 DEF Probe, NoteActivity, FeedInv
<1>5. ASSUME Status, pending' \in {"none", "lost", "reset", "idle"}, outage' \in BOOLEAN
      PROVE  RecoveryInv'
  <2>1. PaceInv'
    BY <1>5, NearerPace DEF Status
  <2> QED
    BY <1>2, <1>5, <2>1 DEF Status, NoteActivity, FeedInv
<1>6. CASE ConnectivityLost \/ RestoredDataLost \/ RestoredDataKept \/ BarsReset \/ FarmStatus
  <2>1. Status /\ pending' \in {"none", "lost", "reset", "idle"} /\ outage' \in BOOLEAN
    BY <1>6 DEF ConnectivityLost, RestoredDataLost, RestoredDataKept, BarsReset, FarmStatus,
         FeedInv
  <2> QED
    BY <1>5, <2>1
<1>7. CASE TransportIdle
  <2>1. PaceInv'
    BY <1>7, SamePace DEF TransportIdle
  <2> QED
    BY <1>2, <1>7, <2>1 DEF TransportIdle, FeedInv
<1>8. CASE Halt
  <2>1. PaceInv'
    BY <1>8, SamePace DEF Halt
  <2> QED
    BY <1>2, <1>8, <2>1 DEF Halt, FeedInv
<1> QED
  BY <1>1, <1>3, <1>4, <1>6, <1>7, <1>8 DEF Callbacks

LEMMA PollKeeps ==
  ASSUME RecoveryInv, Poll
  PROVE  RecoveryInv'
<1> USE DEF statusVars
<1>1. /\ socket = "up" /\ Observe /\ barAge' = Up(barAge, Late) /\ dark' = Up(dark, Late)
      /\ UNCHANGED <<halted, outage>> /\ pending' \in {pending, "none"}
  BY DEF Poll, PollCalm, NothingDue, Resubscribe, Reconnect, PollRepairs, TimePasses
<1>2. /\ dark' # barAge' => incident' # "none" /\ ~barSince'
      /\ dark' > BarTimeout => incident' # "none"
      /\ barSince' \in BOOLEAN /\ barAge' \in 0..Late /\ dark' \in 0..Late
  BY <1>1, PollLabels
<1>3. fastUsed \in Nat /\ PaceInv
  BY DEF RecoveryInv, FeedInv
<1>4. fastUsed' \in Nat
  BY <1>3 DEF Poll, PollCalm, NothingDue, Resubscribe, Reconnect, TimersRun
<1>5. CASE ~Reconnect
  <2>1. /\ socket' = socket /\ slowDelay' = slowDelay /\ nextFull' = Down(nextFull)
        /\ sinceFull' = Up(sinceFull, SlowMax)
    BY <1>5 DEF Poll, PollCalm, NothingDue, Resubscribe, TimersRun, TimePasses
  <2>2. PaceInv'
    BY <1>3, <2>1, TimersPace
  <2>3. FeedInv'
    BY <1>1, <1>2, <1>4, <2>1 DEF RecoveryInv, FeedInv, Late
  <2>4. LabelInv' /\ SilenceIsLabelled'
    BY <1>1, <1>2, <2>1 DEF LabelInv, SilenceIsLabelled
  <2> QED
    BY <2>2, <2>3, <2>4 DEF RecoveryInv
<1>6. CASE Reconnect
  <2>1. socket' = "down" /\ nextFull' = slowDelay /\ sinceFull' = 0
        /\ (slowDelay' = slowDelay \/ slowDelay' = Least(SlowMax, 2 * slowDelay))
    BY <1>6 DEF Reconnect
  <2>2. PaceInv'
    BY <1>3, <2>1, Bounds DEF PaceInv, Least
  <2>3. incident' # "none"
    <3>1. Recovers
      BY <1>6 DEF Reconnect, PollRepairs
    <3>2. Kind # "none"
      BY <3>1, RepairIsAKind DEF RecoveryInv
    <3> QED
      BY <1>1, <3>2 DEF Observe, GraceOnly
  <2>4. FeedInv'
    BY <1>1, <1>2, <1>4, <2>1 DEF RecoveryInv, FeedInv, Late
  <2> QED
    BY <2>1, <2>2, <2>3, <2>4 DEF RecoveryInv, LabelInv, SilenceIsLabelled
<1> QED
  BY <1>5, <1>6

LEMMA SocketKeeps ==
  ASSUME RecoveryInv, Disconnect \/ Offline \/ Subscribe
  PROVE  RecoveryInv'
<1> USE DEF feedVars, statusVars, trackVars, schedVars, histVars
<1>0. /\ BarTimeout \in Nat /\ FeedInv /\ LabelInv /\ SilenceIsLabelled /\ PaceInv
      /\ dark \in 0..Late /\ barAge \in 0..Late
  BY Bounds DEF RecoveryInv, FeedInv
<1>1. CASE Disconnect
  <2>1. PaceInv'
    BY <1>0, <1>1, SamePace DEF Disconnect
  <2>2. dark' = 0 /\ socket' = "down"
    BY <1>1 DEF Disconnect
  <2> QED
    BY <1>0, <1>1, <2>1, <2>2 DEF Disconnect, RecoveryInv, FeedInv, LabelInv, SilenceIsLabelled,
         Late
<1>2. CASE Offline
  <2>1. PaceInv'
    BY <1>0, <1>2, TimersPace DEF Offline, TimersRun
  <2>2. dark' \in 0..Late /\ (dark' # 0 => dark # 0)
    BY <1>0, <1>2 DEF Offline, Up, Least, Late
  <2>3. FeedInv'
    BY <1>0, <1>2, <2>2 DEF Offline, TimersRun, FeedInv, Late
  <2>4. LabelInv' /\ SilenceIsLabelled'
    BY <1>0, <1>2, <2>2 DEF Offline, LabelInv, SilenceIsLabelled, Late
  <2> QED
    BY <2>1, <2>3, <2>4 DEF RecoveryInv
<1>3. CASE Subscribe
  <2>1. PaceInv'
    BY <1>0, <1>3, SamePace DEF Subscribe
  <2>2. FeedInv'
    <3>1. halted' \in BOOLEAN /\ outage' \in BOOLEAN /\ barSince' \in BOOLEAN
      <4>1. halted' = halted /\ outage' = outage /\ barSince' = FALSE
        BY <1>3 DEF Subscribe
      <4> QED
        BY <1>0, <4>1, Zenon DEF FeedInv
    <3>2. barAge' = 0 /\ dark' = dark /\ fastUsed' = fastUsed /\ socket' = "up"
          /\ pending' = "none"
      BY <1>3 DEF Subscribe
    <3> QED
      BY <1>0, <3>1, <3>2 DEF FeedInv, Late
  <2>3. LabelInv' /\ SilenceIsLabelled'
    BY <1>0, <1>3 DEF Subscribe, LabelInv, SilenceIsLabelled, Late
  <2> QED
    BY <2>1, <2>2, <2>3 DEF RecoveryInv
<1> QED
  BY <1>1, <1>2, <1>3

LEMMA RecoveryStarts == ASSUME Init PROVE RecoveryInv
<1>1. BarTimeout \in Nat /\ SlowBase \in Nat /\ SlowMax \in Nat /\ SlowBase <= SlowMax
  BY Bounds
<1>2. PaceInv
  BY <1>1 DEF Init, PaceInv
<1>3. FeedInv
  <2>1. halted \in BOOLEAN /\ outage \in BOOLEAN /\ barSince \in BOOLEAN
    BY Zenon DEF Init
  <2> QED
    BY <1>1, <2>1 DEF Init, FeedInv, Late
<1>4. LabelInv /\ SilenceIsLabelled
  BY <1>1 DEF Init, LabelInv, SilenceIsLabelled
<1> QED
  BY <1>2, <1>3, <1>4 DEF RecoveryInv

LEMMA RecoveryStep == ASSUME RecoveryInv, [Next]_vars PROVE RecoveryInv'
<1>1. CASE UNCHANGED vars
  BY <1>1 DEF vars, feedVars, statusVars, trackVars, schedVars, histVars, RecoveryInv, FeedInv,
       LabelInv, SilenceIsLabelled, PaceInv, Late
<1> QED
  BY <1>1, CallbackKeeps, PollKeeps, SocketKeeps DEF Next

(* The inductive invariant holds throughout.                                *)
THEOREM RecoverySafe == Spec => []RecoveryInv
<1>1. Init => RecoveryInv
  BY RecoveryStarts
<1>2. RecoveryInv /\ [Next]_vars => RecoveryInv'
  BY RecoveryStep
<1> QED
  BY <1>1, <1>2, PTL DEF Spec

(* Whatever the intervals are: a feed without a bar for longer than the     *)
(* time-out has an open incident, through every repair and reconnect.       *)
THEOREM SilenceLabelled == Spec => []SilenceIsLabelled
<1>1. RecoveryInv => SilenceIsLabelled
  BY DEF RecoveryInv
<1> QED
  BY <1>1, RecoverySafe, PTL

(* Whatever the intervals are and whatever the peer says: after the fast    *)
(* attempts two reconnects are at least a base interval apart.              *)
THEOREM ReconnectsPaced == Spec => SlowReconnectsPaced
<1>1. RecoveryInv /\ [Next]_vars => [SlowAttempt => Up(sinceFull, SlowMax) >= SlowBase]_vars
  BY SlowIsPaced
<1> QED
  BY <1>1, RecoverySafe, PTL DEF Spec, SlowReconnectsPaced
=============================================================================
