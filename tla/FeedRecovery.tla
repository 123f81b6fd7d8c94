---------------------------- MODULE FeedRecovery ----------------------------
(***************************************************************************)
(* The recorder's judgement of the market-data feed and its repairs:       *)
(* MarketLiveness (is silence explained, is something lost),               *)
(* LivenessIncidentTracker (what the log says about it) and                *)
(* RecoveryScheduler (which repair, how often), as one iteration of the    *)
(* recorder's loop puts them together, and the callbacks that feed them.   *)
(*                                                                         *)
(* Time is counted in polls.  Ages are kept up to the first value that is  *)
(* late; a timer is the number of polls left, 0 when due or not set (the   *)
(* scheduler treats the two alike).                                        *)
(***************************************************************************)
EXTENDS Naturals

CONSTANTS
  BarTimeout,    \* bar_timeout_seconds
  IdleTimeout,   \* transport_idle_timeout_seconds
  BarsOnly,      \* bars_only_seconds
  SlowBase,      \* slow_base_seconds
  SlowMax,       \* slow_max_seconds
  FastAttempts,  \* fast_attempts
  Farms          \* real-time market-data farms

ASSUME FeedAssumption ==
  /\ {BarTimeout, IdleTimeout, BarsOnly, SlowBase} \subseteq Nat \ {0}
  /\ SlowMax \in Nat /\ SlowMax >= SlowBase /\ FastAttempts \in Nat

VARIABLES
  socket,     \* "up": subscribed; "down": to be connected and subscribed
  barAge,     \* heartbeat_age
  anyAge,     \* last_market_event_age
  quiet,      \* polls since anything at all arrived
  transport,  \* _transport_evidence
  halted,     \* _halted is 1 or 2
  outage,     \* 1100 is in _outages
  degraded,   \* _realtime_farms_degraded
  pending,    \* _pending_recover: "none", "lost", "reset" or "idle"
  incident,   \* kind of the tracker's open incident, or "none"
  barSince,   \* this subscription delivered a bar after the incident began
  fastUsed,   \* fast_used
  slowDelay,  \* _slow_delay
  nextBars,   \* _next_bars
  nextFull,   \* _next_full
  repair,     \* plan of the last poll
  dark,       \* history: polls without a bar, whatever reconnects were
              \* planned; a socket that drops is recorded as such and
              \* starts it anew
  sinceFull   \* history: polls since the last planned reconnect or bar

feedVars == <<barAge, anyAge, quiet, transport>>
statusVars == <<halted, outage, degraded, pending>>
trackVars == <<incident, barSince>>
schedVars == <<fastUsed, slowDelay, nextBars, nextFull>>
histVars == <<dark, sinceFull>>
vars == <<socket, feedVars, statusVars, trackVars, schedVars, repair,
          histVars>>

Least(a, b) == IF a < b THEN a ELSE b
Up(n, cap) == Least(n + 1, cap)
Down(n) == IF n = 0 THEN 0 ELSE n - 1

Late == BarTimeout + 1

Init ==
  /\ socket = "down"
  /\ barAge = 0 /\ anyAge = 0 /\ quiet = 0 /\ transport = FALSE
  /\ halted = FALSE /\ outage = FALSE /\ degraded = {} /\ pending = "none"
  /\ incident = "none" /\ barSince = FALSE
  /\ fastUsed = 0 /\ slowDelay = SlowBase /\ nextBars = 0 /\ nextFull = 0
  /\ repair = "none"
  /\ dark = 0 /\ sinceFull = SlowMax

-----------------------------------------------------------------------------
(* Callbacks.  Everything that arrives is evidence of the transport.        *)

Arrives == socket = "up" /\ transport' = TRUE /\ quiet' = 0

(* A bar resets the scheduler; no other evidence does.                      *)
Bar ==
  /\ Arrives
  /\ barAge' = 0 /\ anyAge' = 0
  /\ barSince' = (incident # "none")
  /\ fastUsed' = 0 /\ slowDelay' = SlowBase /\ nextBars' = 0 /\ nextFull' = 0
  /\ dark' = 0 /\ sinceFull' = SlowMax
  /\ UNCHANGED <<socket, statusVars, incident, repair>>

Quote ==
  /\ Arrives
  /\ anyAge' = 0
  /\ UNCHANGED <<socket, barAge, statusVars, trackVars, schedVars, repair,
                 histVars>>

(* note_activity: a due attempt stays due, a later one comes nearer.        *)
NoteActivity_rearms == \* mutant: evidence makes the next attempt due
  /\ slowDelay' = SlowBase
  /\ nextFull' = 0
  /\ UNCHANGED <<fastUsed, nextBars>>

NoteActivity ==
  /\ slowDelay' = SlowBase
  /\ nextFull' = Least(nextFull, SlowBase)
  /\ UNCHANGED <<fastUsed, nextBars>>

Probe ==
  /\ Arrives
  /\ NoteActivity
  /\ UNCHANGED <<socket, barAge, anyAge, statusVars, trackVars, repair,
                 histVars>>

(* note_status and note_activity, from on_error.                            *)
Status ==
  /\ Arrives
  /\ NoteActivity
  /\ UNCHANGED <<socket, barAge, anyAge, halted, trackVars, repair, dark,
                 sinceFull>>

ConnectivityLost ==          \* 1100
  /\ Status
  /\ outage' = TRUE
  /\ UNCHANGED <<degraded, pending>>

RestoredDataLost ==          \* 1101
  /\ Status
  /\ outage' = FALSE /\ pending' = "lost"
  /\ UNCHANGED degraded

RestoredDataKept ==          \* 1102
  /\ Status
  /\ outage' = FALSE /\ pending' = "none"
  /\ UNCHANGED degraded

BarsReset ==                 \* 10225
  /\ Status
  /\ pending' = "reset"
  /\ UNCHANGED <<outage, degraded>>

FarmStatus ==                \* 2103, 2104
  /\ Status
  /\ \E f \in Farms : degraded' \in {degraded \cup {f}, degraded \ {f}}
  /\ UNCHANGED <<outage, pending>>

(* The peer has been silent for the whole idle timeout; the timer is set    *)
(* again.                                                                   *)
TransportIdle ==
  /\ socket = "up" /\ quiet >= IdleTimeout
  /\ transport' = FALSE /\ quiet' = 0 /\ pending' = "idle"
  /\ UNCHANGED <<socket, barAge, anyAge, halted, outage, degraded, trackVars,
                 schedVars, repair, histVars>>

(* Generic tick 49, read off the probe at the next poll.                    *)
Halt ==
  /\ socket = "up"
  /\ halted' = ~halted
  /\ UNCHANGED <<socket, feedVars, outage, degraded, pending, trackVars,
                 schedVars, repair, histVars>>

-----------------------------------------------------------------------------
(* One poll: a unit of time, then assess, observe, and the scheduler.       *)

Explained == halted \/ outage
Overdue == Up(barAge, Late) > BarTimeout

(* assess, in the order of its returns.                                     *)
Waits == Explained \/ (pending = "none" /\ Overdue /\ degraded # {})
Recovers == ~Waits /\ (pending # "none" \/ Overdue)

Kind ==
  CASE halted -> "EXPECTED_SILENCE"
    [] ~halted /\ outage -> "FEED_OUTAGE"
    [] ~Explained /\ pending = "lost" -> "FEED_OUTAGE"
    [] ~Explained /\ pending \in {"reset", "idle"} -> "GAP_SUSPECTED"
    [] ~Explained /\ pending = "none" /\ Overdue ->
         IF degraded = {} THEN "GAP_SUSPECTED" ELSE "FEED_OUTAGE"
    [] OTHER -> "none"

GraceOnly_never == FALSE \* mutant: any calm assessment closes the incident

(* observe: a calm assessment without a bar of this subscription since the  *)
(* incident began is not recovery, and leaves it open.                      *)
GraceOnly == incident # "none" /\ Kind = "none" /\ ~barSince

Observe ==
  /\ incident' = IF GraceOnly THEN incident ELSE Kind
  /\ barSince' = (barSince /\ incident' = incident)

TimePasses ==
  /\ barAge' = Up(barAge, Late) /\ anyAge' = Up(anyAge, Late)
  /\ quiet' = Up(quiet, IdleTimeout)
  /\ dark' = Up(dark, Late) /\ sinceFull' = Up(sinceFull, SlowMax)

(* plan: what IB asks for, else the smallest repair the evidence allows.    *)
Evidence == Up(anyAge, Late) <= BarTimeout
Asked == [lost |-> "all_market_streams", reset |-> "bars_only"]

Plan_fastOnly == \* mutant: no slow recovery after the fast attempts
  IF pending \in DOMAIN Asked THEN Asked[pending]
  ELSE IF Evidence \/ transport
  THEN IF Down(nextBars) > 0 THEN "none"
       ELSE IF Evidence THEN "bars_only" ELSE "all_market_streams"
  ELSE IF fastUsed < FastAttempts THEN "full_reconnect" ELSE "none"

Plan ==
  IF pending \in DOMAIN Asked THEN Asked[pending]
  ELSE IF Evidence \/ transport
  THEN IF Down(nextBars) > 0 THEN "none"
       ELSE IF Evidence THEN "bars_only" ELSE "all_market_streams"
  ELSE IF fastUsed < FastAttempts \/ Down(nextFull) = 0 THEN "full_reconnect"
       ELSE "none"

TimersRun ==
  /\ nextBars' = Down(nextBars) /\ nextFull' = Down(nextFull)
  /\ UNCHANGED <<fastUsed, slowDelay>>

PollCalm ==
  /\ socket = "up" /\ ~Recovers
  /\ Observe /\ TimePasses /\ TimersRun
  /\ repair' = "none"
  /\ UNCHANGED <<socket, transport, statusVars>>

PollRepairs ==
  /\ socket = "up" /\ Recovers
  /\ Observe
  /\ pending' = "none"
  /\ repair' = Plan
  /\ UNCHANGED <<transport, halted, outage, degraded>>

NothingDue ==
  /\ PollRepairs /\ repair' = "none"
  /\ TimePasses /\ TimersRun
  /\ UNCHANGED socket

Resubscribe ==
  /\ PollRepairs /\ repair' \in {"bars_only", "all_market_streams"}
  /\ TimePasses
  /\ nextBars' = BarsOnly /\ nextFull' = Down(nextFull)
  /\ UNCHANGED <<socket, fastUsed, slowDelay>>

Reconnect ==
  /\ PollRepairs /\ repair' = "full_reconnect"
  /\ socket' = "down"
  /\ barAge' = Up(barAge, Late) /\ anyAge' = Up(anyAge, Late)
  /\ quiet' = Up(quiet, IdleTimeout) /\ dark' = Up(dark, Late)
  /\ nextBars' = Down(nextBars) /\ nextFull' = slowDelay
  /\ IF fastUsed < FastAttempts
     THEN fastUsed' = fastUsed + 1 /\ UNCHANGED slowDelay
     ELSE slowDelay' = Least(SlowMax, 2 * slowDelay) /\ UNCHANGED fastUsed
  /\ sinceFull' = 0

Poll == PollCalm \/ NothingDue \/ Resubscribe \/ Reconnect

-----------------------------------------------------------------------------
(* The socket drops by itself, or time passes until a new one is there.     *)
Disconnect ==
  /\ socket = "up"
  /\ socket' = "down"
  /\ dark' = 0 /\ repair' = "none"
  /\ UNCHANGED <<feedVars, statusVars, trackVars, schedVars, sinceFull>>

Offline ==
  /\ socket = "down"
  /\ TimersRun
  /\ dark' = IF dark = 0 THEN 0 ELSE Up(dark, Late)
  /\ sinceFull' = Up(sinceFull, SlowMax)
  /\ UNCHANGED <<socket, feedVars, statusVars, trackVars, repair>>

(* _subscribe and subscription_started.                                     *)
Subscribe ==
  /\ socket = "down"
  /\ socket' = "up"
  /\ barAge' = 0 /\ anyAge' = 0 /\ quiet' = 0 /\ transport' = TRUE
  /\ pending' = "none" /\ barSince' = FALSE /\ repair' = "none"
  /\ UNCHANGED <<halted, outage, degraded, incident, schedVars, histVars>>

Callbacks ==
  \/ Bar \/ Quote \/ Probe \/ ConnectivityLost \/ RestoredDataLost
  \/ RestoredDataKept \/ BarsReset \/ FarmStatus \/ TransportIdle \/ Halt

Next == Callbacks \/ Poll \/ Disconnect \/ Offline \/ Subscribe

(* The loop turns as long as the process lives, and a connection attempt    *)
(* succeeds in the end.                                                     *)
Spec == Init /\ [][Next]_vars /\ WF_vars(Poll) /\ WF_vars(Subscribe)

-----------------------------------------------------------------------------
(* As long as no bar came, and however often the recorder repaired or       *)
(* reconnected meanwhile, the log says so: an incident is open.  A          *)
(* subscription that has just begun is not a recovery (observe: "A          *)
(* reconnect/grace reset is not recovery evidence").                        *)
SilenceIsLabelled == dark > BarTimeout => incident # "none"

(* Once the fast attempts are spent there is at most one reconnect per base *)
(* interval, whatever the peer says meanwhile (note_activity: "one attempt  *)
(* per base interval however chatty the peer gets").                        *)
SlowAttempt == Reconnect /\ fastUsed' = fastUsed
SlowReconnectsPaced == [][SlowAttempt => Up(sinceFull, SlowMax) >= SlowBase]_vars

(* A feed that stays silent without an explanation is repaired again and    *)
(* again: no timer, plan or reset of a clock ends the attempts.             *)
Unexplained == ~Explained /\ degraded = {}
SilenceIsRepaired ==
  <>[](dark > 0 /\ Unexplained) => []<>(repair # "none")
=============================================================================
