----------------------------- MODULE HealthVerdict -----------------------------
(***************************************************************************)
(* The verdicts passed on a recorded day: DailyHealth, which the finalizer *)
(* computes (_stream_health in quote_recorder.py), and the offline health  *)
(* schema v4 (recorder_health_v4.py), which rereads the raw log and        *)
(* publishes its verdict next to the original.  The verdicts are pure      *)
(* functions of the log and stated as such; the state machine writes the   *)
(* log, seals it with the hashes of the original manifest, and reanalyses  *)
(* it, in runs of the recorder's task and of the script that may overlap,  *)
(* on files that may change under them or fail to decode.  A run may die   *)
(* anywhere, and leave a file half written.                                *)
(*                                                                         *)
(* Time is counted in instants; the session is [SessionOpen, SessionClose) *)
(* and the log may hold rows from either side of it.  A log is             *)
(*   bars     the stamps of its BAR_5S rows,                               *)
(*   marks    the SYSTEM rows in the order of their stamps, each with the  *)
(*            meaning of its IB code and, for 2103 and 2104, the farm,     *)
(*   flawed   what makes a day unhealthy whatever else it holds: a market  *)
(*            row whose data type is not LIVE, a RECORDER_ERROR row, or a  *)
(*            segment salvaged from a killed writer.                       *)
(* A file that is published is "none", "torn" (created under its final     *)
(* name, its bytes not all written), or whole: the verdict it gives.       *)
(***************************************************************************)
EXTENDS Integers, Sequences, FiniteSets
LOCAL INSTANCE FiniteSetsExt

CONSTANTS
  SessionOpen, SessionClose,
  BarGap,       \* BAR_GAP_SECONDS, and the threshold of DailyHealth for bars
  FarmNames,    \* real-time market-data farms
  Runs,         \* of write_reanalysis_v4
  MaxMarks,     \* SYSTEM rows of a log
  MaxSealed,    \* rows of a log that is sealed and reanalysed
  MaxTouches    \* changes made to the raw files after the seal

ASSUME VerdictAssumption ==
  /\ {SessionOpen, SessionClose, BarGap, MaxMarks, MaxSealed, MaxTouches} \subseteq Nat
  /\ SessionOpen + BarGap < SessionClose

VARIABLES
  phase,     \* "recording", then "sealed"
  raw,       \* the raw segments on disk: [bars, marks, flawed]
  stamp,     \* stamp of the last row, 0 after the seal
  sealed,    \* what the original manifest.json has the hashes of
  touches,   \* how often the files were changed since: size, times, inode
  stage,     \* of each run
  before,    \* touches when it first hashed the files
  report,    \* its verdict on the rows it decoded
  health,    \* health-v4.json
  amendment  \* manifest-amendment-v4.json

logVars == <<phase, raw, stamp, sealed>>
runVars == <<stage, before, report>>
sideVars == <<health, amendment>>
vars == <<logVars, touches, runVars, sideVars>>

Empty == [bars |-> {}, marks |-> <<>>, flawed |-> FALSE]
Never == -1
Within(a, low, high) == Max({low, Min({a, high})})
Clipped(stamps) == {Within(t, SessionOpen, SessionClose) : t \in stamps}

\* Neighbours in a set of stamps.
Neighbours(S) == {p \in S \X S : p[1] < p[2] /\ ~\E t \in S : p[1] < t /\ t < p[2]}
Long(p) == p[2] - p[1] > BarGap

-----------------------------------------------------------------------------
(* DailyHealth: gaps_over_threshold and missing_seconds of a stream.       *)

DailyGaps(stamps) ==
  IF stamps = {} THEN 1
  ELSE LET clipped == Clipped(stamps)
           edges == {<<SessionOpen, Min(clipped)>>, <<Max(clipped), SessionClose>>}
       IN Cardinality({p \in edges \cup Neighbours(clipped) : Long(p)})

\* What the row at t adds to internal_missing, if there is one.
Adds(clipped, t) ==
  LET previous == Max({s \in clipped : s < t})
  IN IF t \in clipped /\ Min(clipped) < t /\ Long(<<previous, t>>) THEN t - previous ELSE 0

DailyMissing(stamps) ==
  IF stamps = {} THEN SessionClose - SessionOpen
  ELSE LET clipped == Clipped(stamps)
           internal[t \in 0..SessionClose] ==
             IF t = 0 THEN 0 ELSE internal[t - 1] + Adds(clipped, t)
       IN Min(clipped) - SessionOpen + SessionClose - Max(clipped) + internal[SessionClose]

-----------------------------------------------------------------------------
(* Schema v4.                                                              *)

(* _gaps: from the open to the close, and from row to row between.         *)
Gaps(stamps) == Neighbours(Clipped(stamps) \cup {SessionOpen, SessionClose})

(* Every loop over the SYSTEM rows breaks at the first that is later than  *)
(* its target: so many rows it sees.                                       *)
Until(marks, t) ==
  CHOOSE n \in 0..Len(marks) :
    /\ \A i \in 1..n : marks[i].at <= t
    /\ n < Len(marks) => marks[n + 1].at > t

(* _status_state_at.                                                       *)
Noted(s, m) ==
  CASE m.code = "lost" -> [s EXCEPT !.lost = TRUE]
    [] m.code = "restored" -> [s EXCEPT !.lost = FALSE]
    [] m.code = "broken" -> [s EXCEPT !.broken = @ \cup {m.farm}]
    [] m.code = "ok" -> [s EXCEPT !.broken = @ \ {m.farm}]
    [] OTHER -> s
StatusAt(marks, t) ==
  LET after[i \in 0..Len(marks)] ==
        IF i = 0 THEN [lost |-> FALSE, broken |-> {}] ELSE Noted(after[i - 1], marks[i])
  IN after[Until(marks, t)]

NoFarm == "none"
Meanings ==
  ({"lost", "restored", "auxBroken", "auxOk", "refused", "reset"} \X {NoFarm})
    \cup ({"broken", "ok"} \X FarmNames)

Finding(class, from, to) == [class |-> class, from |-> from, to |-> to]

(* _connectivity_outages and _paired_auxiliary_advisories: the first mark  *)
(* of the fault opens a finding, the first repair closes it, and the close *)
(* of the session closes the rest.  (An advisory of no length, which the   *)
(* code records as well, covers no instant and is left out.)               *)
Ended(acc, at, class) ==
  LET from == Max({acc.since, SessionOpen})
  IN IF acc.since # Never /\ from < at
     THEN acc.found \cup {Finding(class, from, at)}
     ELSE acc.found
Pairing(acc, m, fault, repair, class) ==
  CASE m.code = fault /\ acc.since = Never -> [acc EXCEPT !.since = m.at]
    [] m.code = repair -> [since |-> Never, found |-> Ended(acc, m.at, class)]
    [] OTHER -> acc
Paired(marks, fault, repair, class) ==
  LET after[i \in 0..Len(marks)] ==
        IF i = 0 THEN [since |-> Never, found |-> {}]
        ELSE Pairing(after[i - 1], marks[i], fault, repair, class)
  IN Ended(after[Until(marks, SessionClose)], SessionClose, class)

ConnectivityOutages(marks) == Paired(marks, "lost", "restored", "FEED_OUTAGE")
Advisories(marks) == Paired(marks, "auxBroken", "auxOk", "AUXILIARY_FARM_DEGRADED")

(* _bar_gap_findings: the gap is cut at every change of the feed's state,  *)
(* and a piece without connectivity is left to its own finding.            *)
Relevant == {"lost", "restored", "broken", "ok"}
Boundaries_uncut(marks, gap) == {gap[1], gap[2]} \* mutant: one finding per gap
Boundaries(marks, gap) ==
  {gap[1], gap[2]}
    \cup {t \in gap[1] + 1 .. gap[2] - 1 :
            \E i \in DOMAIN marks : marks[i].at = t /\ marks[i].code \in Relevant}
BarGapFindings(marks, gap) ==
  {Finding(IF StatusAt(marks, p[1]).broken # {} THEN "FEED_OUTAGE" ELSE "GAP_SUSPECTED",
           p[1], p[2]) :
     p \in {q \in Neighbours(Boundaries(marks, gap)) : ~StatusAt(marks, q[1]).lost}}

(* analyze_rows_v4: what is wrong with the bars, and everything else.      *)
BarProblems(log) ==
  ConnectivityOutages(log.marks)
    \cup UNION {BarGapFindings(log.marks, gap) : gap \in {p \in Gaps(log.bars) : Long(p)}}
MarkProblems(log) == {i \in DOMAIN log.marks : log.marks[i].code \in {"refused", "reset"}}
HealthOk(log) ==
  /\ BarProblems(log) = {} /\ MarkProblems(log) = {}
  /\ log.bars # {} /\ ~log.flawed

-----------------------------------------------------------------------------
(* The recorder writes rows in the order of their stamps, and seals them.  *)

Init ==
  /\ phase = "recording" /\ raw = Empty /\ stamp = 0 /\ sealed = Empty /\ touches = 0
  /\ stage = [r \in Runs |-> "idle"]
  /\ before = [r \in Runs |-> 0] /\ report = [r \in Runs |-> "none"]
  /\ health = "none" /\ amendment = "none"

Row ==
  /\ phase = "recording"
  /\ stamp' \in stamp .. SessionClose + 1
  /\ UNCHANGED <<phase, sealed, touches, runVars, sideVars>>

WriteBar == Row /\ raw' = [raw EXCEPT !.bars = @ \cup {stamp'}]

WriteMark ==
  /\ Row /\ Len(raw.marks) < MaxMarks
  /\ \E m \in Meanings :
       raw' = [raw EXCEPT !.marks = Append(@, [at |-> stamp', code |-> m[1], farm |-> m[2]])]

WriteFlaw == Row /\ raw' = [raw EXCEPT !.flawed = TRUE]

Seal ==
  /\ phase = "recording" /\ Cardinality(raw.bars) + Len(raw.marks) <= MaxSealed
  /\ phase' = "sealed" /\ sealed' = raw /\ stamp' = 0
  /\ UNCHANGED <<raw, touches, runVars, sideVars>>

-----------------------------------------------------------------------------
(* write_reanalysis_v4.                                                    *)

Verdict(log) == IF HealthOk(log) THEN "healthy" ELSE "not healthy"

Goes(r, from, to) == stage[r] = from /\ stage' = [stage EXCEPT ![r] = to]

(* Neither target exists and the hashes are those of the manifest.         *)
Begin(r) ==
  /\ phase = "sealed" /\ Goes(r, "idle", "hashed")
  /\ health = "none" /\ amendment = "none"
  /\ raw = sealed
  /\ before' = [before EXCEPT ![r] = touches]
  /\ UNCHANGED <<logVars, touches, report, sideVars>>

(* iter_raw_rows decodes every segment once.  An error in the middle of    *)
(* one is no reason to stop: its other rows are skipped and integrity gets *)
(* a read_error, which makes the day unhealthy whatever the rows said.     *)
Read(r) ==
  /\ Goes(r, "hashed", "read")
  /\ \E verdict \in {Verdict(raw), "unreadable"} :
       report' = [report EXCEPT ![r] = verdict]
  /\ UNCHANGED <<logVars, touches, before, sideVars>>

(* The files are captured again, down to their times and inodes.           *)
SameFiles_hash(r) == raw = sealed \* mutant: contents alone are compared
SameFiles(r) == touches = before[r]

Attest(r) ==
  /\ Goes(r, "read", "attested") /\ SameFiles(r)
  /\ UNCHANGED <<logVars, touches, before, report, sideVars>>

(* _create_durable: O_EXCL under the final name, then the bytes and fsync. *)
CreateHealth(r) ==
  /\ Goes(r, "attested", "writing health")
  /\ health = "none" /\ health' = "torn"
  /\ UNCHANGED <<logVars, touches, before, report, amendment>>

WriteHealth(r) ==
  /\ Goes(r, "writing health", "half") /\ health' = report[r]
  /\ UNCHANGED <<logVars, touches, before, report, amendment>>

CreateAmendment(r) ==
  /\ Goes(r, "half", "writing amendment")
  /\ amendment = "none" /\ amendment' = "torn"
  /\ UNCHANGED <<logVars, touches, before, report, health>>

Finish(r) ==
  /\ stage' = [stage EXCEPT ![r] = "idle"]
  /\ before' = [before EXCEPT ![r] = 0]
  /\ report' = [report EXCEPT ![r] = "none"]

WriteAmendment(r) ==
  /\ stage[r] = "writing amendment" /\ amendment' = report[r]
  /\ Finish(r)
  /\ UNCHANGED <<logVars, touches, health>>

(* A refusal, an error that iter_raw_rows does not swallow, a write that   *)
(* fails, or a crash.  A file stays as it is: absent, torn or whole.       *)
Abandon(r) ==
  /\ stage[r] # "idle"
  /\ Finish(r)
  /\ UNCHANGED <<logVars, touches, sideVars>>

(* The host goes down: a file that was not yet synced may be gone.         *)
PowerLoss ==
  /\ phase = "sealed"
  /\ stage' = [r \in Runs |-> "idle"]
  /\ before' = [r \in Runs |-> 0] /\ report' = [r \in Runs |-> "none"]
  /\ health' \in IF health = "torn" THEN {"torn", "none"} ELSE {health}
  /\ amendment' \in IF amendment = "torn" THEN {"torn", "none"} ELSE {amendment}
  /\ UNCHANGED <<logVars, touches>>

(* Somebody rewrites a raw file: a row is lost, or it is put back.         *)
Touch ==
  /\ phase = "sealed" /\ touches < MaxTouches
  /\ touches' = touches + 1
  /\ \/ \E t \in raw.bars : raw' = [raw EXCEPT !.bars = @ \ {t}]
     \/ raw' = sealed
  /\ UNCHANGED <<phase, stamp, sealed, runVars, sideVars>>

Publish(r) == CreateHealth(r) \/ WriteHealth(r) \/ CreateAmendment(r) \/ WriteAmendment(r)

Next ==
  \/ WriteBar \/ WriteMark \/ WriteFlaw \/ Seal
  \/ \E r \in Runs : Begin(r) \/ Read(r) \/ Attest(r) \/ Publish(r) \/ Abandon(r)
  \/ PowerLoss \/ Touch

Spec == Init /\ [][Next]_vars

-----------------------------------------------------------------------------
(* What the log says of one instant of the session, without intervals.     *)
Session == SessionOpen .. SessionClose - 1

\* A fault is reported by t and its repair not yet.
Stands(marks, t, fault, repair, farm) ==
  \E i \in DOMAIN marks :
    /\ marks[i].code = fault /\ marks[i].farm = farm /\ marks[i].at <= t
    /\ ~\E j \in i + 1 .. Len(marks) :
          marks[j].code = repair /\ marks[j].farm = farm /\ marks[j].at <= t

\* t lies in a part of the session, longer than BarGap, without a bar.
DarkAt(bars, t) ==
  \E a, b \in SessionOpen .. SessionClose :
    a <= t /\ t < b /\ b - a > BarGap /\ ~\E s \in bars : a < s /\ s < b

Label(log, t) ==
  IF Stands(log.marks, t, "lost", "restored", NoFarm) THEN {"FEED_OUTAGE"}
  ELSE IF ~DarkAt(log.bars, t) THEN {}
  ELSE IF \E f \in FarmNames : Stands(log.marks, t, "broken", "ok", f)
       THEN {"FEED_OUTAGE"} ELSE {"GAP_SUSPECTED"}

Covering(findings, t) == {f \in findings : f.from <= t /\ t < f.to}

\* Before the first bar, after the last one, or in a long gap.
MissingAt(bars, t) ==
  \/ ~\E s \in bars : s <= t
  \/ ~\E s \in bars : s > t
  \/ DarkAt(bars, t)

(* Each instant of the session in which IB was unreachable, or bars were   *)
(* missing for longer than the threshold, is charged by exactly one        *)
(* finding, and by the right one.                                          *)
ChargedOnce(log) ==
  \A t \in Session :
    LET covering == Covering(BarProblems(log), t)
    IN /\ \A f, g \in covering : f = g
       /\ {f.class : f \in covering} = Label(log, t)

(* Auxiliary farms "can neither create nor hide" an outage.                *)
AdvisoriesApart(log) ==
  \A t \in Session :
    Covering(Advisories(log.marks), t) # {}
      <=> Stands(log.marks, t, "auxBroken", "auxOk", NoFarm)

(* A day with any instant to be charged is not healthy.                    *)
HealthyIsClean(log) == HealthOk(log) => \A t \in Session : Label(log, t) = {}

(* The day's own report counts the same gaps, and measures their instants. *)
ReportsAgree(log) ==
  /\ DailyGaps(log.bars) = Cardinality({p \in Gaps(log.bars) : Long(p)})
  /\ DailyMissing(log.bars) = Cardinality({t \in Session : MissingAt(log.bars, t)})

(* Module docstring of recorder_health_v4 and _stream_health: whatever     *)
(* the recorder writes, all of this is true of the log so far.             *)
VerdictIsExact ==
  phase = "recording" =>
    ChargedOnce(raw) /\ AdvisoriesApart(raw) /\ HealthyIsClean(raw) /\ ReportsAgree(raw)

(* write_reanalysis_v4: "amendment is the completion marker" and           *)
(* "existing targets are never replaced."  However runs overlap, whatever  *)
(* happens to the raw files meanwhile and wherever a run dies:             *)
(*   - an amendment, even a torn one, is there only next to a whole        *)
(*     health file;                                                        *)
(*   - a whole amendment agrees with the health file next to it, and is    *)
(*     the verdict on the log the original manifest sealed, unless both    *)
(*     carry the read_error that made them unhealthy.                      *)
(* So a day is never upgraded, and one that was healthy is denied only     *)
(* with the failed reading on record.                                      *)
AmendmentIsOfTheSealedLog ==
  /\ amendment # "none" => health \notin {"none", "torn"}
  /\ amendment \notin {"none", "torn"} =>
       amendment = health /\ amendment \in {Verdict(sealed), "unreadable"}
=============================================================================
