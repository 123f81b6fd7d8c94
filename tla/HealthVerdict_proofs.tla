-------------------------- MODULE HealthVerdict_proofs --------------------------
(***************************************************************************)
(* For every session, threshold, set of farms, log, number of runs and of  *)
(* changes to the files, and every place to die: a completed reanalysis    *)
(* gives the verdict on the sealed log, or says that it could not read it  *)
(* (AmendmentsAreTrue); and the verdicts passed on a log say of each of    *)
(* its instants what the log says (VerdictsAreExact).                      *)
(***************************************************************************)
EXTENDS HealthVerdict, WellFoundedInduction, FiniteSetTheorems, TLAPS
LOCAL INSTANCE FiniteSetsExt

(* The verdicts a run may publish.                                         *)
Truths == {Verdict(sealed), "unreadable"}
Publishing == {"writing health", "half", "writing amendment"}

(* Verdicts are the contents of whole files.                               *)
LEMMA TruthsAreWhole == "none" \notin Truths /\ "torn" \notin Truths
BY DEF Truths, Verdict

(* Until the seal no run has begun.                                        *)
Runners ==
  /\ touches \in Nat
  /\ stage \in [Runs -> {"idle", "hashed", "read", "attested"} \cup Publishing]
  /\ before \in [Runs -> Nat]
  /\ report \in [Runs -> {"none", "healthy", "not healthy", "unreadable"}]
  /\ phase = "recording" => stage = [r \in Runs |-> "idle"]

(* While the files are as a run first captured them they are the sealed    *)
(* ones, and so are the rows it decodes; once it has captured them again   *)
(* its verdict is true for ever.                                           *)
CapturedBy(r) ==
  /\ before[r] <= touches
  /\ stage[r] \in {"hashed", "read"} /\ touches = before[r] => raw = sealed
  /\ stage[r] = "read" /\ touches = before[r] => report[r] \in Truths
  /\ stage[r] \in {"attested"} \cup Publishing => report[r] \in Truths
Captured == \A r \in Runs : CapturedBy(r)

(* One run at most publishes, the one that created the health file; what   *)
(* is there tells how far it came.                                         *)
Progress(r) ==
  /\ stage[r] = "writing health" => health = "torn" /\ amendment = "none"
  /\ stage[r] = "half" => health = report[r] /\ amendment = "none"
  /\ stage[r] = "writing amendment" => health = report[r] /\ amendment = "torn"
Created ==
  /\ \A r, q \in Runs : stage[r] \in Publishing /\ stage[q] \in Publishing => r = q
  /\ \A r \in Runs : Progress(r)
  /\ phase = "recording" => health = "none" /\ amendment = "none"
  /\ AmendmentIsOfTheSealedLog

Publication == Runners /\ Captured /\ Created

(* Nothing is published while the log is recorded.                         *)
LEMMA PublicationInit == Init => Publication
<1> SUFFICES ASSUME Init PROVE Publication
  OBVIOUS
<1>1. Runners
  BY DEF Init, Runners
<1>2. Captured
  BY DEF Init, Captured, CapturedBy, Publishing
<1>3. Created
  BY DEF Init, Created, Progress, Publishing, AmendmentIsOfTheSealedLog
<1> QED
  BY <1>1, <1>2, <1>3 DEF Publication

(* The steps that write the log, seal it or lose the power leave no run at *)
(* work.                                                                   *)
LEMMA NobodyRuns ==
  ASSUME Runners, WriteBar \/ WriteMark \/ WriteFlaw \/ Seal \/ PowerLoss
  PROVE  stage' = [r \in Runs |-> "idle"] /\ UNCHANGED touches
BY DEF Runners, WriteBar, WriteMark, WriteFlaw, Row, Seal, PowerLoss, runVars

(* A run is somewhere in write_reanalysis_v4, and begins after the seal.   *)
LEMMA RunnersStep == Runners /\ [Next]_vars => Runners'
<1> SUFFICES ASSUME Runners, [Next]_vars PROVE Runners'
  OBVIOUS
<1> USE DEF Runners, Publishing, logVars, runVars
<1>1. CASE WriteBar \/ WriteMark \/ WriteFlaw
  BY <1>1 DEF WriteBar, WriteMark, WriteFlaw, Row
<1>2. CASE Seal \/ PowerLoss \/ Touch
  <2>1. CASE Seal
    BY <2>1 DEF Seal
  <2>2. CASE PowerLoss
    BY <2>2 DEF PowerLoss
  <2>3. CASE Touch
    <3>1. touches' = touches + 1 /\ UNCHANGED <<phase, stage, before, report>>
      BY <2>3 DEF Touch
    <3>2. touches \in Nat
      OBVIOUS
    <3>3. touches' \in Nat
      <4> HIDE DEF Runners
      <4> QED
        BY <3>1, <3>2
    <3> QED
      BY <3>1, <3>3
  <2> QED
    BY <1>2, <2>1, <2>2, <2>3
<1>3. ASSUME NEW r \in Runs, Begin(r) \/ Attest(r) PROVE Runners'
  BY <1>3 DEF Begin, Attest, Goes
<1>4. ASSUME NEW r \in Runs, Read(r) PROVE Runners'
  <2>1. Verdict(raw) \in {"healthy", "not healthy"}
    BY DEF Verdict
  <2> QED
    BY <1>4, <2>1 DEF Read, Goes
<1>5. ASSUME NEW r \in Runs, Publish(r) \/ Abandon(r) PROVE Runners'
  <2>1. CASE CreateHealth(r) \/ WriteHealth(r) \/ CreateAmendment(r)
    BY <2>1 DEF CreateHealth, WriteHealth, CreateAmendment, Goes
  <2>2. CASE WriteAmendment(r) \/ Abandon(r)
    <3>1. Finish(r) /\ UNCHANGED <<phase, touches>> /\ stage[r] # "idle"
      BY <2>2 DEF WriteAmendment, Abandon
    <3>2. before' \in [Runs -> Nat]
      BY <3>1 DEF Finish
    <3>3. /\ stage' \in [Runs -> {"idle", "hashed", "read", "attested"} \cup Publishing]
          /\ report' \in [Runs -> {"none", "healthy", "not healthy", "unreadable"}]
      BY <3>1 DEF Finish
    <3>4. phase' # "recording"
      BY <3>1
    <3> QED
      BY <3>1, <3>2, <3>3, <3>4
  <2> QED
    BY <1>5, <2>1, <2>2 DEF Publish
<1>6. CASE UNCHANGED vars
  BY <1>6 DEF vars
<1> QED
  BY <1>1, <1>2, <1>3, <1>4, <1>5, <1>6 DEF Next

(* What a step of one run leaves as it is.                                 *)
LEMMA OneRunMoves ==
  ASSUME Runners, NEW r \in Runs,
         Begin(r) \/ Read(r) \/ Attest(r) \/ Publish(r) \/ Abandon(r)
  PROVE  /\ UNCHANGED <<logVars, touches>> /\ Truths' = Truths
         /\ \A q \in Runs : q # r => /\ stage'[q] = stage[q] /\ before'[q] = before[q]
                                     /\ report'[q] = report[q]
<1>1. CASE Begin(r) \/ Read(r) \/ Attest(r)
  BY <1>1 DEF Begin, Read, Attest, Goes, Runners, logVars, Truths, Verdict
<1>2. CASE CreateHealth(r) \/ WriteHealth(r) \/ CreateAmendment(r)
  BY <1>2 DEF CreateHealth, WriteHealth, CreateAmendment, Goes, Runners, logVars, Truths, Verdict
<1>3. CASE WriteAmendment(r) \/ Abandon(r)
  BY <1>3 DEF WriteAmendment, Abandon, Finish, Runners, logVars, Truths, Verdict
<1> QED
  BY <1>1, <1>2, <1>3 DEF Publish

(* A run that has ended owes nothing.                                      *)
LEMMA AtRest ==
  ASSUME Runners, NEW r \in Runs, Finish(r), UNCHANGED touches
  PROVE  CapturedBy(r)'
<1>1. stage'[r] = "idle" /\ before'[r] = 0
  BY DEF Finish, Runners
<1>2. touches' \in Nat
  BY DEF Runners
<1>3. before'[r] <= touches'
  BY <1>1, <1>2
<1> QED
  BY <1>1, <1>3 DEF CapturedBy, Publishing

(* No change of the files between its two captures goes unnoticed by a run. *)
LEMMA CapturedStep == Runners /\ Captured /\ [Next]_vars => Captured'
<1> SUFFICES ASSUME Runners, Captured, [Next]_vars, NEW q \in Runs PROVE CapturedBy(q)'
  BY DEF Captured
<1>0. CapturedBy(q) /\ before[q] \in Nat /\ touches \in Nat
  BY DEF Captured, Runners
<1>1. CASE WriteBar \/ WriteMark \/ WriteFlaw \/ Seal \/ PowerLoss
  <2>1. stage'[q] = "idle" /\ touches' = touches
    BY <1>1, NobodyRuns
  <2>2. before'[q] = 0 \/ before'[q] = before[q]
    BY <1>1 DEF WriteBar, WriteMark, WriteFlaw, Row, Seal, PowerLoss, runVars
  <2>3. before'[q] <= touches'
    BY <1>0, <2>1, <2>2 DEF CapturedBy
  <2> QED
    BY <2>1, <2>3 DEF CapturedBy, Publishing
<1>2. CASE Touch
  <2>1. /\ touches' = touches + 1 /\ UNCHANGED <<sealed, stage, before, report>>
        /\ Truths' = Truths
    BY <1>2 DEF Touch, runVars, Truths, Verdict
  <2>2. touches' # before'[q] /\ before'[q] <= touches'
    BY <1>0, <2>1 DEF CapturedBy
  <2> QED
    BY <1>0, <2>1, <2>2 DEF CapturedBy
<1>3. ASSUME NEW r \in Runs, Begin(r) \/ Read(r) \/ Attest(r) \/ Publish(r) \/ Abandon(r)
      PROVE  CapturedBy(q)'
  <2>1. UNCHANGED <<raw, sealed, touches>> /\ Truths' = Truths
    BY <1>3, OneRunMoves DEF logVars
  <2>2. CASE q # r
    BY <1>0, <1>3, <2>1, <2>2, OneRunMoves DEF CapturedBy
  <2> USE DEF Runners, Goes, Publishing
  <2>3. CASE q = r /\ Begin(r)
    <3>1. stage'[q] = "hashed" /\ raw = sealed /\ before'[q] = touches
      BY <2>3 DEF Begin
    <3>2. touches' = touches /\ touches' \in Nat
      BY <1>0, <2>1
    <3>3. before'[q] <= touches'
      <4> HIDE DEF Runners
      <4> QED
        BY <3>1, <3>2
    <3> QED
      BY <2>1, <3>1, <3>3 DEF CapturedBy
  <2>4. CASE q = r /\ Read(r)
    <3>1. raw = sealed => Verdict(raw) = Verdict(sealed)
      BY DEF Verdict
    <3> QED
      BY <1>0, <2>1, <2>4, <3>1 DEF Read, CapturedBy, Truths
  <2>5. CASE q = r /\ Attest(r)
    BY <1>0, <2>1, <2>5 DEF Attest, SameFiles, CapturedBy
  <2>6. CASE q = r /\ Publish(r)
    <3>1. CASE CreateHealth(r) \/ WriteHealth(r) \/ CreateAmendment(r)
      BY <1>0, <2>1, <2>6, <3>1 DEF CreateHealth, WriteHealth, CreateAmendment, CapturedBy
    <3>2. CASE WriteAmendment(r)
      BY <2>6, <3>2, AtRest DEF WriteAmendment
    <3> QED
      BY <2>6, <3>1, <3>2 DEF Publish
  <2>7. CASE q = r /\ Abandon(r)
    BY <2>7, AtRest DEF Abandon
  <2> QED
    BY <1>3, <2>2, <2>3, <2>4, <2>5, <2>6, <2>7
<1>4. CASE UNCHANGED vars
  BY <1>0, <1>4 DEF vars, logVars, runVars, CapturedBy, Truths, Verdict
<1> QED
  BY <1>1, <1>2, <1>3, <1>4 DEF Next

(* The file a run has created is there until the power fails.              *)
LEMMA PublishersOwn ==
  ASSUME Captured, Created, NEW r \in Runs, stage[r] \in Publishing
  PROVE  health # "none" /\ \A q \in Runs : stage[q] \in Publishing => q = r
<1>1. report[r] \in Truths /\ Progress(r)
  BY DEF Captured, CapturedBy, Created
<1>2. \A q \in Runs : stage[q] \in Publishing => q = r
  BY DEF Created
<1> QED
  BY <1>1, <1>2, TruthsAreWhole DEF Progress, Publishing

(* Whoever created the health file is alone with the amendment.            *)
LEMMA CreatedStep == Publication /\ [Next]_vars => Created'
<1> SUFFICES ASSUME Runners, Captured, Created, [Next]_vars PROVE Created'
  BY DEF Publication
<1>0. AmendmentIsOfTheSealedLog
  BY DEF Created
<1>1. CASE WriteBar \/ WriteMark \/ WriteFlaw \/ Seal
  <2>1. \A q \in Runs : stage'[q] = "idle"
    BY <1>1, NobodyRuns
  <2>2. health' = "none" /\ amendment' = "none"
    BY <1>1 DEF WriteBar, WriteMark, WriteFlaw, Row, Seal, sideVars, Created
  <2> QED
    BY <2>1, <2>2 DEF Created, Progress, Publishing, AmendmentIsOfTheSealedLog
<1>2. CASE PowerLoss
  <2>1. \A q \in Runs : stage'[q] = "idle"
    BY <1>2, NobodyRuns
  <2>2. /\ phase' # "recording" /\ Verdict(sealed)' = Verdict(sealed)
        /\ health' = health \/ (health = "torn" /\ health' = "none")
        /\ amendment' = amendment \/ (amendment = "torn" /\ amendment' = "none")
    BY <1>2 DEF PowerLoss, logVars, Verdict
  <2>3. AmendmentIsOfTheSealedLog'
    BY <1>0, <2>2 DEF AmendmentIsOfTheSealedLog
  <2> QED
    BY <2>1, <2>2, <2>3 DEF Created, Progress, Publishing
<1>3. CASE Touch
  BY <1>3 DEF Touch, runVars, sideVars, Created, Progress, AmendmentIsOfTheSealedLog, Verdict
<1>4. ASSUME NEW r \in Runs, Begin(r) \/ Read(r) \/ Attest(r) \/ Abandon(r) PROVE Created'
  <2>1. /\ UNCHANGED <<phase, health, amendment>> /\ Verdict(sealed)' = Verdict(sealed)
        /\ stage'[r] \notin Publishing
        /\ \A q \in Runs : q # r => stage'[q] = stage[q] /\ report'[q] = report[q]
    <3>1. UNCHANGED <<health, amendment>> /\ stage'[r] \notin Publishing
      BY <1>4 DEF Begin, Read, Attest, Abandon, Goes, Finish, Runners, Publishing, sideVars
    <3>2. UNCHANGED <<phase, sealed>>
      BY <1>4, OneRunMoves DEF logVars
    <3> QED
      BY <1>4, <3>1, <3>2, OneRunMoves DEF Verdict
  <2>2. \A q \in Runs : stage'[q] \in Publishing => q # r /\ stage[q] \in Publishing
    BY <2>1
  <2>3. AmendmentIsOfTheSealedLog'
    BY <1>0, <2>1 DEF AmendmentIsOfTheSealedLog
  <2>4. \A q \in Runs : Progress(q)'
    BY <2>1, <2>2 DEF Created, Progress, Publishing
  <2> QED
    BY <2>1, <2>2, <2>3, <2>4 DEF Created
<1>5. ASSUME NEW r \in Runs, Publish(r) PROVE Created'
  <2>1. /\ UNCHANGED <<phase, sealed>> /\ phase # "recording"
        /\ Verdict(sealed)' = Verdict(sealed) /\ Truths' = Truths
        /\ \A q \in Runs : q # r => stage'[q] = stage[q] /\ report'[q] = report[q]
    <3>1. stage[r] # "idle"
      BY <1>5 DEF Publish, CreateHealth, WriteHealth, CreateAmendment, WriteAmendment, Goes
    <3>2. UNCHANGED <<phase, sealed>> /\ phase # "recording"
      BY <1>5, <3>1, OneRunMoves DEF logVars, Runners
    <3> QED
      BY <1>5, <3>2, OneRunMoves DEF Verdict
  <2>2. report[r] \in Truths /\ Progress(r)
    <3>1. stage[r] \in {"attested"} \cup Publishing
      BY <1>5 DEF Publish, CreateHealth, WriteHealth, CreateAmendment, WriteAmendment, Goes,
                  Publishing
    <3> QED
      BY <3>1 DEF Captured, CapturedBy, Created
  <2>3. \A q \in Runs : stage[q] \in Publishing => q = r
    <3>1. CASE CreateHealth(r)
      BY <3>1, PublishersOwn DEF CreateHealth
    <3>2. CASE stage[r] \in Publishing
      BY <3>2, PublishersOwn
    <3> QED
      BY <1>5, <3>1, <3>2 DEF Publish, WriteHealth, CreateAmendment, WriteAmendment, Goes,
                              Publishing
  <2>4. \A q \in Runs : stage'[q] \in Publishing => q = r
    BY <2>1, <2>3
  <2>5. \A q \in Runs : q # r => Progress(q)'
    BY <2>4 DEF Progress, Publishing
  <2>6. Progress(r)' /\ AmendmentIsOfTheSealedLog'
    <3> USE DEF Progress, AmendmentIsOfTheSealedLog, Runners, Publishing
    <3>1. CASE CreateHealth(r)
      BY <1>0, <3>1 DEF CreateHealth, Goes
    <3>2. CASE WriteHealth(r)
      BY <2>2, <3>2 DEF WriteHealth, Goes
    <3>3. CASE CreateAmendment(r)
      BY <2>2, <3>3, TruthsAreWhole DEF CreateAmendment, Goes
    <3>4. CASE WriteAmendment(r)
      BY <2>1, <2>2, <3>4 DEF WriteAmendment, Finish, Truths
    <3> QED
      BY <1>5, <3>1, <3>2, <3>3, <3>4 DEF Publish
  <2> QED
    BY <2>1, <2>4, <2>5, <2>6 DEF Created
<1>6. CASE UNCHANGED vars
  BY <1>6 DEF vars, logVars, runVars, sideVars, Created, Progress, AmendmentIsOfTheSealedLog, Verdict
<1> QED
  BY <1>1, <1>2, <1>3, <1>4, <1>5, <1>6 DEF Next, Publish

(* write_reanalysis_v4 keeps its promise however many runs overlap and     *)
(* wherever they die: an amendment stands only next to a whole health      *)
(* file, and once it is whole itself the two agree on the verdict of the   *)
(* sealed log, or both carry the error that kept it from being read.       *)
THEOREM AmendmentsAreTrue == Spec => []AmendmentIsOfTheSealedLog
<1>1. Init /\ [][Next]_vars => []Publication
  <2>1. Publication /\ [Next]_vars => Publication'
    BY RunnersStep, CapturedStep, CreatedStep DEF Publication
  <2> QED
    BY <2>1, PublicationInit, PTL
<1>2. Publication => AmendmentIsOfTheSealedLog
  BY DEF Publication, Created
<1> QED
  BY <1>1, <1>2, PTL DEF Spec

-----------------------------------------------------------------------------
(* Loops.  The verdicts fold over the rows; the model has their folds as   *)
(* recursive functions.  That such a function exists is a fact to prove    *)
(* (LoopRuns), and what it computes follows by going from round to round   *)
(* (IndexInduction), both from the order of the naturals.                  *)

(* Every set of naturals has a least member.                               *)
LEMMA LeastOf ==
  ASSUME NEW S, S \subseteq Nat, S # {}
  PROVE  \E n \in S : \A m \in S : n <= m
<1> DEFINE R == {p \in Nat \X Nat : p[1] < p[2]}
<1>1. IsWellFoundedOn(R, Nat)
  BY NatLessThanWellFounded DEF OpToRel
<1>2. \A m, n \in Nat : m < n => <<m, n>> \in R
  OBVIOUS
<1> HIDE DEF R
<1>3. PICK n \in S : \A m \in S : ~(<<m, n>> \in R)
  BY <1>1, WFMin, Zenon
<1>4. ASSUME NEW m \in S PROVE n <= m
  <2>1. m \in Nat /\ n \in Nat
    OBVIOUS
  <2>2. ~(m < n)
    BY <1>2, <1>3, <2>1, Zenon
  <2> QED
    BY <2>1, <2>2
<1> QED
  BY <1>4

(* What holds before a loop, and is kept by each of its rounds, holds      *)
(* after every round.                                                      *)
LEMMA IndexInduction ==
  ASSUME NEW n \in Nat, NEW S, 0 \in S, \A i \in 1..n : i - 1 \in S => i \in S
  PROVE  \A i \in 0..n : i \in S
<1> DEFINE T == {i \in 0..n : i \notin S}
<1> SUFFICES ASSUME T # {} PROVE FALSE
  OBVIOUS
<1>1. T \subseteq Nat
  OBVIOUS
<1>2. PICK m \in T : \A k \in T : m <= k
  <2> HIDE DEF T
  <2> QED
    BY <1>1, LeastOf
<1>3. m \in 1..n /\ m - 1 \in 0..n /\ m - 1 \notin T
  BY <1>2
<1> QED
  BY <1>2, <1>3

(* A loop of n rounds over states of T, and a function that gives the      *)
(* state after each round.                                                 *)
IsLoop(n, T, start, step) == n \in Nat /\ start \in T /\ step \in [1..n -> [T -> T]]
IsRun(f, n, T, start, step) ==
  f \in [0..n -> T] /\ f[0] = start /\ \A i \in 1..n : f[i] = step[i][f[i - 1]]

(* A loop over rows has the results of its rounds: where every round takes *)
(* a state of T to a state of T, some function gives the state after each. *)
LEMMA LoopRuns ==
  ASSUME NEW n, NEW T, NEW start, NEW step, IsLoop(n, T, start, step)
  PROVE  \E f : IsRun(f, n, T, start, step)
<1> USE DEF IsLoop
<1> DEFINE Run(f, k) == f[0] = start /\ \A i \in 1..k : f[i] = step[i][f[i - 1]]
           Done(k) == \E f \in [0..k -> T] : Run(f, k)
           S == {k \in 0..n : Done(k)}
<1>1. Done(0)
  <2> DEFINE f == [i \in 0..0 |-> start]
  <2>1. f \in [0..0 -> T] /\ Run(f, 0)
    OBVIOUS
  <2> HIDE DEF f, Run
  <2> QED
    BY <2>1
<1>2. ASSUME NEW k \in 1..n, Done(k - 1) PROVE Done(k)
  <2>1. PICK f \in [0..(k - 1) -> T] : Run(f, k - 1)
    BY <1>2
  <2> DEFINE g == [i \in 0..k |-> IF i = k THEN step[k][f[k - 1]] ELSE f[i]]
  <2>2. g \in [0..k -> T]
    <3>1. f[k - 1] \in T /\ step[k] \in [T -> T]
      OBVIOUS
    <3> QED
      BY <3>1
  <2>3. Run(g, k)
    BY <2>1
  <2> HIDE DEF g, Run
  <2> QED
    BY <2>2, <2>3
<1> HIDE DEF Done
<1>3. n \in S
  <2>1. 0 \in S
    BY <1>1
  <2>2. ASSUME NEW k \in 1..n, k - 1 \in S PROVE k \in S
    BY <1>2, <2>2
  <2> HIDE DEF S
  <2>3. \A i \in 0..n : i \in S
    BY <2>1, <2>2, IndexInduction
  <2> QED
    BY <2>3
<1>4. Done(n)
  BY <1>3
<1> QED
  BY <1>4 DEF Done, IsRun

(* What such a function gives.                                             *)
LEMMA RunSteps ==
  ASSUME NEW n, NEW T, NEW start, NEW step, IsLoop(n, T, start, step),
         NEW f, IsRun(f, n, T, start, step)
  PROVE  /\ f \in [0..n -> T] /\ f[0] = start
         /\ \A i \in 1..n : f[i - 1] \in T /\ f[i] = step[i][f[i - 1]]
BY DEF IsLoop, IsRun

-----------------------------------------------------------------------------
(* A log and its SYSTEM rows: what stands at an instant, against what the  *)
(* loops over the rows compute.                                            *)

Kinds == {"lost", "restored", "auxBroken", "auxOk", "refused", "reset", "broken", "ok"}
Mark == [at : Nat, code : Kinds, farm : FarmNames \cup {NoFarm}]
(* Rows in the order of their stamps, a farm on the codes that name one.   *)
WellFormed(log) ==
  /\ log.bars \subseteq 0..SessionClose + 1
  /\ log.marks \in Seq(Mark)
  /\ \A i \in 1..Len(log.marks) :
       log.marks[i].farm \in IF log.marks[i].code \in {"broken", "ok"}
                             THEN FarmNames ELSE {NoFarm}
  /\ \A i, j \in 1..Len(log.marks) : i <= j => log.marks[i].at <= log.marks[j].at

(* The SYSTEM rows of a log.                                               *)
LEMMA Rows ==
  ASSUME NEW log, WellFormed(log)
  PROVE  /\ Len(log.marks) \in Nat /\ DOMAIN log.marks = 1..Len(log.marks)
         /\ \A i \in 1..Len(log.marks) : log.marks[i] \in Mark /\ log.marks[i].at \in Nat
<1> DEFINE marks == log.marks
<1>1. marks \in Seq(Mark)
  BY DEF WellFormed
<1> HIDE DEF marks
<1>2. /\ Len(marks) \in Nat /\ DOMAIN marks = 1..Len(marks)
      /\ \A i \in 1..Len(marks) : marks[i] \in Mark
  BY <1>1
<1>3. \A m \in Mark : m.at \in Nat
  BY DEF Mark
<1> QED
  BY <1>2, <1>3 DEF marks

(* A loop that breaks at the first row later than t has seen exactly the   *)
(* rows that are not later than t.                                         *)
LEMMA UntilIs ==
  ASSUME NEW log, WellFormed(log), NEW t \in Nat
  PROVE  /\ Until(log.marks, t) \in 0..Len(log.marks)
         /\ \A i \in 1..Len(log.marks) : i <= Until(log.marks, t) <=> log.marks[i].at <= t
<1> DEFINE marks == log.marks
           Stop(n) == /\ \A i \in 1..n : marks[i].at <= t
                      /\ n < Len(marks) => marks[n + 1].at > t
<1>1. /\ Len(marks) \in Nat
      /\ \A i \in 1..Len(marks) : marks[i].at \in Nat
      /\ \A i, j \in 1..Len(marks) : i <= j => marks[i].at <= marks[j].at
  BY Rows DEF WellFormed
<1>2. \E n \in 0..Len(marks) : Stop(n)
  <2> DEFINE late == {i \in 1..Len(marks) : marks[i].at > t}
  <2>1. CASE late = {}
    <3>1. Stop(Len(marks))
      BY <1>1, <2>1
    <3> QED
      BY <1>1, <3>1
  <2>2. CASE late # {}
    <3>1. late \subseteq Nat
      OBVIOUS
    <3>2. PICK n \in late : \A m \in late : n <= m
      <4> HIDE DEF late
      <4> QED
        BY <2>2, <3>1, LeastOf
    <3>3. Stop(n - 1)
      BY <1>1, <3>2
    <3>4. n - 1 \in 0..Len(marks)
      BY <1>1, <3>2
    <3> HIDE DEF Stop, late
    <3> QED
      BY <3>3, <3>4
  <2> QED
    BY <2>1, <2>2
<1> DEFINE u == CHOOSE n \in 0..Len(marks) : Stop(n)
<1>3. u \in 0..Len(marks) /\ Stop(u)
  BY <1>2
<1>4. u = Until(log.marks, t)
  BY DEF Until
<1> HIDE DEF u
<1>5. ASSUME NEW i \in 1..Len(marks) PROVE i <= u <=> marks[i].at <= t
  <2>1. CASE i <= u
    BY <1>1, <1>3, <2>1
  <2>2. CASE ~(i <= u)
    <3>1. u + 1 \in 1..Len(marks) /\ u + 1 <= i /\ u < Len(marks)
      BY <1>1, <1>3, <2>2
    <3>2. marks[u + 1].at > t /\ marks[u + 1].at <= marks[i].at
      BY <1>1, <1>3, <3>1
    <3> QED
      BY <1>1, <2>2, <3>1, <3>2
  <2> QED
    BY <2>1, <2>2
<1> QED
  BY <1>3, <1>4, <1>5

(* The first n rows report a fault and do not repair it.                   *)
Pending(marks, n, fault, repair, farm) ==
  \E i \in 1..n :
    /\ marks[i].code = fault /\ marks[i].farm = farm
    /\ ~\E j \in i + 1..n : marks[j].code = repair /\ marks[j].farm = farm

(* One more row: it reports the fault, or repairs it, or leaves it as it   *)
(* is.                                                                     *)
LEMMA PendingStep ==
  ASSUME NEW marks, NEW n \in Nat, n # 0, NEW fault, NEW repair, NEW farm, fault # repair
  PROVE  Pending(marks, n, fault, repair, farm)
           <=> \/ marks[n].code = fault /\ marks[n].farm = farm
               \/ /\ ~(marks[n].code = repair /\ marks[n].farm = farm)
                  /\ Pending(marks, n - 1, fault, repair, farm)
<1> DEFINE F(i) == marks[i].code = fault /\ marks[i].farm = farm
           R(i) == marks[i].code = repair /\ marks[i].farm = farm
           P(k) == \E i \in 1..k : F(i) /\ ~\E j \in i + 1..k : R(j)
<1>1. /\ P(n) <=> Pending(marks, n, fault, repair, farm)
      /\ P(n - 1) <=> Pending(marks, n - 1, fault, repair, farm)
  BY DEF Pending
<1>2. ~(F(n) /\ R(n))
  OBVIOUS
<1> SUFFICES P(n) <=> F(n) \/ (~R(n) /\ P(n - 1))
  BY <1>1
<1> HIDE DEF F, R
<1>3. ASSUME P(n) PROVE F(n) \/ (~R(n) /\ P(n - 1))
  <2>1. PICK i \in 1..n : F(i) /\ ~\E j \in i + 1..n : R(j)
    BY <1>3
  <2> QED
    BY <2>1
<1>4. ASSUME F(n) PROVE P(n)
  BY <1>4
<1>5. ASSUME ~R(n), P(n - 1) PROVE P(n)
  <2>1. PICK i \in 1..n - 1 : F(i) /\ ~\E j \in i + 1..n - 1 : R(j)
    BY <1>5
  <2>2. ~\E j \in i + 1..n : R(j)
    BY <1>5, <2>1
  <2> QED
    BY <2>1, <2>2
<1> QED
  BY <1>3, <1>4, <1>5

(* What stands at t is what is pending after the rows the loop has seen.   *)
LEMMA StandsIsPending ==
  ASSUME NEW log, WellFormed(log), NEW t \in Nat, NEW fault, NEW repair, NEW farm
  PROVE  Stands(log.marks, t, fault, repair, farm)
           <=> Pending(log.marks, Until(log.marks, t), fault, repair, farm)
<1> DEFINE marks == log.marks
           u == Until(marks, t)
           F(i) == marks[i].code = fault /\ marks[i].farm = farm
           R(i) == marks[i].code = repair /\ marks[i].farm = farm
<1>1. /\ u \in 0..Len(marks) /\ Len(marks) \in Nat
      /\ DOMAIN marks = 1..Len(marks)
      /\ \A i \in 1..Len(marks) : i <= u <=> marks[i].at <= t
  BY UntilIs, Rows
<1>2. Stands(marks, t, fault, repair, farm)
        <=> \E i \in 1..Len(marks) : F(i) /\ marks[i].at <= t
                /\ ~\E j \in i + 1..Len(marks) : R(j) /\ marks[j].at <= t
  BY <1>1 DEF Stands
<1>3. Pending(marks, u, fault, repair, farm)
        <=> \E i \in 1..u : F(i) /\ ~\E j \in i + 1..u : R(j)
  BY DEF Pending
<1>4. \A j \in Nat : j \in 1..u <=> j \in 1..Len(marks) /\ marks[j].at <= t
  BY <1>1
<1> HIDE DEF F, R, u, marks
<1>5. \A i \in 1..u : (\E j \in i + 1..u : R(j))
                 <=> (\E j \in i + 1..Len(marks) : R(j) /\ marks[j].at <= t)
  BY <1>1, <1>4
<1>6. (\E i \in 1..u : F(i) /\ ~\E j \in i + 1..u : R(j))
        <=> \E i \in 1..Len(marks) : F(i) /\ marks[i].at <= t
                /\ ~\E j \in i + 1..Len(marks) : R(j) /\ marks[j].at <= t
  BY <1>1, <1>4, <1>5
<1> QED
  BY <1>2, <1>3, <1>6 DEF u, marks

State == [lost : BOOLEAN, broken : SUBSET FarmNames]

(* One round of _status_state_at.                                          *)
LEMMA NotedIs ==
  ASSUME NEW s \in State, NEW m,
         m.code \in {"broken", "ok"} => m.farm \in FarmNames
  PROVE  /\ Noted(s, m) \in State
         /\ Noted(s, m).lost <=> m.code = "lost" \/ (m.code # "restored" /\ s.lost)
         /\ \A f \in FarmNames :
              f \in Noted(s, m).broken
                <=> \/ m.code = "broken" /\ m.farm = f
                    \/ ~(m.code = "ok" /\ m.farm = f) /\ f \in s.broken
<1>1. CASE m.code = "lost"
  BY <1>1 DEF Noted, State
<1>2. CASE m.code = "restored"
  BY <1>2 DEF Noted, State
<1>3. CASE m.code = "broken"
  BY <1>3 DEF Noted, State
<1>4. CASE m.code = "ok"
  BY <1>4 DEF Noted, State
<1>5. CASE m.code \notin {"lost", "restored", "broken", "ok"}
  <2>1. Noted(s, m) = s
    BY <1>5 DEF Noted
  <2> QED
    BY <1>5, <2>1 DEF State
<1> QED
  BY <1>1, <1>2, <1>3, <1>4, <1>5

(* _status_state_at, run over any log, gives the faults that stand at t.   *)
LEMMA StatusIs ==
  ASSUME NEW log, WellFormed(log), NEW t \in Nat
  PROVE  /\ StatusAt(log.marks, t).lost
              <=> Stands(log.marks, t, "lost", "restored", NoFarm)
         /\ \A f \in FarmNames : f \in StatusAt(log.marks, t).broken
              <=> Stands(log.marks, t, "broken", "ok", f)
         /\ StatusAt(log.marks, t).broken \subseteq FarmNames
<1> DEFINE marks == log.marks
           n == Len(marks)
           none == [lost |-> FALSE, broken |-> {}]
           Grow(g, i) == IF i = 0 THEN none ELSE Noted(g[i - 1], marks[i])
           Solves(g) == g = [i \in 0..n |-> Grow(g, i)]
           after == CHOOSE g : Solves(g)
           step == [i \in 1..n |-> [s \in State |-> Noted(s, marks[i])]]
<1>1. /\ n \in Nat
      /\ \A i \in 1..n : /\ marks[i].code \in {"broken", "ok"} => marks[i].farm \in FarmNames
                         /\ marks[i].code \notin {"broken", "ok"} => marks[i].farm = NoFarm
  BY Rows DEF WellFormed
<1>2. StatusAt(marks, t) = after[Until(marks, t)]
  BY DEF StatusAt
<1>3. none \in State /\ step \in [1..n -> [State -> State]]
  <2>1. none \in State
    BY DEF State
  <2>2. \A i \in 1..n : \A s \in State : Noted(s, marks[i]) \in State
    BY <1>1, NotedIs
  <2> QED
    BY <2>1, <2>2
<1>4. IsLoop(n, State, none, step)
  BY <1>1, <1>3 DEF IsLoop
<1>5. PICK f : IsRun(f, n, State, none, step)
  <2> HIDE DEF n, none, step
  <2> QED
    BY <1>4, LoopRuns
<1>6. /\ f \in [0..n -> State] /\ f[0] = none
      /\ \A i \in 1..n : f[i - 1] \in State /\ f[i] = step[i][f[i - 1]]
  <2> HIDE DEF n, none, step
  <2> QED
    BY <1>4, <1>5, RunSteps
<1>7. ASSUME NEW i \in 1..n PROVE f[i] = Noted(f[i - 1], marks[i])
  BY <1>6
<1>8. Solves(f)
  <2>1. ASSUME NEW i \in 0..n PROVE f[i] = Grow(f, i)
    <3>1. i = 0 \/ i \in 1..n
      BY <1>1
    <3> QED
      BY <1>6, <1>7, <3>1
  <2> HIDE DEF Grow
  <2> QED
    BY <1>6, <2>1
<1>9. Solves(after)
  <2> HIDE DEF Solves
  <2> QED
    BY <1>8, Zenon
<1> HIDE DEF after, Solves
<1>10. \A i \in 0..n : after[i] = Grow(after, i)
  BY <1>9 DEF Solves
<1> DEFINE Good(i) ==
             /\ after[i] \in State
             /\ after[i].lost <=> Pending(marks, i, "lost", "restored", NoFarm)
             /\ \A h \in FarmNames :
                  h \in after[i].broken <=> Pending(marks, i, "broken", "ok", h)
           S == {i \in 0..n : Good(i)}
<1>11. Good(0)
  <2>1. after[0] = none
    BY <1>1, <1>10
  <2>2. \A c, d, h : ~Pending(marks, 0, c, d, h)
    BY DEF Pending
  <2> QED
    BY <1>3, <2>1, <2>2
<1>12. ASSUME NEW i \in 1..n, Good(i - 1) PROVE Good(i)
  <2> DEFINE s == after[i - 1]
             m == marks[i]
  <2>1. s \in State /\ after[i] = Noted(s, m)
    BY <1>1, <1>10, <1>12
  <2>2. m.code \in {"broken", "ok"} => m.farm \in FarmNames
    BY <1>1
  <2>3. m.code \in {"lost", "restored"} => m.farm = NoFarm
    BY <1>1
  <2>4. i \in Nat /\ i # 0
    OBVIOUS
  <2>5. Pending(marks, i, "lost", "restored", NoFarm)
          <=> \/ m.code = "lost" /\ m.farm = NoFarm
              \/ /\ ~(m.code = "restored" /\ m.farm = NoFarm)
                 /\ Pending(marks, i - 1, "lost", "restored", NoFarm)
    BY <2>4, PendingStep
  <2>6. ASSUME NEW h \in FarmNames
        PROVE  Pending(marks, i, "broken", "ok", h)
                 <=> \/ m.code = "broken" /\ m.farm = h
                     \/ /\ ~(m.code = "ok" /\ m.farm = h)
                        /\ Pending(marks, i - 1, "broken", "ok", h)
    BY <2>4, PendingStep
  <2>7. /\ Noted(s, m) \in State
        /\ Noted(s, m).lost <=> m.code = "lost" \/ (m.code # "restored" /\ s.lost)
        /\ \A h \in FarmNames :
              h \in Noted(s, m).broken
                <=> \/ m.code = "broken" /\ m.farm = h
                    \/ ~(m.code = "ok" /\ m.farm = h) /\ h \in s.broken
    BY <2>1, <2>2, NotedIs
  <2> QED
    BY <1>12, <2>1, <2>3, <2>5, <2>6, <2>7, Zenon
<1>13. \A i \in 0..n : Good(i)
  <2>1. 0 \in S
    BY <1>1, <1>11
  <2>2. \A i \in 1..n : i - 1 \in S => i \in S
    BY <1>12
  <2> HIDE DEF Good
  <2>3. \A i \in 0..n : i \in S
    <3> HIDE DEF S
    <3> QED
      BY <1>1, <2>1, <2>2, IndexInduction
  <2> QED
    BY <2>3
<1>14. Until(marks, t) \in 0..n
  BY UntilIs
<1>15. Good(Until(marks, t))
  BY <1>13, <1>14
<1> QED
  BY <1>2, <1>15, StandsIsPending DEF State

-----------------------------------------------------------------------------
(* The session, its stamps and its gaps.                                   *)

(* Every bounded set of naturals has a greatest member.                    *)
LEMMA GreatestOf ==
  ASSUME NEW K \in Nat, NEW S, S \subseteq 0..K, S # {}
  PROVE  \E n \in S : \A m \in S : m <= n
<1> DEFINE T == {k \in 0..K : K - k \in S}
<1>1. T \subseteq Nat /\ T # {}
  <2>1. PICK s \in S : TRUE
    OBVIOUS
  <2>2. s \in 0..K
    BY <2>1
  <2>3. K - s \in 0..K /\ K - (K - s) = s
    BY <2>2
  <2>4. K - s \in T
    BY <2>1, <2>3
  <2>5. T \subseteq Nat
    OBVIOUS
  <2> QED
    BY <2>4, <2>5
<1>2. PICK k \in T : \A j \in T : k <= j
  <2> HIDE DEF T
  <2> QED
    BY <1>1, LeastOf
<1>3. ASSUME NEW m \in S PROVE m <= K - k
  <2>1. m \in 0..K /\ K - m \in 0..K /\ K - (K - m) = m
    OBVIOUS
  <2>2. K - m \in T
    BY <2>1
  <2>3. k <= K - m
    BY <1>2, <2>2
  <2> QED
    BY <2>1, <2>3
<1> QED
  BY <1>2, <1>3

(* Stamps from a to b, both among them, cut every instant between into one *)
(* piece.                                                                  *)
LEMMA PieceAt ==
  ASSUME NEW a \in Nat, NEW b \in Nat, NEW S, a \in S, b \in S, S \subseteq a..b,
         NEW t \in a..b - 1
  PROVE  \E p \in Neighbours(S) :
           /\ p[1] <= t /\ t < p[2]
           /\ \A q \in Neighbours(S) : q[1] <= t /\ t < q[2] => q = p
<1> DEFINE low == {s \in S : s <= t}
           high == {s \in S : t < s}
<1>1. \A s \in S : s \in Nat /\ a <= s /\ s <= b
  OBVIOUS
<1>2. PICK l \in low : \A s \in low : s <= l
  <2>1. a \in low
    OBVIOUS
  <2>2. \A s \in low : s \in 0..b
    BY <1>1
  <2>3. low \subseteq 0..b
    BY <2>2
  <2> HIDE DEF low
  <2> QED
    BY <2>1, <2>3, GreatestOf
<1>3. PICK h \in high : \A s \in high : h <= s
  <2>1. b \in high
    OBVIOUS
  <2>2. high \subseteq Nat
    BY <1>1
  <2> HIDE DEF high
  <2> QED
    BY <2>1, <2>2, LeastOf
<1>4. l \in S /\ h \in S /\ l \in Nat /\ h \in Nat /\ l <= t /\ t < h
  BY <1>2, <1>3
<1>5. ASSUME NEW s \in S PROVE ~(l < s /\ s < h)
  <2>1. s \in Nat /\ (s \in low \/ s \in high)
    OBVIOUS
  <2> QED
    BY <1>2, <1>3, <1>4, <2>1
<1>6. <<l, h>> \in Neighbours(S)
  BY <1>4, <1>5 DEF Neighbours
<1>7. ASSUME NEW q \in Neighbours(S), q[1] <= t, t < q[2] PROVE q = <<l, h>>
  <2>1. q \in S \X S /\ ~\E s \in S : q[1] < s /\ s < q[2]
    BY <1>7 DEF Neighbours
  <2>2. q[1] \in S /\ q[2] \in S /\ q = <<q[1], q[2]>>
    BY <2>1
  <2>3. /\ q[1] \in Nat /\ q[2] \in Nat /\ q = <<q[1], q[2]>>
        /\ q[1] \in low /\ q[2] \in high
        /\ ~\E s \in S : q[1] < s /\ s < q[2]
    BY <1>1, <1>7, <2>1, <2>2
  <2>4. q[1] <= l /\ h <= q[2]
    BY <1>2, <1>3, <2>3
  <2>5. ~(q[1] < l /\ l < q[2]) /\ ~(q[1] < h /\ h < q[2])
    BY <1>4, <2>3
  <2>6. q[1] = l /\ q[2] = h
    BY <1>4, <1>7, <2>3, <2>4, <2>5
  <2> QED
    BY <2>3, <2>6
<1> QED
  BY <1>4, <1>6, <1>7

(* max and min of two, as the code uses them to clip.                      *)
LEMMA OfTwo ==
  ASSUME NEW a \in Int, NEW b \in Int
  PROVE  /\ Max({a, b}) = IF a >= b THEN a ELSE b
         /\ Min({a, b}) = IF a <= b THEN a ELSE b
BY DEF Max, Min

(* What is assumed of the session and of the threshold.                    *)
LEMMA Bounds == /\ SessionOpen \in Nat /\ SessionClose \in Nat /\ BarGap \in Nat
                /\ SessionOpen + BarGap < SessionClose
BY VerdictAssumption

(* A stamp clipped to the session.                                         *)
LEMMA WithinIs ==
  ASSUME NEW a \in Nat
  PROVE  Within(a, SessionOpen, SessionClose) =
           IF a < SessionOpen THEN SessionOpen ELSE IF a > SessionClose THEN SessionClose ELSE a
<1> DEFINE m == Min({a, SessionClose})
<1>1. m \in Nat /\ m = IF a <= SessionClose THEN a ELSE SessionClose
  BY Bounds, OfTwo
<1>2. Max({SessionOpen, m}) = IF SessionOpen >= m THEN SessionOpen ELSE m
  <2> HIDE DEF m
  <2> QED
    BY <1>1, Bounds, OfTwo
<1>3. Within(a, SessionOpen, SessionClose) = Max({SessionOpen, m})
  BY DEF Within
<1> HIDE DEF m
<1> QED
  BY <1>1, <1>2, <1>3, Bounds

(* Clipping moves no stamp across an instant of the session.               *)
LEMMA ClippedIs ==
  ASSUME NEW bars, bars \subseteq Nat
  PROVE  /\ Clipped(bars) \subseteq SessionOpen..SessionClose
         /\ \A u \in SessionOpen + 1..SessionClose - 1 : u \in Clipped(bars) <=> u \in bars
         /\ \A u \in Session : /\ (\E s \in bars : s <= u) <=> \E s \in Clipped(bars) : s <= u
                               /\ (\E s \in bars : s > u) <=> \E s \in Clipped(bars) : s > u
<1> DEFINE W(a) == Within(a, SessionOpen, SessionClose)
<1>1. \A s \in bars : /\ s \in Nat /\ W(s) \in SessionOpen..SessionClose
                      /\ W(s) = IF s < SessionOpen THEN SessionOpen
                                ELSE IF s > SessionClose THEN SessionClose ELSE s
  BY Bounds, WithinIs
<1>2. Clipped(bars) = {W(s) : s \in bars}
  BY DEF Clipped
<1> HIDE DEF W
<1>3. Clipped(bars) \subseteq SessionOpen..SessionClose
  BY <1>1, <1>2
<1>4. ASSUME NEW u \in SessionOpen + 1..SessionClose - 1
      PROVE  u \in Clipped(bars) <=> u \in bars
  <2>1. \A s \in bars : W(s) = u <=> s = u
    BY <1>1, <1>4, Bounds
  <2> QED
    BY <1>2, <2>1
<1>5. ASSUME NEW u \in Session
      PROVE  /\ (\E s \in bars : s <= u) <=> \E s \in Clipped(bars) : s <= u
             /\ (\E s \in bars : s > u) <=> \E s \in Clipped(bars) : s > u
  <2>1. \A s \in bars : (W(s) <= u <=> s <= u) /\ (W(s) > u <=> s > u)
    BY <1>1, <1>5, Bounds DEF Session
  <2> QED
    BY <1>2, <2>1
<1> QED
  BY <1>3, <1>4, <1>5

(* With the ends of the session the clipped stamps stay in it.             *)
LEMMA Ends ==
  ASSUME NEW bars, bars \subseteq Nat
  PROVE  Clipped(bars) \cup {SessionOpen, SessionClose} \subseteq SessionOpen..SessionClose
<1>1. {SessionOpen, SessionClose} \subseteq SessionOpen..SessionClose
  BY Bounds
<1> QED
  BY <1>1, ClippedIs

(* Every instant of the session lies in one gap of _gaps.                  *)
LEMMA GapAt ==
  ASSUME NEW bars, bars \subseteq Nat, NEW t \in Session
  PROVE  \E p \in Gaps(bars) :
           /\ p[1] <= t /\ t < p[2]
           /\ \A q \in Gaps(bars) : q[1] <= t /\ t < q[2] => q = p
<1> DEFINE S == Clipped(bars) \cup {SessionOpen, SessionClose}
<1>1. t \in SessionOpen..SessionClose - 1 /\ SessionOpen \in S /\ SessionClose \in S
  BY DEF Session
<1>2. S \subseteq SessionOpen..SessionClose
  BY Ends
<1>3. Gaps(bars) = Neighbours(S)
  BY DEF Gaps
<1> HIDE DEF S
<1>4. \E p \in Neighbours(S) :
           /\ p[1] <= t /\ t < p[2]
           /\ \A q \in Neighbours(S) : q[1] <= t /\ t < q[2] => q = p
  BY <1>1, <1>2, Bounds, PieceAt
<1> QED
  BY <1>3, <1>4

(* A gap has no row in it.                                                 *)
LEMMA GapsAre ==
  ASSUME NEW bars, bars \subseteq Nat, NEW p \in Gaps(bars)
  PROVE  /\ p[1] \in SessionOpen..SessionClose /\ p[2] \in SessionOpen..SessionClose
         /\ p[1] < p[2] /\ p = <<p[1], p[2]>>
         /\ \A s \in bars : ~(p[1] < s /\ s < p[2])
<1> DEFINE S == Clipped(bars) \cup {SessionOpen, SessionClose}
<1>1. /\ p[1] \in S /\ p[2] \in S /\ p[1] < p[2] /\ p = <<p[1], p[2]>>
      /\ ~\E s \in S : p[1] < s /\ s < p[2]
  BY DEF Gaps, Neighbours
<1>2. S \subseteq SessionOpen..SessionClose
  BY Ends
<1>3. ASSUME NEW s \in bars, p[1] < s, s < p[2] PROVE FALSE
  <2>1. s \in SessionOpen + 1..SessionClose - 1
    BY <1>1, <1>2, <1>3, Bounds
  <2>2. s \in S
    BY <2>1, ClippedIs
  <2> QED
    BY <1>1, <1>3, <2>2
<1> QED
  BY <1>1, <1>2, <1>3

(* An instant is dark if and only if the gap it lies in is longer than     *)
(* BarGap.                                                                 *)
LEMMA DarkIsLong ==
  ASSUME NEW bars, bars \subseteq Nat, NEW t \in Session,
         NEW p \in Gaps(bars), p[1] <= t, t < p[2]
  PROVE  DarkAt(bars, t) <=> Long(p)
<1>1. /\ p[1] \in SessionOpen..SessionClose /\ p[2] \in SessionOpen..SessionClose
      /\ \A s \in bars : ~(p[1] < s /\ s < p[2])
  BY GapsAre
<1>2. ASSUME Long(p) PROVE DarkAt(bars, t)
  BY <1>1, <1>2 DEF DarkAt, Long
<1>3. ASSUME DarkAt(bars, t) PROVE Long(p)
  <2>1. PICK a, b \in SessionOpen..SessionClose :
          a <= t /\ t < b /\ b - a > BarGap /\ ~\E s \in bars : a < s /\ s < b
    BY <1>3 DEF DarkAt
  <2> DEFINE S == Clipped(bars) \cup {SessionOpen, SessionClose}
  <2>2. p[1] \in S /\ p[2] \in S
    BY DEF Gaps, Neighbours
  <2>3. ASSUME NEW s \in S PROVE ~(a < s /\ s < b)
    <3>1. CASE s \in {SessionOpen, SessionClose}
      BY <2>1, <3>1, Bounds
    <3>2. CASE s \in Clipped(bars) /\ s \notin {SessionOpen, SessionClose}
      <4>1. s \in SessionOpen..SessionClose
        BY <3>2, ClippedIs
      <4>2. s \in SessionOpen + 1..SessionClose - 1
        BY <3>2, <4>1, Bounds
      <4> QED
        BY <2>1, <3>2, <4>2, ClippedIs
    <3> QED
      BY <3>1, <3>2
  <2>4. ~(a < p[1] /\ p[1] < b) /\ ~(a < p[2] /\ p[2] < b)
    BY <2>2, <2>3
  <2>5. /\ a \in Nat /\ b \in Nat /\ p[1] \in Nat /\ p[2] \in Nat /\ t \in Nat
        /\ BarGap \in Nat
    BY <1>1, Bounds DEF Session
  <2>6. p[1] <= a /\ b <= p[2]
    BY <2>1, <2>4, <2>5
  <2> QED
    BY <2>1, <2>5, <2>6 DEF Long
<1> QED
  BY <1>2, <1>3

-----------------------------------------------------------------------------
(* The findings of analyze_rows_v4.                                        *)

Findings(class) == [class : {class}, from : Nat, to : Nat]
Acc(class) == [since : Nat \cup {Never}, found : SUBSET Findings(class)]
(* A fault has been open since t or before; at most one finding covers t.  *)
Stood(acc, t) == acc.since # Never /\ acc.since <= t
Once(found, t) == \A f, g \in Covering(found, t) : f = g

(* Closing a finding charges the instants since its start, and no other.   *)
LEMMA EndedIs ==
  ASSUME NEW class, NEW acc \in Acc(class), NEW at \in Nat, NEW t \in Session,
         Once(acc.found, t), Stood(acc, t) => Covering(acc.found, t) = {}
  PROVE  /\ Ended(acc, at, class) \subseteq Findings(class)
         /\ Once(Ended(acc, at, class), t)
         /\ Covering(Ended(acc, at, class), t) # {}
              <=> Covering(acc.found, t) # {} \/ (Stood(acc, t) /\ t < at)
<1> DEFINE from == Max({acc.since, SessionOpen})
           new == Finding(class, from, at)
<1>1. /\ acc.since \in Nat \cup {Never} /\ acc.found \subseteq Findings(class)
      /\ Never = -1 /\ t \in Nat /\ SessionOpen <= t
  BY Bounds DEF Acc, Never, Session
<1>2. from = IF acc.since >= SessionOpen THEN acc.since ELSE SessionOpen
  BY <1>1, Bounds, OfTwo
<1>3. from \in Nat /\ (acc.since # Never => (from <= t <=> acc.since <= t))
  BY <1>1, <1>2, Bounds
<1>4. Ended(acc, at, class) = IF acc.since # Never /\ from < at
                              THEN acc.found \cup {new} ELSE acc.found
  BY DEF Ended
<1> HIDE DEF from
<1>5. new \in Findings(class) /\ new.from = from /\ new.to = at
  BY <1>3 DEF Finding, Findings
<1> HIDE DEF new
<1>6. CASE ~(acc.since # Never /\ from < at)
  <2>1. ~(Stood(acc, t) /\ t < at)
    BY <1>1, <1>3, <1>6 DEF Stood
  <2> QED
    BY <1>1, <1>4, <1>6, <2>1
<1>7. CASE acc.since # Never /\ from < at
  <2>1. Ended(acc, at, class) = acc.found \cup {new}
    BY <1>4, <1>7
  <2>2. new.from <= t /\ t < new.to <=> Stood(acc, t) /\ t < at
    BY <1>3, <1>5, <1>7 DEF Stood
  <2>3. Covering(Ended(acc, at, class), t) =
          Covering(acc.found, t) \cup (IF Stood(acc, t) /\ t < at THEN {new} ELSE {})
    BY <2>1, <2>2 DEF Covering
  <2> QED
    BY <1>1, <1>5, <2>1, <2>3 DEF Once
<1> QED
  BY <1>6, <1>7

(* _connectivity_outages and _paired_auxiliary_advisories, run over any    *)
(* log: their findings do not overlap and cover the instants at which the  *)
(* fault stands.                                                           *)
LEMMA PairedIs ==
  ASSUME NEW log, WellFormed(log), NEW t \in Session,
         NEW fault \in Kinds \ {"broken", "ok"}, NEW repair \in Kinds \ {"broken", "ok"},
         fault # repair, NEW class
  PROVE  LET found == Paired(log.marks, fault, repair, class)
         IN /\ \A f \in found : f.class = class
            /\ Once(found, t)
            /\ Covering(found, t) # {} <=> Stands(log.marks, t, fault, repair, NoFarm)
<1> DEFINE marks == log.marks
           n == Len(marks)
           none == [since |-> Never, found |-> {}]
           T == Acc(class)
           Next1(s, m) == Pairing(s, m, fault, repair, class)
           Grow(g, i) == IF i = 0 THEN none ELSE Next1(g[i - 1], marks[i])
           Solves(g) == g = [i \in 0..n |-> Grow(g, i)]
           after == CHOOSE g : Solves(g)
           step == [i \in 1..n |-> [s \in T |-> Next1(s, marks[i])]]
<1>1. /\ n \in Nat /\ t \in Nat
      /\ \A i \in 1..n : /\ marks[i].at \in Nat
                         /\ marks[i].code \in {fault, repair} => marks[i].farm = NoFarm
  <2>1. \A i \in 1..n : marks[i].code \notin {"broken", "ok"} => marks[i].farm = NoFarm
    BY DEF WellFormed
  <2>2. n \in Nat /\ \A i \in 1..n : marks[i].at \in Nat
    BY Rows
  <2> HIDE DEF marks
  <2> QED
    BY <2>1, <2>2, Bounds DEF Session
<1>2. ASSUME NEW s \in T, NEW m, m.at \in Nat PROVE Next1(s, m) \in T
  <2>1. /\ s.since \in Nat \cup {Never} /\ s.found \subseteq Findings(class)
        /\ s = [since |-> s.since, found |-> s.found]
    BY DEF Acc
  <2>2. CASE m.code = fault /\ s.since = Never
    <3>1. Next1(s, m) = [s EXCEPT !.since = m.at]
      BY <2>2 DEF Pairing
    <3> QED
      BY <1>2, <3>1 DEF Acc
  <2>3. CASE m.code = repair
    <3>1. Next1(s, m) = [since |-> Never, found |-> Ended(s, m.at, class)]
      BY <2>3 DEF Pairing
    <3>2. Ended(s, m.at, class) \subseteq Findings(class)
      <4> DEFINE from == Max({s.since, SessionOpen})
      <4>1. from \in Nat
        BY <2>1, Bounds, OfTwo DEF Never
      <4>2. Finding(class, from, m.at) \in Findings(class)
        BY <1>2, <4>1 DEF Finding, Findings
      <4> QED
        BY <2>1, <4>2 DEF Ended
    <3> QED
      BY <3>1, <3>2 DEF Acc
  <2>4. CASE ~(m.code = fault /\ s.since = Never) /\ m.code # repair
    <3>1. Next1(s, m) = s
      BY <2>4 DEF Pairing
    <3> QED
      BY <3>1
  <2> QED
    BY <2>2, <2>3, <2>4
<1>3. none \in T /\ step \in [1..n -> [T -> T]]
  <2>1. none \in T
    BY DEF Acc
  <2>2. \A i \in 1..n : \A s \in T : Next1(s, marks[i]) \in T
    BY <1>1, <1>2
  <2> HIDE DEF Next1, T
  <2> QED
    BY <2>1, <2>2
<1>4. IsLoop(n, T, none, step)
  BY <1>1, <1>3 DEF IsLoop
<1>5. PICK f : IsRun(f, n, T, none, step)
  <2> HIDE DEF n, none, step, T
  <2> QED
    BY <1>4, LoopRuns
<1>6. /\ f \in [0..n -> T] /\ f[0] = none
      /\ \A i \in 1..n : f[i - 1] \in T /\ f[i] = step[i][f[i - 1]]
  <2> HIDE DEF n, none, step, T
  <2> QED
    BY <1>4, <1>5, RunSteps
<1>7. ASSUME NEW i \in 1..n PROVE f[i] = Next1(f[i - 1], marks[i])
  <2> HIDE DEF Next1
  <2> QED
    BY <1>6
<1>8. Solves(f)
  <2>1. ASSUME NEW i \in 0..n PROVE f[i] = Grow(f, i)
    <3>1. i = 0 \/ i \in 1..n
      BY <1>1
    <3> HIDE DEF Next1
    <3> QED
      BY <1>6, <1>7, <3>1
  <2> HIDE DEF Grow
  <2> QED
    BY <1>6, <2>1
<1>9. Solves(after)
  <2> HIDE DEF Solves
  <2> QED
    BY <1>8, Zenon
<1>10. Paired(marks, fault, repair, class)
         = Ended(after[Until(marks, SessionClose)], SessionClose, class)
  BY DEF Paired
<1> HIDE DEF after, Solves
<1>11. after[0] = none /\ \A i \in 1..n : after[i] = Next1(after[i - 1], marks[i])
  <2>1. \A i \in 0..n : after[i] = Grow(after, i)
    BY <1>9 DEF Solves
  <2>2. after[0] = none
    <3>1. 0 \in 0..n
      BY <1>1
    <3> HIDE DEF Next1, none
    <3> QED
      BY <2>1, <3>1
  <2>3. ASSUME NEW i \in 1..n PROVE after[i] = Next1(after[i - 1], marks[i])
    <3>1. i \in 0..n /\ i # 0
      BY <1>1
    <3> HIDE DEF Next1
    <3> QED
      BY <2>1, <3>1
  <2> QED
    BY <2>2, <2>3
<1> DEFINE u == Until(marks, t)
           P(i) == Pending(marks, i, fault, repair, NoFarm)
           Cov(s) == Covering(s.found, t) # {}
           Good(i) == LET s == after[i]
                      IN /\ s \in T
                         /\ Once(s.found, t)
                         /\ ~(Cov(s) /\ Stood(s, t))
                         /\ i <= u => /\ ~Cov(s)
                                      /\ Stood(s, t) <=> s.since # Never
                                      /\ Stood(s, t) <=> P(i)
                         /\ u <= i => (Cov(s) \/ Stood(s, t) <=> P(u))
           S == {i \in 0..n : Good(i)}
<1>12. u \in 0..n /\ \A i \in 1..n : i <= u <=> marks[i].at <= t
  BY <1>1, UntilIs
<1> HIDE DEF Next1, u
<1>13. Good(0)
  <2>1. ~P(0)
    BY DEF Pending
  <2>2. none.found = {} /\ none.since = Never
    OBVIOUS
  <2>3. u <= 0 => u = 0
    BY <1>12
  <2>4. Once({}, t) /\ Covering({}, t) = {}
    BY DEF Once, Covering
  <2> HIDE DEF none, P
  <2> QED
    BY <1>3, <1>11, <2>1, <2>2, <2>3, <2>4 DEF Stood
<1>14. ASSUME NEW i \in 1..n, Good(i - 1) PROVE Good(i)
  <2> DEFINE s == after[i - 1]
             m == marks[i]
  <2>1. s \in T /\ after[i] = Next1(s, m) /\ Next1(s, m) \in T
    BY <1>1, <1>2, <1>11, <1>14
  <2>2. /\ m.at \in Nat /\ (m.code \in {fault, repair} => m.farm = NoFarm)
        /\ i <= u <=> m.at <= t
    BY <1>1, <1>12
  <2>3. P(i) <=> m.code = fault \/ (m.code # repair /\ P(i - 1))
    <3>1. i \in Nat /\ i # 0
      OBVIOUS
    <3> QED
      BY <2>2, <3>1, PendingStep
  <2>4. /\ i - 1 \in Nat /\ i \in Nat /\ u \in Nat
        /\ i <= u => i - 1 <= u
        /\ u <= i - 1 => u <= i
        /\ ~(i <= u) <=> u <= i - 1
        /\ u <= i <=> u <= i - 1 \/ u = i
    BY <1>1, <1>12
  <2>5. s.since \in Nat \cup {Never} /\ s.found \subseteq Findings(class)
    BY <2>1 DEF Acc
  <2>6. CASE m.code = fault /\ s.since = Never
    <3>1. Next1(s, m) = [s EXCEPT !.since = m.at]
      BY <2>6 DEF Pairing, Next1
    <3>2. after[i].found = s.found /\ after[i].since = m.at
      BY <2>1, <3>1 DEF Acc
    <3>3. Stood(after[i], t) <=> m.at <= t
      BY <2>2, <3>2 DEF Stood, Never
    <3>4. ~Stood(s, t)
      BY <2>6 DEF Stood
    <3>5. m.at # Never
      BY <2>2 DEF Never
    <3> HIDE DEF P
    <3> QED
      BY <1>14, <2>1, <2>2, <2>3, <2>4, <2>6, <3>2, <3>3, <3>4, <3>5
  <2>7. CASE m.code = repair
    <3>1. Next1(s, m) = [since |-> Never, found |-> Ended(s, m.at, class)]
      BY <2>7 DEF Pairing, Next1
    <3>2. after[i].since = Never /\ after[i].found = Ended(s, m.at, class)
      BY <2>1, <3>1
    <3>3. /\ Once(Ended(s, m.at, class), t)
          /\ Covering(Ended(s, m.at, class), t) # {} <=> Cov(s) \/ (Stood(s, t) /\ t < m.at)
      BY <1>14, <2>1, <2>2, EndedIs
    <3>4. t < m.at <=> ~(i <= u)
      BY <1>1, <2>2
    <3>5. ~Stood(after[i], t)
      BY <3>2 DEF Stood
    <3> HIDE DEF P
    <3> QED
      BY <1>14, <2>1, <2>3, <2>4, <2>7, <3>2, <3>3, <3>4, <3>5
  <2>8. CASE ~(m.code = fault /\ s.since = Never) /\ m.code # repair
    <3>1. after[i] = s
      BY <2>1, <2>8 DEF Pairing, Next1
    <3> HIDE DEF P
    <3> QED
      BY <1>14, <2>1, <2>3, <2>4, <2>8, <3>1
  <2> QED
    BY <2>6, <2>7, <2>8
<1>15. \A i \in 0..n : Good(i)
  <2>1. 0 \in S
    BY <1>1, <1>13
  <2> HIDE DEF Good
  <2>2. ASSUME NEW i \in 1..n, i - 1 \in S PROVE i \in S
    <3>1. i \in 0..n /\ Good(i - 1)
      BY <1>1, <2>2
    <3> QED
      BY <1>14, <3>1
  <2>3. \A i \in 0..n : i \in S
    <3> HIDE DEF S
    <3> QED
      BY <1>1, <2>1, <2>2, IndexInduction
  <2> QED
    BY <2>3
<1> DEFINE e == Until(marks, SessionClose)
<1>16. e \in 0..n /\ u <= e
  <2>1. e \in 0..n /\ \A i \in 1..n : i <= e <=> marks[i].at <= SessionClose
    BY Bounds, UntilIs
  <2>2. t < SessionClose
    BY Bounds DEF Session
  <2>3. CASE u = 0
    BY <1>1, <2>1, <2>3
  <2>4. CASE u # 0
    <3>1. u \in 1..n /\ marks[u].at <= t /\ marks[u].at \in Nat
      BY <1>1, <1>12, <2>4
    <3>2. marks[u].at <= SessionClose
      BY <1>1, <2>2, <3>1, Bounds
    <3> QED
      BY <2>1, <3>1, <3>2
  <2> QED
    BY <2>3, <2>4
<1>17. Good(e)
  <2> HIDE DEF Good
  <2> QED
    BY <1>15, <1>16
<1>18. t < SessionClose
  BY Bounds DEF Session
<1>19. /\ Ended(after[e], SessionClose, class) \subseteq Findings(class)
       /\ Once(Ended(after[e], SessionClose, class), t)
       /\ Covering(Ended(after[e], SessionClose, class), t) # {}
            <=> Cov(after[e]) \/ Stood(after[e], t)
  BY <1>17, <1>18, Bounds, EndedIs
<1>20. P(u) <=> Stands(marks, t, fault, repair, NoFarm)
  BY <1>1, StandsIsPending DEF u
<1>21. \A x \in Findings(class) : x.class = class
  BY DEF Findings
<1> QED
  BY <1>10, <1>16, <1>17, <1>19, <1>20, <1>21

(* Without a relevant row between, what stands at s stands at t.           *)
LEMMA SameFaults ==
  ASSUME NEW log, WellFormed(log), NEW t \in Nat, NEW s \in Nat, s <= t,
         \A i \in 1..Len(log.marks) :
           log.marks[i].code \in Relevant => ~(s < log.marks[i].at /\ log.marks[i].at <= t),
         NEW fault \in Relevant, NEW repair \in Relevant, NEW farm
  PROVE  Stands(log.marks, s, fault, repair, farm) <=> Stands(log.marks, t, fault, repair, farm)
<1> DEFINE marks == log.marks
           F(i) == marks[i].code = fault /\ marks[i].farm = farm
           R(i) == marks[i].code = repair /\ marks[i].farm = farm
<1>1. /\ Len(marks) \in Nat /\ DOMAIN marks = 1..Len(marks)
      /\ \A i \in 1..Len(marks) : marks[i].at \in Nat
  BY Rows
<1>2. \A i \in 1..Len(marks) : F(i) \/ R(i) => (marks[i].at <= s <=> marks[i].at <= t)
  BY <1>1
<1>3. \A x : Stands(marks, x, fault, repair, farm)
        <=> \E i \in 1..Len(marks) : F(i) /\ marks[i].at <= x
                /\ ~\E j \in i + 1..Len(marks) : R(j) /\ marks[j].at <= x
  BY <1>1 DEF Stands
<1> HIDE DEF F, R, marks
<1>4. \A i \in 1..Len(marks) : \A j \in i + 1..Len(marks) : j \in 1..Len(marks)
  BY <1>1
<1> QED
  BY <1>2, <1>3, <1>4, Zenon DEF marks

(* The piece of a gap that holds t has the feed in the state it is in at   *)
(* t.                                                                      *)
LEMMA PieceOf ==
  ASSUME NEW log, WellFormed(log), NEW t \in Session,
         NEW gap \in Gaps(log.bars), gap[1] <= t, t < gap[2]
  PROVE  \E p \in Neighbours(Boundaries(log.marks, gap)) :
           /\ p[1] <= t /\ t < p[2] /\ p[1] \in Nat /\ p[2] \in Nat
           /\ \A q \in Neighbours(Boundaries(log.marks, gap)) :
                q[1] <= t /\ t < q[2] => q = p
           /\ StatusAt(log.marks, p[1]).lost
                <=> Stands(log.marks, t, "lost", "restored", NoFarm)
           /\ StatusAt(log.marks, p[1]).broken # {}
                <=> \E f \in FarmNames : Stands(log.marks, t, "broken", "ok", f)
<1> DEFINE marks == log.marks
           S == Boundaries(marks, gap)
<1>1. /\ gap[1] \in Nat /\ gap[2] \in Nat /\ t \in gap[1]..gap[2] - 1 /\ t \in Nat
  <2>1. log.bars \subseteq Nat
    BY Bounds DEF WellFormed
  <2>2. gap[1] \in SessionOpen..SessionClose /\ gap[2] \in SessionOpen..SessionClose
    BY <2>1, GapsAre
  <2> QED
    BY <2>2, Bounds DEF Session
<1>2. gap[1] \in S /\ gap[2] \in S /\ S \subseteq gap[1]..gap[2]
  BY <1>1 DEF Boundaries
<1>3. PICK p \in Neighbours(S) :
        /\ p[1] <= t /\ t < p[2]
        /\ \A q \in Neighbours(S) : q[1] <= t /\ t < q[2] => q = p
  <2> HIDE DEF S
  <2> QED
    BY <1>1, <1>2, PieceAt
<1>4. /\ p[1] \in S /\ p[2] \in S /\ ~\E s \in S : p[1] < s /\ s < p[2]
  BY DEF Neighbours
<1>5. /\ p[1] \in Nat /\ p[2] \in Nat /\ gap[1] <= p[1] /\ p[2] <= gap[2]
  BY <1>1, <1>2, <1>4
<1>6. ASSUME NEW i \in 1..Len(marks), marks[i].code \in Relevant,
             p[1] < marks[i].at, marks[i].at <= t
      PROVE  FALSE
  <2>1. marks[i].at \in Nat /\ i \in DOMAIN marks
    BY Rows
  <2>2. marks[i].at \in gap[1] + 1..gap[2] - 1
    BY <1>1, <1>3, <1>5, <1>6, <2>1
  <2>3. marks[i].at \in S
    BY <1>6, <2>1, <2>2 DEF Boundaries
  <2> QED
    BY <1>1, <1>3, <1>4, <1>5, <1>6, <2>1, <2>3
<1>7. {"lost", "restored", "broken", "ok"} \subseteq Relevant
  BY DEF Relevant
<1>8. /\ Stands(marks, p[1], "lost", "restored", NoFarm)
           <=> Stands(marks, t, "lost", "restored", NoFarm)
      /\ \A f \in FarmNames : Stands(marks, p[1], "broken", "ok", f)
                                <=> Stands(marks, t, "broken", "ok", f)
  BY <1>1, <1>3, <1>5, <1>6, <1>7, SameFaults
<1>9. /\ StatusAt(marks, p[1]).lost <=> Stands(marks, p[1], "lost", "restored", NoFarm)
      /\ \A f \in FarmNames : f \in StatusAt(marks, p[1]).broken
              <=> Stands(marks, p[1], "broken", "ok", f)
      /\ StatusAt(marks, p[1]).broken \subseteq FarmNames
  BY <1>5, StatusIs
<1> QED
  BY <1>3, <1>5, <1>8, <1>9

(* _bar_gap_findings has one finding for an instant of its gap, of the     *)
(* class the feed's state asks for, and none while connectivity is lost.   *)
LEMMA GapFindingsAt ==
  ASSUME NEW log, WellFormed(log), NEW t \in Session,
         NEW gap \in Gaps(log.bars), gap[1] <= t, t < gap[2]
  PROVE  LET covering == Covering(BarGapFindings(log.marks, gap), t)
             class == IF \E f \in FarmNames : Stands(log.marks, t, "broken", "ok", f)
                      THEN "FEED_OUTAGE" ELSE "GAP_SUSPECTED"
         IN IF Stands(log.marks, t, "lost", "restored", NoFarm) THEN covering = {}
            ELSE \E f : covering = {f} /\ f.class = class
<1> DEFINE marks == log.marks
           N == Neighbours(Boundaries(marks, gap))
           class(p) == IF StatusAt(marks, p[1]).broken # {} THEN "FEED_OUTAGE" ELSE "GAP_SUSPECTED"
           F(p) == Finding(class(p), p[1], p[2])
           covering == Covering(BarGapFindings(marks, gap), t)
<1>1. PICK p \in N :
           /\ p[1] <= t /\ t < p[2] /\ p[1] \in Nat /\ p[2] \in Nat
           /\ \A q \in N : q[1] <= t /\ t < q[2] => q = p
           /\ StatusAt(marks, p[1]).lost <=> Stands(marks, t, "lost", "restored", NoFarm)
           /\ StatusAt(marks, p[1]).broken # {}
                <=> \E f \in FarmNames : Stands(marks, t, "broken", "ok", f)
  BY PieceOf
<1>2. \A q : F(q).from = q[1] /\ F(q).to = q[2] /\ F(q).class = class(q)
  BY DEF Finding
<1>3. BarGapFindings(marks, gap) = {F(q) : q \in {r \in N : ~StatusAt(marks, r[1]).lost}}
  BY DEF BarGapFindings
<1> HIDE DEF F, N
<1>4. covering = IF StatusAt(marks, p[1]).lost THEN {} ELSE {F(p)}
  BY <1>1, <1>2, <1>3 DEF Covering
<1>5. class(p) = IF \E f \in FarmNames : Stands(marks, t, "broken", "ok", f)
                 THEN "FEED_OUTAGE" ELSE "GAP_SUSPECTED"
  BY <1>1
<1> HIDE DEF class, covering
<1> QED
  BY <1>1, <1>2, <1>4, <1>5 DEF covering

(* A finding on a gap lies within that gap.                                *)
LEMMA WithinTheGap ==
  ASSUME NEW log, WellFormed(log), NEW t \in Session, NEW gap \in Gaps(log.bars),
         Covering(BarGapFindings(log.marks, gap), t) # {}
  PROVE  gap[1] <= t /\ t < gap[2]
<1> DEFINE S == Boundaries(log.marks, gap)
<1>1. gap[1] \in Nat /\ gap[2] \in Nat /\ gap[1] < gap[2]
  <2>1. log.bars \subseteq Nat
    BY Bounds DEF WellFormed
  <2> QED
    BY <2>1, GapsAre, Bounds
<1>2. PICK p \in Neighbours(S) : p[1] <= t /\ t < p[2]
  BY DEF Covering, BarGapFindings, Finding
<1>3. p[1] \in S /\ p[2] \in S
  BY DEF Neighbours
<1>4. S \subseteq gap[1]..gap[2]
  BY <1>1 DEF Boundaries
<1>5. t \in Nat
  BY Bounds DEF Session
<1> QED
  BY <1>1, <1>2, <1>3, <1>4, <1>5

(* analyze_rows_v4 charges each instant to one finding, the right one.     *)
LEMMA EachInstantIsCharged ==
  ASSUME NEW log, WellFormed(log) PROVE ChargedOnce(log)
<1> SUFFICES ASSUME NEW t \in Session
             PROVE  /\ \A f, g \in Covering(BarProblems(log), t) : f = g
                    /\ {f.class : f \in Covering(BarProblems(log), t)} = Label(log, t)
  BY DEF ChargedOnce
<1> DEFINE marks == log.marks
           long == {p \in Gaps(log.bars) : Long(p)}
           outages == ConnectivityOutages(marks)
           lost == Stands(marks, t, "lost", "restored", NoFarm)
           broken == \E f \in FarmNames : Stands(marks, t, "broken", "ok", f)
           Of(gap) == Covering(BarGapFindings(marks, gap), t)
           covering == Covering(BarProblems(log), t)
<1>1. log.bars \subseteq Nat
  BY Bounds DEF WellFormed
<1>2. PICK gap \in Gaps(log.bars) :
        /\ gap[1] <= t /\ t < gap[2]
        /\ \A q \in Gaps(log.bars) : q[1] <= t /\ t < q[2] => q = gap
  BY <1>1, GapAt
<1>3. DarkAt(log.bars, t) <=> Long(gap)
  BY <1>1, <1>2, DarkIsLong
<1>4. covering = Covering(outages, t) \cup UNION {Of(p) : p \in long}
  BY DEF Covering, BarProblems
<1>5. \A p \in long : Of(p) # {} => p = gap
  BY <1>2, WithinTheGap
<1>6. UNION {Of(p) : p \in long} = IF Long(gap) THEN Of(gap) ELSE {}
  <2> HIDE DEF Of
  <2> QED
    BY <1>2, <1>5
<1>7. /\ \A f \in outages : f.class = "FEED_OUTAGE"
      /\ \A f, g \in Covering(outages, t) : f = g
      /\ Covering(outages, t) # {} <=> lost
  <2>1. "lost" \in Kinds \ {"broken", "ok"} /\ "restored" \in Kinds \ {"broken", "ok"}
    BY DEF Kinds
  <2> QED
    BY <2>1, PairedIs DEF ConnectivityOutages, Once
<1>8. IF lost THEN Of(gap) = {}
      ELSE \E f : Of(gap) = {f}
                   /\ f.class = IF broken THEN "FEED_OUTAGE" ELSE "GAP_SUSPECTED"
  BY <1>2, GapFindingsAt
<1>9. Label(log, t) = IF lost THEN {"FEED_OUTAGE"}
                      ELSE IF ~Long(gap) THEN {}
                      ELSE IF broken THEN {"FEED_OUTAGE"} ELSE {"GAP_SUSPECTED"}
  BY <1>3 DEF Label
<1>10. Covering(outages, t) \subseteq outages
  BY DEF Covering
<1> HIDE DEF outages, lost, broken, Of, covering
<1>11. CASE lost
  <2>1. covering = Covering(outages, t)
    BY <1>4, <1>6, <1>8, <1>11
  <2>2. PICK f \in Covering(outages, t) : TRUE
    BY <1>7, <1>11
  <2>3. covering = {f} /\ f.class = "FEED_OUTAGE"
    BY <1>7, <1>10, <2>1, <2>2
  <2> QED
    BY <1>9, <1>11, <2>3 DEF covering
<1>12. CASE ~lost /\ ~Long(gap)
  <2>1. covering = {}
    BY <1>4, <1>6, <1>7, <1>12
  <2> QED
    BY <1>9, <1>12, <2>1 DEF covering
<1>13. CASE ~lost /\ Long(gap)
  <2>1. covering = Of(gap)
    BY <1>4, <1>6, <1>7, <1>13
  <2>2. PICK f : Of(gap) = {f}
                   /\ f.class = IF broken THEN "FEED_OUTAGE" ELSE "GAP_SUSPECTED"
    BY <1>8, <1>13
  <2> QED
    BY <1>9, <1>13, <2>1, <2>2 DEF covering
<1> QED
  BY <1>11, <1>12, <1>13

(* An advisory covers the instants of its farm's fault, whatever else is   *)
(* wrong.                                                                  *)
LEMMA AdvisoriesStayApart ==
  ASSUME NEW log, WellFormed(log) PROVE AdvisoriesApart(log)
<1>1. "auxBroken" \in Kinds \ {"broken", "ok"} /\ "auxOk" \in Kinds \ {"broken", "ok"}
  BY DEF Kinds
<1> QED
  BY <1>1, PairedIs DEF AdvisoriesApart, Advisories

(* A healthy day has no instant to be charged.                             *)
LEMMA HealthyLogsAreClean ==
  ASSUME NEW log, ChargedOnce(log) PROVE HealthyIsClean(log)
BY DEF ChargedOnce, HealthyIsClean, HealthOk, Covering

-----------------------------------------------------------------------------
(* DailyHealth.                                                            *)

(* The ends of a set of clipped stamps.                                    *)
LEMMA EndsOf ==
  ASSUME NEW K, K \subseteq SessionOpen..SessionClose, K # {}
  PROVE  /\ Min(K) \in K /\ \A s \in K : Min(K) <= s
         /\ Max(K) \in K /\ \A s \in K : s <= Max(K)
<1>1. \E n \in K : \A m \in K : n <= m
  <2>1. K \subseteq Nat
    BY Bounds
  <2> QED
    BY <2>1, LeastOf
<1>2. \E n \in K : \A m \in K : n >= m
  <2>1. SessionClose \in Nat /\ K \subseteq 0..SessionClose
    BY Bounds
  <2>2. PICK n \in K : \A m \in K : m <= n
    BY <2>1, GreatestOf
  <2>3. \A m \in K : m \in Nat
    BY <2>1
  <2> QED
    BY <2>2, <2>3
<1>3. Min(K) \in K /\ \A s \in K : Min(K) <= s
  BY <1>1 DEF Min
<1>4. Max(K) \in K /\ \A s \in K : Max(K) >= s
  BY <1>2 DEF Max
<1>5. \A s \in K : s \in Nat
  BY Bounds
<1> QED
  BY <1>3, <1>4, <1>5

(* The neighbours of a set of clipped stamps.                              *)
LEMMA NeighbourIs ==
  ASSUME NEW S, S \subseteq SessionOpen..SessionClose, NEW p
  PROVE  p \in Neighbours(S)
           <=> /\ p = <<p[1], p[2]>> /\ p[1] \in S /\ p[2] \in S /\ p[1] < p[2]
               /\ \A s \in S : ~(p[1] < s /\ s < p[2])
BY DEF Neighbours

(* The long gaps of _gaps are the long ones DailyHealth looks at: between  *)
(* rows, before the first and after the last.                              *)
LEMMA LongGapsAre ==
  ASSUME NEW bars, bars \subseteq Nat, bars # {}, NEW p, Long(p)
  PROVE  LET K == Clipped(bars)
         IN p \in Gaps(bars)
              <=> p \in Neighbours(K) \cup {<<SessionOpen, Min(K)>>, <<Max(K), SessionClose>>}
<1> DEFINE K == Clipped(bars)
           S == K \cup {SessionOpen, SessionClose}
           lo == Min(K)
           hi == Max(K)
<1>1. /\ K \subseteq SessionOpen..SessionClose /\ S \subseteq SessionOpen..SessionClose
      /\ Gaps(bars) = Neighbours(S)
  BY ClippedIs, Ends DEF Gaps
<1>2. K # {}
  BY DEF Clipped
<1>3. lo \in K /\ hi \in K /\ \A s \in K : lo <= s /\ s <= hi
  <2> HIDE DEF K
  <2> QED
    BY <1>1, <1>2, EndsOf
<1>4. \A s \in S : s \in Nat /\ SessionOpen <= s /\ s <= SessionClose
  BY <1>1, Bounds
<1>5. \A s : s \in S <=> s \in K \/ s = SessionOpen \/ s = SessionClose
  OBVIOUS
<1>6. p[2] - p[1] > BarGap
  BY DEF Long
<1> HIDE DEF K, S, lo, hi
<1>7. ASSUME p \in Neighbours(S), p \notin Neighbours(K)
      PROVE  p = <<SessionOpen, lo>> \/ p = <<hi, SessionClose>>
  <2>1. /\ p = <<p[1], p[2]>> /\ p[1] \in S /\ p[2] \in S /\ p[1] < p[2]
        /\ \A s \in S : ~(p[1] < s /\ s < p[2])
    BY <1>1, <1>7, NeighbourIs
  <2>2. p[1] \notin K \/ p[2] \notin K
    BY <1>1, <1>5, <1>7, <2>1, NeighbourIs
  <2>3. CASE p[1] \notin K
    <3>1. p[1] = SessionOpen
      BY <1>4, <1>5, <2>1, <2>3, Bounds
    <3>2. p[2] = lo
      <4>1. lo \in Nat /\ SessionOpen < lo /\ lo \in S /\ lo <= SessionClose
        BY <1>3, <1>4, <1>5, <2>3, <3>1, Bounds
      <4>2. p[2] <= lo /\ p[2] \in Nat
        BY <1>4, <2>1, <3>1, <4>1
      <4>3. p[2] \in K \/ p[2] = SessionClose
        BY <1>5, <2>1, <3>1, Bounds
      <4> QED
        BY <1>3, <4>1, <4>2, <4>3, Bounds
    <3> QED
      BY <2>1, <3>1, <3>2
  <2>4. CASE p[2] \notin K
    <3>1. p[2] = SessionClose
      BY <1>4, <1>5, <2>1, <2>4, Bounds
    <3>2. p[1] = hi
      <4>1. hi \in Nat /\ hi < SessionClose /\ hi \in S /\ SessionOpen <= hi
        BY <1>3, <1>4, <1>5, <2>4, <3>1, Bounds
      <4>2. hi <= p[1] /\ p[1] \in Nat
        BY <1>4, <2>1, <3>1, <4>1
      <4>3. p[1] \in K \/ p[1] = SessionOpen
        BY <1>5, <2>1, <3>1, Bounds
      <4> QED
        BY <1>3, <4>1, <4>2, <4>3, Bounds
    <3> QED
      BY <2>1, <3>1, <3>2
  <2> QED
    BY <2>2, <2>3, <2>4
<1>8. ASSUME p \in Neighbours(K) PROVE p \in Neighbours(S)
  <2>1. /\ p = <<p[1], p[2]>> /\ p[1] \in K /\ p[2] \in K /\ p[1] < p[2]
        /\ \A s \in K : ~(p[1] < s /\ s < p[2])
    BY <1>1, <1>8, NeighbourIs
  <2>2. \A s \in S : ~(p[1] < s /\ s < p[2])
    BY <1>4, <1>5, <2>1, Bounds
  <2> QED
    BY <1>1, <1>5, <2>1, <2>2, NeighbourIs
<1>9. ASSUME p = <<SessionOpen, lo>> PROVE p \in Neighbours(S)
  <2>1. p[1] = SessionOpen /\ p[2] = lo
    BY <1>9
  <2>2. lo \in Nat /\ SessionOpen < lo /\ lo <= SessionClose
    BY <1>3, <1>4, <1>5, <1>6, <2>1, Bounds
  <2>3. \A s \in S : ~(SessionOpen < s /\ s < lo)
    BY <1>3, <1>4, <1>5, <2>2, Bounds
  <2> QED
    BY <1>1, <1>3, <1>5, <1>9, <2>1, <2>2, <2>3, NeighbourIs
<1>10. ASSUME p = <<hi, SessionClose>> PROVE p \in Neighbours(S)
  <2>1. p[1] = hi /\ p[2] = SessionClose
    BY <1>10
  <2>2. hi \in Nat /\ hi < SessionClose /\ SessionOpen <= hi
    BY <1>3, <1>4, <1>5, <1>6, <2>1, Bounds
  <2>3. \A s \in S : ~(hi < s /\ s < SessionClose)
    BY <1>3, <1>4, <1>5, <2>2, Bounds
  <2> QED
    BY <1>1, <1>3, <1>5, <1>10, <2>1, <2>2, <2>3, NeighbourIs
<1> QED
  BY <1>1, <1>7, <1>8, <1>9, <1>10 DEF K, lo, hi

(* _stream_health counts as many gaps as schema v4 finds.                  *)
LEMMA GapsAreCountedAlike ==
  ASSUME NEW bars, bars \subseteq Nat
  PROVE  DailyGaps(bars) = Cardinality({p \in Gaps(bars) : Long(p)})
<1>1. CASE bars = {}
  <2> DEFINE day == <<SessionOpen, SessionClose>>
  <2>1. Gaps(bars) = Neighbours({SessionOpen, SessionClose})
    BY <1>1 DEF Gaps, Clipped
  <2>2. Neighbours({SessionOpen, SessionClose}) = {day}
    BY Bounds DEF Neighbours
  <2>3. Long(day)
    BY Bounds DEF Long
  <2>4. {p \in Gaps(bars) : Long(p)} = {day}
    BY <2>1, <2>2, <2>3
  <2> QED
    BY <1>1, <2>4, FS_Singleton DEF DailyGaps
<1>2. CASE bars # {}
  <2> DEFINE K == Clipped(bars)
             edges == {<<SessionOpen, Min(K)>>, <<Max(K), SessionClose>>}
  <2>1. DailyGaps(bars) = Cardinality({p \in edges \cup Neighbours(K) : Long(p)})
    BY <1>2 DEF DailyGaps
  <2>2. \A p : Long(p) => (p \in Gaps(bars) <=> p \in edges \cup Neighbours(K))
    BY <1>2, LongGapsAre
  <2> HIDE DEF K, edges
  <2>3. {p \in edges \cup Neighbours(K) : Long(p)} = {p \in Gaps(bars) : Long(p)}
    BY <2>2
  <2> QED
    BY <2>1, <2>3
<1> QED
  BY <1>1, <1>2

(* The long stretches between rows, and what is missed of the session in   *)
(* those that end by t.                                                    *)
Stretches(K) == {p \in Neighbours(K) : Long(p)}
MissedBy(K, t) == {u \in Session : \E p \in Stretches(K) : p[1] <= u /\ u < p[2] /\ p[2] <= t}

(* The size of a disjoint union.                                           *)
LEMMA DisjointUnion ==
  ASSUME NEW A, NEW B, IsFiniteSet(A), IsFiniteSet(B), A \cap B = {}
  PROVE  /\ IsFiniteSet(A \cup B)
         /\ Cardinality(A \cup B) = Cardinality(A) + Cardinality(B)
<1>1. Cardinality(A) \in Nat /\ Cardinality(B) \in Nat
  BY FS_CardinalityType
<1>2. Cardinality(A \cap B) = 0
  BY FS_EmptySet
<1>3. /\ IsFiniteSet(A \cup B)
      /\ Cardinality(A \cup B) = Cardinality(A) + Cardinality(B) - Cardinality(A \cap B)
  BY FS_Union
<1> QED
  BY <1>1, <1>2, <1>3

(* There are finitely many instants in a session.                          *)
LEMMA SessionIsFinite ==
  ASSUME NEW A, A \subseteq Session
  PROVE  IsFiniteSet(A) /\ Cardinality(A) \in Nat
<1>1. IsFiniteSet(Session)
  BY Bounds, FS_Interval DEF Session
<1>2. IsFiniteSet(A)
  BY <1>1, FS_Subset
<1> QED
  BY <1>2, FS_CardinalityType

(* What one more instant of the loop of _stream_health adds to             *)
(* internal_missing is what is missed up to it.                            *)
LEMMA MissedStep ==
  ASSUME NEW K, K \subseteq SessionOpen..SessionClose, K # {}, NEW t \in 1..SessionClose
  PROVE  /\ Adds(K, t) \in Nat
         /\ Cardinality(MissedBy(K, t)) = Cardinality(MissedBy(K, t - 1)) + Adds(K, t)
<1> DEFINE earlier == {s \in K : s < t}
           previous == Max(earlier)
           added == {u \in Session : previous <= u /\ u < t}
           adds == t \in K /\ Min(K) < t /\ Long(<<previous, t>>)
<1>1. \A s \in K : s \in Nat /\ SessionOpen <= s /\ s <= SessionClose
  BY Bounds
<1>2. t \in Nat /\ t - 1 \in Nat /\ t <= SessionClose
  BY Bounds
<1>3. Adds(K, t) = IF adds THEN t - previous ELSE 0
  BY DEF Adds
<1>4. \A p \in Neighbours(K) :
        /\ p[1] \in K /\ p[2] \in K /\ p[1] < p[2] /\ p = <<p[1], p[2]>>
        /\ \A s \in K : ~(p[1] < s /\ s < p[2])
  BY NeighbourIs
<1>5. ASSUME earlier # {}
      PROVE  previous \in K /\ previous < t /\ \A s \in K : s < t => s <= previous
  <2>1. earlier \subseteq SessionOpen..SessionClose
    OBVIOUS
  <2>2. previous \in earlier /\ \A s \in earlier : s <= previous
    <3> HIDE DEF earlier
    <3> QED
      BY <1>5, <2>1, EndsOf
  <2> HIDE DEF previous
  <2> QED
    BY <2>2
<1>6. ASSUME NEW p \in Neighbours(K), p[2] = t PROVE p = <<previous, t>>
  <2>1. p[1] \in earlier
    BY <1>4, <1>6
  <2>2. previous \in K /\ previous < t /\ \A s \in K : s < t => s <= previous
    BY <1>5, <2>1
  <2> HIDE DEF previous
  <2> QED
    BY <1>1, <1>4, <1>6, <2>1, <2>2
<1>7. CASE ~adds
  <2>1. ASSUME NEW p \in Stretches(K) PROVE p[2] # t
    <3>1. SUFFICES ASSUME p[2] = t PROVE FALSE
      OBVIOUS
    <3>2. p \in Neighbours(K) /\ Long(p)
      BY DEF Stretches
    <3>3. p = <<previous, t>> /\ t \in K /\ p[1] \in K /\ p[1] < t
      BY <1>4, <1>6, <3>1, <3>2
    <3>4. Min(K) <= p[1] /\ Min(K) \in K
      BY <3>3, EndsOf
    <3>5. p[1] \in Nat /\ Min(K) \in Nat
      BY <1>1, <3>3, <3>4
    <3>6. Min(K) < t
      BY <1>2, <3>3, <3>4, <3>5
    <3> QED
      BY <1>7, <3>2, <3>3, <3>6
  <2>2. \A p \in Stretches(K) : p[2] \in Nat
    BY <1>1, <1>4 DEF Stretches
  <2>3. \A p \in Stretches(K) : p[2] <= t <=> p[2] <= t - 1
    BY <1>2, <2>1, <2>2
  <2>4. MissedBy(K, t) = MissedBy(K, t - 1)
    BY <2>3 DEF MissedBy
  <2>5. Cardinality(MissedBy(K, t - 1)) \in Nat
    BY SessionIsFinite DEF MissedBy
  <2> QED
    BY <1>3, <1>7, <2>4, <2>5
<1>8. CASE adds
  <2>1. previous \in K /\ previous < t /\ \A s \in K : s < t => s <= previous
    <3>1. Min(K) \in earlier
      BY <1>8, EndsOf
    <3> QED
      BY <1>5, <3>1
  <2>2. /\ previous \in Nat /\ SessionOpen <= previous /\ previous <= SessionClose
    BY <1>1, <2>1
  <2> HIDE DEF previous
  <2>3. <<previous, t>> \in Stretches(K)
    <3>1. \A s \in K : ~(previous < s /\ s < t)
      BY <1>1, <2>1, <2>2
    <3>2. <<previous, t>> \in Neighbours(K)
      BY <1>8, <2>1, <3>1 DEF Neighbours
    <3> QED
      BY <1>8, <3>2 DEF Stretches
  <2>4. added = previous..t - 1
    BY <1>2, <2>2, Bounds DEF Session
  <2>5. IsFiniteSet(added) /\ Cardinality(added) = t - previous
    <3>1. /\ IsFiniteSet(previous..t - 1)
          /\ Cardinality(previous..t - 1)
               = IF previous > t - 1 THEN 0 ELSE t - 1 - previous + 1
      BY <1>2, <2>2, FS_Interval
    <3> HIDE DEF added
    <3> QED
      BY <1>2, <2>1, <2>2, <2>4, <3>1
  <2>6. MissedBy(K, t) = MissedBy(K, t - 1) \cup added
    <3>1. \A p \in Stretches(K) : p[2] \in Nat /\ (p[2] = t => p = <<previous, t>>)
      BY <1>1, <1>4, <1>6 DEF Stretches
    <3>2. \A p \in Stretches(K) : p[2] <= t <=> p[2] <= t - 1 \/ p = <<previous, t>>
      BY <1>2, <3>1
    <3> QED
      BY <2>3, <3>2 DEF MissedBy
  <2>7. MissedBy(K, t - 1) \cap added = {}
    <3> SUFFICES ASSUME NEW u \in added, NEW p \in Stretches(K), p[2] <= t - 1, u < p[2]
                 PROVE  FALSE
      BY DEF MissedBy
    <3>1. p[2] \in K /\ p[2] \in Nat
      BY <1>1, <1>4 DEF Stretches
    <3>2. p[2] < t
      BY <1>2, <3>1
    <3>3. p[2] <= previous
      BY <2>1, <3>1, <3>2
    <3>4. u \in Nat /\ previous <= u
      BY Bounds DEF Session
    <3> QED
      BY <2>2, <3>1, <3>3, <3>4
  <2>8. IsFiniteSet(MissedBy(K, t - 1)) /\ Cardinality(MissedBy(K, t - 1)) \in Nat
    BY SessionIsFinite DEF MissedBy
  <2>9. Cardinality(MissedBy(K, t)) = Cardinality(MissedBy(K, t - 1)) + (t - previous)
    <3> HIDE DEF added
    <3> QED
      BY <2>5, <2>6, <2>7, <2>8, DisjointUnion
  <2> QED
    BY <1>2, <1>3, <1>8, <2>1, <2>2, <2>9
<1> QED
  BY <1>7, <1>8

(* _stream_health, run over any bars, adds up the long stretches between   *)
(* them.                                                                   *)
LEMMA MissingIs ==
  ASSUME NEW bars, bars \subseteq Nat, bars # {}
  PROVE  DailyMissing(bars) =
           Min(Clipped(bars)) - SessionOpen + SessionClose - Max(Clipped(bars))
             + Cardinality(MissedBy(Clipped(bars), SessionClose))
<1> DEFINE K == Clipped(bars)
           n == SessionClose
           Grow(g, t) == IF t = 0 THEN 0 ELSE g[t - 1] + Adds(K, t)
           Solves(g) == g = [t \in 0..n |-> Grow(g, t)]
           internal == CHOOSE g : Solves(g)
           f == [t \in 0..n |-> Cardinality(MissedBy(K, t))]
<1>1. K \subseteq SessionOpen..SessionClose /\ K # {}
  <2>1. K \subseteq SessionOpen..SessionClose
    BY ClippedIs
  <2>2. K # {}
    BY DEF Clipped
  <2> QED
    BY <2>1, <2>2
<1>2. DailyMissing(bars) =
        Min(K) - SessionOpen + SessionClose - Max(K) + internal[n]
  BY DEF DailyMissing
<1>3. n \in Nat
  BY Bounds
<1> HIDE DEF K
<1>4. f[0] = 0
  <2>1. \A p \in Stretches(K) : ~(p[2] <= 0)
    <3>1. \A p \in Stretches(K) : p[1] \in Nat /\ p[2] \in Nat /\ p[1] < p[2]
      BY <1>1, Bounds, NeighbourIs DEF Stretches
    <3> QED
      BY <3>1
  <2>2. MissedBy(K, 0) = {}
    BY <2>1 DEF MissedBy
  <2> QED
    BY <1>3, <2>2, FS_EmptySet
<1>5. ASSUME NEW t \in 1..n
      PROVE  f[t] = f[t - 1] + Adds(K, t) /\ Adds(K, t) \in Nat /\ f[t - 1] \in Nat
  <2>1. t \in 0..n /\ t - 1 \in 0..n
    BY <1>3
  <2>2. f[t] = Cardinality(MissedBy(K, t)) /\ f[t - 1] = Cardinality(MissedBy(K, t - 1))
    BY <2>1
  <2>3. Cardinality(MissedBy(K, t - 1)) \in Nat
    BY SessionIsFinite DEF MissedBy
  <2> HIDE DEF f
  <2> QED
    BY <1>1, <2>2, <2>3, MissedStep
<1>6. DOMAIN f = 0..n /\ f = [t \in 0..n |-> f[t]]
  OBVIOUS
<1> HIDE DEF f
<1>7. Solves(f)
  <2>1. ASSUME NEW t \in 0..n PROVE f[t] = Grow(f, t)
    BY <1>3, <1>4, <1>5
  <2> HIDE DEF Grow
  <2> QED
    BY <1>6, <2>1
<1>8. Solves(internal)
  <2> HIDE DEF Solves
  <2> QED
    BY <1>7, Zenon
<1> HIDE DEF internal
<1>9. \A t \in 0..n : internal[t] = Grow(internal, t)
  BY <1>8
<1> HIDE DEF Solves
<1> DEFINE S == {t \in 0..n : internal[t] = f[t]}
<1>10. 0 \in S
  BY <1>3, <1>4, <1>9
<1>11. ASSUME NEW t \in 1..n, t - 1 \in S PROVE t \in S
  <2>1. t \in 0..n /\ t # 0 /\ internal[t - 1] = f[t - 1]
    BY <1>3, <1>11
  <2>2. internal[t] = internal[t - 1] + Adds(K, t)
    BY <1>9, <2>1
  <2> QED
    BY <1>5, <2>1, <2>2
<1>12. \A t \in 0..n : t \in S
  <2> HIDE DEF S
  <2> QED
    BY <1>3, <1>10, <1>11, IndexInduction
<1>13. internal[n] = f[n]
  BY <1>3, <1>12
<1>14. f[n] = Cardinality(MissedBy(K, SessionClose))
  BY <1>3 DEF f
<1> QED
  BY <1>2, <1>13, <1>14 DEF K

(* An instant is missing before the first bar, after the last one, or in a *)
(* long stretch.                                                           *)
LEMMA MissingInstants ==
  ASSUME NEW bars, bars \subseteq Nat, bars # {}
  PROVE  LET K == Clipped(bars)
         IN {t \in Session : MissingAt(bars, t)}
              = (SessionOpen..Min(K) - 1) \cup (Max(K)..SessionClose - 1)
                  \cup MissedBy(K, SessionClose)
<1> DEFINE K == Clipped(bars)
           lo == Min(K)
           hi == Max(K)
<1>1. K \subseteq SessionOpen..SessionClose /\ K # {}
  <2>1. K \subseteq SessionOpen..SessionClose
    BY ClippedIs
  <2>2. K # {}
    BY DEF Clipped
  <2> QED
    BY <2>1, <2>2
<1>2. lo \in K /\ hi \in K /\ \A s \in K : lo <= s /\ s <= hi
  <2> HIDE DEF K
  <2> QED
    BY <1>1, EndsOf
<1>3. \A s \in K : s \in Nat /\ SessionOpen <= s /\ s <= SessionClose
  BY <1>1, Bounds
<1>4. ASSUME NEW t \in Session
      PROVE  MissingAt(bars, t) <=> t < lo \/ hi <= t \/ t \in MissedBy(K, SessionClose)
  <2>1. t \in Nat /\ SessionOpen <= t /\ t < SessionClose
    BY Bounds DEF Session
  <2>2. /\ (\E s \in bars : s <= t) <=> \E s \in K : s <= t
        /\ (\E s \in bars : s > t) <=> \E s \in K : s > t
    BY ClippedIs
  <2>3. PICK gap \in Gaps(bars) :
          /\ gap[1] <= t /\ t < gap[2]
          /\ \A q \in Gaps(bars) : q[1] <= t /\ t < q[2] => q = gap
    BY GapAt
  <2>4. DarkAt(bars, t) <=> Long(gap)
    BY <2>3, DarkIsLong
  <2>5. \A p : Long(p) => (p \in Gaps(bars)
          <=> p \in Neighbours(K) \cup {<<SessionOpen, lo>>, <<hi, SessionClose>>})
    BY LongGapsAre
  <2>6. t \in MissedBy(K, SessionClose)
          <=> \E p \in Neighbours(K) : Long(p) /\ p[1] <= t /\ t < p[2]
    <3>1. \A p \in Neighbours(K) : p[2] <= SessionClose
      BY <1>1, <1>3, NeighbourIs
    <3> QED
      BY <3>1 DEF MissedBy, Stretches
  <2> HIDE DEF K, lo, hi
  <2>7. (\E s \in K : s <= t) <=> lo <= t
    BY <1>2, <1>3, <2>1
  <2>8. (\E s \in K : s > t) <=> ~(hi <= t)
    BY <1>2, <1>3, <2>1
  <2>9. CASE t < lo \/ hi <= t
    BY <1>2, <1>3, <2>1, <2>2, <2>7, <2>8, <2>9 DEF MissingAt
  <2>10. CASE ~(t < lo \/ hi <= t)
    <3>1. MissingAt(bars, t) <=> Long(gap)
      BY <1>2, <1>3, <2>1, <2>2, <2>4, <2>7, <2>8, <2>10 DEF MissingAt
    <3>2. ASSUME Long(gap) PROVE \E p \in Neighbours(K) : Long(p) /\ p[1] <= t /\ t < p[2]
      <4>1. gap \in Neighbours(K) \cup {<<SessionOpen, lo>>, <<hi, SessionClose>>}
        BY <2>3, <2>5, <3>2
      <4>2. gap # <<SessionOpen, lo>> /\ gap # <<hi, SessionClose>>
        BY <1>2, <1>3, <2>1, <2>3, <2>10
      <4> QED
        BY <2>3, <3>2, <4>1, <4>2
    <3>3. ASSUME NEW p \in Neighbours(K), Long(p), p[1] <= t, t < p[2] PROVE Long(gap)
      <4>1. p \in Gaps(bars)
        BY <2>5, <3>3
      <4> QED
        BY <2>3, <3>3, <4>1
    <3> QED
      BY <2>6, <2>10, <3>1, <3>2, <3>3
  <2> QED
    BY <2>9, <2>10
<1>5. \A t \in Nat : /\ t \in Session /\ t < lo <=> t \in SessionOpen..lo - 1
                     /\ t \in Session /\ hi <= t <=> t \in hi..SessionClose - 1
  <2>1. lo \in Nat /\ hi \in Nat /\ lo <= SessionClose /\ SessionOpen <= hi
    BY <1>2, <1>3
  <2> HIDE DEF lo, hi
  <2> QED
    BY <2>1, Bounds DEF Session
<1>6. MissedBy(K, SessionClose) \subseteq Session
  BY DEF MissedBy
<1>7. \A t \in Session : t \in Nat
  BY Bounds DEF Session
<1>8. (SessionOpen..lo - 1) \subseteq Nat /\ (hi..SessionClose - 1) \subseteq Nat
  <2>1. lo \in Nat /\ hi \in Nat
    BY <1>2, <1>3
  <2> HIDE DEF lo, hi
  <2> QED
    BY <2>1, Bounds
<1> HIDE DEF K, lo, hi
<1>9. {t \in Session : MissingAt(bars, t)}
        = (SessionOpen..lo - 1) \cup (hi..SessionClose - 1) \cup MissedBy(K, SessionClose)
  BY <1>4, <1>5, <1>6, <1>7, <1>8
<1> QED
  BY <1>9 DEF K, lo, hi

(* missing_seconds is the number of the missing instants.                  *)
LEMMA MissingIsMeasured ==
  ASSUME NEW bars, bars \subseteq Nat
  PROVE  DailyMissing(bars) = Cardinality({t \in Session : MissingAt(bars, t)})
<1>1. CASE bars = {}
  <2>1. {t \in Session : MissingAt(bars, t)} = SessionOpen..SessionClose - 1
    BY <1>1 DEF MissingAt, Session
  <2>2. Cardinality(SessionOpen..SessionClose - 1) = SessionClose - SessionOpen
    <3>1. Cardinality(SessionOpen..SessionClose - 1)
            = IF SessionOpen > SessionClose - 1 THEN 0 ELSE SessionClose - 1 - SessionOpen + 1
      BY Bounds, FS_Interval
    <3> QED
      BY <3>1, Bounds
  <2> QED
    BY <1>1, <2>1, <2>2 DEF DailyMissing
<1>2. CASE bars # {}
  <2> DEFINE K == Clipped(bars)
             lo == Min(K)
             hi == Max(K)
             head == SessionOpen..lo - 1
             tail == hi..SessionClose - 1
             within == MissedBy(K, SessionClose)
  <2>1. K \subseteq SessionOpen..SessionClose /\ K # {}
    <3>1. K \subseteq SessionOpen..SessionClose
      BY ClippedIs
    <3>2. K # {}
      BY <1>2 DEF Clipped
    <3> QED
      BY <3>1, <3>2
  <2>2. lo \in K /\ hi \in K /\ \A s \in K : lo <= s /\ s <= hi
    <3> HIDE DEF K
    <3> QED
      BY <2>1, EndsOf
  <2>3. /\ lo \in Nat /\ hi \in Nat /\ SessionOpen <= lo /\ lo <= hi /\ hi <= SessionClose
    BY <2>1, <2>2, Bounds
  <2>4. \A u \in within : u \in Nat /\ lo <= u /\ u < hi
    <3> SUFFICES ASSUME NEW u \in Session, NEW p \in Neighbours(K), p[1] <= u, u < p[2]
                 PROVE  u \in Nat /\ lo <= u /\ u < hi
      BY DEF MissedBy, Stretches
    <3>1. p[1] \in K /\ p[2] \in K
      BY <2>1, NeighbourIs
    <3>2. /\ p[1] \in Nat /\ p[2] \in Nat /\ lo <= p[1] /\ p[2] <= hi /\ u \in Nat
      BY <2>1, <2>2, <3>1, Bounds DEF Session
    <3> QED
      BY <2>3, <3>2
  <2>5. IsFiniteSet(within) /\ Cardinality(within) \in Nat
    BY SessionIsFinite DEF MissedBy
  <2>6. {t \in Session : MissingAt(bars, t)} = head \cup tail \cup within
    BY <1>2, MissingInstants
  <2>7. DailyMissing(bars) = lo - SessionOpen + SessionClose - hi + Cardinality(within)
    BY <1>2, MissingIs
  <2> HIDE DEF K, lo, hi, within
  <2>8. /\ IsFiniteSet(head) /\ IsFiniteSet(tail)
        /\ Cardinality(head) = lo - SessionOpen
        /\ Cardinality(tail) = SessionClose - hi
    <3>1. /\ IsFiniteSet(head)
          /\ Cardinality(head) = IF SessionOpen > lo - 1 THEN 0 ELSE lo - 1 - SessionOpen + 1
      BY <2>3, Bounds, FS_Interval
    <3>2. /\ IsFiniteSet(tail)
          /\ Cardinality(tail) = IF hi > SessionClose - 1 THEN 0 ELSE SessionClose - 1 - hi + 1
      BY <2>3, Bounds, FS_Interval
    <3> HIDE DEF head, tail
    <3> QED
      BY <2>3, <3>1, <3>2, Bounds
  <2>9. head \cap tail = {} /\ (head \cup tail) \cap within = {}
    BY <2>3, <2>4, Bounds
  <2> HIDE DEF head, tail
  <2>10. /\ IsFiniteSet(head \cup tail)
         /\ Cardinality(head \cup tail) = lo - SessionOpen + (SessionClose - hi)
    BY <2>8, <2>9, DisjointUnion
  <2>11. Cardinality(head \cup tail \cup within)
           = lo - SessionOpen + (SessionClose - hi) + Cardinality(within)
    BY <2>5, <2>9, <2>10, DisjointUnion
  <2> QED
    BY <2>3, <2>5, <2>6, <2>7, <2>11, Bounds
<1> QED
  BY <1>1, <1>2

(* DailyHealth and schema v4 agree on every log.                           *)
LEMMA TheReportsAgree ==
  ASSUME NEW log, WellFormed(log) PROVE ReportsAgree(log)
<1>1. log.bars \subseteq Nat
  BY Bounds DEF WellFormed
<1> QED
  BY <1>1, GapsAreCountedAlike, MissingIsMeasured DEF ReportsAgree

-----------------------------------------------------------------------------
(* The theorem.                                                            *)

(* The verdicts are exact for every log of any length.                     *)
LEMMA ExactOnEveryLog ==
  ASSUME NEW log, WellFormed(log)
  PROVE  ChargedOnce(log) /\ AdvisoriesApart(log) /\ HealthyIsClean(log) /\ ReportsAgree(log)
<1>1. ChargedOnce(log)
  BY EachInstantIsCharged
<1> QED
  BY <1>1, AdvisoriesStayApart, HealthyLogsAreClean, TheReportsAgree

(* The recorder's log is well formed: its rows come in the order of their  *)
(* stamps.                                                                 *)
LogInv ==
  phase = "recording" =>
    /\ stamp \in 0..SessionClose + 1
    /\ WellFormed(raw)
    /\ raw = [bars |-> raw.bars, marks |-> raw.marks, flawed |-> raw.flawed]
    /\ \A i \in 1..Len(raw.marks) : raw.marks[i].at <= stamp

(* The recorder begins with such a log.                                    *)
LEMMA LogInvInit == Init => LogInv
<1> SUFFICES ASSUME Init PROVE LogInv
  OBVIOUS
<1>1. /\ stamp = 0 /\ raw.bars = {} /\ raw.marks = <<>>
      /\ raw = [bars |-> raw.bars, marks |-> raw.marks, flawed |-> raw.flawed]
  BY DEF Init, Empty
<1>2. raw.marks \in Seq(Mark) /\ Len(raw.marks) = 0
  BY <1>1
<1> QED
  BY <1>1, <1>2, Bounds DEF LogInv, WellFormed

(* Each row it writes is no earlier than the ones before it.               *)
LEMMA LogInvStep == LogInv /\ [Next]_vars => LogInv'
<1> SUFFICES ASSUME LogInv, [Next]_vars PROVE LogInv'
  OBVIOUS
<1>1. CASE WriteBar
  <2>1. /\ phase = "recording" /\ stamp' \in stamp..SessionClose + 1
        /\ raw' = [raw EXCEPT !.bars = @ \cup {stamp'}]
    BY <1>1 DEF WriteBar, Row
  <2>2. /\ stamp \in 0..SessionClose + 1 /\ WellFormed(raw)
        /\ raw = [bars |-> raw.bars, marks |-> raw.marks, flawed |-> raw.flawed]
        /\ \A i \in 1..Len(raw.marks) : raw.marks[i].at <= stamp
    BY <2>1 DEF LogInv
  <2>3. /\ raw'.bars = raw.bars \cup {stamp'} /\ raw'.marks = raw.marks
        /\ raw' = [bars |-> raw'.bars, marks |-> raw'.marks, flawed |-> raw'.flawed]
    BY <2>1, <2>2
  <2>4. stamp' \in 0..SessionClose + 1 /\ stamp <= stamp' /\ stamp \in Nat /\ stamp' \in Nat
    BY <2>1, <2>2, Bounds
  <2>5. WellFormed(raw)'
    BY <2>2, <2>3, <2>4 DEF WellFormed
  <2>6. \A i \in 1..Len(raw.marks) : raw.marks[i].at <= stamp'
    BY <2>2, <2>4, Rows
  <2> QED
    BY <2>3, <2>4, <2>5, <2>6 DEF LogInv
<1>2. CASE WriteMark
  <2>1. PICK c \in Meanings :
          raw' = [raw EXCEPT !.marks = Append(@, [at |-> stamp', code |-> c[1], farm |-> c[2]])]
    BY <1>2 DEF WriteMark
  <2> DEFINE m == [at |-> stamp', code |-> c[1], farm |-> c[2]]
             n == Len(raw.marks)
  <2>2. /\ stamp \in 0..SessionClose + 1 /\ WellFormed(raw)
        /\ raw = [bars |-> raw.bars, marks |-> raw.marks, flawed |-> raw.flawed]
        /\ \A i \in 1..n : raw.marks[i].at <= stamp
        /\ stamp' \in stamp..SessionClose + 1
    BY <1>2 DEF LogInv, WriteMark, Row
  <2>3. stamp' \in 0..SessionClose + 1 /\ stamp <= stamp' /\ stamp \in Nat /\ stamp' \in Nat
    BY <2>2, Bounds
  <2>4. /\ c[1] \in Kinds /\ c[2] \in FarmNames \cup {NoFarm}
        /\ c[2] \in IF c[1] \in {"broken", "ok"} THEN FarmNames ELSE {NoFarm}
    BY DEF Meanings, Kinds
  <2>5. /\ m \in Mark /\ m.at = stamp'
        /\ m.farm \in IF m.code \in {"broken", "ok"} THEN FarmNames ELSE {NoFarm}
    BY <2>3, <2>4 DEF Mark
  <2>6. /\ raw'.bars = raw.bars /\ raw'.marks = Append(raw.marks, m)
        /\ raw' = [bars |-> raw'.bars, marks |-> raw'.marks, flawed |-> raw'.flawed]
    BY <2>1, <2>2
  <2>7. raw.marks \in Seq(Mark) /\ n \in Nat
    BY <2>2, Rows DEF WellFormed
  <2> HIDE DEF m
  <2>8. /\ raw'.marks \in Seq(Mark) /\ Len(raw'.marks) = n + 1
        /\ \A i \in 1..n : raw'.marks[i] = raw.marks[i]
        /\ raw'.marks[n + 1] = m
    BY <2>5, <2>6, <2>7
  <2>9. \A i \in 1..Len(raw'.marks) : i \in 1..n \/ i = n + 1
    BY <2>7, <2>8
  <2>10. \A i \in 1..n : raw.marks[i].at \in Nat /\ raw.marks[i].at <= stamp'
    BY <2>2, <2>3, Rows
  <2>11. \A i, j \in 1..n : i <= j => raw.marks[i].at <= raw.marks[j].at
    BY <2>2 DEF WellFormed
  <2>12. \A i \in 1..n :
           raw.marks[i].farm \in IF raw.marks[i].code \in {"broken", "ok"}
                                 THEN FarmNames ELSE {NoFarm}
    BY <2>2 DEF WellFormed
  <2>13. ASSUME NEW i \in 1..Len(raw'.marks), NEW j \in 1..Len(raw'.marks), i <= j
         PROVE  raw'.marks[i].at <= raw'.marks[j].at
    <3>1. i \in 1..n + 1 /\ j \in 1..n + 1 /\ i \in Int /\ j \in Int
      BY <2>7, <2>8
    <3>2. CASE j \in 1..n
      <4>1. i \in 1..n
        BY <2>7, <2>13, <3>1, <3>2
      <4>2. raw.marks[i].at <= raw.marks[j].at
        BY <2>11, <2>13, <3>2, <4>1
      <4> QED
        BY <2>8, <3>2, <4>1, <4>2
    <3>3. CASE i \in 1..n /\ j = n + 1
      <4>1. raw.marks[i].at <= stamp' /\ raw'.marks[i] = raw.marks[i]
        BY <2>8, <2>10, <3>3
      <4>2. raw'.marks[j].at = stamp'
        BY <2>5, <2>8, <3>3
      <4> QED
        BY <4>1, <4>2
    <3>4. CASE i = n + 1
      <4>1. j = n + 1
        BY <2>7, <2>13, <3>1, <3>4
      <4>2. raw'.marks[i].at = stamp' /\ raw'.marks[j].at = stamp'
        BY <2>5, <2>8, <3>4, <4>1
      <4> QED
        BY <2>3, <4>2
    <3> QED
      BY <2>9, <3>2, <3>3, <3>4
  <2>14. WellFormed(raw)'
    BY <2>2, <2>5, <2>6, <2>8, <2>9, <2>12, <2>13 DEF WellFormed
  <2>15. ASSUME NEW i \in 1..Len(raw'.marks) PROVE raw'.marks[i].at <= stamp'
    <3>1. CASE i \in 1..n
      <4>1. raw.marks[i].at <= stamp' /\ raw'.marks[i] = raw.marks[i]
        BY <2>8, <2>10, <3>1
      <4> QED
        BY <4>1
    <3>2. CASE i = n + 1
      <4>1. raw'.marks[i].at = stamp'
        BY <2>5, <2>8, <3>2
      <4> QED
        BY <2>3, <4>1
    <3> QED
      BY <2>9, <3>1, <3>2
  <2> QED
    BY <2>3, <2>6, <2>14, <2>15 DEF LogInv
<1>3. CASE WriteFlaw
  <2>1. /\ phase = "recording" /\ stamp' \in stamp..SessionClose + 1
        /\ raw' = [raw EXCEPT !.flawed = TRUE]
    BY <1>3 DEF WriteFlaw, Row
  <2>2. /\ stamp \in 0..SessionClose + 1 /\ WellFormed(raw)
        /\ raw = [bars |-> raw.bars, marks |-> raw.marks, flawed |-> raw.flawed]
        /\ \A i \in 1..Len(raw.marks) : raw.marks[i].at <= stamp
    BY <2>1 DEF LogInv
  <2>3. /\ raw'.bars = raw.bars /\ raw'.marks = raw.marks
        /\ raw' = [bars |-> raw'.bars, marks |-> raw'.marks, flawed |-> raw'.flawed]
    BY <2>1, <2>2
  <2>4. stamp' \in 0..SessionClose + 1 /\ stamp <= stamp' /\ stamp \in Nat /\ stamp' \in Nat
    BY <2>1, <2>2, Bounds
  <2>5. WellFormed(raw)'
    BY <2>2, <2>3 DEF WellFormed
  <2>6. \A i \in 1..Len(raw.marks) : raw.marks[i].at <= stamp'
    BY <2>2, <2>4, Rows
  <2> QED
    BY <2>3, <2>4, <2>5, <2>6 DEF LogInv
<1>4. CASE Seal \/ PowerLoss \/ Touch
  BY <1>4 DEF Seal, PowerLoss, Touch, logVars, LogInv
<1>5. ASSUME NEW r \in Runs, Begin(r) \/ Read(r) \/ Attest(r) \/ Publish(r) \/ Abandon(r)
      PROVE  LogInv'
  <2>1. UNCHANGED logVars
    BY <1>5 DEF Begin, Read, Attest, Publish, CreateHealth, WriteHealth, CreateAmendment,
                WriteAmendment, Abandon
  <2> QED
    BY <2>1 DEF logVars, LogInv, WellFormed
<1>6. CASE UNCHANGED vars
  BY <1>6 DEF vars, logVars, LogInv, WellFormed
<1> QED
  BY <1>1, <1>2, <1>3, <1>4, <1>5, <1>6 DEF Next

(* Whatever the recorder writes, and however long the session and the log: *)
(* analyze_rows_v4 charges each instant in which IB was unreachable or     *)
(* bars were missing to exactly one finding, of the right class; an        *)
(* advisory neither creates nor hides one; a healthy day has none; and the *)
(* DailyHealth of _stream_health counts the same gaps and measures the     *)
(* same instants.                                                          *)
THEOREM VerdictsAreExact == Spec => []VerdictIsExact
<1>1. Init /\ [][Next]_vars => []LogInv
  BY LogInvInit, LogInvStep, PTL
<1>2. LogInv => VerdictIsExact
  BY ExactOnEveryLog DEF LogInv, VerdictIsExact
<1> QED
  BY <1>1, <1>2, PTL DEF Spec

=============================================================================
