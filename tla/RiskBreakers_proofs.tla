-------------------------- MODULE RiskBreakers_proofs --------------------------
(***************************************************************************)
(* The caps of a UTC day and of a minute hold of the journal's attempts,   *)
(* and a process with a dead control never starts, for every configuration *)
(* that validates, every price and every length of a day and of a minute.  *)
(***************************************************************************)
EXTENDS RiskBreakers, FiniteSetTheorems, SequenceTheorems, WellFoundedInduction, TLAPS

(* Time: a later instant is in no earlier day.                             *)
LEMMA DayMonotone ==
  ASSUME NEW t \in Nat, NEW u \in Nat, t <= u PROVE Day(t) <= Day(u) /\ Day(t) \in Nat
<1> DEFINE p == Day(t)
           q == Day(u)
<1>1. DayLength \in Nat /\ DayLength > 0
  BY TimeAssumption
<1>2. p \in Int /\ DayLength * p <= t /\ t < DayLength * p + DayLength
  BY <1>1 DEF Day
<1>3. q \in Int /\ DayLength * q <= u /\ u < DayLength * q + DayLength
  BY <1>1 DEF Day
<1> QED
  BY <1>1, <1>2, <1>3

LEMMA SomeIsLeast ==
  ASSUME NEW S \in SUBSET Nat, S # {}
  PROVE  \E x \in S : \A y \in S : x <= y
<1> DEFINE R == {ss \in Nat \X Nat : ss[1] < ss[2]}
<1>1. OpToRel(<, Nat) = R
  BY DEF OpToRel
<1>2. IsWellFoundedOn(R, Nat)
  BY <1>1, NatLessThanWellFounded
<1> HIDE DEF R
<1>3. PICK x \in S : \A y \in S : ~(<<y, x>> \in R)
  BY <1>2, WFMin, Zenon
<1>4. ASSUME NEW y \in S PROVE x <= y
  <2>1. x \in Nat /\ y \in Nat /\ <<y, x>> \in Nat \X Nat
    OBVIOUS
  <2>2. ~(<<y, x>>[1] < <<y, x>>[2])
    BY <1>3, <2>1 DEF R
  <2> QED
    BY <2>1, <2>2
<1> QED
  BY <1>4

LEMMA LeastOfSome == ASSUME NEW S \in SUBSET Nat, S # {} PROVE Min(S) \in S
BY SomeIsLeast DEF Min

-----------------------------------------------------------------------------
(* The self-test.                                                          *)

(* A control whose code has stopped working never answers.                 *)
LEMMA TheBrokenIsSilent ==
  ASSUME NEW r, NEW tally, NEW t, Refusal(r, tally, t) # "none"
  PROVE  Refusal(r, tally, t) # broken
<1>1. Hits(r, tally, t) # {}
  BY DEF Refusal, Admits
<1>2. Hits(r, tally, t) \in SUBSET Nat
  BY DEF Hits, Controls
<1>3. Min(Hits(r, tally, t)) \in Hits(r, tally, t)
  BY <1>1, <1>2, LeastOfSome
<1>4. \A n \in Hits(r, tally, t) : Controls[n] # broken
  BY DEF Hits
<1> QED
  BY <1>1, <1>3, <1>4 DEF Refusal, Admits

LEMMA TestNamesTheBroken ==
  ASSUME SelfTest, broken \in Proven PROVE broken = "none"
<1>1. CASE broken \in DOMAIN Probes
  <2>1. Refusal(Probes[broken], Nothing, 0) = broken
    BY <1>1 DEF SelfTest
  <2> QED
    BY <2>1, TheBrokenIsSilent
<1>2. CASE broken = "max_orders_per_minute"
  <2>1. Refusal(Request(1, Mid), Burst(Limits.orders_per_minute), 0) = broken
    BY <1>2 DEF SelfTest, BreakerProven
  <2> QED
    BY <2>1, TheBrokenIsSilent
<1> QED
  BY <1>1, <1>2 DEF Proven

Tested == broken \in Proven \cup {"none"} /\ DeadControlNeverStarts

LEMMA TestedStep == Tested /\ [Next]_vars => Tested'
<1> SUFFICES ASSUME Tested, [Next]_vars PROVE Tested'
  OBVIOUS
<1> USE DEF Tested, DeadControlNeverStarts
<1>1. UNCHANGED broken
  BY DEF vars, Next, Boot, Restore, CommitIntent, StartSendAttempt, RecordSent, Check,
     Crash, Tick
<1>2. CASE Boot
  BY <1>1, <1>2, TestNamesTheBroken DEF Boot, Proven
<1>3. CASE ~Boot
  <2>1. pc = "down" => pc' = "down"
    BY <1>3 DEF vars, Next, Restore, CommitIntent, StartSendAttempt, RecordSent, Check,
       Crash, Tick
  <2> QED
    BY <1>1, <2>1 DEF Proven
<1> QED
  BY <1>2, <1>3

(* SPEC invariant 21: whatever the configuration, no process starts with a *)
(* dead control; the probe meant for it is answered by another one or by   *)
(* none, and the self-test asks for the control by name.                   *)
THEOREM NoDeadControlAtWork == Spec => []DeadControlNeverStarts
<1>1. Init => Tested
  BY DEF Init, Tested, DeadControlNeverStarts
<1>2. Tested => DeadControlNeverStarts
  BY DEF Tested
<1> QED
  BY <1>1, <1>2, TestedStep, PTL DEF Spec

-----------------------------------------------------------------------------
(* The caps of a day.                                                      *)

LEMMA CapsArePositive ==
  /\ Limits.orders_per_day \in Nat \ {0} /\ Limits.daily_shares \in Nat \ {0}
  /\ Limits.daily_notional \in Nat \ {0} /\ Limits.position_shares \in Nat
BY LimitsAssumption DEF ValidConfig, Limit

(* What a tally may hold, and what one more order may still add to it.     *)
Sums(c) == c.orders \in Nat /\ c.shares \in Nat /\ c.notional \in Nat

WithinCaps(c) ==
  /\ c.orders <= Limits.orders_per_day
  /\ c.shares <= Limits.daily_shares
  /\ c.notional <= Limits.daily_notional

Fits(c, qty, cost) ==
  /\ c.orders + 1 <= Limits.orders_per_day
  /\ c.shares + qty <= Limits.daily_shares
  /\ c.notional + cost <= Limits.daily_notional

NoMore(a, b) ==
  a.orders <= b.orders /\ a.shares <= b.shares /\ a.notional <= b.notional

(* A request that check admits fits the counters it was checked against.   *)
LEMMA AdmittedFits ==
  ASSUME NEW r, NEW tally, NEW t, Admits(r, tally, t), Sums(tally),
         broken = "none", r.qty \in Nat, Cost(r) \in Nat
  PROVE  Fits(tally, r.qty, Cost(r))
<1> DEFINE trips == Trips(r, tally, t)
<1>1. /\ Controls[5] = "max_orders_per_day" /\ Controls[7] = "max_daily_shares"
      /\ Controls[13] = "max_daily_notional"
      /\ 5 \in DOMAIN Controls /\ 7 \in DOMAIN Controls /\ 13 \in DOMAIN Controls
  BY DEF Controls
<1>2. /\ ~trips["max_orders_per_day"] /\ ~trips["max_daily_shares"]
      /\ ~trips["max_daily_notional"]
  BY <1>1 DEF Admits, Hits
<1>3. ~(tally.orders + 1 > Limits.orders_per_day)
  BY <1>2 DEF Trips
<1>4. ~(tally.shares + r.qty > Limits.daily_shares)
  BY <1>2 DEF Trips
<1>5. ~(tally.notional + Cost(r) > Limits.daily_notional)
  BY <1>2 DEF Trips
<1> QED
  BY <1>3, <1>4, <1>5, CapsArePositive DEF Fits, Sums

Steps == {"down", "booting", "idle", "approved", "intended", "attempted"}

Today == sent[Day(now)]
Pending == pc \in {"approved", "intended"}

(* The counters never know less than the journal of the day, and an        *)
(* approved order still fits that journal, whatever midnight came between. *)
CapInv ==
  /\ now \in Nat /\ now <= Horizon /\ pc \in Steps
  /\ intent.qty \in Nat /\ Cost(intent) \in Nat
  /\ Sums(counters.tally) /\ counters.day \in Nat
  /\ \A d \in Days : Sums(sent[d]) /\ WithinCaps(sent[d])
  /\ sent = [d \in Days |-> sent[d]] /\ Day(now) \in Days
  /\ \A d \in Days : sent[d].orders = 0 \/ d > Day(now) => sent[d] = Nothing
  /\ pc \in {"idle", "approved", "intended"} => NoMore(Today, Rolled)
  /\ pc = "attempted" => NoMore(Today, Counted(Rolled, intent, now))
  /\ Pending => Fits(Today, intent.qty, Cost(intent))
  /\ Pending => Fits(Nothing, intent.qty, Cost(intent))

LEMMA NowIsADay ==
  ASSUME now \in Nat, now <= Horizon PROVE Day(now) \in Days /\ Days \subseteq Nat
<1>1. Horizon \in Nat
  BY TimeAssumption
<1> QED
  BY <1>1, DayMonotone DEF Days

LEMMA GreatestOfSome ==
  ASSUME NEW S \in SUBSET Days, S # {}
  PROVE  Max(S) \in S /\ \A y \in S : y <= Max(S)
<1> DEFINE top == Day(Horizon)
           mirror == {top - x : x \in S}
<1>1. top \in Nat /\ Days = 0 .. top
  BY TimeAssumption, DayMonotone DEF Days
<1>2. mirror \in SUBSET Nat /\ mirror # {}
  BY <1>1
<1>3. PICK m \in mirror : \A n \in mirror : m <= n
  BY <1>2, SomeIsLeast
<1>4. PICK x \in S : m = top - x
  BY <1>3
<1>5. \A y \in S : x >= y
  <2>1. S \subseteq Nat /\ \A y \in S : y <= top
    BY <1>1
  <2>2. ASSUME NEW y \in S PROVE x >= y
    <3>1. m <= top - y
      BY <1>3
    <3> QED
      BY <1>1, <1>4, <2>1, <3>1
  <2> QED
    BY <2>2
<1>6. Max(S) \in S /\ \A y \in S : Max(S) >= y
  BY <1>5 DEF Max
<1> QED
  BY <1>1, <1>6

LEMMA ProductIsNatural == ASSUME NEW a \in Nat, NEW b \in Nat PROVE a * b \in Nat
OBVIOUS

LEMMA CapInit == Init => CapInv
<1> SUFFICES ASSUME Init PROVE CapInv
  OBVIOUS
<1>1. Horizon \in Nat /\ 0 <= Horizon
  BY TimeAssumption
<1>2. now = 0 /\ pc = "down" /\ intent = NoIntent /\ sent = [d \in Days |-> Nothing]
  BY DEF Init
<1>3. Day(now) \in Days /\ now \in Nat /\ now <= Horizon
  BY <1>1, <1>2, NowIsADay
<1>4. intent.qty \in Nat /\ Cost(intent) \in Nat
  BY <1>2 DEF NoIntent, Cost
<1>5. Sums(Nothing) /\ WithinCaps(Nothing)
  BY CapsArePositive DEF Sums, WithinCaps, Nothing
<1>6. \A d \in Days : sent[d] = Nothing
  BY <1>2
<1>7. counters.tally = Nothing /\ counters.day = 0
  BY DEF Init
<1> QED
  BY <1>2, <1>3, <1>4, <1>5, <1>6, <1>7 DEF CapInv, Steps, Pending

(* Boot, Crash, CommitIntent and a stutter: journal and clock stay.        *)
LEMMA QuietStep ==
  ASSUME CapInv, Boot \/ Crash \/ CommitIntent \/ UNCHANGED vars
  PROVE  CapInv'
<1>1. UNCHANGED <<now, sent>>
  BY DEF Boot, Crash, CommitIntent, vars
<1>2. Today' = Today /\ Day(now)' = Day(now)
  BY <1>1 DEF Today
<1>3. CASE Boot \/ Crash
  <2>1. counters' = [day |-> 0, tally |-> Nothing] /\ pc' \in {"booting", "down"}
    BY <1>3 DEF Boot, Crash
  <2>2. Sums(counters'.tally) /\ counters'.day \in Nat
    BY <2>1 DEF Sums, Nothing
  <2>3. intent'.qty \in Nat /\ Cost(intent') \in Nat
    BY <1>3 DEF Boot, Crash, NoIntent, Cost, CapInv
  <2> QED
    BY <1>1, <1>2, <2>1, <2>2, <2>3 DEF CapInv, Steps, Pending
<1>4. CASE CommitIntent \/ UNCHANGED vars
  <2>1. UNCHANGED <<intent, counters>>
    BY <1>4 DEF CommitIntent, vars
  <2>2. Rolled' = Rolled /\ Cost(intent)' = Cost(intent)
    BY <1>1, <2>1 DEF Rolled, Day, Cost
  <2>3. pc' = pc \/ (pc = "approved" /\ pc' = "intended")
    BY <1>4 DEF CommitIntent, vars
  <2>4. Counted(Rolled, intent, now)' = Counted(Rolled, intent, now)
    BY <1>1, <2>1, <2>2 DEF Counted
  <2> QED
    BY <1>1, <1>2, <2>1, <2>2, <2>3, <2>4 DEF CapInv, Steps, Pending
<1> QED
  BY <1>3, <1>4

(* A new process counts today's attempts, or none when there were none.     *)
LEMMA RestoredCounts ==
  ASSUME CapInv, Restore
  PROVE  /\ Sums(counters'.tally) /\ counters'.day \in Nat
         /\ Rolled' = Today \/ (Today = Nothing /\ Rolled' = Nothing)
<1> DEFINE days == {d \in Days : sent[d].orders > 0}
<1>1. /\ UNCHANGED <<now, intent, sent>> /\ pc' = "idle"
      /\ counters' = IF days = {} THEN [day |-> 0, tally |-> Nothing]
                     ELSE [day |-> Max(days), tally |-> sent[Max(days)]]
  BY DEF Restore, Restored
<1>2. /\ Day(now) \in Days /\ Days \subseteq Nat
      /\ \A d \in Days : sent[d].orders \in Nat /\ Sums(sent[d])
  BY NowIsADay DEF CapInv, Sums
<1>3. Today' = Today /\ Day(now)' = Day(now) /\ Cost(intent)' = Cost(intent)
  BY <1>1 DEF Today, Cost
<1>4. Day(now) \notin days => Today = Nothing
  BY <1>2 DEF CapInv, Today
<1>5. CASE days = {}
  <2>1. counters' = [day |-> 0, tally |-> Nothing]
    BY <1>1, <1>5
  <2>2. Sums(Nothing)
    BY DEF Sums, Nothing
  <2>3. Rolled' = Nothing
    BY <2>1 DEF Rolled
  <2> QED
    BY <1>4, <1>5, <2>1, <2>2, <2>3
<1>6. CASE days # {}
  <2>1. counters' = [day |-> Max(days), tally |-> sent[Max(days)]]
    BY <1>1, <1>6
  <2>2. Max(days) \in days /\ \A d \in days : d <= Max(days)
    <3>1. days \in SUBSET Days
      OBVIOUS
    <3> HIDE DEF days
    <3> QED
      BY <1>6, <3>1, GreatestOfSome
  <2>3. Sums(counters'.tally) /\ counters'.day \in Nat
    BY <1>2, <2>1, <2>2
  <2>4. Max(days) \in Nat /\ Day(now) \in Nat
    BY <1>2, <2>2
  <2>5. Max(days) <= Day(now)
    <3>1. CASE Max(days) > Day(now)
      <4>1. sent[Max(days)] = Nothing /\ sent[Max(days)].orders > 0
        BY <2>2, <3>1 DEF CapInv
      <4> QED
        BY <4>1 DEF Nothing
    <3> QED
      BY <2>4, <3>1
  <2>6. CASE Max(days) = Day(now)
    BY <1>3, <2>1, <2>3, <2>6 DEF Rolled, Today
  <2>7. CASE Max(days) # Day(now)
    <3>1. Day(now) \notin days
      <4> HIDE DEF days
      <4> QED
        BY <2>4, <2>2, <2>5, <2>7
    <3>2. Rolled' = Nothing
      BY <1>3, <2>1, <2>7 DEF Rolled
    <3> QED
      BY <1>4, <2>3, <3>1, <3>2
  <2> QED
    BY <2>6, <2>7
<1> QED
  BY <1>5, <1>6

LEMMA RestoreStep == ASSUME CapInv, Restore PROVE CapInv'
<1>1. UNCHANGED <<now, intent, sent>> /\ pc' = "idle"
  BY DEF Restore
<1>2. /\ Day(now) \in Days /\ Days \subseteq Nat
      /\ \A d \in Days : sent[d].orders \in Nat /\ Sums(sent[d])
  BY NowIsADay DEF CapInv, Sums
<1>3. Today' = Today /\ Day(now)' = Day(now) /\ Cost(intent)' = Cost(intent)
  BY <1>1 DEF Today, Cost
<1>5. /\ Sums(counters'.tally) /\ counters'.day \in Nat
      /\ Rolled' = Today \/ (Today = Nothing /\ Rolled' = Nothing)
  BY RestoredCounts
<1>6. NoMore(Today, Rolled)'
  <2>1. NoMore(Today, Today) /\ NoMore(Nothing, Nothing)
    <3>1. Sums(Today) /\ Sums(Nothing)
      BY <1>2 DEF Today, Sums, Nothing
    <3>2. \A c : Sums(c) => NoMore(c, c)
      BY DEF Sums, NoMore
    <3> QED
      BY <3>1, <3>2
  <2>2. NoMore(Today', Rolled')
    BY <1>3, <1>5, <2>1
  <2> QED
    BY <2>2 DEF NoMore
<1> QED
  BY <1>1, <1>3, <1>5, <1>6 DEF CapInv, Steps, Pending

LEMMA CountedFields ==
  ASSUME NEW c, NEW i, NEW t
  PROVE  /\ Counted(c, i, t).orders = c.orders + 1
         /\ Counted(c, i, t).shares = c.shares + i.qty
         /\ Counted(c, i, t).notional = c.notional + Cost(i)
BY DEF Counted

LEMMA CountedSums ==
  ASSUME NEW c, NEW i, NEW t, Sums(c), i.qty \in Nat, Cost(i) \in Nat
  PROVE  Sums(Counted(c, i, t))
BY CountedFields DEF Sums

(* What the counters hold after rolling, and what an order adds to them.   *)
LEMMA RolledSums ==
  ASSUME CapInv PROVE Sums(Rolled) /\ Sums(Today) /\ Sums(Counted(Rolled, intent, now))
<1>1. Sums(Rolled) /\ Sums(Today)
  BY DEF CapInv, Rolled, Today, Sums, Nothing
<1> QED
  BY <1>1, CountedSums DEF CapInv

LEMMA CheckStep ==
  ASSUME CapInv, broken = "none", NEW qty \in 1 .. Limits.position_shares,
         NEW price \in Prices, NEW quote \in Quotes, Check(qty, price, quote)
  PROVE  CapInv'
<1> DEFINE r == [Request(qty, price) EXCEPT !.quote = quote]
<1>1. /\ UNCHANGED <<now, sent>> /\ pc = "idle"
      /\ counters' = [day |-> Day(now), tally |-> Rolled]
  BY DEF Check
<1>2. Today' = Today /\ Day(now)' = Day(now) /\ Day(now) \in Nat
  BY <1>1, NowIsADay DEF Today, CapInv
<1>3. Rolled' = Rolled
  BY <1>1 DEF Rolled, Day
<1>4. Sums(counters'.tally) /\ counters'.day \in Nat
  BY <1>1, <1>2, RolledSums
<1>5. qty \in Nat /\ price \in Nat /\ qty * price \in Nat
  BY CapsArePositive, TimeAssumption, ProductIsNatural
<1>6. r.qty = qty /\ r.price = price /\ Cost(r) = qty * price
  BY DEF Request, Cost
<1>7. NoMore(Today, Rolled)'
  BY <1>1, <1>2, <1>3 DEF CapInv, NoMore
<1>8. CASE Admits(r, Rolled, now)
  <2>1. pc' = "approved" /\ intent' = [qty |-> qty, price |-> price]
    BY <1>8 DEF Check
  <2>2. intent'.qty = qty /\ Cost(intent') = qty * price
    BY <2>1 DEF Cost
  <2>3. Fits(Rolled, qty, qty * price)
    BY <1>5, <1>6, <1>8, AdmittedFits, RolledSums
  <2>4. NoMore(Today, Rolled) /\ NoMore(Nothing, Rolled)
    BY <1>1, RolledSums DEF CapInv, NoMore, Nothing, Sums
  <2>5. \A c : Sums(c) /\ NoMore(c, Rolled) => Fits(c, qty, qty * price)
    BY <1>5, <2>3, RolledSums, CapsArePositive DEF Fits, NoMore, Sums
  <2>6. Sums(Nothing)
    BY DEF Sums, Nothing
  <2>7. Fits(Today, qty, qty * price) /\ Fits(Nothing, qty, qty * price)
    BY <2>4, <2>5, <2>6, RolledSums
  <2>8. Fits(Today, intent.qty, Cost(intent))' /\ Fits(Nothing, intent.qty, Cost(intent))'
    BY <1>2, <2>2, <2>7 DEF Fits, Cost
  <2>9. intent'.qty \in Nat /\ Cost(intent)' \in Nat
    BY <1>5, <2>2 DEF Cost
  <2> QED
    BY <1>1, <1>2, <1>4, <1>7, <2>1, <2>8, <2>9 DEF CapInv, Steps, Pending
<1>9. CASE ~Admits(r, Rolled, now)
  <2>1. UNCHANGED <<pc, intent>>
    BY <1>9 DEF Check
  <2>2. Cost(intent)' = Cost(intent)
    BY <2>1 DEF Cost
  <2> QED
    BY <1>1, <1>2, <1>4, <1>7, <2>1, <2>2 DEF CapInv, Steps, Pending
<1> QED
  BY <1>8, <1>9

LEMMA AttemptStep == ASSUME CapInv, StartSendAttempt PROVE CapInv'
<1> DEFINE day == Day(now)
<1>1. /\ UNCHANGED <<now, intent, counters>> /\ pc = "intended" /\ pc' = "attempted"
      /\ sent' = [sent EXCEPT ![day] = Counted(@, intent, now)]
  BY DEF StartSendAttempt
<1>2. day \in Days /\ day \in Nat /\ Days \subseteq Nat
  BY NowIsADay DEF CapInv
<1>3. sent'[day] = Counted(Today, intent, now)
  BY <1>1, <1>2 DEF CapInv, Today
<1>4. \A d \in Days : d # day => sent'[d] = sent[d]
  BY <1>1 DEF CapInv
<1>5. Sums(Today) /\ Fits(Today, intent.qty, Cost(intent))
  BY <1>1, RolledSums DEF CapInv, Pending
<1>6. Sums(sent'[day]) /\ WithinCaps(sent'[day]) /\ sent'[day].orders # 0
  <2>1. Sums(sent'[day])
    BY <1>3, <1>5, CountedSums DEF CapInv
  <2>2. WithinCaps(sent'[day])
    BY <1>3, <1>5, CountedFields DEF WithinCaps, Fits
  <2>3. sent'[day].orders # 0
    BY <1>3, <1>5, CountedFields DEF Sums
  <2> QED
    BY <2>1, <2>2, <2>3
<1>7. \A d \in Days : Sums(sent'[d]) /\ WithinCaps(sent'[d])
  BY <1>4, <1>6 DEF CapInv
<1>8. sent' = [d \in Days |-> sent'[d]]
  BY <1>1 DEF CapInv
<1>9. \A d \in Days : sent'[d].orders = 0 \/ d > day => sent'[d] = Nothing
  BY <1>2, <1>4, <1>6 DEF CapInv
<1>10. /\ Day(now)' = day /\ Today' = Counted(Today, intent, now)
       /\ Counted(Rolled, intent, now)' = Counted(Rolled, intent, now)
       /\ Cost(intent)' = Cost(intent)
  BY <1>1, <1>3 DEF Today, Counted, Rolled, Day, Cost
<1>11. NoMore(Today, Rolled)
  BY <1>1 DEF CapInv
<1>12. NoMore(Counted(Today, intent, now), Counted(Rolled, intent, now))
  BY <1>5, <1>11, RolledSums, CountedFields DEF CapInv, NoMore, Sums
<1>13. NoMore(Today, Counted(Rolled, intent, now))'
  BY <1>10, <1>12 DEF NoMore
<1> QED
  BY <1>1, <1>2, <1>7, <1>8, <1>9, <1>10, <1>13 DEF CapInv, Steps, Pending

LEMMA RecordStep == ASSUME CapInv, RecordSent PROVE CapInv'
<1>1. /\ UNCHANGED <<now, sent>> /\ pc = "attempted" /\ pc' = "idle"
      /\ intent' = NoIntent
      /\ counters' = [day |-> Day(now), tally |-> Counted(Rolled, intent, now)]
  BY DEF RecordSent
<1>2. Today' = Today /\ Day(now)' = Day(now) /\ Day(now) \in Nat
  BY <1>1, NowIsADay DEF Today, CapInv
<1>3. Rolled' = Counted(Rolled, intent, now)
  BY <1>1, <1>2 DEF Rolled
<1>4. Sums(counters'.tally) /\ counters'.day \in Nat
  BY <1>1, <1>2, RolledSums
<1>5. intent'.qty \in Nat /\ Cost(intent)' \in Nat
  BY <1>1 DEF NoIntent, Cost
<1>6. NoMore(Today, Rolled)'
  BY <1>1, <1>2, <1>3 DEF CapInv, NoMore
<1> QED
  BY <1>1, <1>2, <1>4, <1>5, <1>6 DEF CapInv, Steps, Pending

(* The clock moves within a day, or into a day the journal knows nothing   *)
(* of, where every count starts at zero.                                   *)
LEMMA TickStep == ASSUME CapInv, Tick PROVE CapInv'
<1>1. UNCHANGED <<pc, intent, counters, sent>> /\ now' = now + 1 /\ now < Horizon
  BY DEF Tick
<1>2. now' \in Nat /\ now' <= Horizon /\ Horizon \in Nat /\ now \in Nat
  BY <1>1, TimeAssumption DEF CapInv
<1>3. /\ Day(now') \in Days /\ Days \subseteq Nat
      /\ Day(now) \in Nat /\ Day(now') \in Nat /\ Day(now) <= Day(now')
  <2>1. Day(now') <= Day(Horizon) /\ Day(now) <= Day(now') /\ Day(now) \in Nat
    BY <1>1, <1>2, DayMonotone
  <2>2. Day(now') \in Nat /\ Day(Horizon) \in Nat
    BY <1>2, DayMonotone
  <2> QED
    BY <2>1, <2>2 DEF Days
<1>4. \A d \in Days : d > Day(now') => d > Day(now)
  BY <1>3
<1>5. Cost(intent)' = Cost(intent)
  BY <1>1 DEF Cost
<1>6. Day(now)' = Day(now')
  BY DEF Day
<1>7. CASE Day(now') = Day(now)
  <2>1. Today' = Today /\ Rolled' = Rolled
    BY <1>1, <1>6, <1>7 DEF Today, Rolled
  <2>2. ASSUME pc = "attempted" PROVE NoMore(Today, Counted(Rolled, intent, now))'
    <3>1. Cost(intent)' = Cost(intent) /\ intent' = intent
      BY <1>1, <1>5
    <3> QED
      BY <2>1, <2>2, <3>1 DEF CapInv, NoMore, Counted
  <2> QED
    BY <1>1, <1>2, <1>3, <1>4, <1>5, <1>6, <2>1, <2>2 DEF CapInv, Steps, Pending
<1>8. CASE Day(now') # Day(now)
  <2>1. Day(now') > Day(now)
    BY <1>3, <1>8
  <2>2. Today' = Nothing
    BY <1>1, <1>3, <1>6, <2>1 DEF CapInv, Today
  <2>3. Sums(Rolled)'
    BY <1>1 DEF CapInv, Rolled, Sums, Nothing
  <2>4. \A c : Sums(c) => NoMore(Nothing, c)
    BY DEF Sums, NoMore, Nothing
  <2>5. Sums(Counted(Rolled, intent, now))'
    <3>1. intent'.qty \in Nat /\ Cost(intent') \in Nat /\ Sums(Rolled')
      BY <1>1, <1>5, <2>3 DEF CapInv, Sums
    <3>2. Sums(Counted(Rolled', intent', now'))
      BY <3>1, CountedSums
    <3> QED
      BY <3>2 DEF Sums
  <2>6. NoMore(Today, Rolled)' /\ NoMore(Today, Counted(Rolled, intent, now))'
    <3>1. NoMore(Today', Rolled') /\ NoMore(Today', Counted(Rolled, intent, now)')
      BY <2>2, <2>3, <2>4, <2>5 DEF Sums
    <3> QED
      BY <3>1 DEF NoMore
  <2>7. Pending' => Fits(Today, intent.qty, Cost(intent))'
    BY <1>1, <1>5, <2>2 DEF CapInv, Pending, Fits
  <2> QED
    BY <1>1, <1>2, <1>3, <1>4, <1>5, <1>6, <2>6, <2>7 DEF CapInv, Steps, Pending, Fits
<1> QED
  BY <1>7, <1>8

LEMMA CapStep == CapInv /\ Tested /\ [Next]_vars => CapInv'
<1> SUFFICES ASSUME CapInv, Tested, [Next]_vars PROVE CapInv'
  OBVIOUS
<1>1. ASSUME NEW qty \in 1 .. Limits.position_shares, NEW price \in Prices,
             NEW quote \in Quotes, Check(qty, price, quote)
      PROVE  CapInv'
  <2>1. broken = "none"
    BY <1>1 DEF Check, Tested, DeadControlNeverStarts
  <2> QED
    BY <1>1, <2>1, CheckStep
<1> QED
  BY <1>1, QuietStep, RestoreStep, AttemptStep, RecordStep, TickStep DEF Next

(* SPEC invariant 16: no day's attempts exceed a cap, over restarts, a     *)
(* crash between an attempt and its count, and midnight between any two    *)
(* steps of a send.                                                        *)
THEOREM CapsOfTheDayHold == Spec => []DailyCapsHeld
<1>1. Init => Tested
  BY DEF Init, Tested, DeadControlNeverStarts
<1>2. Init /\ [][Next]_vars => [](CapInv /\ Tested)
  BY <1>1, CapInit, CapStep, TestedStep, PTL
<1>3. CapInv => DailyCapsHeld
  BY DEF CapInv, DailyCapsHeld, WithinCaps
<1> QED
  BY <1>2, <1>3, PTL DEF Spec

-----------------------------------------------------------------------------
(* The breaker of the minute.  What of a log of stamps is younger than a    *)
(* minute at t, and a log that is never behind another: paired from their   *)
(* ends, its stamps are as late.                                            *)
Recent(s, t) == {k \in DOMAIN s : t - s[k] < Minute}

Trails(s, c) ==
  Len(s) <= Len(c) /\ \A k \in 1 .. Len(s) : s[k] <= c[Len(c) - Len(s) + k]

LEMMA RecentIsFinite ==
  ASSUME NEW s \in Seq(Nat), NEW t \in Nat
  PROVE  IsFiniteSet(Recent(s, t)) /\ Cardinality(Recent(s, t)) \in Nat
<1>1. Len(s) \in Nat /\ DOMAIN s = 1 .. Len(s)
  BY LenProperties
<1>2. IsFiniteSet(1 .. Len(s)) /\ Recent(s, t) \in SUBSET (1 .. Len(s))
  BY <1>1, FS_Interval DEF Recent
<1>3. IsFiniteSet(Recent(s, t))
  BY <1>2, FS_Subset
<1> QED
  BY <1>3, FS_CardinalityType

LEMMA TrailingIsFewer ==
  ASSUME NEW s \in Seq(Nat), NEW c \in Seq(Nat), NEW t \in Nat, Trails(s, c)
  PROVE  Cardinality(Recent(s, t)) <= Cardinality(Recent(c, t))
<1> DEFINE off == Len(c) - Len(s)
           f == [k \in Recent(s, t) |-> k + off]
<1>1. /\ Len(s) \in Nat /\ DOMAIN s = 1 .. Len(s) /\ Len(c) \in Nat /\ DOMAIN c = 1 .. Len(c)
      /\ s \in [1 .. Len(s) -> Nat] /\ c \in [1 .. Len(c) -> Nat]
  BY LenProperties
<1>2. ASSUME NEW k \in Recent(s, t) PROVE k \in Int /\ k + off \in Recent(c, t)
  <2>1. k \in 1 .. Len(s) /\ t - s[k] < Minute /\ s[k] <= c[off + k] /\ s[k] \in Nat
    BY <1>1 DEF Recent, Trails
  <2>2. k + off \in 1 .. Len(c) /\ off + k = k + off
    BY <1>1, <2>1 DEF Trails
  <2>3. c[k + off] \in Nat
    BY <1>1, <2>2
  <2>4. t - c[k + off] < Minute
    <3> DEFINE x == s[k]
               y == c[k + off]
    <3>1. x \in Nat /\ y \in Nat /\ x <= y /\ t - x < Minute /\ Minute \in Nat
      BY <2>1, <2>2, <2>3, TimeAssumption
    <3> HIDE DEF x, y
    <3>2. t - y < Minute
      BY <3>1
    <3> QED
      BY <3>2 DEF y
  <2> QED
    BY <1>1, <2>1, <2>2, <2>4 DEF Recent
<1>3. f \in Injection(Recent(s, t), Recent(c, t))
  <2>1. f \in [Recent(s, t) -> Recent(c, t)]
    BY <1>2
  <2>2. ASSUME NEW a \in Recent(s, t), NEW b \in Recent(s, t), f[a] = f[b] PROVE a = b
    <3>1. a \in Int /\ b \in Int /\ a + off = b + off /\ off \in Int
      BY <1>1, <1>2, <2>2
    <3> HIDE DEF off
    <3> QED
      BY <3>1
  <2> QED
    BY <2>1, <2>2 DEF Injection, IsInjective
<1> QED
  BY <1>3, RecentIsFinite, FS_Injection

LEMMA RecentShrinks ==
  ASSUME NEW s \in Seq(Nat), NEW t \in Nat, NEW u \in Nat, t <= u
  PROVE  Cardinality(Recent(s, u)) <= Cardinality(Recent(s, t))
<1>1. s \in [DOMAIN s -> Nat]
  BY LenProperties
<1>2. Recent(s, u) \in SUBSET Recent(s, t)
  BY <1>1, TimeAssumption DEF Recent
<1> QED
  BY <1>2, RecentIsFinite, FS_Subset

LEMMA TrailsAppend ==
  ASSUME NEW s \in Seq(Nat), NEW c \in Seq(Nat), NEW x \in Nat, NEW y \in Nat,
         Trails(s, c), x <= y
  PROVE  Trails(Append(s, x), Append(c, y))
<1> DEFINE n == Len(s)
           m == Len(c)
           ss == Append(s, x)
           cc == Append(c, y)
<1>1. /\ n \in Nat /\ m \in Nat /\ Len(ss) = n + 1 /\ Len(cc) = m + 1
      /\ \A k \in 1 .. n : ss[k] = s[k]
      /\ \A k \in 1 .. m : cc[k] = c[k]
      /\ ss[n + 1] = x /\ cc[m + 1] = y
  BY LenProperties, AppendProperties
<1>2. n <= m /\ \A k \in 1 .. n : s[k] <= c[m - n + k]
  BY DEF Trails
<1> HIDE DEF n, m, ss, cc
<1>3. ASSUME NEW k \in 1 .. n + 1 PROVE ss[k] <= cc[(m + 1) - (n + 1) + k]
  <2>1. CASE k = n + 1
    <3>1. (m + 1) - (n + 1) + k = m + 1
      BY <1>1, <2>1
    <3> QED
      BY <1>1, <2>1, <3>1
  <2>2. CASE k \in 1 .. n
    <3>1. (m + 1) - (n + 1) + k = m - n + k /\ m - n + k \in 1 .. m
      BY <1>1, <1>2, <2>2
    <3>2. ss[k] = s[k] /\ cc[m - n + k] = c[m - n + k]
      BY <1>1, <2>2, <3>1
    <3> QED
      BY <1>2, <2>2, <3>1, <3>2
  <2> QED
    BY <1>1, <2>1, <2>2
<1>4. Len(ss) <= Len(cc)
  BY <1>1, <1>2
<1>5. Trails(ss, cc)
  BY <1>1, <1>3, <1>4 DEF Trails
<1> QED
  BY <1>5 DEF ss, cc

LEMMA TrailsLater ==
  ASSUME NEW s \in Seq(Nat), NEW c \in Seq(Nat), NEW t \in Nat, NEW u \in Nat, t <= u,
         Trails(s, Append(c, t))
  PROVE  Trails(s, Append(c, u))
<1> DEFINE n == Len(s)
           m == Len(c)
           a == Append(c, t)
           b == Append(c, u)
<1>1. /\ n \in Nat /\ m \in Nat /\ Len(a) = m + 1 /\ Len(b) = m + 1
      /\ \A k \in 1 .. m : a[k] = c[k] /\ b[k] = c[k]
      /\ a[m + 1] = t /\ b[m + 1] = u
      /\ \A k \in 1 .. n : s[k] \in Nat
  BY LenProperties, AppendProperties
<1>2. n <= Len(a) /\ \A k \in 1 .. n : s[k] <= a[Len(a) - n + k]
  BY DEF Trails
<1> HIDE DEF n, m, a, b
<1>3. ASSUME NEW k \in 1 .. n PROVE s[k] <= b[m + 1 - n + k]
  <2>1. m + 1 - n + k \in 1 .. m + 1
    BY <1>1, <1>2
  <2>2. s[k] <= a[m + 1 - n + k] /\ s[k] \in Nat
    BY <1>1, <1>2
  <2>3. CASE m + 1 - n + k = m + 1
    BY <1>1, <2>2, <2>3
  <2>4. CASE m + 1 - n + k \in 1 .. m
    BY <1>1, <2>2, <2>4
  <2> QED
    BY <1>1, <2>1, <2>3, <2>4
<1>4. n <= Len(b) /\ \A k \in 1 .. n : s[k] <= b[Len(b) - n + k]
  BY <1>1, <1>2, <1>3
<1>5. Trails(s, b)
  BY <1>4 DEF Trails, n
<1> QED
  BY <1>5 DEF b

LEMMA TrailsItself ==
  ASSUME NEW s \in Seq(Nat)
  PROVE  Trails(s, s) /\ Trails(<<>>, s)
<1>1. Len(s) \in Nat /\ s \in [1 .. Len(s) -> Nat] /\ Len(<<>>) = 0
  BY LenProperties
<1>2. \A k \in 1 .. Len(s) : Len(s) - Len(s) + k = k
  BY <1>1
<1>3. Trails(s, s)
  BY <1>1, <1>2 DEF Trails
<1>4. Trails(<<>>, s)
  BY <1>1 DEF Trails
<1> QED
  BY <1>3, <1>4

(* One more stamp leaves the earlier windows as they were.                  *)
LEMMA WindowOfOneMore ==
  ASSUME NEW s \in Seq(Nat), NEW t \in Nat
  PROVE  /\ \A n \in 1 .. Len(s) : Window(Append(s, t), n) = Window(s, n)
         /\ Window(Append(s, t), Len(s) + 1) \subseteq Recent(s, t) \cup {Len(s) + 1}
<1>1. /\ Len(s) \in Nat /\ DOMAIN s = 1 .. Len(s)
      /\ \A k \in 1 .. Len(s) : Append(s, t)[k] = s[k]
      /\ Append(s, t)[Len(s) + 1] = t
  BY LenProperties, AppendProperties
<1>2. ASSUME NEW n \in 1 .. Len(s) PROVE Window(Append(s, t), n) = Window(s, n)
  <2>1. \A k \in 1 .. n : Append(s, t)[k] = s[k]
    BY <1>1
  <2> QED
    BY <1>1, <2>1 DEF Window
<1>3. ASSUME NEW k \in Window(Append(s, t), Len(s) + 1), k # Len(s) + 1
      PROVE  k \in Recent(s, t)
  <2>1. k \in 1 .. Len(s) /\ t - Append(s, t)[k] < Minute
    BY <1>1, <1>3 DEF Window
  <2> QED
    BY <1>1, <2>1 DEF Recent
<1> QED
  BY <1>2, <1>3

MinuteLimit == Limits.orders_per_minute

(* The stamps in memory are never behind those of the journal, and an      *)
(* approved order still fits the minute it would be sent in.               *)
MinuteInv ==
  /\ \A d \in Days : sent[d].stamps \in Seq(Nat)
  /\ counters.tally.stamps \in Seq(Nat)
  /\ pc \in {"idle", "approved", "intended"} => Trails(Today.stamps, Rolled.stamps)
  /\ pc = "attempted" => Trails(Today.stamps, Append(Rolled.stamps, now))
  /\ Pending => Cardinality(Recent(Today.stamps, now)) + 1 <= MinuteLimit
  /\ MinuteCapHeld

LEMMA MinuteLimitIsPositive == MinuteLimit \in Nat /\ MinuteLimit >= 1
BY LimitsAssumption DEF ValidConfig, Limit, MinuteLimit

LEMMA NothingRecent == Nothing.stamps = <<>> /\ \A t : Cardinality(Recent(<<>>, t)) = 0
<1>1. \A t : Recent(<<>>, t) = {}
  BY DEF Recent
<1> QED
  BY <1>1, FS_EmptySet DEF Nothing

LEMMA MinuteFacts ==
  ASSUME CapInv, MinuteInv
  PROVE  /\ Today.stamps \in Seq(Nat) /\ Rolled.stamps \in Seq(Nat)
         /\ now \in Nat /\ Day(now) \in Days
BY DEF CapInv, MinuteInv, Today, Rolled, Nothing

LEMMA AdmittedInMinute ==
  ASSUME NEW r, NEW tally, NEW t, Admits(r, tally, t), broken = "none",
         tally.stamps \in Seq(Nat), t \in Nat
  PROVE  Cardinality(Recent(tally.stamps, t)) + 1 <= MinuteLimit
<1> DEFINE trips == Trips(r, tally, t)
<1>1. Controls[6] = "max_orders_per_minute" /\ 6 \in DOMAIN Controls
  BY DEF Controls
<1>2. ~trips["max_orders_per_minute"]
  BY <1>1 DEF Admits, Hits
<1>3. ~(Cardinality(Recent(tally.stamps, t)) + 1 > MinuteLimit)
  BY <1>2 DEF Trips, Recent, MinuteLimit
<1> QED
  BY <1>3, RecentIsFinite, MinuteLimitIsPositive

LEMMA MinuteInit == Init => MinuteInv
<1> SUFFICES ASSUME Init PROVE MinuteInv
  OBVIOUS
<1>1. pc = "down" /\ counters.tally = Nothing /\ \A d \in Days : sent[d] = Nothing
  BY DEF Init
<1>2. <<>> \in Seq(Nat) /\ DOMAIN (<<>>) = {}
  BY EmptySeq
<1>3. /\ \A d \in Days : sent[d].stamps = <<>>
      /\ counters.tally.stamps = <<>>
  BY <1>1, NothingRecent
<1>4. \A d \in Days : DOMAIN sent[d].stamps = {}
  BY <1>2, <1>3
<1>5. MinuteCapHeld
  BY <1>4 DEF MinuteCapHeld
<1>6. /\ \A d \in Days : sent[d].stamps \in Seq(Nat)
      /\ counters.tally.stamps \in Seq(Nat)
  BY <1>2, <1>3
<1>7. pc # "idle" /\ pc # "approved" /\ pc # "intended" /\ pc # "attempted"
  BY <1>1
<1> QED
  BY <1>5, <1>6, <1>7 DEF MinuteInv, Pending

(* The steps that leave clock, journal and counters alone, or forget the   *)
(* counters with the process.                                              *)
LEMMA MinuteQuiet ==
  ASSUME CapInv, MinuteInv, Boot \/ Crash \/ CommitIntent \/ UNCHANGED vars
  PROVE  MinuteInv'
<1>1. UNCHANGED <<now, sent>>
  BY DEF Boot, Crash, CommitIntent, vars
<1>2. Today' = Today /\ MinuteCapHeld'
  BY <1>1 DEF Today, MinuteInv, MinuteCapHeld
<1>3. CASE Boot \/ Crash
  <2>1. counters'.tally.stamps = <<>> /\ pc' \in {"booting", "down"}
    BY <1>3 DEF Boot, Crash, Nothing
  <2> QED
    BY <1>1, <1>2, <2>1 DEF MinuteInv, Pending
<1>4. CASE CommitIntent \/ UNCHANGED vars
  <2>1. UNCHANGED <<intent, counters>> /\ Rolled' = Rolled
    BY <1>1, <1>4 DEF CommitIntent, vars, Rolled, Day
  <2>2. pc' = pc \/ (pc = "approved" /\ pc' = "intended")
    BY <1>4 DEF CommitIntent, vars
  <2> QED
    BY <1>1, <1>2, <2>1, <2>2 DEF MinuteInv, Pending
<1> QED
  BY <1>3, <1>4

(* What the next process counts is what the journal has.                    *)
LEMMA MinuteRestore == ASSUME CapInv, MinuteInv, Restore PROVE MinuteInv'
<1>1. UNCHANGED <<now, sent>> /\ pc' = "idle"
  BY DEF Restore
<1>2. Today' = Today /\ MinuteCapHeld' /\ Today.stamps \in Seq(Nat)
  BY <1>1, MinuteFacts DEF Today, MinuteInv, MinuteCapHeld
<1>3. Rolled' = Today \/ (Today = Nothing /\ Rolled' = Nothing)
  BY RestoredCounts
<1>4. counters'.tally.stamps \in Seq(Nat)
  <2> DEFINE days == {d \in Days : sent[d].orders > 0}
  <2>1. CASE days = {}
    BY <2>1 DEF Restore, Restored, Nothing
  <2>2. CASE days # {}
    <3>1. counters' = [day |-> Max(days), tally |-> sent[Max(days)]]
      BY <2>2 DEF Restore, Restored
    <3>2. days \in SUBSET Days
      OBVIOUS
    <3>3. Max(days) \in Days
      <4> HIDE DEF days
      <4> QED
        BY <2>2, <3>2, GreatestOfSome
    <3> QED
      BY <3>1, <3>3 DEF MinuteInv
  <2> QED
    BY <2>1, <2>2
<1>5. Trails(Today.stamps, Rolled.stamps)'
  BY <1>2, <1>3, TrailsItself DEF Trails
<1> QED
  BY <1>1, <1>2, <1>4, <1>5 DEF MinuteInv, Pending

LEMMA MinuteCheck ==
  ASSUME CapInv, MinuteInv, broken = "none", NEW qty \in 1 .. Limits.position_shares,
         NEW price \in Prices, NEW quote \in Quotes, Check(qty, price, quote)
  PROVE  MinuteInv'
<1> DEFINE r == [Request(qty, price) EXCEPT !.quote = quote]
<1>1. /\ UNCHANGED <<now, sent>> /\ pc = "idle"
      /\ counters' = [day |-> Day(now), tally |-> Rolled]
  BY DEF Check
<1>2. Today' = Today /\ MinuteCapHeld' /\ Rolled' = Rolled
  BY <1>1 DEF Today, MinuteInv, MinuteCapHeld, Rolled, Day
<1>3. Trails(Today.stamps, Rolled.stamps)
  BY <1>1 DEF MinuteInv
<1>4. CASE Admits(r, Rolled, now)
  <2>1. Cardinality(Recent(Rolled.stamps, now)) + 1 <= MinuteLimit
    BY <1>4, AdmittedInMinute, MinuteFacts
  <2>2. Cardinality(Recent(Today.stamps, now)) <= Cardinality(Recent(Rolled.stamps, now))
    BY <1>3, MinuteFacts, TrailingIsFewer
  <2>3. Cardinality(Recent(Today.stamps, now)) + 1 <= MinuteLimit
    <3> DEFINE a == Cardinality(Recent(Today.stamps, now))
               b == Cardinality(Recent(Rolled.stamps, now))
    <3>1. a \in Nat /\ b \in Nat
      BY MinuteFacts, RecentIsFinite
    <3>2. a <= b /\ b + 1 <= MinuteLimit /\ MinuteLimit \in Nat
      BY <2>1, <2>2, MinuteLimitIsPositive
    <3> HIDE DEF a, b
    <3>3. a + 1 <= MinuteLimit
      BY <3>1, <3>2
    <3> QED
      BY <3>3 DEF a
  <2>4. pc' = "approved"
    BY <1>4 DEF Check
  <2> QED
    BY <1>1, <1>2, <1>3, <2>3, <2>4, MinuteFacts DEF MinuteInv, Pending
<1>5. CASE ~Admits(r, Rolled, now)
  <2>1. pc' = "idle"
    BY <1>1, <1>5 DEF Check
  <2> QED
    BY <1>1, <1>2, <1>3, <2>1, MinuteFacts DEF MinuteInv, Pending
<1> QED
  BY <1>4, <1>5

(* The attempt is written: it has its minute to itself.                     *)
LEMMA MinuteAttempt == ASSUME CapInv, MinuteInv, StartSendAttempt PROVE MinuteInv'
<1> DEFINE day == Day(now)
           s == Today.stamps
           c == Rolled.stamps
<1>1. /\ UNCHANGED <<now, counters>> /\ pc = "intended" /\ pc' = "attempted"
      /\ sent' = [sent EXCEPT ![day] = Counted(@, intent, now)]
  BY DEF StartSendAttempt
<1>2. s \in Seq(Nat) /\ c \in Seq(Nat) /\ now \in Nat /\ day \in Days
  BY MinuteFacts
<1>3. sent'[day].stamps = Append(s, now)
  BY <1>1, <1>2 DEF CapInv, Today, Counted
<1>4. \A d \in Days : d # day => sent'[d] = sent[d]
  BY <1>1 DEF CapInv
<1>5. Today'.stamps = Append(s, now) /\ Rolled' = Rolled
  BY <1>1, <1>3 DEF Today, Rolled, Day
<1>6. Append(s, now) \in Seq(Nat) /\ Len(Append(s, now)) = Len(s) + 1 /\ Len(s) \in Nat
  BY <1>2, AppendProperties, LenProperties
<1>7. Trails(Append(s, now), Append(c, now))
  BY <1>1, <1>2, TrailsAppend DEF MinuteInv
<1>8. MinuteCapHeld'
  <2>1. ASSUME NEW n \in DOMAIN Append(s, now)
        PROVE  Cardinality(Window(Append(s, now), n)) <= MinuteLimit
    <3>1. n \in 1 .. Len(s) \/ n = Len(s) + 1
      BY <1>6, <2>1, LenProperties
    <3>2. CASE n \in 1 .. Len(s)
      <4>1. Window(Append(s, now), n) = Window(s, n)
        BY <1>2, <3>2, WindowOfOneMore
      <4>2. n \in DOMAIN sent[day].stamps /\ s = sent[day].stamps
        BY <1>2, <3>2, LenProperties DEF Today
      <4> QED
        BY <1>2, <4>1, <4>2 DEF MinuteInv, MinuteCapHeld, MinuteLimit
    <3>3. CASE n = Len(s) + 1
      <4> DEFINE young == Recent(s, now)
                 win == Window(Append(s, now), n)
      <4>1. IsFiniteSet(young) /\ Cardinality(young) \in Nat
        BY <1>2, RecentIsFinite
      <4>2. /\ IsFiniteSet(young \cup {n})
            /\ Cardinality(young \cup {n}) \in {Cardinality(young), Cardinality(young) + 1}
        BY <4>1, FS_AddElement
      <4>3. win \in SUBSET (young \cup {n})
        BY <1>2, <3>3, WindowOfOneMore
      <4>4. Cardinality(win) <= Cardinality(young \cup {n}) /\ Cardinality(win) \in Nat
        BY <4>2, <4>3, FS_Subset, FS_CardinalityType
      <4>5. Cardinality(young) + 1 <= MinuteLimit
        BY <1>1 DEF MinuteInv, Pending
      <4> HIDE DEF young, win
      <4>6. Cardinality(win) <= MinuteLimit
        BY <4>1, <4>2, <4>4, <4>5, MinuteLimitIsPositive
      <4> QED
        BY <4>6 DEF win
    <3> QED
      BY <3>1, <3>2, <3>3
  <2>2. ASSUME NEW d \in Days, NEW n \in DOMAIN sent'[d].stamps
        PROVE  Cardinality(Window(sent'[d].stamps, n)) <= MinuteLimit
    <3>1. CASE d = day
      BY <1>3, <2>1, <2>2, <3>1
    <3>2. CASE d # day
      BY <1>4, <2>2, <3>2 DEF MinuteInv, MinuteCapHeld, MinuteLimit
    <3> QED
      BY <3>1, <3>2
  <2> QED
    BY <2>2 DEF MinuteCapHeld, MinuteLimit, Window
<1>9. \A d \in Days : sent'[d].stamps \in Seq(Nat)
  BY <1>3, <1>4, <1>6 DEF MinuteInv
<1>10. Trails(Today.stamps, Append(Rolled.stamps, now))'
  BY <1>1, <1>5, <1>7 DEF Trails
<1> QED
  BY <1>1, <1>8, <1>9, <1>10 DEF MinuteInv, Pending

LEMMA MinuteRecord == ASSUME CapInv, MinuteInv, RecordSent PROVE MinuteInv'
<1>1. /\ UNCHANGED <<now, sent>> /\ pc = "attempted" /\ pc' = "idle"
      /\ counters' = [day |-> Day(now), tally |-> Counted(Rolled, intent, now)]
  BY DEF RecordSent
<1>2. Today' = Today /\ MinuteCapHeld'
  BY <1>1 DEF Today, MinuteInv, MinuteCapHeld
<1>3. /\ Rolled'.stamps = Append(Rolled.stamps, now)
      /\ counters'.tally.stamps = Append(Rolled.stamps, now)
  BY <1>1 DEF Rolled, Counted, Day
<1>4. Append(Rolled.stamps, now) \in Seq(Nat)
  BY MinuteFacts, AppendProperties
<1>5. Trails(Today.stamps, Rolled.stamps)'
  BY <1>1, <1>2, <1>3 DEF MinuteInv, Trails
<1> QED
  BY <1>1, <1>2, <1>3, <1>4, <1>5 DEF MinuteInv, Pending

LEMMA MinuteTick == ASSUME CapInv, CapInv', MinuteInv, Tick PROVE MinuteInv'
<1>1. UNCHANGED <<pc, intent, counters, sent>> /\ now' = now + 1 /\ now \in Nat
  BY DEF Tick, CapInv
<1>2. MinuteCapHeld' /\ Day(now)' = Day(now') /\ Day(now') \in Days
  BY <1>1 DEF MinuteInv, MinuteCapHeld, Day, CapInv
<1>3. Today.stamps \in Seq(Nat) /\ Rolled.stamps \in Seq(Nat)
  BY MinuteFacts
<1>4. CASE Day(now') = Day(now)
  <2>1. Today' = Today /\ Rolled' = Rolled
    BY <1>1, <1>2, <1>4 DEF Today, Rolled
  <2>2. Pending => Cardinality(Recent(Today.stamps, now')) + 1 <= MinuteLimit
    <3> DEFINE s == Today.stamps
               a == Cardinality(Recent(s, now'))
               b == Cardinality(Recent(s, now))
    <3>1. now' \in Nat /\ now <= now'
      BY <1>1
    <3>2. a \in Nat /\ b \in Nat
      BY <1>1, <1>3, <3>1, RecentIsFinite
    <3>3. a <= b
      BY <1>1, <1>3, <3>1, RecentShrinks
    <3>4. Pending => b + 1 <= MinuteLimit
      BY DEF MinuteInv
    <3> HIDE DEF a, b
    <3>5. Pending => a + 1 <= MinuteLimit
      BY <3>2, <3>3, <3>4, MinuteLimitIsPositive
    <3> QED
      BY <3>5 DEF a
  <2>3. pc = "attempted" => Trails(Today.stamps, Append(Rolled.stamps, now'))
    BY <1>1, <1>3, TrailsLater DEF MinuteInv
  <2>4. Pending' => (Cardinality(Recent(Today.stamps, now)) + 1 <= MinuteLimit)'
    BY <1>1, <2>1, <2>2 DEF Pending, Recent
  <2>5. (pc = "attempted")' => Trails(Today.stamps, Append(Rolled.stamps, now))'
    BY <1>1, <2>1, <2>3 DEF Trails
  <2>6. (pc \in {"idle", "approved", "intended"})' => Trails(Today.stamps, Rolled.stamps)'
    BY <1>1, <2>1 DEF MinuteInv, Trails
  <2> QED
    BY <1>1, <1>2, <2>4, <2>5, <2>6 DEF MinuteInv
<1>5. CASE Day(now') # Day(now)
  <2>1. Day(now') > Day(now)
    BY <1>1, <1>2, <1>5, DayMonotone DEF CapInv
  <2>2. Today' = Nothing /\ Today'.stamps = <<>>
    BY <1>1, <1>2, <2>1, NothingRecent DEF CapInv, Today
  <2>3. Rolled'.stamps \in Seq(Nat) /\ Append(Rolled'.stamps, now') \in Seq(Nat)
    <3>1. Rolled'.stamps \in Seq(Nat)
      BY <1>1 DEF MinuteInv, Rolled, Nothing
    <3> QED
      BY <1>1, <3>1, AppendProperties
  <2>4. Trails(Today.stamps, Rolled.stamps)' /\ Trails(Today.stamps, Append(Rolled.stamps, now))'
    <3>1. Trails(<<>>, Rolled'.stamps) /\ Trails(<<>>, Append(Rolled'.stamps, now'))
      BY <2>3, TrailsItself
    <3> QED
      BY <2>2, <3>1 DEF Trails
  <2>5. (Cardinality(Recent(Today.stamps, now)) + 1 <= MinuteLimit)'
    BY <2>2, NothingRecent, MinuteLimitIsPositive DEF Recent
  <2> QED
    BY <1>1, <1>2, <2>4, <2>5 DEF MinuteInv
<1> QED
  BY <1>4, <1>5

LEMMA MinuteStep == CapInv /\ CapInv' /\ Tested /\ MinuteInv /\ [Next]_vars => MinuteInv'
<1> SUFFICES ASSUME CapInv, CapInv', Tested, MinuteInv, [Next]_vars PROVE MinuteInv'
  OBVIOUS
<1>1. ASSUME NEW qty \in 1 .. Limits.position_shares, NEW price \in Prices,
             NEW quote \in Quotes, Check(qty, price, quote)
      PROVE  MinuteInv'
  <2>1. broken = "none"
    BY <1>1 DEF Check, Tested, DeadControlNeverStarts
  <2> QED
    BY <1>1, <2>1, MinuteCheck
<1> QED
  BY <1>1, MinuteQuiet, MinuteRestore, MinuteAttempt, MinuteRecord, MinuteTick DEF Next

(* The minute breaker, for every cap and every length of a minute: its      *)
(* stamps are taken after the attempts they count, and yet no minute of the *)
(* journal has more attempts than the cap, over restarts and midnight.      *)
THEOREM NoMinuteOverTheCap == Spec => []MinuteCapHeld
<1>1. Init => Tested
  BY DEF Init, Tested, DeadControlNeverStarts
<1>2. Init /\ [][Next]_vars => [](CapInv /\ Tested)
  BY <1>1, CapInit, CapStep, TestedStep, PTL
<1>3. MinuteInv => MinuteCapHeld
  BY DEF MinuteInv
<1> QED
  BY <1>2, <1>3, MinuteInit, MinuteStep, PTL DEF Spec

================================================================================
