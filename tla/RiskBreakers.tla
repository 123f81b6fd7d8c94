----------------------------- MODULE RiskBreakers -----------------------------
(***************************************************************************)
(* The risk engine: the order of its checks, the must-reject self-test a   *)
(* process passes before it starts, and the runaway breakers, whose        *)
(* counters live in memory, roll at UTC midnight and are rebuilt from the  *)
(* journal's send attempts by the next process.                            *)
(*                                                                         *)
(* Time, money and basis points are small integers; the journal is kept    *)
(* per UTC day, as the counters and the auditor read it.                   *)
(***************************************************************************)
EXTENDS Integers, Sequences, FiniteSets, FiniteSetsExt

CONSTANTS
  Limits,     \* the loaded RiskConfig
  Prices,     \* limit prices of orders
  Mid,        \* price of the self-test's quote and probes
  DayLength,  \* time units in a UTC day
  Minute,     \* time units in the minute breaker's window
  Horizon     \* bound: the last instant

Limit == {"order_shares", "position_shares", "order_notional",
          "daily_shares", "daily_notional", "orders_per_day",
          "orders_per_minute", "overnight_loss"}

(* The compiled-in ceilings: a configuration may lower them only.          *)
HardMax ==
  [position_shares |-> 100, order_shares |-> 200, order_notional |-> 200000,
   daily_shares |-> 2000, daily_notional |-> 1000000, orders_per_day |-> 200,
   orders_per_minute |-> 10]

(* RiskConfig.validate, of the limits.                                     *)
ValidConfig(c) ==
  /\ c \in [Limit -> Nat \ {0}]
  /\ \A l \in DOMAIN HardMax : c[l] <= HardMax[l]
  /\ c.order_shares >= 2 * c.position_shares

ASSUME LimitsAssumption == ValidConfig(Limits)
ASSUME TimeAssumption ==
  /\ DayLength \in Nat \ {0} /\ Minute \in Nat /\ Horizon \in Nat
  /\ Prices \subseteq Nat /\ Mid \in Nat \ {0}

VARIABLES
  now,       \* the clock
  pc,        \* the durable write _send has reached, or the process's state
  intent,    \* the order in hand
  counters,  \* _DayCounters: lost with the process
  sent,      \* the journal's send attempts of each day
  broken     \* a control whose code has stopped working, or "none"

vars == <<now, pc, intent, counters, sent, broken>>

Day(t) == t \div DayLength
Days == 0 .. Day(Horizon)
Nothing == [orders |-> 0, shares |-> 0, notional |-> 0, stamps |-> <<>>]
Cost(i) == i.qty * i.price
Counted(c, i, t) ==
  [orders |-> c.orders + 1, shares |-> c.shares + i.qty,
   notional |-> c.notional + Cost(i), stamps |-> Append(c.stamps, t)]

(* roll.                                                                   *)
Rolled == IF counters.day = Day(now) THEN counters.tally ELSE Nothing

NoIntent == [qty |-> 0, price |-> 0]

-----------------------------------------------------------------------------
(* check: the controls, in the order of the code.                          *)
Controls == <<"symbol_whitelist", "strategy_whitelist", "max_order_shares",
  "max_position_shares", "max_orders_per_day", "max_orders_per_minute",
  "max_daily_shares", "quote_stale", "max_spread_bps", "limit_collar",
  "no_quote", "max_order_notional", "max_daily_notional",
  "overnight_stress">>

Abs(n) == IF n < 0 THEN -n ELSE n

(* What check can be told of the market.                                   *)
Quotes == {"good", "stale", "wide", "none"}

(* A request is an order with what check is told of it.                    *)
Request(qty, price) ==
  [qty |-> qty, price |-> price, listed |-> TRUE, known |-> TRUE, pos |-> 0,
   quote |-> "good", collared |-> TRUE]

Trips(r, tally, t) ==
  LET recent == {n \in DOMAIN tally.stamps : t - tally.stamps[n] < Minute}
      resulting == r.pos + r.qty
      cost == Cost(r)
  IN [symbol_whitelist |-> ~r.listed,
      strategy_whitelist |-> ~r.known,
      max_order_shares |-> r.qty > Limits.order_shares,
      max_position_shares |-> Abs(resulting) > Limits.position_shares,
      max_orders_per_day |-> tally.orders + 1 > Limits.orders_per_day,
      max_orders_per_minute |->
        Cardinality(recent) + 1 > Limits.orders_per_minute,
      max_daily_shares |-> tally.shares + r.qty > Limits.daily_shares,
      quote_stale |-> r.quote = "stale",
      max_spread_bps |-> r.quote = "wide",
      limit_collar |-> ~r.collared,
      no_quote |-> r.quote = "none",
      max_order_notional |-> cost > Limits.order_notional,
      max_daily_notional |-> tally.notional + cost > Limits.daily_notional,
      overnight_stress |->
        r.quote # "none" /\ Abs(resulting) * Mid > Limits.overnight_loss]

Hits(r, tally, t) ==
  LET trips == Trips(r, tally, t)
  IN {n \in DOMAIN Controls : Controls[n] # broken /\ trips[Controls[n]]}
Admits(r, tally, t) == Hits(r, tally, t) = {}

(* The name of the control that raises, or "none".                         *)
Refusal(r, tally, t) ==
  IF Admits(r, tally, t) THEN "none" ELSE Controls[Min(Hits(r, tally, t))]

-----------------------------------------------------------------------------
(* run_self_test: orders that must be refused, each by its own control.    *)
Probes ==
  LET ok == Request(1, Mid)
  IN [symbol_whitelist |-> [ok EXCEPT !.listed = FALSE],
      strategy_whitelist |-> [ok EXCEPT !.known = FALSE],
      max_order_shares |-> [ok EXCEPT !.qty = Limits.order_shares + 1],
      max_position_shares |-> [ok EXCEPT !.pos = Limits.position_shares],
      quote_stale |-> [ok EXCEPT !.quote = "stale"],
      max_spread_bps |-> [ok EXCEPT !.quote = "wide"],
      limit_collar |-> [ok EXCEPT !.collared = FALSE],
      no_quote |-> [ok EXCEPT !.quote = "none"]]

(* The breaker's probe: as many baseline orders as the minute allows, all  *)
(* at one instant, and one more.                                           *)
Burst(n) ==
  [orders |-> n, shares |-> n, notional |-> n * Mid,
   stamps |-> [k \in 1 .. n |-> 0]]

BreakerProven ==
  LET answer(n) == Refusal(Request(1, Mid), Burst(n), 0)
  IN /\ answer(Limits.orders_per_minute) = "max_orders_per_minute"
     /\ \A n \in 0 .. Limits.orders_per_minute - 1 : answer(n) = "none"

(* Mutant, and the self-test's former defect: any refusal is proof.        *)
SelfTest_anyRefusal ==
  /\ \A c \in DOMAIN Probes : Refusal(Probes[c], Nothing, 0) # "none"
  /\ BreakerProven

SelfTest ==
  /\ \A c \in DOMAIN Probes : Refusal(Probes[c], Nothing, 0) = c
  /\ BreakerProven

Proven == DOMAIN Probes \cup {"max_orders_per_minute"}

-----------------------------------------------------------------------------
Init ==
  /\ now = 0 /\ pc = "down" /\ intent = NoIntent
  /\ counters = [day |-> 0, tally |-> Nothing]
  /\ sent = [d \in Days |-> Nothing]
  /\ broken \in Proven \cup {"none"}

(* Controller.__init__, with a fresh engine.                               *)
Boot ==
  /\ pc = "down" /\ SelfTest
  /\ pc' = "booting"
  /\ counters' = [day |-> 0, tally |-> Nothing]
  /\ UNCHANGED <<now, intent, sent, broken>>

(* restore_from_events: the attempts of the last day that has any, counted *)
(* from the payload of their intents.                                      *)
(* Mutant: the day's sums are restored and the minute's stamps are not.     *)
Restored_sumsOnly ==
  LET days == {d \in Days : sent[d].orders > 0}
  IN IF days = {} THEN [day |-> 0, tally |-> Nothing]
     ELSE [day |-> Max(days), tally |-> [sent[Max(days)] EXCEPT !.stamps = <<>>]]

Restored ==
  LET days == {d \in Days : sent[d].orders > 0}
  IN IF days = {} THEN [day |-> 0, tally |-> Nothing]
     ELSE [day |-> Max(days), tally |-> sent[Max(days)]]

Restore ==
  /\ pc = "booting"
  /\ counters' = Restored
  /\ pc' = "idle"
  /\ UNCHANGED <<now, intent, sent, broken>>

(* _send: check, two commits, the count, and the broker's call.            *)
Check(qty, price, quote) ==
  /\ pc = "idle"
  /\ counters' = [day |-> Day(now), tally |-> Rolled]
  /\ IF Admits([Request(qty, price) EXCEPT !.quote = quote], Rolled, now)
     THEN pc' = "approved" /\ intent' = [qty |-> qty, price |-> price]
     ELSE UNCHANGED <<pc, intent>>
  /\ UNCHANGED <<now, sent, broken>>

CommitIntent ==
  /\ pc = "approved"
  /\ pc' = "intended"
  /\ UNCHANGED <<now, intent, counters, sent, broken>>

StartSendAttempt ==
  /\ pc = "intended"
  /\ sent' = [sent EXCEPT ![Day(now)] = Counted(@, intent, now)]
  /\ pc' = "attempted"
  /\ UNCHANGED <<now, intent, counters, broken>>

(* record_sent, before the call and whatever becomes of it.                *)
(* Mutant: a clean refusal is not counted.                                 *)
RecordSent_ifSent ==
  /\ pc = "attempted"
  /\ \/ counters' = [day |-> Day(now), tally |-> Counted(Rolled, intent, now)]
     \/ UNCHANGED counters
  /\ pc' = "idle" /\ intent' = NoIntent
  /\ UNCHANGED <<now, sent, broken>>

RecordSent ==
  /\ pc = "attempted"
  /\ counters' = [day |-> Day(now), tally |-> Counted(Rolled, intent, now)]
  /\ pc' = "idle" /\ intent' = NoIntent
  /\ UNCHANGED <<now, sent, broken>>

Crash ==
  /\ pc # "down"
  /\ pc' = "down" /\ intent' = NoIntent
  /\ counters' = [day |-> 0, tally |-> Nothing]
  /\ UNCHANGED <<now, sent, broken>>

Tick ==
  /\ now < Horizon
  /\ now' = now + 1
  /\ UNCHANGED <<pc, intent, counters, sent, broken>>

Next ==
  \/ Boot \/ Restore \/ CommitIntent \/ StartSendAttempt \/ RecordSent
  \/ \E qty \in 1 .. Limits.position_shares, price \in Prices, quote \in Quotes :
       Check(qty, price, quote)
  \/ Crash \/ Tick

Spec == Init /\ [][Next]_vars

-----------------------------------------------------------------------------
(* Type correctness.                                                       *)
Tally == [orders : Nat, shares : Nat, notional : Nat, stamps : Seq(Nat)]
TypeOK ==
  /\ now \in 0 .. Horizon
  /\ pc \in {"down", "booting", "idle", "approved", "intended", "attempted"}
  /\ intent \in [qty : Nat, price : Nat]
  /\ counters \in [day : Nat, tally : Tally]
  /\ sent \in [Days -> Tally]
  /\ broken \in Proven \cup {"none"}

(* SPEC invariant 16: the day's caps hold of the attempts in the journal,  *)
(* over restarts, over a crash between an attempt and its count and over   *)
(* midnight between any two steps.                                         *)
DailyCapsHeld ==
  \A d \in Days :
    /\ sent[d].orders <= Limits.orders_per_day
    /\ sent[d].shares <= Limits.daily_shares
    /\ sent[d].notional <= Limits.daily_notional

(* The minute breaker, as the auditor recomputes it from the attempts of   *)
(* one UTC day: no window of a minute ever has more than the cap.          *)
Window(s, n) == {k \in 1 .. n : s[n] - s[k] < Minute}
MinuteCapHeld ==
  \A d \in Days : \A n \in DOMAIN sent[d].stamps :
    Cardinality(Window(sent[d].stamps, n)) <= Limits.orders_per_minute

(* Invariant 21: with one of the proven controls dead no process starts,   *)
(* although another control may refuse the probe meant for it.             *)
DeadControlNeverStarts == pc # "down" => broken = "none"
=============================================================================
