---------------------------- MODULE OrderService ----------------------------
(***************************************************************************)
(* What trading one leg promises, without a controller, timers, callbacks, *)
(* snapshots or processes that die.  An order is committed with its size,  *)
(* attempted durably, and sent at most once, which only happens while no   *)
(* other order is alive, every execution so far is recorded, no HALT is    *)
(* active, and the account can bear all of it.  The broker executes what   *)
(* is alive, to its size at most; each execution is recorded once; and an  *)
(* order is closed for good, when it can execute no more.                  *)
(***************************************************************************)
EXTENDS Integers

CONSTANTS
  Orders,
  Limit     \* shares the account may be long or short

VARIABLES
  stage,       \* of each order in the durable record
  size,        \* shares it is to buy, or to sell if negative
  life,        \* of each order at the broker
  done,        \* shares executed, of each order
  recorded,    \* executions in the durable record, of each order
  account,     \* the position at the broker
  halted,      \* a HALT waits for its acknowledgement
  restricted   \* only what brings the account nearer to flat may be sent

recordVars == <<stage, size, recorded>>
brokerVars == <<life, done, account>>
controlVars == <<halted, restricted>>
svars == <<recordVars, brokerVars, controlVars>>

Magnitude(n) == IF n < 0 THEN -n ELSE n

Init ==
  /\ stage = [o \in Orders |-> "new"]
  /\ size = [o \in Orders |-> 0]
  /\ life = [o \in Orders |-> "unsent"]
  /\ done = [o \in Orders |-> 0]
  /\ recorded = [o \in Orders |-> {}]
  /\ account = 0
  /\ halted = FALSE /\ restricted = FALSE

Commit(o) ==
  /\ stage[o] = "new"
  /\ size'[o] \in Int \ {0} /\ size' = [size EXCEPT ![o] = size'[o]]
  /\ stage' = [stage EXCEPT ![o] = "committed"]
  /\ UNCHANGED <<recorded, brokerVars, controlVars>>

Attempt(o) ==
  /\ stage[o] = "committed"
  /\ \A p \in Orders : stage[p] # "attempted"
  /\ stage' = [stage EXCEPT ![o] = "attempted"]
  /\ UNCHANGED <<size, recorded, brokerVars, controlVars>>

Settled == \A p \in Orders : life[p] # "alive" /\ recorded[p] = 1..done[p]
Reduces(n) == Magnitude(account + n) < Magnitude(account) /\ (account + n) * account >= 0

(* The order may get lost on its way.                                      *)
Send(o) ==
  /\ stage[o] = "attempted" /\ life[o] = "unsent"
  /\ ~halted
  /\ Settled
  /\ Magnitude(account + size[o]) <= Limit
  /\ restricted => Reduces(size[o])
  /\ \E l \in {"alive", "dead"} : life' = [life EXCEPT ![o] = l]
  /\ UNCHANGED <<recordVars, done, account, controlVars>>

Execute(o) ==
  /\ life[o] = "alive" /\ done[o] < Magnitude(size[o])
  /\ done' = [done EXCEPT ![o] = @ + 1]
  /\ account' = account + (IF size[o] < 0 THEN -1 ELSE 1)
  /\ life' = [life EXCEPT ![o] = IF done'[o] = Magnitude(size[o]) THEN "dead" ELSE "alive"]
  /\ UNCHANGED <<recordVars, controlVars>>

Die(o) ==
  /\ life[o] = "alive"
  /\ life' = [life EXCEPT ![o] = "dead"]
  /\ UNCHANGED <<recordVars, done, account, controlVars>>

(* Whoever trades may restrict itself or lift its own restriction; a HALT  *)
(* it may only raise.                                                      *)
Control == (halted => halted') /\ restricted' \in BOOLEAN

Steer == Control /\ UNCHANGED <<recordVars, brokerVars>>

Acknowledge == halted' = FALSE /\ UNCHANGED <<recordVars, brokerVars, restricted>>

(* Executions of o, or its end, or both become known.                      *)
Learn(o) ==
  /\ \E new \in SUBSET (1..done[o]) : recorded' = [recorded EXCEPT ![o] = @ \cup new]
  /\ \/ UNCHANGED stage
     \/ /\ stage[o] = "attempted" /\ life[o] # "alive"
        /\ stage' = [stage EXCEPT ![o] = "closed"]
  /\ Control
  /\ UNCHANGED <<size, brokerVars>>

Next ==
  \/ \E o \in Orders :
       Commit(o) \/ Attempt(o) \/ Send(o) \/ Execute(o) \/ Die(o) \/ Learn(o)
  \/ Steer
  \/ Acknowledge

Spec == Init /\ [][Next]_svars
=============================================================================
