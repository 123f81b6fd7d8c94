---------------------------- MODULE MCRiskBreakers ----------------------------
(* Instances of RiskBreakers for TLC.                                      *)
EXTENDS RiskBreakers

\* Caps that a short day can reach.
SmallLimits ==
  [order_shares |-> 4, position_shares |-> 2, order_notional |-> 4,
   daily_shares |-> 4, daily_notional |-> 6, orders_per_day |-> 3,
   orders_per_minute |-> 2, overnight_loss |-> 2]

=============================================================================
