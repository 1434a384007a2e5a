----------------------------- MODULE ShadowRules -----------------------------
(* Rule 1 of the shadow exchange's own documentation, checked against what   *)
(* it does.  A history variable remembers what the rule speaks of: the book  *)
(* an order would have met on time.                                          *)
EXTENDS ShadowExchange

VARIABLE onTime  \* the book at the due instant of an overdue order, as a set

TakenBy(o) ==
  IF orders[o].place = "pending" /\ orders'[o].place = "none"
  THEN orders'[o].om.filled ELSE 0

(* The clock leaves the due instant of an order that nothing has run.        *)
RememberBooks ==
  onTime' = [o \in Orders |->
    LET x == orders[o] IN
      IF x.place = "pending" /\ x.left = 0 /\ onTime[o] = {}
      THEN {View(Of(o))} ELSE onTime[o]]

RulesInit == Init /\ onTime = [o \in Orders |-> {}]

RulesNext ==
  \/ \E o \in Orders : (Draft(o) \/ Submit(o)) /\ UNCHANGED onTime
  \/ \E s \in Sessions, b \in BookViews : BookFrame(s, b) /\ UNCHANGED onTime
  \/ Pump /\ UNCHANGED onTime
  \/ Advance /\ RememberBooks

RulesSpec == RulesInit /\ [][RulesNext]_<<vars, onTime>>

(* Rule 1 (shadow_exchange.py:6): a taker executes only against the depth as *)
(* it stood at signal time plus the round trip.                              *)
DepthAsOfArrival ==
  [][\A o \in Orders : \A b \in onTime[o] : TakenBy(o) <= b.opp]_<<vars, onTime>>
=============================================================================
