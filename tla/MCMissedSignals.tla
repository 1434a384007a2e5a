--------------------------- MODULE MCMissedSignals ---------------------------
(* A small instance of MissedSignals with the thresholds of config.yaml.     *)
(* The ticks lie on both sides of every filter.  No P_up but one has only    *)
(* five digits: rounding decides nothing for most, whether the sniper shoots *)
(* for 929996, on the edge for 937456, and in the sweep for 60004.  The      *)
(* share of a depth of 997 or 999 is rounded too, which decides for 999.     *)
EXTENDS MissedSignals

Config ==
  [pMin |-> 930000, maxPrice |-> 95, minEdge |-> 20000, buffer |-> 5000,
   participation |-> 50, stake |-> 10, windowStake |-> 25, liquidity |-> 15]

Tick(p, ask, depth, flag) == [p |-> p, ask |-> ask, depth |-> depth, flag |-> flag]

MCTicks ==
  {Tick(940003, 85, 4001, flag) : flag \in Flags}
    \cup {Tick(60004, ask, 997, "none") : ask \in {0, 85, 91, 96}}
    \cup {Tick(60004, 85, 999, "none"), Tick(929996, 85, 4000, "none"),
          Tick(937456, 91, 4000, "none"), Tick(500000, 85, 4000, "none"),
          Tick(989998, 95, 800, "tie_band"), Tick(989998, 96, 4000, "none")}
=============================================================================
