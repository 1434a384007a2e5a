---------------------------- MODULE MCLiveOrders ----------------------------
(* An order of each of two windows that may rest, the first one of two lots. *)
EXTENDS LiveOrders, TLC

CONSTANTS o1, o2

TwoWindows == o1 :> 0 @@ o2 :> 1
TwoAndOne  == o1 :> 2 @@ o2 :> 1
=============================================================================
