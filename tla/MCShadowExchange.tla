-------------------------- MODULE MCShadowExchange --------------------------
(* A small instance of ShadowExchange: a resting order and a fill-or-kill.   *)
EXTENDS ShadowExchange, TLC

CONSTANTS c1, c2, s1

MakerAndFok == c1 :> [session |-> s1, tif |-> "GTC", size |-> 2]
            @@ c2 :> [session |-> s1, tif |-> "FOK", size |-> 2]
=============================================================================
