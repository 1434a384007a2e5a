---------------------------- MODULE MCShadowRules ----------------------------
(* Two takers of one window against one book.                                *)
EXTENDS ShadowRules, TLC

CONSTANTS c1, c2, s1

TwoTakers == [o \in {c1, c2} |-> [session |-> s1, tif |-> "FAK", size |-> 1]]
=============================================================================
