---------------------------- MODULE OrderContract ----------------------------
(* What an exchange adapter promises about each order it is given, with no   *)
(* books, round trips, queues or cancels: an order is opened once, its fills *)
(* only grow and never pass its size, it is filled exactly when they reach   *)
(* it, a taker never stays open with a fill, a FOK order that dies has none, *)
(* and what has ended stays as it ended.                                     *)
EXTENDS Integers

CONSTANTS Orders, Tif, Size

VARIABLE promise

Statuses == {"idle", "open", "filled", "dead"}
Idle == [status |-> "idle", filled |-> 0]

Init == promise = [o \in Orders |-> Idle]

Opens(p, q) == p = Idle /\ q = [status |-> "open", filled |-> 0]

Moves(p, q, tif, size) ==
  /\ p.status = "open"
  /\ q.status \in {"open", "filled", "dead"}
  /\ q.filled \in p.filled .. size
  /\ q.status = "filled" <=> q.filled = size
  /\ q.status = "open" /\ tif \in {"FAK", "FOK"} => q.filled = 0
  /\ q.status = "dead" /\ tif = "FOK" => q.filled = 0

(* Many orders may move in one step: one feed event runs all that is due.    *)
Next ==
  /\ \A o \in Orders :
       \/ promise'[o] = promise[o]
       \/ Opens(promise[o], promise'[o])
       \/ Moves(promise[o], promise'[o], Tif[o], Size[o])
  /\ promise' \in [Orders -> [status: Statuses, filled: Nat]]

Spec == Init /\ [][Next]_promise
=============================================================================
