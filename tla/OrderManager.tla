---------------------------- MODULE OrderManager ----------------------------
(* The order lifecycle of exec/order_manager.py as operators on one managed  *)
(* order: the state machine of VALID_TRANSITIONS and the handlers of         *)
(* OrderManager.  An order is a record; a handler maps the order before the  *)
(* call to the order after it.  ShadowOrder adds what the shadow exchange    *)
(* does to an order; other exchanges would apply these operators likewise.   *)
(*                                                                           *)
(* "NONE" is the order that has not been drafted.  An IllegalTransition is   *)
(* recorded in raised and leaves the state as it was, as the raise does.     *)
EXTENDS Integers

Working  == {"SENT", "ACKED", "PARTIAL"}
Terminal == {"FILLED", "CANCELED", "REJECTED", "EXPIRED"}
States   == {"NONE", "DRAFT", "SIGNED"} \cup Working \cup Terminal

ValidTransitions ==
  [s \in States |->
    CASE s = "NONE"    -> {}
      [] s = "DRAFT"   -> {"SIGNED", "REJECTED"}
      [] s = "SIGNED"  -> {"SENT", "REJECTED", "EXPIRED"}
      [] s = "SENT"    -> {"ACKED", "REJECTED", "EXPIRED", "PARTIAL", "FILLED"}
      [] s = "ACKED"   -> {"PARTIAL", "FILLED", "CANCELED", "EXPIRED"}
      [] s = "PARTIAL" -> {"PARTIAL", "FILLED", "CANCELED", "EXPIRED"}
      [] OTHER         -> {}]

Takers == {"FAK", "FOK"}
Tifs   == Takers \cup {"GTC", "GTD"}

(* filled is ManagedOrder.filled_size; booked is what on_fill_applied has    *)
(* passed to the ledger for this order.                                      *)
ManagedOrder == [state: States, filled: Nat, booked: Nat,
                 cancelRequested: BOOLEAN, raised: BOOLEAN]

NoOrder == [state |-> "NONE", filled |-> 0, booked |-> 0,
            cancelRequested |-> FALSE, raised |-> FALSE]

IsTerminal(m) == m.state \in Terminal
IsOpen(m)     == m.state \in States \ (Terminal \cup {"NONE"})

(* What OrderContract says of an order in each state.                        *)
StatusOf(m) ==
  CASE m.state = "NONE"   -> "idle"
    [] m.state = "FILLED" -> "filled"
    [] m.state \in Terminal \ {"FILLED"} -> "dead"
    [] OTHER -> "open"

MinOf(a, b) == IF a <= b THEN a ELSE b

Transition(m, new) ==
  IF new \in ValidTransitions[m.state]
  THEN [m EXCEPT !.state = new]
  ELSE [m EXCEPT !.raised = TRUE]

Drafted == [NoOrder EXCEPT !.state = "DRAFT"]

(* submit up to and including the ack of an adapter that accepts.            *)
Submitted(m) == Transition(Transition(Transition(m, "SIGNED"), "SENT"), "ACKED")

(* The flag that request_cancel and cancel_all_for_session set: a request is *)
(* not a cancellation, so the state stays.                                   *)
CancelFlagged(m) == IF IsOpen(m) THEN [m EXCEPT !.cancelRequested = TRUE] ELSE m

(* Mutant: the confirmation does not look whether a fill has already won.    *)
BadConfirmCanceled(m) == Transition(m, "CANCELED")

ConfirmCanceled(m) == IF IsTerminal(m) THEN m ELSE Transition(m, "CANCELED")

ExpireUnfilled(m) == IF IsTerminal(m) THEN m ELSE Transition(m, "EXPIRED")

(* Mutant: filled in full is tested with > instead of >=.                    *)
BadFillState(m, size) ==
  CASE m.state # "CANCELED" /\ m.filled > size -> Transition(m, "FILLED")
    [] m.state \in Working /\ m.filled <= size -> Transition(m, "PARTIAL")
    [] OTHER -> m

(* apply_fill for a fill of n that is not a duplicate: the size is added     *)
(* (capped), the state moves unless the order is already canceled, and the   *)
(* ledger hears of it unless the transition raised first.                    *)
FillState(m, size) ==
  CASE m.state = "CANCELED" -> m
    [] m.state # "CANCELED" /\ m.filled >= size -> Transition(m, "FILLED")
    [] m.state \in Working /\ m.filled < size -> Transition(m, "PARTIAL")
    [] OTHER -> m

ApplyFill(m, n, size) ==
  LET counted == [m EXCEPT !.filled = MinOf(@ + n, size)]
      moved   == FillState(counted, size)
  IN IF moved.raised THEN moved ELSE [moved EXCEPT !.booked = @ + n]
=============================================================================
