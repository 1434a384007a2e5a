----------------------------- MODULE ShadowOrder -----------------------------
(* One order at the shadow exchange (sim/shadow_exchange.py): what placing   *)
(* it, its arrival after a round trip, a print, a cancel and the arrival of  *)
(* the cancel make of it.  The modules that own orders (ShadowExchange,      *)
(* Trading) apply these operators inside their actions.                      *)
(*                                                                           *)
(* Prices are abstracted to what an order sees of the book: the opposite     *)
(* depth inside its limit and the queue at its own level.  A time is a       *)
(* countdown to the instant something is due, clamped at 0.                  *)
EXTENDS OrderManager

CONSTANTS
  MaxRtt,    \* bound on a sampled round trip, in ticks
  MaxDepth   \* bound on a visible depth or a traded size

ASSUME RttAssumption == MaxRtt \in Nat \ {0}
ASSUME DepthAssumption == MaxDepth \in Nat \ {0}

Rtts   == 1 .. MaxRtt
Depths == 0 .. MaxDepth

(* visible is: tracked and not dirty.  A dirty book is not read, so its      *)
(* depths are normalised to 0.                                               *)
Hidden    == [visible |-> FALSE, opp |-> 0, own |-> 0]
BookViews == {Hidden} \cup [visible: {TRUE}, opp: Depths, own: Depths]

(* place tells where the exchange holds the order: in _pending_places, in    *)
(* _resting or nowhere.  left counts down to its arrival, ahead and          *)
(* remaining are those of _RestingMaker, cancels the countdowns of its       *)
(* _PendingCancels.                                                          *)
Places == {"none", "pending", "resting"}
OrderRecords == [om: ManagedOrder, place: Places, left: 0 .. MaxRtt,
                 ahead: Depths, remaining: Nat,
                 cancels: SUBSET (0 .. MaxRtt)]

Unplaced == [om |-> NoOrder, place |-> "none", left |-> 0,
             ahead |-> 0, remaining |-> 0, cancels |-> {}]

-----------------------------------------------------------------------------
(* Leaving the exchange: nothing of the order is pending or resting.         *)
Left(x) == [x EXCEPT !.place = "none", !.left = 0, !.ahead = 0, !.remaining = 0]

Expire(x) == [x EXCEPT !.om = ExpireUnfilled(@)]

EmitFill(x, n, size, fee) ==
  IF fee THEN [x EXCEPT !.om = ApplyFill(@, n, size)] ELSE Expire(x)

(* Mutant: an order that takes nothing is not reported back.                 *)
BadTakerFillSilent(x, i, depth, fee) ==
  LET take == MinOf(depth, i.size)
  IN IF take = 0 \/ (i.tif = "FOK" /\ take < i.size) THEN x
     ELSE Expire(EmitFill(x, take, i.size, fee))

(* The levels inside the limit are walked as one depth.                      *)
TakerFill(x, i, depth, fee) ==
  LET take  == MinOf(depth, i.size)
      shown == IF i.tif = "FOK" /\ take < i.size THEN 0 ELSE take
      hit   == EmitFill(x, shown, i.size, fee)
  IN IF shown = 0 THEN Expire(x)
     ELSE IF shown < i.size THEN Expire(hit) ELSE hit

RestMaker(x, i, ahead) ==
  [x EXCEPT !.place = "resting", !.ahead = ahead, !.remaining = i.size]

(* Mutant: an order arrives without waiting for its round trip.              *)
BadArrive(x, i, b, fee) ==
  IF x.place # "pending" THEN x
  ELSE IF ~b.visible THEN Expire(Left(x))
  ELSE IF i.tif \in Takers \/ b.opp > 0 THEN TakerFill(Left(x), i, b.opp, fee)
  ELSE RestMaker(Left(x), i, b.own)

(* An order whose round trip is over reaches the exchange and sees book b.   *)
(* A maker order that crosses takes, and its remainder is killed.            *)
Arrive(x, i, b, fee) ==
  IF ~(x.place = "pending" /\ x.left = 0) THEN x
  ELSE IF ~b.visible THEN Expire(Left(x))
  ELSE IF i.tif \in Takers \/ b.opp > 0 THEN TakerFill(Left(x), i, b.opp, fee)
  ELSE RestMaker(Left(x), i, b.own)

(* Mutant: the order leaves the exchange and its cancel is never confirmed.  *)
BadArriveCancelSilent(x) ==
  IF 0 \notin x.cancels THEN x ELSE [Left(x) EXCEPT !.cancels = @ \ {0}]

ArriveCancel(x) ==
  IF 0 \notin x.cancels THEN x
  ELSE [Left(x) EXCEPT !.cancels = @ \ {0}, !.om = ConfirmCanceled(@)]

(* process_due for one order: arrivals first, then cancels.                  *)
ProcessDue(x, i, b, fee) == ArriveCancel(Arrive(x, i, b, fee))

(* Mutants: the fill is not capped by what remains; what remains is not      *)
(* reduced by the fill; the queue is jumped; a filled order stays resting.   *)
BadAfterTradeUncapped(x, i, n, fee) ==
  LET consumed == MinOf(x.ahead, n)
      fill     == n - consumed
      queued   == [x EXCEPT !.ahead = @ - consumed, !.remaining = @ - fill]
  IN IF x.place # "resting" \/ fill = 0 THEN x
     ELSE EmitFill(queued, fill, i.size, fee)
BadAfterTradeUndiminished(x, i, n, fee) ==
  LET consumed == MinOf(x.ahead, n)
      fill     == MinOf(n - consumed, x.remaining)
      queued   == [x EXCEPT !.ahead = @ - consumed]
  IN IF x.place # "resting" \/ fill = 0 THEN x
     ELSE EmitFill(queued, fill, i.size, fee)
BadAfterTradeJumps(x, i, n, fee) ==
  LET fill == MinOf(n, x.remaining)
      hit  == EmitFill([x EXCEPT !.remaining = @ - fill], fill, i.size, fee)
  IN IF x.place # "resting" THEN x
     ELSE IF hit.remaining = 0 THEN Left(hit) ELSE hit
BadAfterTradeLingers(x, i, n, fee) ==
  LET consumed == MinOf(x.ahead, n)
      fill     == MinOf(n - consumed, x.remaining)
      queued   == [x EXCEPT !.ahead = @ - consumed, !.remaining = @ - fill]
  IN IF x.place # "resting" THEN x
     ELSE IF fill = 0 THEN queued ELSE EmitFill(queued, fill, i.size, fee)

(* on_trade for one order the print goes through: the queue ahead is         *)
(* consumed first, and only the rest of the print can fill the order.        *)
AfterTrade(x, i, n, fee) ==
  LET consumed == MinOf(x.ahead, n)
      fill     == MinOf(n - consumed, x.remaining)
      queued   == [x EXCEPT !.ahead = @ - consumed, !.remaining = @ - fill]
      hit      == EmitFill(queued, fill, i.size, fee)
  IN IF x.place # "resting" THEN x
     ELSE IF fill = 0 THEN queued
     ELSE IF hit.remaining = 0 THEN Left(hit) ELSE hit

(* adapter.cancel: schedule a cancel one round trip away.                    *)
ScheduleCancel(x, rtt) == [x EXCEPT !.cancels = @ \cup {rtt}]

Flagged(x) == [x EXCEPT !.om = CancelFlagged(@)]

(* cancel_all_for_session for one order: the flag goes to every open order,  *)
(* a cancel only to those the exchange holds.                                *)
CancelAll(x, rtt) ==
  IF x.place = "none" THEN Flagged(x) ELSE ScheduleCancel(Flagged(x), rtt)

(* One tick for one order.                                                   *)
Dec(n)  == IF n = 0 THEN 0 ELSE n - 1
Tick(x) == [x EXCEPT !.left = Dec(@), !.cancels = {Dec(c) : c \in @}]
=============================================================================
