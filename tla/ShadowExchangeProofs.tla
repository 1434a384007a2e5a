------------------------ MODULE ShadowExchangeProofs ------------------------
(* Proofs about ShadowExchange for every set of orders and windows, every    *)
(* intent, every bound on round trips and depths.                            *)
(*                                                                           *)
(* No handler looks at two orders at once, so the inductive invariant is a   *)
(* statement about one order, OrderInv, that every per-order operator of the *)
(* model preserves; the lemmas say so one operator at a time, and the        *)
(* theorems add up the orders.                                               *)
EXTENDS ShadowExchange, TLAPS

Intents == [session: Sessions, tif: Tifs, size: Nat \ {0}]

(* Where an order is held decides what state it can be in.                   *)
PlaceInv(x, i) ==
  /\ x.place = "none" => x.om.state \in {"NONE", "DRAFT"} \cup Terminal
  /\ x.place = "pending" => x.om.state = "ACKED"
  /\ x.place = "resting" =>
       /\ x.om.state = (IF x.om.filled = 0 THEN "ACKED" ELSE "PARTIAL")
       /\ x.remaining = i.size - x.om.filled
       /\ x.remaining > 0
       /\ x.om.filled > 0 => x.ahead = 0
       /\ i.tif \notin Takers

(* What the order manager holds of an order.                                 *)
ManagedInv(m, i) ==
  /\ ~m.raised
  /\ m.booked = m.filled
  /\ m.filled <= i.size
  /\ m.state = "FILLED" <=> m.filled = i.size
  /\ m.state \in {"NONE", "DRAFT", "ACKED"} => m.filled = 0
  /\ m.state = "NONE" => m = NoOrder
  /\ m.state = "CANCELED" => m.cancelRequested
  /\ m.state # "SIGNED" /\ m.state # "SENT" /\ m.state # "REJECTED"
  /\ i.tif = "FOK" => m.filled \in {0, i.size}

OrderInv(x, i) ==
  /\ x \in OrderRecords
  /\ ManagedInv(x.om, i)
  /\ PlaceInv(x, i)
  /\ x.cancels # {} => x.om.cancelRequested /\ x.om.state \notin {"NONE", "DRAFT"}

IInv ==
  /\ \A o \in Orders : OrderInv(orders[o], Intent[o])
  /\ TypeOK

-----------------------------------------------------------------------------
(* The results of the order manager's handlers on an order the exchange      *)
(* holds, named so that no later proof looks inside a record update.         *)
FilledBy(m, n, size) ==
  [m EXCEPT !.filled = @ + n, !.booked = @ + n,
            !.state = IF m.filled + n = size THEN "FILLED" ELSE "PARTIAL"]
Ended(m, s) == [m EXCEPT !.state = s]
With(x, m)  == [x EXCEPT !.om = m]

Held == {"ACKED", "PARTIAL"}

LEMMA FilledByIs ==
  ASSUME NEW m \in ManagedOrder, NEW n \in Nat, NEW i \in Intents
  PROVE  /\ FilledBy(m, n, i.size) \in ManagedOrder
         /\ FilledBy(m, n, i.size).filled = m.filled + n
         /\ FilledBy(m, n, i.size).booked = m.booked + n
         /\ m.filled + n = i.size => FilledBy(m, n, i.size).state = "FILLED"
         /\ m.filled + n # i.size => FilledBy(m, n, i.size).state = "PARTIAL"
         /\ FilledBy(m, n, i.size).raised = m.raised
         /\ FilledBy(m, n, i.size).cancelRequested = m.cancelRequested
<1>1. m.filled + n \in Nat /\ m.booked + n \in Nat
  BY DEF ManagedOrder
<1>2. "FILLED" \in States /\ "PARTIAL" \in States
  BY DEF States, Working, Terminal
<1> QED
  BY <1>1, <1>2 DEF FilledBy, ManagedOrder

LEMMA EndedIs ==
  ASSUME NEW m \in ManagedOrder, NEW s \in States
  PROVE  /\ Ended(m, s) \in ManagedOrder
         /\ Ended(m, s).filled = m.filled
         /\ Ended(m, s).booked = m.booked
         /\ Ended(m, s).state = s
         /\ Ended(m, s).raised = m.raised
         /\ Ended(m, s).cancelRequested = m.cancelRequested
BY DEF Ended, ManagedOrder

LEMMA WithIs ==
  ASSUME NEW x \in OrderRecords, NEW m \in ManagedOrder
  PROVE  /\ With(x, m) \in OrderRecords
         /\ With(x, m).om = m
         /\ With(x, m).place = x.place
         /\ With(x, m).left = x.left
         /\ With(x, m).ahead = x.ahead
         /\ With(x, m).remaining = x.remaining
         /\ With(x, m).cancels = x.cancels
BY DEF With, OrderRecords

LEMMA WithWith ==
  ASSUME NEW x \in OrderRecords, NEW m \in ManagedOrder, NEW e \in ManagedOrder
  PROVE  /\ With(With(x, m), e) = With(x, e)
         /\ Left(With(x, m)) = With(Left(x), m)
BY DEF With, OrderRecords, Left

(* What is left of a record when the exchange lets go of the order.          *)
LEMMA LeftIs ==
  ASSUME NEW x \in OrderRecords
  PROVE  /\ Left(x) \in OrderRecords
         /\ Left(x).om = x.om
         /\ Left(x).place = "none"
         /\ Left(x).cancels = x.cancels
<1>1. 0 \in 0 .. MaxRtt /\ 0 \in Depths /\ 0 \in Nat /\ "none" \in Places
  BY RttAssumption, DepthAssumption DEF Depths, Places
<1> QED
  BY <1>1 DEF Left, OrderRecords

(* A fill that fits into what is left of an order the exchange holds.        *)
LEMMA FillFits ==
  ASSUME NEW m \in ManagedOrder, NEW size \in Nat, ~m.raised, m.state \in Held,
         NEW n \in Nat, m.filled + n <= size
  PROVE  ApplyFill(m, n, size) = FilledBy(m, n, size)
<1> DEFINE c == [m EXCEPT !.filled = MinOf(@ + n, size)]
<1>1. m.filled \in Nat /\ m.booked \in Nat
  BY DEF ManagedOrder
<1>2. MinOf(m.filled + n, size) = m.filled + n
  BY <1>1 DEF MinOf
<1>3. /\ c \in ManagedOrder /\ c.state = m.state /\ c.raised = FALSE
      /\ c.filled = m.filled + n /\ c.booked = m.booked
  BY <1>1, <1>2 DEF ManagedOrder
<1>4. c.state \in Working /\ c.state # "CANCELED"
  BY <1>3 DEF Working, Held
<1>5. CASE m.filled + n = size
  <2>1. "FILLED" \in ValidTransitions[c.state]
    BY <1>3 DEF ValidTransitions, States, Working, Terminal, Held
  <2>2. FillState(c, size) = [c EXCEPT !.state = "FILLED"]
    BY <1>1, <1>3, <1>4, <1>5, <2>1 DEF FillState, Transition
  <2> QED
    BY <1>1, <1>3, <1>5, <1>2, <2>2 DEF ApplyFill, ManagedOrder, FilledBy
<1>6. CASE m.filled + n # size
  <2>1. "PARTIAL" \in ValidTransitions[c.state]
    BY <1>3 DEF ValidTransitions, States, Working, Terminal, Held
  <2>2. FillState(c, size) = [c EXCEPT !.state = "PARTIAL"]
    BY <1>1, <1>3, <1>4, <1>6, <2>1 DEF FillState, Transition
  <2> QED
    BY <1>1, <1>3, <1>6, <1>2, <2>2 DEF ApplyFill, ManagedOrder, FilledBy
<1> QED
  BY <1>5, <1>6

(* Ending an order the exchange holds.                                       *)
LEMMA Ends ==
  ASSUME NEW m \in ManagedOrder, m.state \in Held
  PROVE  /\ ExpireUnfilled(m) = Ended(m, "EXPIRED")
         /\ ConfirmCanceled(m) = Ended(m, "CANCELED")
BY DEF ManagedOrder, ExpireUnfilled, ConfirmCanceled, IsTerminal, Transition,
       ValidTransitions, States, Working, Terminal, Held, Ended

LEMMA FilledByInv ==
  ASSUME NEW i \in Intents, NEW m \in ManagedOrder, ManagedInv(m, i),
         m.state \in Held, NEW n \in Nat, n > 0, m.filled + n <= i.size,
         i.tif = "FOK" => m.filled + n = i.size
  PROVE  ManagedInv(FilledBy(m, n, i.size), i)
<1>1. i.size \in Nat /\ m.filled \in Nat /\ m.booked \in Nat
  BY DEF Intents, ManagedOrder
<1> DEFINE g == FilledBy(m, n, i.size)
<1>2. /\ g.filled = m.filled + n /\ g.booked = m.booked + n /\ g.raised = m.raised
      /\ m.filled + n = i.size => g.state = "FILLED"
      /\ m.filled + n # i.size => g.state = "PARTIAL"
  BY <1>1, FilledByIs
<1> HIDE DEF g
<1>3. ManagedInv(g, i)
  BY <1>1, <1>2 DEF ManagedInv
<1> QED
  BY <1>3 DEF g

LEMMA EndedInv ==
  ASSUME NEW i \in Intents, NEW m \in ManagedOrder, m.state \in Held,
         ~m.raised, m.booked = m.filled, m.filled < i.size,
         i.tif = "FOK" => m.filled = 0,
         NEW s \in {"EXPIRED", "CANCELED"},
         s = "CANCELED" => m.cancelRequested
  PROVE  ManagedInv(Ended(m, s), i) /\ Ended(m, s) \in ManagedOrder
<1>1. s \in States /\ i.size \in Nat /\ m.filled \in Nat
  BY DEF States, Terminal, Intents, ManagedOrder
<1> QED
  BY <1>1, EndedIs DEF ManagedInv

(* An order the exchange lets go in a terminal state.                        *)
LEMMA Gone ==
  ASSUME NEW i \in Intents, NEW x \in OrderRecords,
         NEW m \in ManagedOrder, ManagedInv(m, i), m.state \in Terminal,
         x.cancels # {} => m.cancelRequested
  PROVE  OrderInv(With(Left(x), m), i)
<1>1. m.state \notin {"NONE", "DRAFT"}
  BY DEF Terminal
<1> QED
  BY <1>1, LeftIs, WithIs DEF OrderInv, PlaceInv

(* The order manager's half of an order that has reached the exchange.       *)
LEMMA HeldIs ==
  ASSUME NEW i \in Intents, NEW x \in OrderRecords, OrderInv(x, i), x.place # "none"
  PROVE  /\ x.om \in ManagedOrder /\ x.om.state \in Held /\ ManagedInv(x.om, i)
         /\ ~x.om.raised /\ x.om.booked = x.om.filled
         /\ x.om.filled \in Nat /\ i.size \in Nat /\ x.om.filled < i.size
         /\ x.cancels # {} => x.om.cancelRequested
         /\ x.place = "pending" => x.om.filled = 0
<1>1. /\ x.om \in ManagedOrder /\ x.om.filled \in Nat
      /\ i.size \in Nat /\ i.size > 0 /\ x.place \in {"pending", "resting"}
  BY DEF OrderRecords, Places, Intents, ManagedOrder
<1>2. /\ ManagedInv(x.om, i) /\ x.om.state \in Held
      /\ x.place = "pending" => x.om.state = "ACKED"
      /\ x.cancels # {} => x.om.cancelRequested
  BY <1>1 DEF OrderInv, PlaceInv, Held
<1>3. x.om.filled # i.size /\ x.om.filled <= i.size
  BY <1>2 DEF ManagedInv, Held
<1> QED
  BY <1>1, <1>2, <1>3 DEF ManagedInv

(* An order that expires at the exchange.                                    *)
LEMMA ExpireGone ==
  ASSUME NEW i \in Intents, NEW x \in OrderRecords, OrderInv(x, i),
         x.place = "pending"
  PROVE  /\ Expire(Left(x)) = With(Left(x), Ended(x.om, "EXPIRED"))
         /\ OrderInv(Expire(Left(x)), i)
<1> DEFINE e == Ended(x.om, "EXPIRED")
<1>1. ExpireUnfilled(x.om) = e
  BY HeldIs, Ends
<1>2. Expire(Left(x)) = With(Left(x), e)
  BY <1>1, LeftIs DEF Expire, With
<1>3. "EXPIRED" \in States
  BY DEF States, Terminal
<1>4. e.state \in Terminal /\ e.cancelRequested = x.om.cancelRequested
  BY <1>3, HeldIs, EndedIs DEF Terminal
<1>5. ManagedInv(e, i) /\ e \in ManagedOrder
  BY HeldIs, EndedInv
<1>6. x.cancels # {} => e.cancelRequested
  BY <1>4, HeldIs
<1>7. OrderInv(With(Left(x), e), i)
  <2> HIDE DEF e
  <2> QED
    BY <1>4, <1>5, <1>6, Gone
<1> QED
  BY <1>2, <1>7

(* A taker fill of n, followed by the end of what is not filled.             *)
LEMMA TakerHit ==
  ASSUME NEW i \in Intents, NEW x \in OrderRecords, OrderInv(x, i),
         x.place = "pending",
         NEW n \in Nat, n > 0, n <= i.size,
         i.tif = "FOK" => n = i.size
  PROVE  LET hit == With(Left(x), ApplyFill(x.om, n, i.size))
         IN /\ n = i.size => OrderInv(hit, i)
            /\ n < i.size => OrderInv(Expire(hit), i)
<1> DEFINE f   == FilledBy(x.om, n, i.size)
           hit == With(Left(x), ApplyFill(x.om, n, i.size))
<1>1. /\ x.om \in ManagedOrder /\ x.om.state \in Held /\ ~x.om.raised
      /\ x.om.filled = 0 /\ x.om.booked = 0 /\ x.om.filled + n = n
      /\ x.cancels # {} => x.om.cancelRequested
  BY HeldIs
<1>2. ApplyFill(x.om, n, i.size) = f
  <2>1. i.size \in Nat
    BY DEF Intents
  <2> QED
    BY <1>1, <2>1, FillFits, ZenonT(60)
<1>3. hit = With(Left(x), f)
  BY <1>2
<1>4. /\ f \in ManagedOrder /\ f.filled = n /\ f.booked = n /\ ~f.raised
      /\ n = i.size => f.state = "FILLED"
      /\ n < i.size => f.state = "PARTIAL"
      /\ f.cancelRequested = x.om.cancelRequested
  <2>1. /\ f \in ManagedOrder /\ f.filled = x.om.filled + n
        /\ f.booked = x.om.booked + n /\ f.raised = x.om.raised
        /\ x.om.filled + n = i.size => f.state = "FILLED"
        /\ x.om.filled + n # i.size => f.state = "PARTIAL"
        /\ f.cancelRequested = x.om.cancelRequested
    <3>1. x.om \in ManagedOrder
      BY <1>1
    <3> QED
      BY <3>1, FilledByIs
  <2>2. i.size \in Nat
    BY DEF Intents
  <2> HIDE DEF f
  <2> QED
    BY <1>1, <2>1, <2>2
<1> HIDE DEF f, hit
<1>5. ASSUME n = i.size PROVE OrderInv(hit, i)
  <2>1. ManagedInv(f, i) /\ f.state \in Terminal
    BY <1>4, <1>5 DEF ManagedInv, Terminal
  <2> QED
    BY <1>1, <1>3, <1>4, <2>1, Gone
<1>6. ASSUME n < i.size PROVE OrderInv(Expire(hit), i)
  <2> DEFINE e == Ended(f, "EXPIRED")
  <2>1. f.state \in Held /\ "EXPIRED" \in States
    BY <1>4, <1>6 DEF Held, States, Terminal
  <2>2. ExpireUnfilled(f) = e
    BY <1>4, <2>1, Ends
  <2>3. ManagedInv(e, i) /\ e \in ManagedOrder
    BY <1>4, <1>6, <2>1, EndedInv
  <2>4. e.state \in Terminal /\ e.cancelRequested = x.om.cancelRequested
    BY <1>4, <2>1, EndedIs DEF Terminal
  <2> HIDE DEF e
  <2>5. hit \in OrderRecords /\ hit.om = f
    <3>1. Left(x) \in OrderRecords
      BY LeftIs
    <3> QED
      BY <1>3, <1>4, <3>1, WithIs
  <2>6. Expire(hit) = With(hit, e)
    BY <2>2, <2>5 DEF Expire, With
  <2>7. With(hit, e) = With(Left(x), e)
    BY <1>3, <1>4, <2>3, LeftIs, WithWith
  <2> QED
    BY <1>1, <2>3, <2>4, <2>6, <2>7, Gone
<1> QED
  BY <1>5, <1>6 DEF hit

LEMMA TakerFillInv ==
  ASSUME NEW i \in Intents, NEW x \in OrderRecords, OrderInv(x, i),
         x.place = "pending", NEW depth \in Depths
  PROVE  OrderInv(TakerFill(Left(x), i, depth, TRUE), i)
<1>1. depth \in Nat /\ i.size \in Nat /\ i.size > 0
  BY DEF Depths, Intents
<1>2. PICK shown \in Nat :
        shown = IF i.tif = "FOK" /\ MinOf(depth, i.size) < i.size
                THEN 0 ELSE MinOf(depth, i.size)
  BY <1>1 DEF MinOf
<1>3. shown <= i.size /\ (i.tif = "FOK" => shown \in {0, i.size})
  BY <1>1, <1>2 DEF MinOf
<1> DEFINE hit == With(Left(x), ApplyFill(x.om, shown, i.size))
<1>4. TakerFill(Left(x), i, depth, TRUE)
        = IF shown = 0 THEN Expire(Left(x))
          ELSE IF shown < i.size THEN Expire(hit) ELSE hit
  BY <1>2, LeftIs DEF TakerFill, EmitFill, With
<1>5. CASE shown = 0
  BY <1>4, <1>5, ExpireGone
<1>6. CASE shown # 0
  <2>1. shown > 0 /\ (i.tif = "FOK" => shown = i.size)
    BY <1>3, <1>6
  <2>2. /\ shown = i.size => OrderInv(hit, i)
        /\ shown < i.size => OrderInv(Expire(hit), i)
    BY <1>1, <1>3, <2>1, TakerHit, ZenonT(60)
  <2> HIDE DEF hit
  <2>3. CASE shown = i.size
    BY <1>4, <1>6, <2>2, <2>3
  <2>4. CASE shown < i.size
    BY <1>4, <1>6, <2>2, <2>4
  <2>5. shown = i.size \/ shown < i.size
    BY <1>1, <1>2, <1>3
  <2> QED
    BY <2>3, <2>4, <2>5
<1> QED
  BY <1>5, <1>6

(* A maker order that crosses nothing rests behind the visible queue.        *)
LEMMA RestMakerInv ==
  ASSUME NEW i \in Intents, NEW x \in OrderRecords, OrderInv(x, i),
         x.place = "pending", i.tif \notin Takers, NEW ahead \in Depths
  PROVE  OrderInv(RestMaker(Left(x), i, ahead), i)
<1> DEFINE y == RestMaker(Left(x), i, ahead)
<1>1. i.size \in Nat /\ i.size > 0 /\ "resting" \in Places
  BY DEF Intents, Places
<1>2. /\ y \in OrderRecords /\ y.om = x.om /\ y.place = "resting"
      /\ y.cancels = x.cancels /\ y.remaining = i.size /\ y.ahead = ahead
  BY <1>1, LeftIs DEF RestMaker, OrderRecords
<1> HIDE DEF y
<1>3. x.om.state = "ACKED" /\ x.om.filled = 0
  BY HeldIs DEF OrderInv, PlaceInv
<1>4. PlaceInv(y, i)
  BY <1>1, <1>2, <1>3 DEF PlaceInv
<1>5. OrderInv(y, i)
  BY <1>2, <1>4 DEF OrderInv
<1> QED
  BY <1>5 DEF y

(* One order whose round trip is over, and one whose cancel arrives.         *)
LEMMA ArriveInv ==
  ASSUME NEW i \in Intents, NEW x \in OrderRecords, OrderInv(x, i),
         NEW b \in BookViews, NEW fee \in BOOLEAN, b.visible => fee
  PROVE  OrderInv(Arrive(x, i, b, fee), i)
<1>1. b.visible \in BOOLEAN /\ b.opp \in Depths /\ b.own \in Depths
  <2>1. 0 \in Depths
    BY DepthAssumption DEF Depths
  <2>2. CASE b = Hidden
    BY <2>1, <2>2 DEF Hidden
  <2>3. CASE b \in [visible: {TRUE}, opp: Depths, own: Depths]
    BY <2>3
  <2> QED
    BY <2>2, <2>3 DEF BookViews
<1>2. CASE ~(x.place = "pending" /\ x.left = 0)
  BY <1>2 DEF Arrive
<1>3. CASE x.place = "pending" /\ x.left = 0
  <2>1. CASE ~b.visible
    BY <1>3, <2>1, ExpireGone DEF Arrive
  <2>2. CASE b.visible /\ (i.tif \in Takers \/ b.opp > 0)
    <3>1. fee = TRUE
      BY <2>2
    <3> QED
      BY <1>1, <1>3, <2>2, <3>1, TakerFillInv DEF Arrive
  <2>3. CASE b.visible /\ ~(i.tif \in Takers \/ b.opp > 0)
    BY <1>1, <1>3, <2>3, RestMakerInv DEF Arrive
  <2> QED
    BY <2>1, <2>2, <2>3
<1> QED
  BY <1>2, <1>3

LEMMA ArriveCancelInv ==
  ASSUME NEW i \in Intents, NEW x \in OrderRecords, OrderInv(x, i)
  PROVE  OrderInv(ArriveCancel(x), i)
<1>1. CASE 0 \notin x.cancels
  BY <1>1 DEF ArriveCancel
<1>2. CASE 0 \in x.cancels
  <2> DEFINE m == ConfirmCanceled(x.om)
             z == [x EXCEPT !.cancels = x.cancels \ {0}]
  <2>1. /\ x.om \in ManagedOrder /\ ManagedInv(x.om, i)
        /\ x.om.cancelRequested /\ x.om.state \notin {"NONE", "DRAFT"}
    BY <1>2 DEF OrderInv, OrderRecords
  <2>2. m \in ManagedOrder /\ ManagedInv(m, i) /\ m.state \in Terminal
        /\ m.cancelRequested
    <3>1. CASE IsTerminal(x.om)
      BY <2>1, <3>1 DEF ConfirmCanceled, IsTerminal
    <3>2. CASE ~IsTerminal(x.om)
      <4>1. x.om.state \in Held
        BY <2>1, <3>2 DEF ManagedInv, ManagedOrder, IsTerminal, States, Working, Held
      <4>2. x.place # "none"
        BY <2>1, <3>2 DEF OrderInv, PlaceInv, IsTerminal
      <4>3. m = Ended(x.om, "CANCELED") /\ "CANCELED" \in States
        BY <2>1, <4>1, Ends DEF States, Terminal
      <4>4. i.tif = "FOK" => x.om.filled = 0
        BY <4>2, HeldIs DEF ManagedInv
      <4>5. m \in ManagedOrder /\ ManagedInv(m, i)
        BY <2>1, <4>1, <4>2, <4>3, <4>4, HeldIs, EndedInv
      <4>6. m.state = "CANCELED" /\ m.cancelRequested
        BY <2>1, <4>3, EndedIs
      <4> QED
        BY <4>5, <4>6 DEF Terminal
    <3> QED
      BY <3>1, <3>2
  <2>3. z \in OrderRecords
    BY DEF OrderRecords
  <2>4. ArriveCancel(x) = With(Left(z), m)
    BY <1>2 DEF ArriveCancel, Left, With, OrderRecords
  <2> HIDE DEF m, z
  <2> QED
    BY <2>2, <2>3, <2>4, Gone
<1> QED
  BY <1>1, <1>2

LEMMA ProcessDueInv ==
  ASSUME NEW i \in Intents, NEW x \in OrderRecords, OrderInv(x, i),
         NEW b \in BookViews, NEW fee \in BOOLEAN, b.visible => fee
  PROVE  OrderInv(ProcessDue(x, i, b, fee), i)
<1>1. OrderInv(Arrive(x, i, b, fee), i)
  BY ArriveInv
<1>2. Arrive(x, i, b, fee) \in OrderRecords
  BY <1>1 DEF OrderInv
<1> QED
  BY <1>1, <1>2, ArriveCancelInv DEF ProcessDue

(* A print against one order.                                                *)
LEMMA AfterTradeInv ==
  ASSUME NEW i \in Intents, NEW x \in OrderRecords, OrderInv(x, i),
         NEW n \in Depths
  PROVE  OrderInv(AfterTrade(x, i, n, TRUE), i)
<1>1. CASE x.place # "resting"
  BY <1>1 DEF AfterTrade
<1>2. CASE x.place = "resting"
  <2>1. /\ x.remaining \in Nat /\ x.remaining > 0 /\ x.ahead \in Depths
        /\ x.remaining = i.size - x.om.filled
        /\ x.om.filled > 0 => x.ahead = 0
        /\ x.om.state = (IF x.om.filled = 0 THEN "ACKED" ELSE "PARTIAL")
        /\ i.tif \notin Takers /\ n \in Nat
    BY <1>2 DEF OrderInv, PlaceInv, OrderRecords, Depths
  <2>2. PICK ahead \in Depths : ahead = x.ahead - MinOf(x.ahead, n)
    BY <2>1, DepthAssumption DEF MinOf, Depths
  <2>3. PICK fill \in Nat : fill = MinOf(n - MinOf(x.ahead, n), x.remaining)
    BY <2>1, DepthAssumption DEF MinOf, Depths
  <2>4. PICK rest \in Nat : rest = x.remaining - fill
    BY <2>1, <2>3, DepthAssumption DEF MinOf, Depths
  <2>5. /\ fill > 0 => ahead = 0
        /\ x.ahead = 0 => ahead = 0
    BY <2>1, <2>2, <2>3, DepthAssumption DEF MinOf, Depths
  <2> DEFINE queued == [x EXCEPT !.ahead = ahead, !.remaining = rest]
             f      == FilledBy(x.om, fill, i.size)
  <2>6. /\ queued \in OrderRecords /\ queued.om = x.om
        /\ queued.place = "resting" /\ queued.cancels = x.cancels
        /\ queued.ahead = ahead /\ queued.remaining = rest
    BY <1>2, <2>1, <2>2, <2>3, <2>4 DEF OrderRecords
  <2>7. /\ x.om \in ManagedOrder /\ x.om.state \in Held /\ ManagedInv(x.om, i)
        /\ ~x.om.raised /\ x.om.filled \in Nat /\ i.size \in Nat
        /\ x.cancels # {} => x.om.cancelRequested
        /\ fill \in Nat /\ x.om.filled + fill <= i.size
        /\ rest = i.size - (x.om.filled + fill)
    BY <1>2, <2>1, <2>3, <2>4, HeldIs
  <2>8. ApplyFill(x.om, fill, i.size) = f
    BY <2>7, FillFits, ZenonT(60)
  <2> DEFINE hit == With(queued, f)
  <2>9. hit = [queued EXCEPT !.om = ApplyFill(@, fill, i.size)]
    BY <2>6, <2>8 DEF With
  <2>10. AfterTrade(x, i, n, TRUE)
          = IF fill = 0 THEN queued
            ELSE IF hit.remaining = 0 THEN Left(hit) ELSE hit
    <3>1. /\ x.ahead - MinOf(x.ahead, n) = ahead
          /\ MinOf(n - MinOf(x.ahead, n), x.remaining) = fill
          /\ x.remaining - fill = rest
      BY <2>2, <2>3, <2>4
    <3>2. EmitFill(queued, fill, i.size, TRUE) = hit
      BY <2>9 DEF EmitFill
    <3> HIDE DEF hit
    <3> QED
      BY <1>2, <3>1, <3>2 DEF AfterTrade
  <2>11. Left(queued) = Left(x)
    BY DEF Left, OrderRecords
  <2> HIDE DEF queued
  <2>12. CASE fill = 0
    <3>1. PlaceInv(queued, i)
      BY <2>1, <2>5, <2>6, <2>7, <2>12 DEF PlaceInv
    <3> QED
      BY <2>6, <2>7, <2>10, <2>12, <3>1 DEF OrderInv, Held
  <2>13. CASE fill > 0 /\ fill # 0
    <3>0. /\ f \in ManagedOrder /\ f.filled = x.om.filled + fill
          /\ x.om.filled + fill = i.size => f.state = "FILLED"
          /\ x.om.filled + fill # i.size => f.state = "PARTIAL"
          /\ f.cancelRequested = x.om.cancelRequested
      <4>1. x.om \in ManagedOrder
        BY <2>7
      <4> QED
        BY <4>1, FilledByIs
    <3>1. /\ f \in ManagedOrder /\ f.filled = x.om.filled + fill
          /\ rest = 0 => f.state = "FILLED"
          /\ rest # 0 => f.state = "PARTIAL"
          /\ f.cancelRequested = x.om.cancelRequested
      <4> HIDE DEF f
      <4> QED
        BY <2>7, <3>0
    <3>2. ManagedInv(f, i)
      <4>1. i.tif # "FOK"
        BY <2>1 DEF Takers
      <4> QED
        BY <2>7, <2>13, <4>1, FilledByInv
    <3> HIDE DEF f
    <3>3. /\ hit \in OrderRecords /\ hit.om = f
          /\ hit.place = "resting" /\ hit.ahead = 0
          /\ hit.remaining = rest /\ hit.cancels = x.cancels
      BY <2>5, <2>6, <2>13, <3>1, WithIs
    <3>4. CASE rest = 0
      <4>1. AfterTrade(x, i, n, TRUE) = Left(hit)
        BY <2>10, <2>13, <3>3, <3>4
      <4>2. Left(hit) = With(Left(x), f)
        BY <2>6, <2>11, <3>1, WithWith
      <4> QED
        BY <2>7, <3>1, <3>2, <3>4, <4>1, <4>2, Gone DEF Terminal
    <3>5. CASE rest # 0
      <4> HIDE DEF hit
      <4>1. AfterTrade(x, i, n, TRUE) = hit
        BY <2>10, <2>13, <3>3, <3>5
      <4>2. PlaceInv(hit, i)
        BY <2>1, <2>7, <2>13, <3>1, <3>3, <3>5 DEF PlaceInv
      <4> QED
        BY <2>7, <3>1, <3>2, <3>3, <3>5, <4>1, <4>2 DEF OrderInv
    <3> QED
      BY <3>4, <3>5
  <2>14. fill = 0 \/ (fill > 0 /\ fill # 0)
    BY <2>3
  <2> QED
    BY <2>12, <2>13, <2>14
<1> QED
  BY <1>1, <1>2

(* Submission, cancellation and the passing of time.                         *)
LEMMA SubmitInv ==
  ASSUME NEW i \in Intents, NEW x \in OrderRecords, OrderInv(x, i),
         x.om.state = "DRAFT", NEW rtt \in Rtts
  PROVE  OrderInv([x EXCEPT !.om = Submitted(@), !.place = "pending", !.left = rtt], i)
<1> DEFINE m == [x.om EXCEPT !.state = "ACKED"]
           y == [x EXCEPT !.om = m, !.place = "pending", !.left = rtt]
<1>1. x.om \in ManagedOrder /\ ManagedInv(x.om, i)
  BY DEF OrderInv, OrderRecords
<1>2. Submitted(x.om) = m
  <2>1. Transition(x.om, "SIGNED") = [x.om EXCEPT !.state = "SIGNED"]
    BY <1>1 DEF Transition, ValidTransitions, States, ManagedOrder
  <2>2. Transition([x.om EXCEPT !.state = "SIGNED"], "SENT") = [x.om EXCEPT !.state = "SENT"]
    BY <1>1 DEF Transition, ValidTransitions, States, ManagedOrder
  <2>3. Transition([x.om EXCEPT !.state = "SENT"], "ACKED") = m
    BY <1>1 DEF Transition, ValidTransitions, States, Working, ManagedOrder
  <2> QED
    BY <2>1, <2>2, <2>3 DEF Submitted
<1>3. /\ m \in ManagedOrder /\ m.state = "ACKED" /\ m.filled = x.om.filled
      /\ m.booked = x.om.booked /\ m.raised = x.om.raised
      /\ m.cancelRequested = x.om.cancelRequested
  BY <1>1 DEF ManagedOrder, States, Working
<1>4. ManagedInv(m, i)
  <2> HIDE DEF m
  <2>1. i.size \in Nat /\ i.size > 0
    BY DEF Intents
  <2> QED
    BY <1>1, <1>3, <2>1 DEF ManagedInv
<1> HIDE DEF m
<1>5. /\ y \in OrderRecords /\ y.om = m /\ y.place = "pending"
      /\ y.cancels = x.cancels
  <2>1. rtt \in 0 .. MaxRtt /\ "pending" \in Places
    BY RttAssumption DEF Rtts, Places
  <2> QED
    BY <1>3, <2>1 DEF OrderRecords
<1>6. x.cancels = {}
  BY DEF OrderInv
<1>7. OrderInv(y, i)
  <2> HIDE DEF y
  <2> QED
    BY <1>3, <1>4, <1>5, <1>6 DEF OrderInv, PlaceInv
<1> QED
  BY <1>2, <1>7

LEMMA FlaggedInv ==
  ASSUME NEW i \in Intents, NEW x \in OrderRecords, OrderInv(x, i)
  PROVE  /\ OrderInv(Flagged(x), i)
         /\ x.place # "none" => CancelFlagged(x.om).cancelRequested
<1> DEFINE m == CancelFlagged(x.om)
           y == With(x, m)
<1>1. x.om \in ManagedOrder /\ ManagedInv(x.om, i)
  BY DEF OrderInv, OrderRecords
<1>2. /\ m \in ManagedOrder /\ m.state = x.om.state /\ m.filled = x.om.filled
      /\ m.booked = x.om.booked /\ m.raised = x.om.raised
      /\ x.om.cancelRequested => m.cancelRequested
      /\ x.om.state = "NONE" => m = x.om
      /\ x.om.state \in Held => m.cancelRequested
  BY <1>1 DEF CancelFlagged, IsOpen, ManagedOrder, Held, States, Working, Terminal
<1> HIDE DEF m
<1>3. ManagedInv(m, i)
  BY <1>1, <1>2 DEF ManagedInv
<1>4. /\ y \in OrderRecords /\ y.om = m /\ y.place = x.place
      /\ y.ahead = x.ahead /\ y.remaining = x.remaining /\ y.cancels = x.cancels
  BY <1>2, WithIs
<1>5. OrderInv(y, i)
  <2> HIDE DEF y
  <2> QED
    BY <1>2, <1>3, <1>4 DEF OrderInv, PlaceInv
<1>6. x.place # "none" => m.cancelRequested
  BY <1>2, HeldIs
<1> QED
  BY <1>5, <1>6 DEF m, With, Flagged

LEMMA ScheduledInv ==
  ASSUME NEW i \in Intents, NEW x \in OrderRecords, OrderInv(x, i),
         x.place # "none", x.om.cancelRequested, NEW rtt \in Rtts
  PROVE  OrderInv(ScheduleCancel(x, rtt), i)
<1> DEFINE y == ScheduleCancel(x, rtt)
<1>1. rtt \in 0 .. MaxRtt
  BY RttAssumption DEF Rtts
<1>2. /\ y \in OrderRecords /\ y.om = x.om /\ y.place = x.place
      /\ y.ahead = x.ahead /\ y.remaining = x.remaining
  BY <1>1 DEF ScheduleCancel, OrderRecords
<1>3. x.om.state \notin {"NONE", "DRAFT"}
  BY HeldIs DEF Held
<1> HIDE DEF y
<1>4. OrderInv(y, i)
  BY <1>2, <1>3 DEF OrderInv, PlaceInv
<1> QED
  BY <1>4 DEF y

LEMMA CanceledInv ==
  ASSUME NEW i \in Intents, NEW x \in OrderRecords, OrderInv(x, i), NEW rtt \in Rtts
  PROVE  /\ OrderInv(CancelAll(x, rtt), i)
         /\ x.place # "none" =>
              OrderInv(ScheduleCancel(Flagged(x), rtt), i)
<1> DEFINE y == Flagged(x)
<1>1. OrderInv(y, i) /\ (x.place # "none" => CancelFlagged(x.om).cancelRequested)
  BY FlaggedInv
<1>2. y \in OrderRecords
  BY <1>1 DEF OrderInv
<1>3. y.place = x.place /\ y.om = CancelFlagged(x.om)
  BY DEF OrderRecords, Flagged
<1>4. CancelAll(x, rtt) = IF x.place = "none" THEN y ELSE ScheduleCancel(y, rtt)
  BY DEF CancelAll
<1> HIDE DEF y
<1>5. x.place # "none" => OrderInv(ScheduleCancel(y, rtt), i)
  BY <1>1, <1>2, <1>3, ScheduledInv
<1> QED
  BY <1>1, <1>4, <1>5 DEF y

LEMMA TickInv ==
  ASSUME NEW i \in Intents, NEW x \in OrderRecords, OrderInv(x, i)
  PROVE  OrderInv(Tick(x), i)
<1> DEFINE y == Tick(x)
<1>1. \A n \in 0 .. MaxRtt : Dec(n) \in 0 .. MaxRtt
  BY RttAssumption DEF Dec
<1>2. {Dec(c) : c \in x.cancels} \in SUBSET (0 .. MaxRtt)
  BY <1>1 DEF OrderRecords
<1>3. {Dec(c) : c \in x.cancels} # {} => x.cancels # {}
  OBVIOUS
<1>4. Dec(x.left) \in 0 .. MaxRtt
  BY <1>1 DEF OrderRecords
<1>5. /\ y \in OrderRecords /\ y.om = x.om /\ y.place = x.place
      /\ y.ahead = x.ahead /\ y.remaining = x.remaining
      /\ y.cancels = {Dec(c) : c \in x.cancels}
  BY <1>2, <1>4 DEF Tick, OrderRecords
<1> HIDE DEF y
<1>6. OrderInv(y, i)
  BY <1>3, <1>5 DEF OrderInv, PlaceInv
<1> QED
  BY <1>6 DEF y

-----------------------------------------------------------------------------
(* The orders of a state, one by one.                                        *)
LEMMA OrdersAre ==
  ASSUME IInv, NEW o \in Orders
  PROVE  /\ orders[o] \in OrderRecords /\ OrderInv(orders[o], Intent[o])
         /\ Intent[o] \in Intents /\ Of(o) \in Sessions
         /\ View(Of(o)) \in BookViews /\ Tracked(Of(o)) \in BOOLEAN
         /\ View(Of(o)).visible => Tracked(Of(o))
<1>1. Intent[o] \in Intents /\ Of(o) \in Sessions
  BY IntentAssumption DEF Intents, Of
<1>2. orders[o] \in OrderRecords /\ OrderInv(orders[o], Intent[o])
  BY DEF IInv, TypeOK
<1>3. book[Of(o)] \in BookViews
  BY <1>1 DEF IInv, TypeOK
<1> QED
  BY <1>1, <1>2, <1>3 DEF View, Tracked, BookViews, Hidden

(* A step that replaces the orders by orders that keep OrderInv.             *)
LEMMA OrdersKept ==
  ASSUME NEW f, orders' = [o \in Orders |-> f[o]],
         \A o \in Orders : OrderInv(f[o], Intent[o]),
         book' \in [Sessions -> BookViews],
         market' \in [Sessions -> {"open", "closed", "settled"}]
  PROVE  IInv'
<1>1. \A o \in Orders : orders'[o] = f[o] /\ f[o] \in OrderRecords
  BY DEF OrderInv
<1>2. orders' \in [Orders -> OrderRecords]
  BY <1>1
<1>3. \A o \in Orders : OrderInv(orders'[o], Intent[o])
  BY <1>1
<1> QED
  BY <1>2, <1>3 DEF IInv, TypeOK

LEMMA InitIInv == Init => IInv
<1> SUFFICES ASSUME Init PROVE IInv
  OBVIOUS
<1>1. NoOrder \in ManagedOrder
  BY DEF NoOrder, ManagedOrder, States
<1>2. 0 \in 0 .. MaxRtt /\ 0 \in Depths /\ "none" \in Places
  BY RttAssumption, DepthAssumption DEF Depths, Places
<1>3. Unplaced \in OrderRecords
  BY <1>1, <1>2 DEF Unplaced, OrderRecords
<1>4. ASSUME NEW i \in Intents PROVE OrderInv(Unplaced, i)
  <2>1. i.size \in Nat /\ i.size > 0
    BY DEF Intents
  <2>2. ManagedInv(NoOrder, i)
    BY <2>1 DEF ManagedInv, NoOrder
  <2> QED
    BY <1>3, <2>2 DEF OrderInv, PlaceInv, Unplaced, NoOrder
<1>5. \A o \in Orders : Intent[o] \in Intents
  BY IntentAssumption DEF Intents
<1>6. \A o \in Orders : OrderInv(orders[o], Intent[o])
  BY <1>4, <1>5 DEF Init
<1>7. TypeOK
  BY <1>3 DEF Init, TypeOK, BookViews
<1> QED
  BY <1>6, <1>7 DEF IInv

(* Drafting an order leaves it outside the exchange.                         *)
LEMMA DraftInv ==
  ASSUME NEW i \in Intents, NEW x \in OrderRecords, OrderInv(x, i),
         x.om.state = "NONE"
  PROVE  OrderInv([x EXCEPT !.om = Drafted], i)
<1> DEFINE m == Drafted
<1>1. /\ m \in ManagedOrder /\ m.state = "DRAFT" /\ m.filled = 0 /\ m.booked = 0
      /\ m.raised = FALSE
  BY DEF Drafted, NoOrder, ManagedOrder, States
<1> HIDE DEF m
<1>2. x.place = "none" /\ x.cancels = {}
  <2>1. x.place # "none" => x.om.state \in Held
    BY HeldIs
  <2> QED
    BY <2>1 DEF OrderInv, Held
<1>3. ManagedInv(m, i)
  <2>1. i.size \in Nat /\ i.size > 0
    BY DEF Intents
  <2> QED
    BY <1>1, <2>1 DEF ManagedInv
<1>4. OrderInv(With(x, m), i)
  BY <1>1, <1>2, <1>3, WithIs DEF OrderInv, PlaceInv
<1> QED
  BY <1>4 DEF With, m

(* A step that replaces one order.                                           *)
LEMMA OneOrder ==
  ASSUME IInv, NEW o \in Orders, NEW y, OrderInv(y, Intent[o]),
         orders' = [orders EXCEPT ![o] = y], UNCHANGED <<book, market>>
  PROVE  IInv'
<1> DEFINE f == [q \in Orders |-> IF q = o THEN y ELSE orders[q]]
<1>1. orders' = [q \in Orders |-> f[q]]
  BY DEF IInv, TypeOK
<1>2. \A q \in Orders : OrderInv(f[q], Intent[q])
  BY DEF IInv
<1>3. /\ book' \in [Sessions -> BookViews]
      /\ market' \in [Sessions -> {"open", "closed", "settled"}]
  BY DEF IInv, TypeOK
<1> HIDE DEF f
<1> QED
  BY <1>1, <1>2, <1>3, OrdersKept

(* Everything due runs, against whatever the books show.                     *)
LEMMA PumpedInv ==
  ASSUME IInv, NEW o \in Orders, NEW x, OrderInv(x, Intent[o]),
         NEW v \in BookViews, v.visible => Tracked(Of(o))
  PROVE  OrderInv(Pumped(x, o, v), Intent[o])
<1>1. x \in OrderRecords
  BY DEF OrderInv
<1>2. Intent[o] \in Intents /\ Tracked(Of(o)) \in BOOLEAN
  BY OrdersAre
<1> QED
  BY <1>1, <1>2, ProcessDueInv DEF Pumped

LEMMA NextIInv == IInv /\ [Next]_vars => IInv'
<1> SUFFICES ASSUME IInv, [Next]_vars PROVE IInv'
  OBVIOUS
<1> DEFINE Types == /\ book' \in [Sessions -> BookViews]
                    /\ market' \in [Sessions -> {"open", "closed", "settled"}]
<1>t. /\ book \in [Sessions -> BookViews]
      /\ market \in [Sessions -> {"open", "closed", "settled"}]
      /\ orders \in [Orders -> OrderRecords]
  BY DEF IInv, TypeOK
<1>1. ASSUME NEW o \in Orders, Draft(o) PROVE IInv'
  <2>1. OrderInv([orders[o] EXCEPT !.om = Drafted], Intent[o])
    BY <1>1, OrdersAre, DraftInv DEF Draft
  <2>2. orders' = [orders EXCEPT ![o] = [orders[o] EXCEPT !.om = Drafted]]
    BY <1>1 DEF Draft
  <2>3. UNCHANGED <<book, market>>
    BY <1>1 DEF Draft
  <2> QED
    BY <2>1, <2>2, <2>3, OneOrder
<1>2. ASSUME NEW o \in Orders, Submit(o) PROVE IInv'
  <2>1. PICK rtt \in Rtts : orders' = [orders EXCEPT
          ![o] = [orders[o] EXCEPT !.om = Submitted(@), !.place = "pending", !.left = rtt]]
    BY <1>2, <1>t DEF Submit
  <2>2. OrderInv([orders[o] EXCEPT !.om = Submitted(@), !.place = "pending", !.left = rtt],
                 Intent[o])
    BY <1>2, OrdersAre, SubmitInv DEF Submit
  <2>3. UNCHANGED <<book, market>>
    BY <1>2 DEF Submit
  <2> QED
    BY <2>1, <2>2, <2>3, OneOrder
<1>3. ASSUME NEW o \in Orders, RequestCancel(o) PROVE IInv'
  <2>1. PICK rtt \in Rtts : orders' = [orders EXCEPT
          ![o] = ScheduleCancel(Flagged(orders[o]), rtt)]
    BY <1>3 DEF RequestCancel
  <2>2. orders[o].place # "none"
    BY <1>3, OrdersAre DEF RequestCancel, OrderInv, PlaceInv, Working, Terminal
  <2>3. OrderInv(ScheduleCancel(Flagged(orders[o]), rtt), Intent[o])
    BY <2>2, OrdersAre, CanceledInv
  <2>4. UNCHANGED <<book, market>>
    BY <1>3 DEF RequestCancel
  <2> QED
    BY <2>1, <2>3, <2>4, OneOrder
<1>4. ASSUME NEW s \in Sessions, CloseSession(s) PROVE IInv'
  <2>1. PICK rtt \in [Orders -> Rtts] : orders' = [o \in Orders |->
          IF Of(o) = s THEN CancelAll(orders[o], rtt[o]) ELSE orders[o]]
    BY <1>4 DEF CloseSession
  <2> DEFINE f == [o \in Orders |->
                     IF Of(o) = s THEN CancelAll(orders[o], rtt[o]) ELSE orders[o]]
  <2>2. ASSUME NEW o \in Orders
        PROVE  OrderInv(CancelAll(orders[o], rtt[o]), Intent[o])
               /\ OrderInv(orders[o], Intent[o])
    BY OrdersAre, CanceledInv
  <2>3. \A o \in Orders : OrderInv(f[o], Intent[o])
    BY <2>2
  <2>4. Types
    BY <1>4, <1>t DEF CloseSession
  <2>5. orders' = [o \in Orders |-> f[o]]
    BY <2>1
  <2> HIDE DEF f
  <2> QED
    BY <2>3, <2>4, <2>5, OrdersKept
<1>5. ASSUME NEW s \in Sessions, Settle(s) PROVE IInv'
  <2>1. Types /\ orders' = orders
    BY <1>5, <1>t DEF Settle, BookViews
  <2>2. orders' = [o \in Orders |-> orders[o]]
    BY <1>t, <2>1
  <2>3. \A o \in Orders : OrderInv(orders[o], Intent[o])
    BY DEF IInv
  <2> QED
    BY <2>1, <2>2, <2>3, OrdersKept
<1>6. ASSUME NEW s \in Sessions, NEW b \in BookViews, BookFrame(s, b) PROVE IInv'
  <2> DEFINE v(o) == IF Of(o) = s THEN b ELSE View(Of(o))
             f    == [o \in Orders |-> Pumped(orders[o], o, v(o))]
  <2>1. ASSUME NEW o \in Orders PROVE OrderInv(f[o], Intent[o])
    <3>1. v(o) \in BookViews /\ (v(o).visible => Tracked(Of(o)))
      BY <1>6, OrdersAre DEF BookFrame
    <3> HIDE DEF v
    <3>2. OrderInv(Pumped(orders[o], o, v(o)), Intent[o])
      BY <3>1, OrdersAre, PumpedInv
    <3> QED
      BY <3>2
  <2>2. orders' = [o \in Orders |-> f[o]]
    BY <1>6 DEF BookFrame
  <2>3. Types
    BY <1>6, <1>t DEF BookFrame
  <2> HIDE DEF f
  <2> QED
    BY <2>1, <2>2, <2>3, OrdersKept
<1>7. ASSUME NEW s \in Sessions, NEW b \in BookViews, BookQuiet(s, b) PROVE IInv'
  <2>1. Types /\ orders' = orders
    BY <1>7, <1>t DEF BookQuiet
  <2>2. orders' = [o \in Orders |-> orders[o]]
    BY <1>t, <2>1
  <2>3. \A o \in Orders : OrderInv(orders[o], Intent[o])
    BY DEF IInv
  <2> QED
    BY <2>1, <2>2, <2>3, OrdersKept
<1>8. ASSUME NEW s \in Sessions, NEW n \in Depths \ {0},
             NEW through \in SUBSET RestingIn(s), Trade(s, n, through)
      PROVE  IInv'
  <2> DEFINE x(o) == IF o \in through
                     THEN AfterTrade(orders[o], Intent[o], n, Tracked(s)) ELSE orders[o]
             f    == [o \in Orders |-> Pumped(x(o), o, View(Of(o)))]
  <2>1. ASSUME NEW o \in Orders PROVE OrderInv(f[o], Intent[o])
    <3>1. OrderInv(AfterTrade(orders[o], Intent[o], n, Tracked(s)), Intent[o])
      <4>1. Tracked(s) = TRUE
        BY <1>8 DEF Trade, Tracked
      <4>2. OrderInv(AfterTrade(orders[o], Intent[o], n, TRUE), Intent[o])
        BY OrdersAre, AfterTradeInv
      <4> QED
        BY <4>1, <4>2
    <3>2. OrderInv(x(o), Intent[o])
      BY <3>1, OrdersAre
    <3> HIDE DEF x
    <3>3. OrderInv(Pumped(x(o), o, View(Of(o))), Intent[o])
      BY <3>2, OrdersAre, PumpedInv
    <3> QED
      BY <3>3
  <2>2. orders' = [o \in Orders |-> f[o]]
    BY <1>8 DEF Trade
  <2>3. Types
    BY <1>8, <1>t DEF Trade
  <2> HIDE DEF f
  <2> QED
    BY <2>1, <2>2, <2>3, OrdersKept
<1>9. ASSUME Pump PROVE IInv'
  <2> DEFINE f == [o \in Orders |-> Pumped(orders[o], o, View(Of(o)))]
  <2>1. ASSUME NEW o \in Orders PROVE OrderInv(f[o], Intent[o])
    BY OrdersAre, PumpedInv
  <2>2. orders' = [o \in Orders |-> f[o]] /\ Types
    BY <1>9, <1>t DEF Pump
  <2> HIDE DEF f
  <2> QED
    BY <2>1, <2>2, OrdersKept
<1>10. ASSUME Advance PROVE IInv'
  <2> DEFINE f == [o \in Orders |-> Tick(orders[o])]
  <2>1. ASSUME NEW o \in Orders PROVE OrderInv(f[o], Intent[o])
    BY OrdersAre, TickInv
  <2>2. orders' = [o \in Orders |-> f[o]] /\ Types
    BY <1>10, <1>t DEF Advance
  <2> HIDE DEF f
  <2> QED
    BY <2>1, <2>2, OrdersKept
<1>11. CASE UNCHANGED vars
  BY <1>11 DEF vars, IInv, TypeOK, Tracked
<1> QED
  BY <1>1, <1>2, <1>3, <1>4, <1>5, <1>6, <1>7, <1>8, <1>9, <1>10, <1>11 DEF Next

-----------------------------------------------------------------------------
(* The inductive invariant holds in every reachable state.                   *)
THEOREM Inductive == Spec => []IInv
BY InitIInv, NextIInv, PTL DEF Spec

(* Every variable keeps its type: in particular no fill ever takes more from *)
(* a resting order than remains of it (shadow_exchange.py:172).              *)
THEOREM TypeCorrect == Spec => []TypeOK
<1>1. IInv => TypeOK
  BY DEF IInv
<1> QED
  BY <1>1, Inductive, PTL

(* Neither process_due nor on_trade ever raises IllegalTransition, for any   *)
(* number of orders and cancels in flight.                                   *)
THEOREM NeverIllegal == Spec => []NoIllegalTransition
<1>1. IInv => NoIllegalTransition
  BY DEF IInv, OrderInv, ManagedInv, NoIllegalTransition
<1> QED
  BY <1>1, Inductive, PTL

(* The order manager's state and the exchange's queues never disagree.       *)
THEOREM Agreement == Spec => []ExchangeAgrees
<1>1. IInv => ExchangeAgrees
  BY DEF IInv, OrderInv, ManagedInv, PlaceInv, ExchangeAgrees
<1> QED
  BY <1>1, Inductive, PTL

(* Every fill is booked once, no order is filled past its size, and FILLED   *)
(* means filled in full.                                                     *)
THEOREM FillsAreBooked == Spec => []FillsBooked
<1>1. IInv => FillsBooked
  BY DEF IInv, OrderInv, ManagedInv, FillsBooked
<1> QED
  BY <1>1, Inductive, PTL

(* Takers fill once, and a FOK order in full or not at all.                  *)
THEOREM TakersFillOnce == Spec => []TakerFillsOnce
<1>1. IInv => TakerFillsOnce
  <2> SUFFICES ASSUME IInv, NEW o \in Orders
               PROVE  LET m == orders[o].om IN
                 /\ Intent[o].tif = "FOK" => m.filled \in {0, Intent[o].size}
                 /\ Intent[o].tif \in Takers /\ m.filled > 0 => IsTerminal(m)
    BY DEF TakerFillsOnce
  <2>1. OrderInv(orders[o], Intent[o]) /\ orders[o] \in OrderRecords
    BY OrdersAre
  <2>2. orders[o].place \in Places
    BY <2>1 DEF OrderRecords
  <2> QED
    BY <2>1, <2>2 DEF OrderInv, ManagedInv, PlaceInv, Places, IsTerminal
<1> QED
  BY <1>1, Inductive, PTL

(* A resting order is filled only after the queue seen ahead of it.          *)
THEOREM QueueIsHonest == Spec => []LastInQueue
<1>1. IInv => LastInQueue
  BY DEF IInv, OrderInv, PlaceInv, LastInQueue
<1> QED
  BY <1>1, Inductive, PTL

(* CANCELED only follows a request.                                          *)
THEOREM CancelsWereRequested == Spec => []CanceledWasRequested
<1>1. IInv => CanceledWasRequested
  <2> SUFFICES ASSUME IInv, NEW o \in Orders, orders[o].om.state = "CANCELED"
               PROVE  orders[o].om.cancelRequested /\ orders[o].place = "none"
    BY DEF CanceledWasRequested
  <2>1. OrderInv(orders[o], Intent[o]) /\ orders[o] \in OrderRecords
    BY OrdersAre
  <2>2. orders[o].place \in Places
    BY <2>1 DEF OrderRecords
  <2> QED
    BY <2>1, <2>2 DEF OrderInv, ManagedInv, PlaceInv, Places
<1> QED
  BY <1>1, Inductive, PTL

-----------------------------------------------------------------------------
(* What one step may do to an order, and that the shadow exchange implements *)
(* OrderContract.                                                            *)
(*                                                                           *)
(* OrdersStep takes the actions apart once: whatever happens, one order does *)
(* an OrderStep.  The theorems then only speak about one order.              *)

(* What is due is run against some view of the book; live is: the window of  *)
(* the order is tracked.                                                     *)
Runs(x, y, i, live) ==
  \E b \in BookViews : (b.visible => live) /\ y = ProcessDue(x, i, b, live)

Submission(x, rtt) ==
  [x EXCEPT !.om = Submitted(@), !.place = "pending", !.left = rtt]

OrderStep(x, y, i, live) ==
  \/ y = x
  \/ x.om.state = "NONE" /\ y = [x EXCEPT !.om = Drafted]
  \/ x.om.state = "DRAFT" /\ \E rtt \in Rtts : y = Submission(x, rtt)
  \/ \E rtt \in Rtts : y = ScheduleCancel(Flagged(x), rtt)
  \/ \E rtt \in Rtts : y = CancelAll(x, rtt)
  \/ Runs(x, y, i, live)
  \/ live /\ \E n \in Depths : Runs(AfterTrade(x, i, n, TRUE), y, i, TRUE)
  \/ y = Tick(x)

LEMMA OrdersStep ==
  ASSUME IInv, [Next]_vars, NEW o \in Orders
  PROVE  OrderStep(orders[o], orders'[o], Intent[o], Tracked(Of(o)))
<1> DEFINE x    == orders[o]
           i    == Intent[o]
           live == Tracked(Of(o))
           Goal == OrderStep(x, orders'[o], i, live)
<1>t. orders \in [Orders -> OrderRecords]
  BY DEF IInv, TypeOK
<1>v. View(Of(o)) \in BookViews /\ (View(Of(o)).visible => live)
  BY OrdersAre
<1>1. ASSUME NEW p \in Orders, Draft(p) PROVE Goal
  <2>1. orders' = [orders EXCEPT ![p] = [orders[p] EXCEPT !.om = Drafted]]
    BY <1>1 DEF Draft
  <2>2. CASE p = o
    BY <1>1, <1>t, <2>1, <2>2 DEF Draft, OrderStep
  <2>3. CASE p # o
    BY <1>t, <2>1, <2>3 DEF OrderStep
  <2> QED
    BY <2>2, <2>3
<1>2. ASSUME NEW p \in Orders, Submit(p) PROVE Goal
  <2>1. PICK rtt \in Rtts : orders' = [orders EXCEPT ![p] = Submission(orders[p], rtt)]
    BY <1>2, <1>t DEF Submit, Submission
  <2>2. CASE p = o
    <3>1. orders'[o] = Submission(x, rtt)
      BY <1>t, <2>1, <2>2
    <3>2. x.om.state = "DRAFT"
      BY <1>2, <2>2 DEF Submit
    <3> QED
      BY <3>1, <3>2 DEF OrderStep
  <2>3. CASE p # o
    BY <1>t, <2>1, <2>3 DEF OrderStep
  <2> QED
    BY <2>2, <2>3
<1>3. ASSUME NEW p \in Orders, RequestCancel(p) PROVE Goal
  <2>1. PICK rtt \in Rtts :
          orders' = [orders EXCEPT ![p] = ScheduleCancel(Flagged(orders[p]), rtt)]
    BY <1>3 DEF RequestCancel
  <2>2. CASE p = o
    <3>1. orders'[o] = ScheduleCancel(Flagged(x), rtt)
      BY <1>t, <2>1, <2>2
    <3> QED
      BY <3>1 DEF OrderStep
  <2>3. CASE p # o
    BY <1>t, <2>1, <2>3 DEF OrderStep
  <2> QED
    BY <2>2, <2>3
<1>4. ASSUME NEW s \in Sessions, CloseSession(s) PROVE Goal
  <2>1. PICK rtt \in [Orders -> Rtts] : orders' = [p \in Orders |->
          IF Of(p) = s THEN CancelAll(orders[p], rtt[p]) ELSE orders[p]]
    BY <1>4 DEF CloseSession
  <2>2. orders'[o] = x \/ orders'[o] = CancelAll(x, rtt[o])
    BY <2>1
  <2>3. rtt[o] \in Rtts
    BY <2>1
  <2> QED
    BY <2>2, <2>3 DEF OrderStep
<1>5. ASSUME NEW s \in Sessions, Settle(s) PROVE Goal
  BY <1>5 DEF Settle, OrderStep
<1>6. ASSUME NEW s \in Sessions, NEW b \in BookViews, BookFrame(s, b) PROVE Goal
  <2> DEFINE v == IF Of(o) = s THEN b ELSE View(Of(o))
  <2>1. orders'[o] = ProcessDue(x, i, v, live)
    BY <1>6 DEF BookFrame, Pumped
  <2>2. v \in BookViews /\ (v.visible => live)
    BY <1>6, <1>v DEF BookFrame
  <2> HIDE DEF v
  <2>3. Runs(x, orders'[o], i, live)
    BY <2>1, <2>2 DEF Runs
  <2> QED
    BY <2>3 DEF OrderStep
<1>7. ASSUME NEW s \in Sessions, NEW b \in BookViews, BookQuiet(s, b) PROVE Goal
  BY <1>7 DEF BookQuiet, OrderStep
<1>8. ASSUME NEW s \in Sessions, NEW n \in Depths \ {0},
             NEW through \in SUBSET RestingIn(s), Trade(s, n, through)
      PROVE  Goal
  <2>1. Tracked(s) = TRUE
    BY <1>8 DEF Trade, Tracked
  <2>2. CASE o \in through
    <3>1. Of(o) = s
      BY <2>2 DEF RestingIn
    <3>2. live = TRUE
      BY <2>1, <3>1
    <3>3. orders'[o] = ProcessDue(AfterTrade(x, i, n, TRUE), i, View(Of(o)), TRUE)
      BY <1>8, <2>1, <2>2, <3>2 DEF Trade, Pumped
    <3>4. Runs(AfterTrade(x, i, n, TRUE), orders'[o], i, TRUE)
      BY <1>v, <3>3 DEF Runs
    <3> QED
      BY <3>2, <3>4 DEF OrderStep
  <2>3. CASE o \notin through
    <3>1. orders'[o] = ProcessDue(x, i, View(Of(o)), live)
      BY <1>8, <2>3 DEF Trade, Pumped
    <3>2. Runs(x, orders'[o], i, live)
      BY <1>v, <3>1 DEF Runs
    <3> QED
      BY <3>2 DEF OrderStep
  <2> QED
    BY <2>2, <2>3
<1>9. ASSUME Pump PROVE Goal
  <2>1. orders'[o] = ProcessDue(x, i, View(Of(o)), live)
    BY <1>9 DEF Pump, Pumped
  <2>2. Runs(x, orders'[o], i, live)
    BY <1>v, <2>1 DEF Runs
  <2> QED
    BY <2>2 DEF OrderStep
<1>10. ASSUME Advance PROVE Goal
  BY <1>10 DEF Advance, OrderStep
<1>11. CASE UNCHANGED vars
  BY <1>11 DEF vars, OrderStep
<1> QED
  BY <1>1, <1>2, <1>3, <1>4, <1>5, <1>6, <1>7, <1>8, <1>9, <1>10, <1>11 DEF Next

-----------------------------------------------------------------------------
(* How the order manager's record m of an order may become n: one that has   *)
(* ended, or was never drafted, stays as it is, and fills only grow.         *)
Ages(m, n) ==
  /\ m.state \in Terminal \cup {"NONE"} => n = m
  /\ m.state # "NONE" => n.state # "NONE"
  /\ n.filled >= m.filled

LEMMA AgesTransitive ==
  ASSUME NEW l \in ManagedOrder, NEW m \in ManagedOrder, NEW n \in ManagedOrder,
         Ages(l, m), Ages(m, n)
  PROVE  Ages(l, n)
BY DEF Ages, ManagedOrder

LEMMA AgesReflexive ==
  ASSUME NEW m \in ManagedOrder
  PROVE  Ages(m, m)
BY DEF Ages, ManagedOrder

(* The end of an order: of one that is held, or has ended already.           *)
LEMMA EndAges ==
  ASSUME NEW m \in ManagedOrder, m.state \in Held \cup Terminal
  PROVE  /\ Ages(m, ConfirmCanceled(m)) /\ Ages(m, ExpireUnfilled(m))
         /\ ConfirmCanceled(m).booked = m.booked
         /\ ExpireUnfilled(m).booked = m.booked
         /\ m.state \in Held => ConfirmCanceled(m).state = "CANCELED"
         /\ ConfirmCanceled(m) \in ManagedOrder
<1>1. CASE m.state \in Held
  <2>1. ConfirmCanceled(m) = Ended(m, "CANCELED") /\ ExpireUnfilled(m) = Ended(m, "EXPIRED")
    BY <1>1, Ends
  <2>2. ASSUME NEW s \in Terminal
        PROVE  /\ Ended(m, s).state = s /\ Ended(m, s).filled = m.filled
               /\ Ended(m, s).booked = m.booked /\ Ended(m, s) \in ManagedOrder
    BY DEF Ended, ManagedOrder, States
  <2>3. ASSUME NEW s \in Terminal PROVE Ages(m, Ended(m, s))
    BY <1>1, <2>2 DEF Ages, Held, Terminal, ManagedOrder
  <2>4. "CANCELED" \in Terminal /\ "EXPIRED" \in Terminal
    BY DEF Terminal
  <2> QED
    BY <2>1, <2>2, <2>3, <2>4
<1>2. CASE m.state \in Terminal
  <2>1. ConfirmCanceled(m) = m /\ ExpireUnfilled(m) = m
    BY <1>2 DEF ConfirmCanceled, ExpireUnfilled, IsTerminal
  <2>2. m.state \notin Held
    BY <1>2 DEF Held, Terminal
  <2> QED
    BY <2>1, <2>2, AgesReflexive
<1> QED
  BY <1>1, <1>2

LEMMA FlagAges ==
  ASSUME NEW m \in ManagedOrder
  PROVE  Ages(m, CancelFlagged(m)) /\ CancelFlagged(m).booked = m.booked
BY DEF Ages, CancelFlagged, IsOpen, ManagedOrder

LEMMA FillAges ==
  ASSUME NEW m \in ManagedOrder, m.state \in Held, ~m.raised,
         NEW size \in Nat, NEW n \in Nat, m.filled + n <= size
  PROVE  Ages(m, ApplyFill(m, n, size))
<1>1. ApplyFill(m, n, size) = FilledBy(m, n, size)
  BY FillFits
<1>2. /\ FilledBy(m, n, size).filled = m.filled + n
      /\ FilledBy(m, n, size).state \in {"FILLED", "PARTIAL"}
  BY DEF FilledBy, ManagedOrder
<1> QED
  BY <1>1, <1>2 DEF Ages, Held, Terminal, ManagedOrder

(* An arriving taker is filled, expires, or both.                            *)
LEMMA TakerAges ==
  ASSUME NEW i \in Intents, NEW x \in OrderRecords, OrderInv(x, i),
         x.place = "pending", NEW depth \in Depths
  PROVE  TakerFill(Left(x), i, depth, TRUE).om.state # "NONE"
<1>1. /\ x.om \in ManagedOrder /\ x.om.state \in Held /\ ~x.om.raised
      /\ x.om.filled = 0 /\ i.size \in Nat /\ i.size > 0 /\ depth \in Nat
  BY HeldIs DEF Intents, Depths
<1>2. PICK shown \in Nat :
        /\ shown = IF i.tif = "FOK" /\ MinOf(depth, i.size) < i.size
                   THEN 0 ELSE MinOf(depth, i.size)
        /\ shown <= i.size
  BY <1>1 DEF MinOf
<1> DEFINE f   == ApplyFill(x.om, shown, i.size)
           hit == With(Left(x), f)
<1>3. TakerFill(Left(x), i, depth, TRUE)
        = IF shown = 0 THEN Expire(Left(x))
          ELSE IF shown < i.size THEN Expire(hit) ELSE hit
  BY <1>2, LeftIs DEF TakerFill, EmitFill, With
<1>4. f \in ManagedOrder /\ f.state \in {"FILLED", "PARTIAL"}
  <2>1. x.om.filled + shown <= i.size
    BY <1>1, <1>2
  <2>2. f = FilledBy(x.om, shown, i.size)
    BY <1>1, <2>1, FillFits
  <2>3. FilledBy(x.om, shown, i.size) \in ManagedOrder
    BY <1>1, FilledByIs
  <2>4. FilledBy(x.om, shown, i.size).state \in {"FILLED", "PARTIAL"}
    BY <1>1 DEF FilledBy, ManagedOrder
  <2> HIDE DEF f
  <2> QED
    BY <2>2, <2>3, <2>4
<1> HIDE DEF f
<1>5. Left(x) \in OrderRecords /\ Left(x).om = x.om
  BY LeftIs
<1>6. hit.om = f /\ Expire(hit).om = ExpireUnfilled(f)
  <2>1. hit \in OrderRecords /\ hit.om = f
    BY <1>4, <1>5, WithIs
  <2> HIDE DEF hit
  <2> QED
    BY <2>1 DEF Expire, OrderRecords
<1>7. Expire(Left(x)).om = ExpireUnfilled(x.om)
  BY <1>5 DEF Expire, OrderRecords
<1>8. ExpireUnfilled(f).state # "NONE" /\ ExpireUnfilled(x.om).state # "NONE"
  <2>1. f.state \in Held \cup Terminal /\ f.state # "NONE" /\ x.om.state # "NONE"
    BY <1>1, <1>4 DEF Held, Terminal
  <2>2. Ages(f, ExpireUnfilled(f)) /\ Ages(x.om, ExpireUnfilled(x.om))
    BY <1>1, <1>4, <2>1, EndAges
  <2> QED
    BY <2>1, <2>2 DEF Ages
<1> HIDE DEF hit
<1> QED
  BY <1>3, <1>4, <1>6, <1>7, <1>8

LEMMA ArriveAges ==
  ASSUME NEW i \in Intents, NEW x \in OrderRecords, OrderInv(x, i),
         NEW b \in BookViews, NEW fee \in BOOLEAN, b.visible => fee
  PROVE  /\ Ages(x.om, Arrive(x, i, b, fee).om)
         /\ ~fee => Arrive(x, i, b, fee).om.booked = x.om.booked
         /\ x.left # 0 => Arrive(x, i, b, fee) = x
<1> DEFINE y == Arrive(x, i, b, fee)
<1>1. CASE ~(x.place = "pending" /\ x.left = 0)
  BY <1>1, AgesReflexive DEF Arrive, OrderRecords
<1>2. CASE x.place = "pending" /\ x.left = 0
  <2>1. /\ x.om \in ManagedOrder /\ x.om.state \in Held /\ x.om.filled = 0
        /\ x.om.state # "NONE"
    BY <1>2, HeldIs DEF Held
  <2>2. OrderInv(y, i) /\ y.om.filled \in Nat
    <3>1. OrderInv(y, i)
      BY ArriveInv
    <3> HIDE DEF y
    <3> QED
      BY <3>1 DEF OrderInv, OrderRecords, ManagedOrder
  <2>3. y.om.state # "NONE" => Ages(x.om, y.om)
    <3> HIDE DEF y
    <3> QED
      BY <2>1, <2>2 DEF Ages, Held, Terminal
  <2>4. CASE ~b.visible
    <3>1. y = With(Left(x), Ended(x.om, "EXPIRED"))
      BY <1>2, <2>4, ExpireGone DEF Arrive
    <3>2. "EXPIRED" \in States
      BY DEF States, Terminal
    <3>3. /\ Ended(x.om, "EXPIRED") \in ManagedOrder
          /\ Ended(x.om, "EXPIRED").booked = x.om.booked
          /\ Ended(x.om, "EXPIRED").state = "EXPIRED"
      BY <2>1, <3>2, EndedIs DEF Ended, ManagedOrder
    <3>4. Left(x) \in OrderRecords
      BY LeftIs
    <3>5. y.om = Ended(x.om, "EXPIRED")
      BY <3>1, <3>3, <3>4, WithIs
    <3> HIDE DEF y
    <3> QED
      BY <1>2, <2>3, <3>3, <3>5 DEF y
  <2>5. CASE b.visible
    <3>1. fee = TRUE /\ b.opp \in Depths
      <4>1. b \in [visible: {TRUE}, opp: Depths, own: Depths]
        <5>1. b # Hidden
          BY <2>5 DEF Hidden
        <5> QED
          BY <5>1 DEF BookViews
      <4> QED
        BY <2>5, <4>1
    <3>2. CASE i.tif \in Takers \/ b.opp > 0
      <4>1. y = TakerFill(Left(x), i, b.opp, TRUE)
        BY <1>2, <2>5, <3>1, <3>2 DEF Arrive
      <4>2. y.om.state # "NONE"
        BY <1>2, <3>1, <4>1, TakerAges
      <4> QED
        BY <1>2, <2>3, <3>1, <4>2
    <3>3. CASE ~(i.tif \in Takers \/ b.opp > 0)
      <4>1. y = RestMaker(Left(x), i, b.own)
        BY <1>2, <2>5, <3>3 DEF Arrive
      <4>2. y.om = x.om
        BY <4>1, LeftIs DEF RestMaker, OrderRecords
      <4> QED
        BY <1>2, <2>1, <2>3, <3>1, <4>2
    <3> QED
      BY <3>2, <3>3
  <2> QED
    BY <2>4, <2>5
<1> QED
  BY <1>1, <1>2

(* A cancel that arrives ends an order that is held, and no other.           *)
LEMMA ArriveCancelAges ==
  ASSUME NEW i \in Intents, NEW x \in OrderRecords, OrderInv(x, i)
  PROVE  /\ Ages(x.om, ArriveCancel(x).om)
         /\ ArriveCancel(x).om.booked = x.om.booked
         /\ 0 \notin x.cancels => ArriveCancel(x) = x
         /\ 0 \in x.cancels /\ x.place # "none" =>
              ArriveCancel(x).om.state = "CANCELED"
<1>1. x.om \in ManagedOrder
  BY DEF OrderRecords
<1>2. CASE 0 \notin x.cancels
  BY <1>1, <1>2, AgesReflexive DEF ArriveCancel
<1>3. CASE 0 \in x.cancels
  <2>1. ArriveCancel(x).om = ConfirmCanceled(x.om)
    BY <1>3 DEF ArriveCancel, Left, OrderRecords
  <2>2. x.om.state \in Held \cup Terminal
    <3>1. x.place \in Places
      BY DEF OrderRecords
    <3> QED
      BY <1>3, <3>1 DEF OrderInv, PlaceInv, Places, Held
  <2>3. x.place # "none" => x.om.state \in Held
    BY HeldIs
  <2> QED
    BY <1>1, <1>3, <2>1, <2>2, <2>3, EndAges
<1> QED
  BY <1>2, <1>3

LEMMA ProcessDueAges ==
  ASSUME NEW i \in Intents, NEW x \in OrderRecords, OrderInv(x, i),
         NEW b \in BookViews, NEW fee \in BOOLEAN, b.visible => fee
  PROVE  /\ Ages(x.om, ProcessDue(x, i, b, fee).om)
         /\ ~fee => ProcessDue(x, i, b, fee).om.booked = x.om.booked
         /\ x.place # "none" /\ x.left # 0 =>
              \/ ProcessDue(x, i, b, fee) = x
              \/ 0 \in x.cancels /\ ProcessDue(x, i, b, fee).om.state = "CANCELED"
<1> DEFINE y == Arrive(x, i, b, fee)
           z == ArriveCancel(y)
<1>1. /\ Ages(x.om, y.om)
      /\ ~fee => y.om.booked = x.om.booked
      /\ x.left # 0 => y = x
  BY ArriveAges
<1>2. OrderInv(y, i)
  BY ArriveInv
<1> HIDE DEF y
<1>3. y \in OrderRecords
  BY <1>2 DEF OrderInv
<1>4. /\ Ages(y.om, z.om) /\ z.om.booked = y.om.booked
      /\ 0 \notin y.cancels => z = y
      /\ 0 \in y.cancels /\ y.place # "none" => z.om.state = "CANCELED"
  BY <1>2, <1>3, ArriveCancelAges
<1>5. OrderInv(z, i)
  BY <1>2, <1>3, ArriveCancelInv
<1> HIDE DEF z
<1>6. x.om \in ManagedOrder /\ y.om \in ManagedOrder /\ z.om \in ManagedOrder
  BY <1>3, <1>5 DEF OrderInv, OrderRecords
<1>7. Ages(x.om, z.om)
  BY <1>1, <1>4, <1>6, AgesTransitive
<1>8. z = ProcessDue(x, i, b, fee)
  BY DEF y, z, ProcessDue
<1> QED
  BY <1>1, <1>4, <1>7, <1>8

(* A print leaves an order alone, moves its queue, or fills it.              *)
LEMMA AfterTradeAges ==
  ASSUME NEW i \in Intents, NEW x \in OrderRecords, OrderInv(x, i), NEW n \in Depths
  PROVE  /\ Ages(x.om, AfterTrade(x, i, n, TRUE).om)
         /\ x.place = "pending" => AfterTrade(x, i, n, TRUE) = x
<1>1. CASE x.place # "resting"
  BY <1>1, AgesReflexive DEF AfterTrade, OrderRecords
<1>2. CASE x.place = "resting"
  <2>1. /\ x.om \in ManagedOrder /\ x.om.state \in Held /\ ~x.om.raised
        /\ x.om.filled \in Nat /\ i.size \in Nat
        /\ x.remaining \in Nat /\ x.ahead \in Nat /\ n \in Nat
        /\ x.remaining = i.size - x.om.filled
    BY <1>2, HeldIs DEF OrderInv, PlaceInv, OrderRecords, Depths
  <2>2. PICK fill \in Nat : /\ fill = MinOf(n - MinOf(x.ahead, n), x.remaining)
                            /\ fill <= x.remaining
    BY <2>1 DEF MinOf
  <2> DEFINE queued == [x EXCEPT !.ahead = @ - MinOf(x.ahead, n), !.remaining = @ - fill]
             hit    == EmitFill(queued, fill, i.size, TRUE)
             f      == ApplyFill(x.om, fill, i.size)
  <2>3. queued.om = x.om /\ hit.om = f /\ Left(hit).om = f
    BY DEF OrderRecords, EmitFill, Left
  <2>4. AfterTrade(x, i, n, TRUE)
          = IF fill = 0 THEN queued ELSE IF hit.remaining = 0 THEN Left(hit) ELSE hit
    BY <1>2, <2>2 DEF AfterTrade
  <2>5. Ages(x.om, f) /\ Ages(x.om, x.om)
    <3>1. x.om.filled + fill <= i.size
      BY <2>1, <2>2
    <3> QED
      BY <2>1, <3>1, FillAges, AgesReflexive
  <2> HIDE DEF queued, hit, f
  <2> QED
    BY <1>2, <2>3, <2>4, <2>5
<1> QED
  BY <1>1, <1>2

(* Whatever happens to an order, its record ages.                            *)
LEMMA StepAges ==
  ASSUME NEW i \in Intents, NEW x \in OrderRecords, OrderInv(x, i),
         NEW live \in BOOLEAN, NEW y, OrderStep(x, y, i, live)
  PROVE  Ages(x.om, y.om) \/ (x.om.state = "NONE" /\ y.om = Drafted)
<1>m. x.om \in ManagedOrder
  BY DEF OrderRecords
<1>1. CASE y = x
  BY <1>m, <1>1, AgesReflexive
<1>2. CASE x.om.state = "NONE" /\ y = [x EXCEPT !.om = Drafted]
  BY <1>2 DEF OrderRecords
<1>3. CASE x.om.state = "DRAFT" /\ \E rtt \in Rtts : y = Submission(x, rtt)
  <2>1. y.om = Submitted(x.om)
    BY <1>3 DEF Submission, OrderRecords
  <2>2. Submitted(x.om).state = "ACKED" /\ Submitted(x.om).filled = x.om.filled
    BY <1>m, <1>3 DEF Submitted, Transition, ValidTransitions, States, Working, Terminal, ManagedOrder
  <2> QED
    BY <1>m, <1>3, <2>1, <2>2 DEF Ages, Terminal, ManagedOrder
<1>f. Ages(x.om, Flagged(x).om)
  BY <1>m, FlagAges DEF Flagged, OrderRecords
<1>4. CASE \E rtt \in Rtts : y = ScheduleCancel(Flagged(x), rtt)
  <2>1. y.om = Flagged(x).om
    BY <1>4 DEF ScheduleCancel, Flagged, OrderRecords
  <2> QED
    BY <1>f, <2>1
<1>5. CASE \E rtt \in Rtts : y = CancelAll(x, rtt)
  <2>1. y.om = Flagged(x).om
    BY <1>5 DEF CancelAll, ScheduleCancel, Flagged, OrderRecords
  <2> QED
    BY <1>f, <2>1
<1>6. CASE Runs(x, y, i, live)
  BY <1>6, ProcessDueAges DEF Runs
<1>7. CASE live /\ \E n \in Depths : Runs(AfterTrade(x, i, n, TRUE), y, i, TRUE)
  <2>1. PICK n \in Depths : Runs(AfterTrade(x, i, n, TRUE), y, i, TRUE)
    BY <1>7
  <2> DEFINE z == AfterTrade(x, i, n, TRUE)
  <2>2. Ages(x.om, z.om)
    BY AfterTradeAges
  <2>3. OrderInv(z, i)
    BY AfterTradeInv
  <2>4. Runs(z, y, i, TRUE)
    BY <2>1
  <2> HIDE DEF z
  <2>5. z \in OrderRecords /\ z.om \in ManagedOrder
    BY <2>3 DEF OrderInv, OrderRecords
  <2>6. PICK b \in BookViews : y = ProcessDue(z, i, b, TRUE)
    BY <2>4 DEF Runs
  <2>7. Ages(z.om, y.om) /\ OrderInv(y, i)
    BY <2>3, <2>5, <2>6, ProcessDueAges, ProcessDueInv
  <2>8. y.om \in ManagedOrder
    BY <2>7 DEF OrderInv, OrderRecords
  <2> QED
    BY <1>m, <2>2, <2>5, <2>7, <2>8, AgesTransitive
<1>8. CASE y = Tick(x)
  BY <1>m, <1>8, AgesReflexive DEF Tick, OrderRecords
<1> QED
  BY <1>1, <1>2, <1>3, <1>4, <1>5, <1>6, <1>7, <1>8 DEF OrderStep

-----------------------------------------------------------------------------
(* An order that has ended is never touched again by the order manager,      *)
(* whatever cancels and prints of it are still on their way.                 *)
THEOREM EndsForGood == Spec => TerminalIsFinal
<1>1. ASSUME IInv, [Next]_vars, NEW o \in Orders, IsTerminal(orders[o].om)
      PROVE  orders'[o].om = orders[o].om
  <2>1. OrderStep(orders[o], orders'[o], Intent[o], Tracked(Of(o)))
    BY <1>1, OrdersStep
  <2>2. \/ Ages(orders[o].om, orders'[o].om)
        \/ orders[o].om.state = "NONE"
    BY <1>1, <2>1, OrdersAre, StepAges
  <2> QED
    BY <1>1, <2>2 DEF Ages, IsTerminal, Terminal
<1>2. IInv /\ [Next]_vars =>
        [\A o \in Orders : IsTerminal(orders[o].om) => orders'[o].om = orders[o].om]_vars
  BY <1>1
<1> QED
  BY <1>2, Inductive, PTL DEF Spec, TerminalIsFinal

(* What a settled window has realised stays as it is: orders may still be on *)
(* their way, but none of them is filled.                                    *)
LEMMA SettledStep ==
  ASSUME NEW i \in Intents, NEW x \in OrderRecords, OrderInv(x, i),
         NEW y, OrderStep(x, y, i, FALSE)
  PROVE  y.om.booked = x.om.booked
<1>m. x.om \in ManagedOrder
  BY DEF OrderRecords
<1>1. CASE x.om.state = "NONE" /\ y = [x EXCEPT !.om = Drafted]
  <2>1. x.om = NoOrder
    BY <1>1 DEF OrderInv, ManagedInv
  <2> QED
    BY <1>1, <2>1 DEF OrderRecords, Drafted, NoOrder
<1>2. CASE x.om.state = "DRAFT" /\ \E rtt \in Rtts : y = Submission(x, rtt)
  <2>1. y.om = Submitted(x.om)
    BY <1>2 DEF Submission, OrderRecords
  <2> QED
    BY <1>m, <1>2, <2>1 DEF Submitted, Transition, ManagedOrder
<1>f. Flagged(x).om.booked = x.om.booked
  BY <1>m, FlagAges DEF Flagged, OrderRecords
<1>3. CASE \E rtt \in Rtts : y = ScheduleCancel(Flagged(x), rtt)
  BY <1>f, <1>3 DEF ScheduleCancel, Flagged, OrderRecords
<1>4. CASE \E rtt \in Rtts : y = CancelAll(x, rtt)
  BY <1>f, <1>4 DEF CancelAll, ScheduleCancel, Flagged, OrderRecords
<1>5. CASE Runs(x, y, i, FALSE)
  <2>1. PICK b \in BookViews : ~b.visible /\ y = ProcessDue(x, i, b, FALSE)
    BY <1>5 DEF Runs
  <2>2. ASSUME NEW fee \in BOOLEAN, ~fee
        PROVE  ProcessDue(x, i, b, fee).om.booked = x.om.booked
    BY <2>1, <2>2, ProcessDueAges
  <2> QED
    BY <2>1, <2>2
<1>6. CASE y = Tick(x)
  BY <1>6 DEF Tick, OrderRecords
<1> QED
  BY <1>1, <1>2, <1>3, <1>4, <1>5, <1>6 DEF OrderStep

THEOREM SettledForGood == Spec => SettledIsFinal
<1>1. ASSUME IInv, [Next]_vars, NEW o \in Orders, market[Of(o)] = "settled"
      PROVE  orders'[o].om.booked = orders[o].om.booked
  <2>1. Tracked(Of(o)) = FALSE
    BY <1>1 DEF Tracked
  <2>2. OrderStep(orders[o], orders'[o], Intent[o], FALSE)
    BY <1>1, <2>1, OrdersStep
  <2> QED
    BY <1>1, <2>2, OrdersAre, SettledStep
<1>2. IInv /\ [Next]_vars =>
        [\A o \in Orders : market[Of(o)] = "settled" =>
           orders'[o].om.booked = orders[o].om.booked]_vars
  BY <1>1
<1> QED
  BY <1>2, Inductive, PTL DEF Spec, SettledIsFinal

(* No order is acted on before its round trip is over, unless a cancel that  *)
(* was sent later overtakes it.                                              *)
LEMMA PendingStep ==
  ASSUME NEW i \in Intents, NEW x \in OrderRecords, OrderInv(x, i),
         x.place = "pending", x.left # 0,
         NEW live \in BOOLEAN, NEW y, OrderStep(x, y, i, live)
  PROVE  \/ y.place = "pending"
         \/ y.om.state = "CANCELED" /\ 0 \in x.cancels
<1>1. x.om.state \notin {"NONE", "DRAFT"}
  BY HeldIs DEF Held
<1>2. CASE y = x \/ y = Tick(x)
  BY <1>2 DEF Tick, OrderRecords
<1>3. CASE \E rtt \in Rtts : y = ScheduleCancel(Flagged(x), rtt) \/ y = CancelAll(x, rtt)
  BY <1>3 DEF CancelAll, ScheduleCancel, Flagged, OrderRecords
<1>4. ASSUME NEW fee \in BOOLEAN, Runs(x, y, i, fee)
      PROVE  \/ y.place = "pending"
             \/ y.om.state = "CANCELED" /\ 0 \in x.cancels
  BY <1>4, ProcessDueAges DEF Runs
<1>5. CASE live /\ \E n \in Depths : Runs(AfterTrade(x, i, n, TRUE), y, i, TRUE)
  <2>1. PICK n \in Depths : Runs(AfterTrade(x, i, n, TRUE), y, i, TRUE)
    BY <1>5
  <2>2. AfterTrade(x, i, n, TRUE) = x
    BY AfterTradeAges
  <2> QED
    BY <1>4, <2>1, <2>2
<1> QED
  BY <1>1, <1>2, <1>3, <1>4, <1>5 DEF OrderStep

THEOREM RoundTripsAreKept == Spec => NothingBeforeRtt
<1>1. ASSUME IInv, [Next]_vars, NEW o \in Orders,
             orders[o].place = "pending", orders'[o].place # "pending"
      PROVE  \/ orders[o].left = 0
             \/ orders'[o].om.state = "CANCELED" /\ 0 \in orders[o].cancels
  <2>1. OrderStep(orders[o], orders'[o], Intent[o], Tracked(Of(o)))
    BY <1>1, OrdersStep
  <2> QED
    BY <1>1, <2>1, OrdersAre, PendingStep
<1>2. IInv /\ [Next]_vars =>
        [\A o \in Orders : LET x == orders[o] IN
           x.place = "pending" /\ orders'[o].place # "pending" =>
             \/ x.left = 0
             \/ orders'[o].om.state = "CANCELED" /\ 0 \in x.cancels]_vars
  BY <1>1
<1> QED
  BY <1>2, Inductive, PTL DEF Spec, NothingBeforeRtt

-----------------------------------------------------------------------------
(* The refinement: an order's promise is its status and what is filled.      *)
PromiseOf(m) == [status |-> StatusOf(m), filled |-> m.filled]

(* Statuses, read off the state.                                             *)
LEMMA StatusIs ==
  ASSUME NEW m \in ManagedOrder
  PROVE  /\ StatusOf(m) \in {"idle", "open", "filled", "dead"}
         /\ StatusOf(m) = "idle" <=> m.state = "NONE"
         /\ StatusOf(m) = "filled" <=> m.state = "FILLED"
         /\ StatusOf(m) = "dead" <=> m.state \in Terminal \ {"FILLED"}
         /\ StatusOf(m) = "open" <=> m.state \notin Terminal \cup {"NONE"}
<1>1. CASE m.state = "NONE"
  BY <1>1 DEF StatusOf, Terminal
<1>2. CASE m.state = "FILLED"
  BY <1>2 DEF StatusOf, Terminal
<1>3. CASE m.state \in Terminal \ {"FILLED"}
  BY <1>3 DEF StatusOf, Terminal
<1>4. CASE m.state \notin Terminal \cup {"NONE"}
  BY <1>4 DEF StatusOf, Terminal
<1> QED
  BY <1>1, <1>2, <1>3, <1>4

(* What the contract says of a reachable promise by itself.                  *)
LEMMA PromiseHolds ==
  ASSUME NEW i \in Intents, NEW x \in OrderRecords, OrderInv(x, i)
  PROVE  /\ x.om \in ManagedOrder
         /\ x.om.filled \in 0 .. i.size
         /\ StatusOf(x.om) = "filled" <=> x.om.filled = i.size
         /\ StatusOf(x.om) = "open" /\ i.tif \in {"FAK", "FOK"} => x.om.filled = 0
         /\ StatusOf(x.om) = "dead" /\ i.tif = "FOK" => x.om.filled = 0
         /\ StatusOf(x.om) = "idle" => x.om = NoOrder
<1>1. x.om \in ManagedOrder /\ x.place \in Places
  BY DEF OrderRecords
<1>2. x.om.filled \in Nat /\ i.size \in Nat
  BY <1>1 DEF ManagedOrder, Intents
<1>3. ManagedInv(x.om, i) /\ PlaceInv(x, i)
  BY DEF OrderInv
<1>4. x.om.filled \in 0 .. i.size
  BY <1>2, <1>3 DEF ManagedInv
<1>5. StatusOf(x.om) = "filled" <=> x.om.filled = i.size
  BY <1>1, <1>3, StatusIs DEF ManagedInv
<1>6. StatusOf(x.om) = "open" /\ i.tif \in {"FAK", "FOK"} => x.om.filled = 0
  <2>1. SUFFICES ASSUME x.om.state \notin Terminal \cup {"NONE"}, i.tif \in Takers
                 PROVE  x.om.filled = 0
    BY <1>1, StatusIs DEF Takers
  <2>2. x.om.state \in {"DRAFT", "ACKED"}
    BY <1>1, <1>3, <2>1 DEF PlaceInv, Places
  <2> QED
    BY <1>3, <2>2 DEF ManagedInv
<1>7. StatusOf(x.om) = "dead" /\ i.tif = "FOK" => x.om.filled = 0
  <2>1. SUFFICES ASSUME x.om.state \in Terminal \ {"FILLED"}, i.tif = "FOK"
                 PROVE  x.om.filled = 0
    BY <1>1, StatusIs
  <2> QED
    BY <1>3, <2>1 DEF ManagedInv
<1>8. StatusOf(x.om) = "idle" => x.om = NoOrder
  BY <1>1, <1>3, StatusIs DEF ManagedInv
<1> QED
  BY <1>1, <1>4, <1>5, <1>6, <1>7, <1>8

(* One step of one order is a step of its promise, or none.                  *)
LEMMA PromiseStep ==
  ASSUME NEW i \in Intents, NEW x \in OrderRecords, OrderInv(x, i),
         NEW y \in OrderRecords, OrderInv(y, i),
         NEW live \in BOOLEAN, OrderStep(x, y, i, live)
  PROVE  LET p == PromiseOf(x.om)
             q == PromiseOf(y.om)
         IN \/ q = p
            \/ Contract!Opens(p, q)
            \/ Contract!Moves(p, q, i.tif, i.size)
<1> DEFINE m == x.om
           n == y.om
           p == PromiseOf(m)
           q == PromiseOf(n)
<1>1. /\ m \in ManagedOrder /\ n \in ManagedOrder
      /\ m.filled \in Nat /\ n.filled \in 0 .. i.size /\ i.size \in Nat
      /\ StatusOf(n) = "filled" <=> n.filled = i.size
      /\ StatusOf(n) = "open" /\ i.tif \in {"FAK", "FOK"} => n.filled = 0
      /\ StatusOf(n) = "dead" /\ i.tif = "FOK" => n.filled = 0
      /\ StatusOf(m) = "idle" => m = NoOrder
  <2>1. i.size \in Nat /\ m.filled \in Nat
    BY DEF Intents, OrderRecords, ManagedOrder
  <2> QED
    BY <2>1, PromiseHolds
<1>2. Ages(m, n) \/ (m.state = "NONE" /\ n = Drafted)
  BY StepAges
<1> HIDE DEF m, n
<1>3. CASE m.state = "NONE" /\ n = Drafted
  <2>1. StatusOf(m) = "idle" /\ m = NoOrder
    BY <1>1, <1>3, StatusIs
  <2>2. p = [status |-> "idle", filled |-> 0]
    BY <2>1 DEF PromiseOf, NoOrder
  <2>3. n.state = "DRAFT" /\ n.filled = 0
    BY <1>3 DEF Drafted, NoOrder
  <2>4. StatusOf(n) = "open"
    BY <1>1, <2>3, StatusIs DEF Terminal
  <2>5. q = [status |-> "open", filled |-> 0]
    BY <2>3, <2>4 DEF PromiseOf
  <2>6. Contract!Opens(p, q)
    BY <2>2, <2>5 DEF Contract!Opens, Contract!Idle
  <2> QED
    BY <2>6 DEF m, n
<1>4. CASE Ages(m, n) /\ m.state \in Terminal \cup {"NONE"}
  <2>1. n = m
    BY <1>4 DEF Ages
  <2> QED
    BY <2>1 DEF m, n
<1>5. CASE Ages(m, n) /\ m.state \notin Terminal \cup {"NONE"}
  <2>1. StatusOf(m) = "open"
    BY <1>1, <1>5, StatusIs
  <2>2. n.state # "NONE" /\ n.filled \in m.filled .. i.size
    BY <1>1, <1>5 DEF Ages
  <2>3. StatusOf(n) \in {"open", "filled", "dead"}
    BY <1>1, <2>2, StatusIs
  <2>4. Contract!Moves(p, q, i.tif, i.size)
    BY <1>1, <2>1, <2>2, <2>3 DEF Contract!Moves, PromiseOf
  <2> QED
    BY <2>4 DEF m, n
<1> QED
  BY <1>2, <1>3, <1>4, <1>5

-----------------------------------------------------------------------------
(* A promise has the contract's type.                                        *)
LEMMA PromiseIs ==
  ASSUME NEW m \in ManagedOrder
  PROVE  PromiseOf(m) \in [status: {"idle", "open", "filled", "dead"}, filled: Nat]
<1>1. m.filled \in Nat
  BY DEF ManagedOrder
<1> QED
  BY <1>1, StatusIs DEF PromiseOf

(* The shadow exchange implements the contract: whatever the feed, the round *)
(* trips, the queues and the cancels do, an order is opened once, its fills  *)
(* only grow, within its size, and what has ended stays as it ended          *)
(* (shadow_exchange.py and order_manager.py against OrderContract).          *)
THEOREM Implements == Spec => KeepsContract
<1>1. Init => Contract!Init
  <2>1. SUFFICES ASSUME Init, NEW o \in Orders
                 PROVE  PromiseOf(orders[o].om) = Contract!Idle
    BY DEF Contract!Init, PromiseOf
  <2>2. orders[o].om = NoOrder
    BY <2>1 DEF Init, Unplaced
  <2>3. /\ NoOrder \in ManagedOrder
        /\ NoOrder.state = "NONE" /\ NoOrder.filled = 0
    BY DEF NoOrder, ManagedOrder, States
  <2>4. StatusOf(NoOrder) = "idle"
    BY <2>3, StatusIs
  <2> QED
    BY <2>2, <2>3, <2>4 DEF PromiseOf, Contract!Idle
<1>2. IInv /\ IInv' /\ [Next]_vars => Contract!Next
  <2>1. SUFFICES ASSUME IInv, IInv', [Next]_vars
                 PROVE  Contract!Next
    OBVIOUS
  <2>2. ASSUME NEW o \in Orders
        PROVE  LET p == PromiseOf(orders[o].om)
                   q == PromiseOf(orders'[o].om)
               IN \/ q = p
                  \/ Contract!Opens(p, q)
                  \/ Contract!Moves(p, q, Intent[o].tif, Intent[o].size)
    <3>1. /\ Intent[o] \in Intents /\ Tracked(Of(o)) \in BOOLEAN
          /\ orders[o] \in OrderRecords /\ OrderInv(orders[o], Intent[o])
      BY <2>1, OrdersAre
    <3>2. orders'[o] \in OrderRecords /\ OrderInv(orders'[o], Intent[o])
      BY <2>1 DEF IInv, TypeOK
    <3>3. OrderStep(orders[o], orders'[o], Intent[o], Tracked(Of(o)))
      BY <2>1, OrdersStep
    <3> QED
      BY <3>1, <3>2, <3>3, PromiseStep
  <2>3. ASSUME NEW o \in Orders
        PROVE  PromiseOf(orders'[o].om) \in
                 [status: {"idle", "open", "filled", "dead"}, filled: Nat]
    <3>1. orders'[o].om \in ManagedOrder
      BY <2>1 DEF IInv, TypeOK, OrderRecords
    <3> QED
      BY <3>1, PromiseIs
  <2> QED
    BY <2>2, <2>3 DEF Contract!Next, Contract!Statuses, PromiseOf
<1> QED
  BY <1>1, <1>2, Inductive, PTL DEF Spec, KeepsContract, Contract!Spec
=============================================================================
