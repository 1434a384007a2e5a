---------------------------- MODULE TradingProofs ----------------------------
(* Proofs about Trading, for every bound on orders, sizes, stake, depth and  *)
(* round trips: one entry at a time, the stake cap, no share forgotten, what *)
(* it takes to sell more than was bought, and that its orders keep           *)
(* OrderContract.                                                            *)
EXTENDS Trading, FoldLemmas

(* What is counted is what the strategies were told, and it is the whole     *)
(* size just of an order that is filled.                                     *)
Whole(m, i) ==
  /\ m.filled = m.booked
  /\ m.state = "FILLED" <=> m.booked = i.size

(* One order of these strategies: it is drafted, on its way to the exchange  *)
(* or at its end, and has filled only at its end.                            *)
Kept(x, i) ==
  /\ x \in OrderRecords
  /\ ~x.om.raised
  /\ x.place # "resting"
  /\ x.om.state \in {"DRAFT", "ACKED"} \cup Terminal
  /\ x.place = "pending" <=> x.om.state = "ACKED"
  /\ x.om.state \notin Terminal => x.om.filled = 0 /\ x.om.booked = 0
  /\ x.om.booked <= i.size
  /\ Whole(x.om, i)

With(x, m) == [x EXCEPT !.om = m]

(* What a handler may make of an order: it ends it, once, or leaves it.      *)
Follows(y, x) ==
  /\ x.om.state \in Terminal => y.om = x.om
  /\ \/ IsTerminal(y.om)
     \/ y.om.state = x.om.state /\ y.om.booked = x.om.booked

OrderOK(o) ==
  /\ Kept(o.x, o.i)
  /\ o.task = "queued" <=> o.x.om.state = "DRAFT"
  /\ o.x.cancels # {} => o.x.om.state # "DRAFT"

-----------------------------------------------------------------------------
(* The book of the window: what was asked, what it filled and what is still  *)
(* on its way, apart from how the exchange holds it.  is are the intents in  *)
(* the order of their drafts, f what each has booked, live those that have   *)
(* not ended.                                                                *)
Orders == [x: OrderRecords, i: Intents, task: Tasks]

Is(os)   == [k \in DOMAIN os |-> os[k].i]
Bk(os)   == [k \in DOMAIN os |-> os[k].x.om.booked]
Live(os) == {k \in DOMAIN os : ~IsTerminal(os[k].x.om)}

EntriesIn(is) == {k \in DOMAIN is : is[k].use = "entry"}
ExitsIn(is)   == {k \in DOMAIN is : is[k].use = "exit"}
BuysIn(is)    == {k \in DOMAIN is : is[k].use # "exit"}
Last(is, e)   == \A l \in EntriesIn(is) : l <= e

ExitsAfter(is, e) ==
  {k \in ExitsIn(is) : e < k /\ ~\E l \in e + 1 .. k : is[l].use = "entry"}

Total(f, K) == SumFunctionOnSet(f, K)
Sizes(is)   == [k \in DOMAIN is |-> is[k].size]

OfToken(is, K, t) == {k \in K : is[k].token = t}
Holding(is, f, t) ==
  Total(f, OfToken(is, EntriesIn(is), t)) - Total(f, OfToken(is, ExitsIn(is), t))

Unsold(is, f, e) == f[e] - Total(f, ExitsAfter(is, e))

Over(is, f) == \E e \in EntriesIn(is) : Unsold(is, f, e) < 0
Managed(s)  == IF s.open THEN s.shares ELSE 0

(* The scalper has one entry on its way, its last and the one it waits for,  *)
(* and no position then; none after the armed phase.                         *)
EntriesGood(ph, is, live, s) ==
  /\ ph \in {"mid", "armed"} =>
       \A k \in EntriesIn(is) \cap live : s.pending = k /\ ~s.open /\ Last(is, k)
  /\ ph \in {"lockout", "closed"} => EntriesIn(is) \cap live = {}
  /\ s.open => s.shares > 0
  /\ ph = "closed" => ~s.open

(* A position is that of the last entry, and every exit is one of an entry   *)
(* that had ended; neither is of more than the entry has filled.             *)
HeldOf(is, f, s, e) == Last(is, e) /\ s.token = is[e].token /\ s.shares <= f[e]
ExitOf(is, f, k, e) ==
  k \in ExitsAfter(is, e) /\ is[k].token = is[e].token /\ is[k].size <= f[e]

ExitsGood(is, f, live, s) ==
  /\ s.open => \E e \in EntriesIn(is) : HeldOf(is, f, s, e)
  /\ \A k \in ExitsIn(is) : \E e \in EntriesIn(is) \ live : ExitOf(is, f, k, e)

(* What was bought and not sold, entry by entry and token by token.          *)
Rounds(is, f, s) ==
  /\ \A e \in EntriesIn(is) :
       Unsold(is, f, e) = IF Last(is, e) THEN Managed(s) ELSE 0
  /\ \A t \in Tokens : Holding(is, f, t) = IF s.token = t THEN Managed(s) ELSE 0

Fits(is, f, live) ==
  /\ \A k \in DOMAIN is : f[k] <= is[k].size
  /\ \A k \in live : f[k] = 0

Book(ph, is, f, live, s, st) ==
  /\ Fits(is, f, live)
  /\ Total(Sizes(is), BuysIn(is)) = st
  /\ EntriesGood(ph, is, live, s)
  /\ ExitsGood(is, f, live, s)
  /\ ph # "closed" /\ ~Over(is, f) => Rounds(is, f, s)

Good(ph, os, s, st) ==
  /\ os \in Seq(Orders)
  /\ \A k \in DOMAIN os : OrderOK(os[k])
  /\ s \in Scalps
  /\ st \in 0 .. MaxStake
  /\ Book(ph, Is(os), Bk(os), Live(os), s, st)

IInv ==
  /\ TypeOK
  /\ Good(phase, orders, scalp, stake)

-----------------------------------------------------------------------------
LEMMA StatesAre ==
  /\ Terminal \subseteq States
  /\ "DRAFT" \in States /\ "ACKED" \in States /\ "PARTIAL" \in States
  /\ "DRAFT" \notin Terminal /\ "ACKED" \notin Terminal /\ "PARTIAL" \notin Terminal
  /\ {"FILLED", "CANCELED", "EXPIRED"} \subseteq Terminal
BY DEF States, Working, Terminal

LEMMA WithIs ==
  ASSUME NEW x \in OrderRecords, NEW m \in ManagedOrder
  PROVE  /\ With(x, m) \in OrderRecords /\ With(x, m).om = m
         /\ With(x, m).place = x.place /\ With(x, m).cancels = x.cancels
BY DEF With, OrderRecords

LEMMA LeftIs ==
  ASSUME NEW x \in OrderRecords
  PROVE  /\ Left(x) \in OrderRecords /\ Left(x).om = x.om
         /\ Left(x).place = "none" /\ Left(x).cancels = x.cancels
<1>1. 0 \in 0 .. MaxRtt /\ 0 \in Depths /\ 0 \in Nat /\ "none" \in Places
  BY RttAssumption, DepthAssumption DEF Depths, Places
<1> QED
  BY <1>1 DEF Left, OrderRecords

(* The order manager's half: a new state, a fill, an end.                    *)
LEMMA MovedIs ==
  ASSUME NEW m \in ManagedOrder, NEW s \in States
  PROVE  LET e == [m EXCEPT !.state = s]
         IN /\ e \in ManagedOrder /\ e.state = s /\ e.raised = m.raised
            /\ e.filled = m.filled /\ e.booked = m.booked
BY DEF ManagedOrder

LEMMA EndIs ==
  ASSUME NEW m \in ManagedOrder, m.state \in {"ACKED", "PARTIAL"} \cup Terminal, ~m.raised
  PROVE  \A e \in {ExpireUnfilled(m), ConfirmCanceled(m)} :
           /\ e \in ManagedOrder /\ e.state \in Terminal /\ ~e.raised
           /\ e.filled = m.filled /\ e.booked = m.booked
           /\ m.state \in Terminal => e = m
           /\ m.state \notin Terminal => e.state # "FILLED"
<1>1. CASE IsTerminal(m)
  BY <1>1 DEF IsTerminal, ExpireUnfilled, ConfirmCanceled
<1>2. CASE ~IsTerminal(m)
  <2>1. m.state \in {"ACKED", "PARTIAL"}
    BY <1>2 DEF IsTerminal
  <2>2. "EXPIRED" \in ValidTransitions[m.state] /\ "CANCELED" \in ValidTransitions[m.state]
    BY <2>1 DEF ValidTransitions, States, Working, Terminal
  <2>3. /\ ExpireUnfilled(m) = [m EXCEPT !.state = "EXPIRED"]
        /\ ConfirmCanceled(m) = [m EXCEPT !.state = "CANCELED"]
    BY <1>2, <2>2 DEF ExpireUnfilled, ConfirmCanceled, Transition
  <2>4. "EXPIRED" \in States /\ "CANCELED" \in States
    BY StatesAre
  <2>5. /\ ExpireUnfilled(m) \in ManagedOrder /\ ExpireUnfilled(m).state = "EXPIRED"
        /\ ExpireUnfilled(m).raised = m.raised /\ ExpireUnfilled(m).booked = m.booked
        /\ ExpireUnfilled(m).filled = m.filled
    BY <2>3, <2>4, MovedIs
  <2>6. /\ ConfirmCanceled(m) \in ManagedOrder /\ ConfirmCanceled(m).state = "CANCELED"
        /\ ConfirmCanceled(m).raised = m.raised /\ ConfirmCanceled(m).booked = m.booked
        /\ ConfirmCanceled(m).filled = m.filled
    BY <2>3, <2>4, MovedIs
  <2> QED
    BY <1>2, <2>5, <2>6, StatesAre DEF IsTerminal
<1> QED
  BY <1>1, <1>2

LEMMA FillIs ==
  ASSUME NEW m \in ManagedOrder, m.state = "ACKED", ~m.raised, m.filled = 0, m.booked = 0,
         NEW size \in Nat, NEW n \in 1 .. size
  PROVE  LET f == ApplyFill(m, n, size)
         IN /\ f \in ManagedOrder /\ ~f.raised /\ f.filled = n /\ f.booked = n
            /\ n = size => f.state = "FILLED"
            /\ n < size => f.state = "PARTIAL"
<1> DEFINE c == [m EXCEPT !.filled = MinOf(@ + n, size)]
           s == IF n = size THEN "FILLED" ELSE "PARTIAL"
           d == [c EXCEPT !.state = s]
           f == [d EXCEPT !.booked = @ + n]
<1>1. MinOf(m.filled + n, size) = n /\ n \in Nat
  BY DEF MinOf
<1>2. c \in ManagedOrder /\ c.state = "ACKED" /\ c.raised = FALSE /\ c.filled = n /\ c.booked = 0
  BY <1>1 DEF ManagedOrder
<1>3. s \in States /\ s \in ValidTransitions["ACKED"]
  BY DEF ValidTransitions, States, Working, Terminal
<1>4. FillState(c, size) = d
  <2> HIDE DEF c
  <2>1. c.state \in Working /\ c.state # "CANCELED" /\ s \in ValidTransitions[c.state]
    BY <1>2, <1>3 DEF Working
  <2>2. CASE n = size
    BY <1>2, <2>1, <2>2 DEF FillState, Transition
  <2>3. CASE n # size
    BY <1>2, <2>1, <2>3 DEF FillState, Transition
  <2> QED
    BY <2>2, <2>3
<1> HIDE DEF s
<1>5. d \in ManagedOrder /\ d.state = s /\ d.raised = FALSE /\ d.filled = n /\ d.booked = 0
  <2> HIDE DEF c
  <2> QED
    BY <1>2, <1>3, MovedIs
<1>6. ApplyFill(m, n, size) = f
  BY <1>4, <1>5 DEF ApplyFill
<1> HIDE DEF d
<1>7. f \in ManagedOrder /\ f.state = s /\ f.raised = FALSE /\ f.filled = n /\ f.booked = n
  BY <1>1, <1>5 DEF ManagedOrder
<1> QED
  BY <1>6, <1>7 DEF s

-----------------------------------------------------------------------------
(* The exchange's half.                                                      *)
LEMMA GoneIs ==
  ASSUME NEW i \in Intents, NEW x \in OrderRecords,
         NEW m \in ManagedOrder, m.state \in Terminal, ~m.raised, m.booked <= i.size,
         Whole(m, i)
  PROVE  Kept(With(Left(x), m), i)
BY LeftIs, WithIs, StatesAre DEF Kept

LEMMA ArriveIs ==
  ASSUME NEW i \in Intents, NEW x, Kept(x, i), NEW b \in Views
  PROVE  \/ Arrive(x, i, b, TRUE) = x
         \/ /\ x.om.state = "ACKED"
            /\ \E m \in ManagedOrder :
                 /\ m.state \in Terminal /\ ~m.raised /\ m.booked <= i.size /\ Whole(m, i)
                 /\ Arrive(x, i, b, TRUE) = With(Left(x), m)
<1>1. b.visible \in BOOLEAN /\ b.opp \in Depths
  <2>1. 0 \in Depths
    BY DepthAssumption DEF Depths
  <2>2. CASE b = Hidden
    BY <2>1, <2>2 DEF Hidden
  <2>3. CASE b \in [visible: {TRUE}, opp: Depths \ {0}, own: {0}]
    BY <2>3
  <2> QED
    BY <2>2, <2>3 DEF Views
<1>2. /\ x \in OrderRecords /\ x.om \in ManagedOrder /\ ~x.om.raised
      /\ i.tif = "FAK" /\ i.tif \in Takers /\ i.size \in Nat /\ i.size > 0
  BY TradingAssumption DEF Kept, OrderRecords, Intents, Takers
<1>3. CASE ~(x.place = "pending" /\ x.left = 0)
  BY <1>3 DEF Arrive
<1>4. CASE x.place = "pending" /\ x.left = 0
  <2>1. x.om.state = "ACKED" /\ x.om.filled = 0 /\ x.om.booked = 0
    BY <1>4, StatesAre DEF Kept
  <2> DEFINE old == Left(x)
  <2>2. old \in OrderRecords /\ old.om = x.om
    BY <1>2, LeftIs
  <2> SUFFICES \E m \in ManagedOrder :
                 /\ m.state \in Terminal /\ ~m.raised /\ m.booked <= i.size /\ Whole(m, i)
                 /\ Arrive(x, i, b, TRUE) = With(old, m)
    BY <2>1
  <2> HIDE DEF old
  <2>3. PICK e \in ManagedOrder :
          /\ e.state \in Terminal /\ ~e.raised /\ e.filled = 0 /\ e.booked = 0
          /\ e.state # "FILLED" /\ Expire(old) = With(old, e)
    <3>1. LET m == ExpireUnfilled(x.om)
          IN /\ m \in ManagedOrder /\ m.state \in Terminal /\ ~m.raised
             /\ m.filled = 0 /\ m.booked = 0 /\ m.state # "FILLED"
      BY <1>2, <2>1, StatesAre, EndIs
    <3>2. Expire(old) = With(old, ExpireUnfilled(x.om))
      BY <2>2 DEF Expire, With
    <3> QED
      BY <3>1, <3>2
  <2>4. CASE ~b.visible \/ b.opp = 0
    <3>1. Arrive(x, i, b, TRUE) = Expire(old)
      <4>1. CASE ~b.visible
        BY <1>4, <4>1 DEF Arrive, old
      <4>2. CASE b.visible /\ b.opp = 0
        <5>1. MinOf(b.opp, i.size) = 0
          BY <1>2, <4>2 DEF MinOf
        <5> QED
          BY <1>2, <1>4, <4>2, <5>1 DEF Arrive, TakerFill, old
      <4> QED
        BY <1>1, <2>4, <4>1, <4>2
    <3>2. e.booked <= i.size /\ Whole(e, i)
      BY <1>2, <2>3 DEF Whole
    <3> QED
      BY <2>3, <3>1, <3>2, Zenon
  <2>5. CASE b.visible /\ b.opp # 0
    <3> DEFINE take == MinOf(b.opp, i.size)
               f    == ApplyFill(x.om, take, i.size)
               hit  == With(old, f)
    <3>1. take \in 1 .. i.size
      BY <1>1, <1>2, <2>5 DEF MinOf, Depths
    <3>2. Arrive(x, i, b, TRUE) = IF take < i.size THEN Expire(hit) ELSE hit
      <4>1. Arrive(x, i, b, TRUE) = TakerFill(old, i, b.opp, TRUE)
        BY <1>2, <1>4, <2>5 DEF Arrive, old
      <4>2. EmitFill(old, take, i.size, TRUE) = hit
        BY <2>2 DEF EmitFill, With
      <4>3. i.tif # "FOK" /\ take # 0
        BY <1>2, <3>1
      <4> HIDE DEF hit
      <4>4. TakerFill(old, i, b.opp, TRUE) = IF take < i.size THEN Expire(hit) ELSE hit
        BY <4>2, <4>3 DEF TakerFill
      <4> QED
        BY <4>1, <4>4
    <3> HIDE DEF take
    <3>3. /\ f \in ManagedOrder /\ ~f.raised /\ f.filled = take /\ f.booked = take
          /\ take = i.size => f.state = "FILLED"
          /\ take < i.size => f.state = "PARTIAL"
      BY <1>2, <2>1, <3>1, FillIs
    <3> HIDE DEF f
    <3>4. hit \in OrderRecords /\ hit.om = f
      BY <2>2, <3>3, WithIs
    <3>5. CASE take = i.size
      <4>1. /\ f.booked <= i.size /\ f.state \in Terminal /\ Whole(f, i)
            /\ Arrive(x, i, b, TRUE) = hit
        <5>1. f.state = "FILLED" /\ "FILLED" \in Terminal
          BY <3>3, <3>5, StatesAre
        <5>2. f.booked <= i.size /\ ~(take < i.size) /\ Whole(f, i)
          BY <1>2, <3>3, <3>5 DEF Whole
        <5> QED
          BY <3>2, <5>1, <5>2
      <4> QED
        BY <3>3, <4>1, Zenon
    <3>6. CASE take < i.size
      <4> DEFINE r == ExpireUnfilled(f)
      <4>1. /\ r \in ManagedOrder /\ r.state \in Terminal /\ ~r.raised
            /\ r.filled = take /\ r.booked = take /\ r.state # "FILLED"
        BY <3>3, <3>6, StatesAre, EndIs
      <4>2. Expire(hit) = With(hit, r)
        BY <3>4 DEF Expire, With
      <4> HIDE DEF r
      <4>3. With(hit, r) = With(old, r)
        BY <2>2 DEF With, OrderRecords
      <4>4. Arrive(x, i, b, TRUE) = With(old, r)
        BY <3>2, <3>6, <4>2, <4>3
      <4> QED
        <5>1. r.booked <= i.size /\ Whole(r, i)
          BY <1>2, <3>1, <3>6, <4>1 DEF Whole
        <5> QED
          BY <4>1, <4>4, <5>1, Zenon
    <3>7. take = i.size \/ take < i.size
      BY <1>2, <3>1
    <3> QED
      BY <3>5, <3>6, <3>7, Zenon
  <2> QED
    BY <1>1, <2>4, <2>5
<1> QED
  BY <1>3, <1>4

LEMMA ArriveCancelIs ==
  ASSUME NEW i \in Intents, NEW x, Kept(x, i), x.cancels # {} => x.om.state # "DRAFT"
  PROVE  Kept(ArriveCancel(x), i) /\ Follows(ArriveCancel(x), x)
<1>1. CASE 0 \notin x.cancels
  BY <1>1 DEF ArriveCancel, Follows
<1>2. CASE 0 \in x.cancels
  <2> DEFINE m == ConfirmCanceled(x.om)
             z == [x EXCEPT !.cancels = @ \ {0}]
  <2>1. /\ x \in OrderRecords /\ x.om \in ManagedOrder /\ ~x.om.raised
        /\ x.om.state \in {"ACKED"} \cup Terminal
    BY <1>2 DEF Kept, OrderRecords
  <2>2. /\ m \in ManagedOrder /\ m.state \in Terminal /\ ~m.raised /\ m.booked = x.om.booked
        /\ x.om.state \in Terminal => m = x.om
    BY <2>1, EndIs
  <2>3. z \in OrderRecords
    BY <2>1 DEF OrderRecords
  <2>7. Whole(m, i)
    <3>1. CASE x.om.state \in Terminal
      BY <2>2, <3>1 DEF Kept
    <3>2. CASE x.om.state \notin Terminal
      <4>1. m.filled = 0 /\ m.booked = 0 /\ m.state # "FILLED" /\ i.size \in 1 .. MaxSize
        BY <2>1, <3>2, EndIs DEF Kept, Intents
      <4> QED
        BY <4>1, TradingAssumption DEF Whole
    <3> QED
      BY <3>1, <3>2
  <2>4. ArriveCancel(x) = With(Left(z), m)
    BY <1>2, <2>1 DEF ArriveCancel, Left, With, OrderRecords
  <2> HIDE DEF m, z
  <2>5. Kept(With(Left(z), m), i)
    BY <2>2, <2>3, <2>7, GoneIs DEF Kept
  <2>6. With(Left(z), m).om = m
    BY <2>2, <2>3, LeftIs, WithIs
  <2> QED
    BY <2>2, <2>4, <2>5, <2>6 DEF Follows, IsTerminal
<1> QED
  BY <1>1, <1>2

(* process_due for one order.                                                *)
LEMMA ProcessDueIs ==
  ASSUME NEW i \in Intents, NEW x, Kept(x, i), x.cancels # {} => x.om.state # "DRAFT",
         NEW b \in Views
  PROVE  LET y == ProcessDue(x, i, b, TRUE)
         IN Kept(y, i) /\ Follows(y, x) /\ (y.cancels # {} => x.om.state # "DRAFT")
<1> DEFINE w == Arrive(x, i, b, TRUE)
           y == ArriveCancel(w)
<1>1. Kept(w, i) /\ Follows(w, x) /\ w.cancels = x.cancels
  <2>1. CASE w = x
    BY <2>1 DEF Follows
  <2>2. CASE w # x
    <3>1. PICK m \in ManagedOrder :
            /\ m.state \in Terminal /\ ~m.raised /\ m.booked <= i.size /\ Whole(m, i)
            /\ w = With(Left(x), m)
      BY <2>2, ArriveIs
    <3>2. x.om.state = "ACKED" /\ x \in OrderRecords
      BY <2>2, ArriveIs DEF Kept
    <3>3. w.om = m /\ w.cancels = x.cancels
      <4> DEFINE l == Left(x)
      <4>1. l \in OrderRecords /\ l.cancels = x.cancels
        BY <3>2, LeftIs
      <4>2. w = With(l, m)
        BY <3>1
      <4> HIDE DEF l, w
      <4>3. With(l, m).om = m /\ With(l, m).cancels = l.cancels
        BY <3>1, <4>1, WithIs
      <4> QED
        BY <4>1, <4>2, <4>3
    <3>4. Kept(w, i)
      BY <3>1, <3>2, GoneIs
    <3> HIDE DEF w
    <3>5. Follows(w, x)
      BY <3>1, <3>2, <3>3, StatesAre DEF Follows, IsTerminal
    <3> QED
      BY <3>3, <3>4, <3>5
  <2> QED
    BY <2>1, <2>2
<1>2. ProcessDue(x, i, b, TRUE) = y
  BY DEF ProcessDue
<1> HIDE DEF w
<1>3. w.cancels # {} => w.om.state # "DRAFT"
  BY <1>1, StatesAre DEF Follows, IsTerminal
<1>4. Kept(y, i) /\ Follows(y, w) /\ y.cancels \subseteq w.cancels
  <2>1. y.cancels \subseteq w.cancels
    <3>1. w \in OrderRecords
      BY <1>1 DEF Kept
    <3> QED
      BY <3>1 DEF ArriveCancel, OrderRecords, Left
  <2> QED
    BY <1>1, <1>3, <2>1, ArriveCancelIs
<1>5. Follows(y, x)
  <2> HIDE DEF y
  <2> QED
    BY <1>1, <1>4 DEF Follows, IsTerminal
<1> HIDE DEF y
<1> QED
  BY <1>1, <1>2, <1>4, <1>5

-----------------------------------------------------------------------------
(* Totals over the orders of a window.                                       *)
LEMMA DomainsAre ==
  ASSUME NEW n \in Nat, NEW is \in [1 .. n -> Intents]
  PROVE  /\ IsFiniteSet(1 .. n)
         /\ EntriesIn(is) \subseteq 1 .. n /\ ExitsIn(is) \subseteq 1 .. n
         /\ BuysIn(is) \subseteq 1 .. n
         /\ \A e : ExitsAfter(is, e) \subseteq ExitsIn(is)
         /\ \A K, t : OfToken(is, K, t) \subseteq K
<1>1. IsFiniteSet(1 .. n)
  BY FS_Interval
<1> QED
  BY <1>1 DEF EntriesIn, ExitsIn, BuysIn, ExitsAfter, OfToken

LEMMA TotalIsInt ==
  ASSUME NEW n \in Nat, NEW f \in [1 .. n -> Nat], NEW K \in SUBSET (1 .. n)
  PROVE  Total(f, K) \in Int
<1>0. f \in [1 .. n -> Int]
  OBVIOUS
<1>1. IsFiniteSet(K)
  <2>1. IsFiniteSet(1 .. n)
    BY FS_Interval
  <2> QED
    BY <2>1, FS_Subset
<1>2. SumsOf(f, K) \in [SUBSET K -> Int]
  BY <1>0, <1>1, SumAdds
<1> QED
  BY <1>2, SumIs DEF Total

(* One value moves.                                                          *)
Moves(n, f, g, x, d) ==
  /\ n \in Nat /\ f \in [1 .. n -> Nat] /\ g \in [1 .. n -> Nat]
  /\ x \in 1 .. n /\ d \in Int
  /\ g[x] = f[x] + d /\ \A y \in (1 .. n) \ {x} : g[y] = f[y]

LEMMA TotalFollows ==
  ASSUME NEW n, NEW f, NEW g, NEW x, NEW d, Moves(n, f, g, x, d),
         NEW K \in SUBSET (1 .. n)
  PROVE  Total(g, K) = Total(f, K) + (IF x \in K THEN d ELSE 0)
<1> SUFFICES ASSUME n \in Nat, f \in [1 .. n -> Nat], g \in [1 .. n -> Nat],
                    x \in 1 .. n, d \in Int
             PROVE  Total(g, K) = Total(f, K) + (IF x \in K THEN d ELSE 0)
  BY DEF Moves
<1>0. f \in [1 .. n -> Int] /\ g \in [1 .. n -> Int]
  OBVIOUS
<1>1. IsFiniteSet(1 .. n)
  BY FS_Interval
<1>2. IsFiniteSet(K) /\ IsFiniteSet(K \ {x})
  BY <1>1, FS_Subset
<1>3. Total(f, K) \in Int /\ Total(g, K \ {x}) = Total(f, K \ {x})
  <2>1. \A y \in K \ {x} : g[y] = f[y]
    BY DEF Moves
  <2>2. K \ {x} \subseteq 1 .. n
    OBVIOUS
  <2> QED
    BY <1>0, <1>2, <2>1, <2>2, SumAgrees, TotalIsInt DEF Total
<1>4. CASE x \notin K
  <2>1. K \ {x} = K
    BY <1>4
  <2>2. Total(g, K) = Total(f, K)
    BY <1>3, <2>1, Zenon
  <2> QED
    BY <1>3, <1>4, <2>2
<1>5. CASE x \in K
  <2>1. Total(f, K) = f[x] + Total(f, K \ {x}) /\ Total(g, K) = g[x] + Total(g, K \ {x})
    BY <1>0, <1>2, <1>5, SumTakes DEF Total
  <2>2. Total(f, K \ {x}) \in Int /\ f[x] \in Int
    BY TotalIsInt
  <2>3. g[x] = f[x] + d
    BY DEF Moves
  <2> QED
    BY <1>3, <1>5, <2>1, <2>2, <2>3
<1> QED
  BY <1>4, <1>5

(* No value falls.                                                           *)
LEMMA TotalGrows ==
  ASSUME NEW n \in Nat, NEW f \in [1 .. n -> Nat], NEW g \in [1 .. n -> Nat],
         NEW K \in SUBSET (1 .. n), \A y \in K : f[y] <= g[y]
  PROVE  Total(f, K) \in Int /\ Total(g, K) \in Int /\ Total(f, K) <= Total(g, K)
<1>0. f \in [1 .. n -> Int] /\ g \in [1 .. n -> Int]
  OBVIOUS
<1>1. IsFiniteSet(K)
  <2>1. IsFiniteSet(1 .. n)
    BY FS_Interval
  <2> QED
    BY <2>1, FS_Subset
<1> QED
  BY <1>0, <1>1, SumIsMonotone DEF Total

(* One more order.                                                           *)
LEMMA TotalExtends ==
  ASSUME NEW n \in Nat, NEW f \in [1 .. n -> Nat], NEW g \in [1 .. n + 1 -> Nat],
         \A y \in 1 .. n : g[y] = f[y], NEW K \in SUBSET (1 .. n)
  PROVE  /\ Total(f, K) \in Int
         /\ Total(g, K) = Total(f, K)
         /\ Total(g, K \cup {n + 1}) = Total(f, K) + g[n + 1]
<1>0. f \in [1 .. n -> Int] /\ g \in [1 .. n + 1 -> Int]
  OBVIOUS
<1>1. 1 .. n \subseteq 1 .. n + 1 /\ n + 1 \in 1 .. n + 1 /\ n + 1 \notin 1 .. n
  OBVIOUS
<1>2. IsFiniteSet(K)
  <2>1. IsFiniteSet(1 .. n)
    BY FS_Interval
  <2> QED
    BY <2>1, FS_Subset
<1>3. K \subseteq 1 .. n + 1
  BY <1>1
<1>4. Total(g, K) = SumsOf(f, K)[K]
  BY <1>0, <1>2, <1>3, SumIsLocal DEF Total
<1>5. Total(f, K) = SumsOf(f, K)[K]
  BY SumIs DEF Total
<1> DEFINE M == K \cup {n + 1}
<1>6. IsFiniteSet(M) /\ M \subseteq 1 .. n + 1 /\ n + 1 \in M /\ M \ {n + 1} = K
  BY <1>1, <1>2, <1>3, FS_AddElement
<1> HIDE DEF M
<1>7. Total(g, M) = g[n + 1] + Total(g, M \ {n + 1})
  BY <1>0, <1>6, SumTakes DEF Total
<1>8. Total(f, K) \in Int /\ g[n + 1] \in Int
  BY <1>1, TotalIsInt
<1>9. Total(g, M) = g[n + 1] + Total(f, K)
  BY <1>4, <1>5, <1>6, <1>7
<1>10. Total(g, M) = Total(f, K) + g[n + 1]
  BY <1>8, <1>9
<1> QED
  BY <1>4, <1>5, <1>8, <1>10 DEF M

LEMMA TotalOfOne ==
  ASSUME NEW n \in Nat, NEW f \in [1 .. n -> Nat]
  PROVE  Total(f, {}) = 0 /\ \A x \in 1 .. n : Total(f, {x}) = f[x]
<1>0. f \in [1 .. n -> Int]
  OBVIOUS
<1>1. Total(f, {}) = 0
  <2>1. SumsOf(f, {}) \in [SUBSET {} -> Int] /\ Adds(f, {}, SumsOf(f, {}))
    BY <1>0, FS_EmptySet, SumAdds
  <2> QED
    BY <2>1, SumIs DEF Total, Adds
<1>2. ASSUME NEW x \in 1 .. n PROVE Total(f, {x}) = f[x]
  <2>1. IsFiniteSet({x}) /\ {x} \subseteq 1 .. n /\ x \in {x} /\ {x} \ {x} = {}
    BY FS_Singleton
  <2>2. Total(f, {x}) = f[x] + Total(f, {x} \ {x})
    BY <1>0, <2>1, SumTakes DEF Total
  <2>3. Total(f, {x}) = f[x] + 0
    BY <1>1, <2>1, <2>2, Zenon
  <2> QED
    BY <2>3
<1> QED
  BY <1>1, <1>2

-----------------------------------------------------------------------------
(* The fills of one pump, told to the scalper one order after the other.     *)
Wide == [pending: 0 .. MaxOrders, open: BOOLEAN, token: Tokens, shares: Int, hold: BOOLEAN]

Told(s, i, m) == IF m > 0 /\ i.use # "snipe" THEN OnFill(s, i, m) ELSE s

IsChain(told, s, n, is, f, g) ==
  /\ told \in [0 .. n -> Wide]
  /\ told[0] = s
  /\ \A k \in 1 .. n : told[k] = Told(told[k - 1], is[k], g[k] - f[k])

LEMMA OnFillIs ==
  ASSUME NEW s \in Wide, NEW i \in Intents, NEW m \in Nat, NEW z, z = OnFill(s, i, m)
  PROVE  /\ z \in Wide /\ z.pending = s.pending
         /\ i.use # "exit" /\ ~s.open => z.open /\ z.token = i.token /\ z.shares = m
         /\ i.use # "exit" /\ s.open => z.open /\ z.token = s.token /\ z.shares = s.shares + m
         /\ i.use = "exit" /\ ~s.open => z = s
         /\ i.use = "exit" /\ s.open => z.token = s.token
         /\ i.use = "exit" /\ s.open /\ s.shares <= m => ~z.open /\ z.shares = 0
         /\ i.use = "exit" /\ s.open /\ s.shares > m => z.open /\ z.shares = s.shares - m
<1>1. i.token \in Tokens /\ "UP" \in Tokens /\ s.shares \in Int /\ 0 \in Int
  BY DEF Intents, Tokens, Wide
<1>2. CASE IsBuy(i)
  <2> DEFINE o == Opened(s, i)
  <2>1. /\ o \in Wide /\ o.pending = s.pending /\ o.open = TRUE
        /\ s.open => o = s
        /\ ~s.open => o.shares = 0 /\ o.token = i.token
    <3>1. CASE s.open
      BY <3>1 DEF Opened, Wide
    <3>2. CASE ~s.open
      BY <1>1, <3>2 DEF Opened, Fresh, Wide
    <3> QED
      BY <3>1, <3>2
  <2>2. z = [o EXCEPT !.shares = @ + m]
    BY <1>2 DEF OnFill
  <2> HIDE DEF o
  <2> QED
    BY <1>1, <1>2, <2>1, <2>2 DEF IsBuy, Wide
<1>3. CASE ~IsBuy(i)
  <2>1. CASE ~s.open
    BY <1>3, <2>1 DEF OnFill, IsBuy
  <2>2. CASE s.open /\ s.shares <= m
    <3>1. z = [s EXCEPT !.shares = 0, !.open = FALSE]
      BY <1>3, <2>2 DEF OnFill
    <3>2. z \in Wide
      BY <1>1, <3>1 DEF Wide
    <3>3. z.pending = s.pending /\ z.token = s.token /\ z.open = FALSE /\ z.shares = 0
      BY <3>1 DEF Wide
    <3>4. z \in Wide /\ z.pending = s.pending /\ z.token = s.token /\ ~z.open /\ z.shares = 0
      BY <3>2, <3>3
    <3> QED
      BY <1>1, <1>3, <2>2, <3>4 DEF IsBuy
  <2>3. CASE s.open /\ s.shares > m
    <3>1. z = [s EXCEPT !.shares = @ - m]
      BY <1>1, <1>3, <2>3 DEF OnFill
    <3> QED
      BY <1>1, <1>3, <2>3, <3>1 DEF IsBuy, Wide
  <2> QED
    BY <1>1, <2>1, <2>2, <2>3
<1> QED
  BY <1>2, <1>3

(* Induction over a stretch of numbers.                                      *)
LEMMA Reaches ==
  ASSUME NEW n \in Nat, NEW Q, 0 \in Q, \A k \in 1 .. n : k - 1 \in Q => k \in Q
  PROVE  \A k \in 0 .. n : k \in Q
<1> DEFINE T == {k \in Nat : k <= n /\ k \notin Q}
<1>1. T = {}
  <2>1. SUFFICES ASSUME T # {} PROVE FALSE
    OBVIOUS
  <2>2. PICK k \in T : \A m \in T : k <= m
    BY <2>1, SmallestNumber
  <2>3. k # 0 /\ k \in 1 .. n /\ k - 1 \in Nat /\ k - 1 \notin T
    BY <2>2
  <2> QED
    BY <2>2, <2>3
<1> QED
  BY <1>1

(* The fold of FillsTold is such a chain.                                    *)
LEMMA ChainExists ==
  ASSUME NEW s \in Wide, NEW n \in Nat, NEW is \in [1 .. n -> Intents],
         NEW f \in [1 .. n -> Nat], NEW g \in [1 .. n -> Nat]
  PROVE  \E told : IsChain(told, s, n, is, f, g)
<1> DEFINE Q == {k \in 0 .. n : \E told : IsChain(told, s, k, is, f, g)}
<1>1. 0 \in Q
  <2>1. IsChain([k \in 0 .. 0 |-> s], s, 0, is, f, g)
    BY DEF IsChain
  <2> QED
    BY <2>1
<1>2. ASSUME NEW k \in 1 .. n, k - 1 \in Q
      PROVE  k \in Q
  <2>1. PICK h : IsChain(h, s, k - 1, is, f, g)
    BY <1>2
  <2> DEFINE v    == Told(h[k - 1], is[k], g[k] - f[k])
             told == [j \in 0 .. k |-> IF j = k THEN v ELSE h[j]]
  <2>2. h \in [0 .. k - 1 -> Wide] /\ h[0] = s /\ k - 1 \in 0 .. k - 1
    BY <2>1 DEF IsChain
  <2>3. v \in Wide
    <3>1. h[k - 1] \in Wide /\ is[k] \in Intents /\ g[k] - f[k] \in Int
      BY <2>2
    <3> QED
      <4>1. CASE g[k] - f[k] > 0
        <5> DEFINE m == g[k] - f[k]
        <5>1. m \in Nat
          BY <3>1, <4>1
        <5> HIDE DEF m
        <5>2. OnFill(h[k - 1], is[k], m) \in Wide
          BY <3>1, <5>1, OnFillIs
        <5> QED
          BY <3>1, <5>2 DEF Told, m
      <4>2. CASE ~(g[k] - f[k] > 0)
        BY <3>1, <4>2 DEF Told
      <4> QED
        BY <4>1, <4>2
  <2>4. told[k] = v /\ \A j \in 0 .. k - 1 : told[j] = h[j]
    BY <1>2
  <2>5. told \in [0 .. k -> Wide]
    BY <2>2, <2>3
  <2> HIDE DEF told
  <2>6. \A j \in 1 .. k : told[j] = Told(told[j - 1], is[j], g[j] - f[j])
    <3>1. SUFFICES ASSUME NEW j \in 1 .. k
                   PROVE  told[j] = Told(told[j - 1], is[j], g[j] - f[j])
      OBVIOUS
    <3>2. told[j - 1] = h[j - 1]
      BY <2>4
    <3>3. CASE j = k
      BY <2>4, <3>2, <3>3
    <3>4. CASE j # k
      <4>1. j \in 1 .. k - 1 /\ told[j] = h[j]
        BY <2>4, <3>4
      <4> QED
        BY <2>1, <3>2, <4>1 DEF IsChain
    <3> QED
      BY <3>3, <3>4
  <2>7. told[0] = s
    BY <1>2, <2>2, <2>4
  <2>8. IsChain(told, s, k, is, f, g)
    BY <2>5, <2>6, <2>7 DEF IsChain
  <2> QED
    BY <2>8
<1> HIDE DEF Q
<1>3. n \in Q
  <2>1. n \in 0 .. n
    OBVIOUS
  <2> QED
    BY <1>1, <1>2, <2>1, Reaches
<1> QED
  BY <1>3 DEF Q

-----------------------------------------------------------------------------
(* What one pump does to the book: orders end, and only those that end fill. *)
Lands(n, is, f, g, live, ended) ==
  /\ live \subseteq 1 .. n /\ ended \subseteq live
  /\ \A k \in 1 .. n : g[k] <= is[k].size
  /\ \A k \in live \ ended : g[k] = 0
  /\ \A k \in (1 .. n) \ live : g[k] = f[k]

(* What is told of on the way opens a position only for the entry that was   *)
(* on its way.                                                               *)
Opens(r, s, is, g, live, k) ==
  r.open => \/ s.open /\ r.token = s.token /\ r.shares <= s.shares
            \/ \E j \in 1 .. k : /\ j \in EntriesIn(is) \cap live /\ g[j] > 0
                                 /\ r.token = is[j].token /\ r.shares <= g[j]

Legal(r, s) == r \in Scalps /\ r.pending = s.pending /\ (r.open => r.shares > 0)

LEMMA WideIs ==
  /\ Scalps \subseteq Wide
  /\ \A r \in Wide : r.shares \in 0 .. MaxSize => r \in Scalps
<1>1. MaxOrders \in Nat /\ MaxSize \in Nat
  BY TradingAssumption
<1> QED
  BY <1>1 DEF Scalps, Wide

LEMMA ToldIs ==
  ASSUME NEW r \in Wide, NEW i \in Intents, NEW m \in Int, m > 0, i.use # "snipe"
  PROVE  LET q == Told(r, i, m)
         IN /\ q \in Wide /\ q.pending = r.pending
            /\ i.use = "entry" /\ ~r.open => q.open /\ q.token = i.token /\ q.shares = m
            /\ i.use = "exit" /\ ~r.open => q = r
            /\ i.use = "exit" /\ r.open => q.token = r.token
            /\ i.use = "exit" /\ r.open /\ r.shares <= m => ~q.open /\ q.shares = 0
            /\ i.use = "exit" /\ r.open /\ r.shares > m => q.open /\ q.shares = r.shares - m
<1> DEFINE q == OnFill(r, i, m)
<1>1. m \in Nat
  OBVIOUS
<1>2. /\ q \in Wide /\ q.pending = r.pending
      /\ i.use # "exit" /\ ~r.open => q.open /\ q.token = i.token /\ q.shares = m
      /\ i.use = "exit" /\ ~r.open => q = r
      /\ i.use = "exit" /\ r.open => q.token = r.token
      /\ i.use = "exit" /\ r.open /\ r.shares <= m => ~q.open /\ q.shares = 0
      /\ i.use = "exit" /\ r.open /\ r.shares > m => q.open /\ q.shares = r.shares - m
  BY <1>1, OnFillIs
<1>3. Told(r, i, m) = q
  BY DEF Told
<1> HIDE DEF q
<1> QED
  BY <1>2, <1>3

LEMMA LegalStep ==
  ASSUME NEW s \in Scalps, NEW r, Legal(r, s), NEW i \in Intents, NEW m \in Int,
         m > 0 => m <= i.size, m > 0 /\ i.use = "entry" => ~r.open
  PROVE  /\ Legal(Told(r, i, m), s)
         /\ Told(r, i, m).open =>
              \/ r.open /\ Told(r, i, m).token = r.token /\ Told(r, i, m).shares <= r.shares
              \/ /\ m > 0 /\ i.use = "entry"
                 /\ Told(r, i, m).token = i.token /\ Told(r, i, m).shares <= m
<1> DEFINE q == Told(r, i, m)
<1>1. r \in Wide /\ r \in Scalps /\ r.pending = s.pending /\ (r.open => r.shares > 0)
  BY WideIs DEF Legal
<1>2. r.shares \in 0 .. MaxSize /\ MaxSize \in Nat /\ i.size \in 1 .. MaxSize
  BY <1>1, TradingAssumption DEF Scalps, Intents
<1>3. CASE ~(m > 0 /\ i.use # "snipe")
  <2>1. q = r
    BY <1>3 DEF Told
  <2> HIDE DEF q
  <2>2. q.shares <= r.shares
    BY <1>2, <2>1
  <2> QED
    BY <2>1, <2>2 DEF q
<1>4. CASE m > 0 /\ i.use # "snipe"
  <2>1. /\ q \in Wide /\ q.pending = r.pending
        /\ i.use = "entry" /\ ~r.open => q.open /\ q.token = i.token /\ q.shares = m
        /\ i.use = "exit" /\ ~r.open => q = r
        /\ i.use = "exit" /\ r.open => q.token = r.token
        /\ i.use = "exit" /\ r.open /\ r.shares <= m => ~q.open /\ q.shares = 0
        /\ i.use = "exit" /\ r.open /\ r.shares > m => q.open /\ q.shares = r.shares - m
    BY <1>1, <1>4, ToldIs
  <2> HIDE DEF q
  <2>2. i.use \in {"snipe", "entry", "exit"}
    BY DEF Intents, Uses
  <2>3. CASE i.use = "entry"
    <3>1. q.open /\ q.shares = m /\ q.token = i.token
      BY <1>4, <2>1, <2>3
    <3>2. q.shares \in 0 .. MaxSize /\ q.shares > 0
      BY <1>2, <1>4, <3>1
    <3> QED
      BY <1>1, <1>4, <2>1, <2>3, <3>1, <3>2, WideIs DEF Legal, q
  <2>4. CASE i.use = "exit" /\ ~r.open
    <3>1. q = r
      BY <2>1, <2>4
    <3> QED
      BY <3>1, <2>4 DEF q
  <2>5. CASE i.use = "exit" /\ r.open
    <3>1. /\ q.shares \in 0 .. MaxSize /\ (q.open => q.shares > 0)
          /\ q.shares <= r.shares
      BY <1>1, <1>2, <1>4, <2>1, <2>5
    <3> QED
      BY <1>1, <2>1, <2>5, <3>1, WideIs DEF Legal, q
  <2> QED
    BY <1>4, <2>2, <2>3, <2>4, <2>5
<1> QED
  BY <1>3, <1>4

LEMMA ToldIsLegal ==
  ASSUME NEW ph \in Phases, NEW n \in Nat, NEW is \in [1 .. n -> Intents],
         NEW f \in [1 .. n -> Nat], NEW g \in [1 .. n -> Nat],
         NEW live, NEW ended, NEW s \in Scalps, NEW st,
         Book(ph, is, f, live, s, st), Lands(n, is, f, g, live, ended),
         NEW told, IsChain(told, s, n, is, f, g)
  PROVE  \A k \in 0 .. n : Legal(told[k], s) /\ Opens(told[k], s, is, g, live, k)
<1> DEFINE Q == {k \in 0 .. n : Legal(told[k], s) /\ Opens(told[k], s, is, g, live, k)}
<1>1. told \in [0 .. n -> Wide] /\ told[0] = s
  BY DEF IsChain
<1>2. 0 \in Q
  <2>1. s.shares <= s.shares
    BY TradingAssumption DEF Scalps
  <2> QED
    BY <1>1, <2>1 DEF Legal, Opens, Book, EntriesGood
<1>3. ASSUME NEW k \in 1 .. n, k - 1 \in Q
      PROVE  k \in Q
  <2> DEFINE i == is[k]
             m == g[k] - f[k]
             r == told[k - 1]
  <2>1. told[k] = Told(r, i, m) /\ k \in 0 .. n /\ i \in Intents /\ m \in Int
    BY DEF IsChain
  <2>2. Legal(r, s) /\ Opens(r, s, is, g, live, k - 1)
    BY <1>3
  <2>3. m > 0 => k \in live /\ f[k] = 0 /\ g[k] > 0 /\ m <= i.size
    BY DEF Lands, Book, Fits
  <2>4. m > 0 /\ i.use = "entry" => k \in EntriesIn(is) \cap live /\ g[k] > 0
    BY <2>3 DEF EntriesIn
  <2>5. m > 0 /\ i.use = "entry" => ~r.open
    <3>1. SUFFICES ASSUME m > 0, i.use = "entry", r.open PROVE FALSE
      OBVIOUS
    <3>2. k \in EntriesIn(is) \cap live
      BY <2>4, <3>1
    <3>3. \A j \in EntriesIn(is) \cap live : s.pending = j /\ ~s.open
      BY <3>2 DEF Book, EntriesGood, Phases
    <3>4. ~s.open /\ \A j \in 1 .. k - 1 : j \notin EntriesIn(is) \cap live
      BY <3>2, <3>3
    <3> QED
      BY <2>2, <3>1, <3>4 DEF Opens
  <2> HIDE DEF i, m, r
  <2>6. /\ Legal(Told(r, i, m), s)
        /\ Told(r, i, m).open =>
             \/ r.open /\ Told(r, i, m).token = r.token /\ Told(r, i, m).shares <= r.shares
             \/ /\ m > 0 /\ i.use = "entry"
                /\ Told(r, i, m).token = i.token /\ Told(r, i, m).shares <= m
    BY <2>1, <2>2, <2>3, <2>5, LegalStep
  <2>7. /\ Legal(told[k], s)
        /\ told[k].open =>
             \/ r.open /\ told[k].token = r.token /\ told[k].shares <= r.shares
             \/ /\ m > 0 /\ i.use = "entry"
                /\ told[k].token = i.token /\ told[k].shares <= m
    BY <2>1, <2>6
  <2>8. Opens(told[k], s, is, g, live, k)
    <3> DEFINE q == told[k]
    <3>0. /\ q.shares \in Int /\ r.shares \in Int /\ s.shares \in Int
          /\ \A j \in 1 .. k : g[j] \in Int
      <4>1. q \in Wide /\ r \in Wide /\ s \in Wide
        BY <1>1, <2>1, WideIs DEF r
      <4> HIDE DEF q
      <4> QED
        BY <4>1 DEF Wide
    <3> HIDE DEF q
    <3>1. CASE r.open /\ q.token = r.token /\ q.shares <= r.shares
      <4>1. \A j \in 1 .. k : r.shares <= g[j] => q.shares <= g[j]
        BY <3>0, <3>1
      <4>2. r.shares <= s.shares => q.shares <= s.shares
        BY <3>0, <3>1
      <4>3. \/ s.open /\ q.token = s.token /\ q.shares <= s.shares
            \/ \E j \in 1 .. k - 1 : /\ j \in EntriesIn(is) \cap live /\ g[j] > 0
                                     /\ q.token = is[j].token /\ r.shares <= g[j]
        BY <2>2, <3>1, <4>2 DEF Opens
      <4>4. 1 .. k - 1 \subseteq 1 .. k
        OBVIOUS
      <4>5. Opens(q, s, is, g, live, k)
        BY <4>1, <4>3, <4>4 DEF Opens
      <4> QED
        BY <4>5 DEF q
    <3>2. CASE m > 0 /\ i.use = "entry" /\ q.token = i.token /\ q.shares <= m
      <4>1. m = g[k]
        BY <2>3, <3>0, <3>2 DEF m
      <4>2. Opens(q, s, is, g, live, k)
        BY <2>4, <3>2, <4>1 DEF Opens, i
      <4> QED
        BY <4>2 DEF q
    <3>3. \/ ~q.open
          \/ r.open /\ q.token = r.token /\ q.shares <= r.shares
          \/ m > 0 /\ i.use = "entry" /\ q.token = i.token /\ q.shares <= m
      BY <2>7 DEF q
    <3>4. CASE ~q.open
      BY <3>4 DEF Opens, q
    <3> QED
      BY <3>1, <3>2, <3>3, <3>4
  <2> QED
    BY <2>1, <2>7, <2>8
<1> HIDE DEF Q
<1>4. \A k \in 0 .. n : k \in Q
  BY <1>2, <1>3, Reaches
<1> QED
  BY <1>4 DEF Q

-----------------------------------------------------------------------------
(* One fill, in the book and in what the scalper manages.                    *)
LEMMA UnsoldMoves ==
  ASSUME NEW n, NEW f, NEW g, NEW x, NEW d, Moves(n, f, g, x, d),
         NEW is \in [1 .. n -> Intents],
         NEW e \in EntriesIn(is)
  PROVE  /\ Unsold(is, f, e) \in Int
         /\ Unsold(is, g, e) = Unsold(is, f, e) + (IF e = x THEN d ELSE 0)
                                 - (IF x \in ExitsAfter(is, e) THEN d ELSE 0)
<1>1. n \in Nat /\ f \in [1 .. n -> Nat] /\ g \in [1 .. n -> Nat] /\ x \in 1 .. n /\ d \in Int
  BY DEF Moves
<1>2. /\ EntriesIn(is) \subseteq 1 .. n /\ ExitsIn(is) \subseteq 1 .. n
      /\ \A c : ExitsAfter(is, c) \subseteq ExitsIn(is)
      /\ \A K, c : OfToken(is, K, c) \subseteq K
  BY <1>1, DomainsAre
<1>3. \A K \in SUBSET (1 .. n) :
        Total(f, K) \in Int /\ Total(g, K) = Total(f, K) + (IF x \in K THEN d ELSE 0)
  <2>1. SUFFICES ASSUME NEW K \in SUBSET (1 .. n)
                 PROVE  Total(f, K) \in Int /\ Total(g, K) = Total(f, K) + (IF x \in K THEN d ELSE 0)
    OBVIOUS
  <2>2. Total(f, K) \in Int
    BY <1>1, TotalIsInt
  <2>3. Total(g, K) = Total(f, K) + (IF x \in K THEN d ELSE 0)
    BY TotalFollows
  <2> QED
    BY <2>2, <2>3
<1> DEFINE K == ExitsAfter(is, e)
<1>4. K \in SUBSET (1 .. n) /\ e \in 1 .. n
  BY <1>2
<1>5. Unsold(is, f, e) = f[e] - Total(f, K) /\ Unsold(is, g, e) = g[e] - Total(g, K)
  BY DEF Unsold
<1> HIDE DEF K
<1>6. Total(f, K) \in Int /\ Total(g, K) = Total(f, K) + (IF x \in K THEN d ELSE 0)
  BY <1>3, <1>4
<1>7. f[e] \in Int /\ g[e] = f[e] + (IF e = x THEN d ELSE 0)
  BY <1>1, <1>4 DEF Moves
<1>8. /\ Unsold(is, f, e) \in Int
      /\ Unsold(is, g, e) = Unsold(is, f, e) + (IF e = x THEN d ELSE 0)
                             - (IF x \in K THEN d ELSE 0)
  <2> DEFINE a == IF e = x THEN d ELSE 0
             b == IF x \in K THEN d ELSE 0
  <2>1. a \in Int /\ b \in Int /\ g[e] = f[e] + a /\ Total(g, K) = Total(f, K) + b
    BY <1>1, <1>6, <1>7
  <2> HIDE DEF a, b
  <2>2. Unsold(is, f, e) \in Int /\ Unsold(is, g, e) = Unsold(is, f, e) + a - b
    <3> DEFINE p == f[e]
               r == Total(f, K)
    <3>1. p \in Int /\ r \in Int /\ Unsold(is, f, e) = p - r
      BY <1>1, <1>5, <1>6, <1>7
    <3>2. g[e] = p + a /\ Total(g, K) = r + b
      BY <2>1
    <3> HIDE DEF p, r
    <3>3. Unsold(is, g, e) = (p + a) - (r + b)
      BY <1>5, <3>2
    <3> QED
      BY <2>1, <3>1, <3>3
  <2> QED
    BY <2>2 DEF a, b
<1> QED
  BY <1>8 DEF K

LEMMA HoldingMoves ==
  ASSUME NEW n, NEW f, NEW g, NEW x, NEW d, Moves(n, f, g, x, d),
         NEW is \in [1 .. n -> Intents],
         NEW t \in Tokens
  PROVE  /\ Holding(is, f, t) \in Int
         /\ Holding(is, g, t) = Holding(is, f, t)
              + (IF x \in OfToken(is, EntriesIn(is), t) THEN d ELSE 0)
              - (IF x \in OfToken(is, ExitsIn(is), t) THEN d ELSE 0)
<1>1. n \in Nat /\ f \in [1 .. n -> Nat] /\ g \in [1 .. n -> Nat] /\ x \in 1 .. n /\ d \in Int
  BY DEF Moves
<1>2. /\ EntriesIn(is) \subseteq 1 .. n /\ ExitsIn(is) \subseteq 1 .. n
      /\ \A c : ExitsAfter(is, c) \subseteq ExitsIn(is)
      /\ \A K, c : OfToken(is, K, c) \subseteq K
  BY <1>1, DomainsAre
<1>3. \A K \in SUBSET (1 .. n) :
        Total(f, K) \in Int /\ Total(g, K) = Total(f, K) + (IF x \in K THEN d ELSE 0)
  <2>1. SUFFICES ASSUME NEW K \in SUBSET (1 .. n)
                 PROVE  Total(f, K) \in Int /\ Total(g, K) = Total(f, K) + (IF x \in K THEN d ELSE 0)
    OBVIOUS
  <2>2. Total(f, K) \in Int
    BY <1>1, TotalIsInt
  <2>3. Total(g, K) = Total(f, K) + (IF x \in K THEN d ELSE 0)
    BY TotalFollows
  <2> QED
    BY <2>2, <2>3
<1> DEFINE E == OfToken(is, EntriesIn(is), t)
           X == OfToken(is, ExitsIn(is), t)
<1>4. E \in SUBSET (1 .. n) /\ X \in SUBSET (1 .. n)
  BY <1>2
<1>6. /\ Holding(is, f, t) = Total(f, E) - Total(f, X)
      /\ Holding(is, g, t) = Total(g, E) - Total(g, X)
  BY DEF Holding
<1> HIDE DEF E, X
<1>7. /\ Total(f, E) \in Int /\ Total(g, E) = Total(f, E) + (IF x \in E THEN d ELSE 0)
      /\ Total(f, X) \in Int /\ Total(g, X) = Total(f, X) + (IF x \in X THEN d ELSE 0)
  BY <1>3, <1>4
<1> DEFINE a == IF x \in E THEN d ELSE 0
           b == IF x \in X THEN d ELSE 0
<1>8. a \in Int /\ b \in Int /\ Total(g, E) = Total(f, E) + a /\ Total(g, X) = Total(f, X) + b
  BY <1>1, <1>7
<1> HIDE DEF a, b
<1>9. Holding(is, f, t) \in Int /\ Holding(is, g, t) = Holding(is, f, t) + a - b
  <2> DEFINE p == Total(f, E)
             r == Total(f, X)
  <2>1. p \in Int /\ r \in Int /\ Holding(is, f, t) = p - r
    BY <1>1, <1>6, <1>7
  <2>2. Total(g, E) = p + a /\ Total(g, X) = r + b
    BY <1>8
  <2> HIDE DEF p, r
  <2>3. Holding(is, g, t) = (p + a) - (r + b)
    BY <1>6, <2>2
  <2> QED
    BY <1>8, <2>1, <2>3
<1> QED
  BY <1>9 DEF a, b, E, X

(* Every exit is of one entry only, and there is one last entry.             *)
LEMMA OneRound ==
  ASSUME NEW n \in Nat, NEW is \in [1 .. n -> Intents],
         NEW d \in EntriesIn(is), NEW e \in EntriesIn(is)
  PROVE  /\ Last(is, d) /\ Last(is, e) => d = e
         /\ ExitsAfter(is, d) \cap ExitsAfter(is, e) # {} => d = e
<1>1. EntriesIn(is) \subseteq 1 .. n /\ ExitsIn(is) \subseteq 1 .. n
  BY DomainsAre
<1>2. d \in Int /\ e \in Int
  BY <1>1
<1>3. ASSUME Last(is, d), Last(is, e)
      PROVE  d = e
  BY <1>2, <1>3 DEF Last
<1>4. ASSUME NEW k \in ExitsAfter(is, d) \cap ExitsAfter(is, e), d # e
      PROVE  FALSE
  <2>1. /\ k \in 1 .. n /\ d < k /\ e < k
        /\ \A l \in d + 1 .. k : is[l].use # "entry"
        /\ \A l \in e + 1 .. k : is[l].use # "entry"
    BY <1>1, <1>4 DEF ExitsAfter
  <2>2. is[d].use = "entry" /\ is[e].use = "entry"
    BY DEF EntriesIn
  <2>3. d \in e + 1 .. k \/ e \in d + 1 .. k
    BY <1>2, <1>4, <2>1
  <2> QED
    BY <2>1, <2>2, <2>3
<1> QED
  BY <1>3, <1>4

LEMMA RoundsFollow ==
  ASSUME NEW n, NEW f, NEW g, NEW x, NEW d, Moves(n, f, g, x, d), d >= 0,
         NEW is \in [1 .. n -> Intents],
         NEW r \in Wide, Rounds(is, f, r), ~Over(is, g), r.open => r.shares > 0,
         d > 0 /\ is[x].use = "entry" => Last(is, x) /\ ~r.open,
         is[x].use = "exit" => \E e \in EntriesIn(is) :
           x \in ExitsAfter(is, e) /\ is[x].token = is[e].token,
         r.open => \E e \in EntriesIn(is) : Last(is, e) /\ r.token = is[e].token
  PROVE  Rounds(is, g, Told(r, is[x], d))
<1> DEFINE i == is[x]
           q == Told(r, i, d)
<1> SUFFICES ASSUME n \in Nat, x \in 1 .. n, d \in Nat
             PROVE  Rounds(is, g, q)
  BY DEF Moves
<1>1. i \in Intents /\ i.use \in {"snipe", "entry", "exit"} /\ i.token \in Tokens
  BY DEF Intents, Uses
<1>2. /\ \A e \in EntriesIn(is) :
           /\ Unsold(is, f, e) \in Int
           /\ Unsold(is, g, e) = Unsold(is, f, e) + (IF e = x THEN d ELSE 0)
                                   - (IF x \in ExitsAfter(is, e) THEN d ELSE 0)
      /\ \A t \in Tokens :
           /\ Holding(is, f, t) \in Int
           /\ Holding(is, g, t) = Holding(is, f, t)
                + (IF i.use = "entry" /\ i.token = t THEN d ELSE 0)
                - (IF i.use = "exit" /\ i.token = t THEN d ELSE 0)
  <2>1. ASSUME NEW c \in EntriesIn(is)
        PROVE  /\ Unsold(is, f, c) \in Int
               /\ Unsold(is, g, c) = Unsold(is, f, c) + (IF c = x THEN d ELSE 0)
                                       - (IF x \in ExitsAfter(is, c) THEN d ELSE 0)
    BY UnsoldMoves
  <2>2. ASSUME NEW t \in Tokens
        PROVE  /\ Holding(is, f, t) \in Int
               /\ Holding(is, g, t) = Holding(is, f, t)
                    + (IF i.use = "entry" /\ i.token = t THEN d ELSE 0)
                    - (IF i.use = "exit" /\ i.token = t THEN d ELSE 0)
    <3>1. /\ x \in OfToken(is, EntriesIn(is), t) <=> i.use = "entry" /\ i.token = t
          /\ x \in OfToken(is, ExitsIn(is), t) <=> i.use = "exit" /\ i.token = t
      BY DEF OfToken, EntriesIn, ExitsIn
    <3>2. /\ Holding(is, f, t) \in Int
          /\ Holding(is, g, t) = Holding(is, f, t)
               + (IF x \in OfToken(is, EntriesIn(is), t) THEN d ELSE 0)
               - (IF x \in OfToken(is, ExitsIn(is), t) THEN d ELSE 0)
      BY HoldingMoves
    <3> QED
      BY <3>1, <3>2, Zenon
  <2> QED
    BY <2>1, <2>2
<1>3. /\ \A e \in EntriesIn(is) : Unsold(is, f, e) = IF Last(is, e) THEN Managed(r) ELSE 0
      /\ \A t \in Tokens : Holding(is, f, t) = IF r.token = t THEN Managed(r) ELSE 0
  BY DEF Rounds
<1>4. Managed(r) \in Int
  BY DEF Managed, Wide
<1>5. \A e : x \in ExitsAfter(is, e) => i.use = "exit"
  BY DEF ExitsAfter, ExitsIn
<1>6. \A e \in EntriesIn(is) : e = x => i.use = "entry"
  BY DEF EntriesIn
<1>7. CASE d = 0
  <2>1. q = r
    BY <1>7 DEF Told
  <2> HIDE DEF q
  <2>2. \A e \in EntriesIn(is) : Unsold(is, g, e) = Unsold(is, f, e)
    BY <1>2, <1>7
  <2>3. \A t \in Tokens : Holding(is, g, t) = Holding(is, f, t)
    BY <1>2, <1>7
  <2> QED
    BY <1>3, <2>1, <2>2, <2>3 DEF Rounds, q
<1>8. CASE d > 0 /\ i.use = "snipe"
  <2>1. q = r
    BY <1>8 DEF Told
  <2> HIDE DEF q
  <2>2. ASSUME NEW e \in EntriesIn(is)
        PROVE  Unsold(is, g, e) = Unsold(is, f, e)
    <3>1. e # x /\ x \notin ExitsAfter(is, e)
      BY <1>5, <1>6, <1>8
    <3> HIDE DEF i
    <3> QED
      BY <1>2, <3>1
  <2>3. \A t \in Tokens : Holding(is, g, t) = Holding(is, f, t)
    BY <1>2, <1>8
  <2> QED
    BY <1>3, <2>1, <2>2, <2>3 DEF Rounds, q
<1>9. CASE d > 0 /\ i.use = "entry"
  <2>1. q.open /\ q.token = i.token /\ q.shares = d
    BY <1>1, <1>9, ToldIs
  <2>2. Managed(q) = d /\ Managed(r) = 0
    BY <1>9, <2>1 DEF Managed
  <2> HIDE DEF q
  <2>3. ASSUME NEW e \in EntriesIn(is)
        PROVE  Unsold(is, g, e) = IF Last(is, e) THEN Managed(q) ELSE 0
    <3>1. x \in EntriesIn(is) /\ Last(is, x)
      BY <1>9 DEF EntriesIn
    <3>2. Unsold(is, g, e) = IF e = x THEN d ELSE 0
      <4>1. x \notin ExitsAfter(is, e)
        BY <1>5, <1>9
      <4>2. Unsold(is, f, e) = 0
        BY <1>3, <2>2
      <4>3. Unsold(is, g, e) = Unsold(is, f, e) + (IF e = x THEN d ELSE 0)
                               - (IF x \in ExitsAfter(is, e) THEN d ELSE 0)
        BY <1>2
      <4> HIDE DEF i
      <4> QED
        BY <4>1, <4>2, <4>3
    <3> QED
      BY <2>2, <3>1, <3>2, OneRound
  <2>4. \A t \in Tokens : Holding(is, g, t) = IF q.token = t THEN Managed(q) ELSE 0
    BY <1>2, <1>3, <1>9, <2>1, <2>2
  <2> QED
    BY <2>3, <2>4 DEF Rounds, q
<1>10. CASE d > 0 /\ i.use = "exit"
  <2>1. PICK e \in EntriesIn(is) : x \in ExitsAfter(is, e) /\ i.token = is[e].token
    BY <1>10
  <2>2. \A c \in EntriesIn(is) : x \in ExitsAfter(is, c) <=> c = e
    BY <2>1, OneRound
  <2>3. ASSUME NEW c \in EntriesIn(is)
        PROVE  Unsold(is, g, c) = Unsold(is, f, c) - (IF c = e THEN d ELSE 0)
    <3>1. c # x /\ (x \in ExitsAfter(is, c) <=> c = e)
      BY <1>6, <1>10, <2>2
    <3>2. /\ Unsold(is, f, c) \in Int
          /\ Unsold(is, g, c) = Unsold(is, f, c) + (IF c = x THEN d ELSE 0)
                                  - (IF x \in ExitsAfter(is, c) THEN d ELSE 0)
      BY <1>2
    <3> HIDE DEF i
    <3> QED
      BY <3>1, <3>2
  <2>4. Unsold(is, g, e) >= 0
    BY <1>2, <2>3 DEF Over
  <2>5. Last(is, e) /\ Managed(r) >= d
    BY <1>2, <1>3, <1>4, <1>10, <2>3, <2>4
  <2>6. r.open /\ r.shares >= d /\ Managed(r) = r.shares
    BY <1>10, <2>5 DEF Managed
  <2>7. r.token = i.token
    BY <2>1, <2>5, <2>6, OneRound
  <2>8. /\ q.token = r.token
        /\ r.shares <= d => ~q.open /\ q.shares = 0
        /\ r.shares > d => q.open /\ q.shares = r.shares - d
    <3> HIDE DEF i
    <3> QED
      BY <1>1, <1>10, <2>6, ToldIs
  <2> HIDE DEF q
  <2>9. Managed(q) = Managed(r) - d
    <3>1. r.shares \in Int
      BY DEF Wide
    <3> QED
      BY <2>6, <2>8, <3>1 DEF Managed
  <2>10. ASSUME NEW c \in EntriesIn(is)
         PROVE  Unsold(is, g, c) = IF Last(is, c) THEN Managed(q) ELSE 0
    <3>1. Last(is, c) <=> c = e
      BY <2>5, OneRound
    <3>2. Unsold(is, f, c) = IF c = e THEN Managed(r) ELSE 0
      BY <1>3, <3>1
    <3> QED
      BY <1>4, <2>3, <2>9, <3>1, <3>2
  <2>11. \A t \in Tokens : Holding(is, g, t) = IF q.token = t THEN Managed(q) ELSE 0
    BY <1>2, <1>3, <1>4, <1>10, <2>7, <2>8, <2>9
  <2> QED
    BY <2>10, <2>11 DEF Rounds, q
<1> QED
  BY <1>1, <1>7, <1>8, <1>9, <1>10

(* What the scalper can hold on the way, from the entry still on its way.    *)
LEMMA HeldOnTheWay ==
  ASSUME NEW ph \in Phases, NEW n \in Nat, NEW is \in [1 .. n -> Intents],
         NEW f \in [1 .. n -> Nat], NEW g \in [1 .. n -> Nat],
         \A j \in 1 .. n : f[j] <= g[j],
         NEW live, NEW s \in Wide, NEW st, Book(ph, is, f, live, s, st),
         NEW k \in 0 .. n, NEW r \in Wide, Opens(r, s, is, g, live, k)
  PROVE  /\ r.open => \E e \in EntriesIn(is) : HeldOf(is, g, r, e)
         /\ \A j \in EntriesIn(is) \cap live : (k < j \/ ~(g[j] > 0)) => ~r.open
         /\ ph = "closed" => ~r.open
         /\ \A j \in EntriesIn(is) \cap live : Last(is, j)
<1>1. \A j \in EntriesIn(is) \cap live : s.pending = j /\ ~s.open /\ Last(is, j) /\ ph # "closed"
  BY DEF Book, EntriesGood, Phases
<1>2. s.open => /\ ph # "closed"
                /\ \E e \in EntriesIn(is) : HeldOf(is, f, s, e)
  BY DEF Book, EntriesGood, ExitsGood
<1>3. r.open => \/ s.open /\ r.token = s.token /\ r.shares <= s.shares
                \/ \E j \in 1 .. k : /\ j \in EntriesIn(is) \cap live /\ g[j] > 0
                                     /\ r.token = is[j].token /\ r.shares <= g[j]
  BY DEF Opens
<1>4. ASSUME NEW j \in EntriesIn(is) \cap live, k < j \/ ~(g[j] > 0), r.open
      PROVE  FALSE
  <2>1. PICK l \in 1 .. k : l \in EntriesIn(is) \cap live /\ g[l] > 0
    BY <1>1, <1>3, <1>4
  <2>2. l = j
    BY <1>1, <2>1
  <2> QED
    BY <1>4, <2>1, <2>2
<1>5. r.open => \E e \in EntriesIn(is) : HeldOf(is, g, r, e)
  <2>1. CASE s.open /\ r.token = s.token /\ r.shares <= s.shares
    <3>1. PICK e \in EntriesIn(is) : HeldOf(is, f, s, e)
      BY <1>2, <2>1
    <3>2. e \in 1 .. n
      BY DomainsAre
    <3>3. f[e] \in Nat /\ g[e] \in Nat /\ f[e] <= g[e] /\ r.shares \in Int /\ s.shares \in Int
      BY <3>2 DEF Wide
    <3>4. r.shares <= g[e]
      BY <2>1, <3>1, <3>3 DEF HeldOf
    <3> QED
      BY <2>1, <3>1, <3>4 DEF HeldOf
  <2>2. ASSUME NEW j \in EntriesIn(is) \cap live, r.token = is[j].token, r.shares <= g[j]
        PROVE  HeldOf(is, g, r, j)
    BY <1>1, <2>2 DEF HeldOf
  <2> QED
    BY <1>3, <2>1, <2>2
<1>6. ph = "closed" => ~r.open
  BY <1>1, <1>2, <1>3
<1> QED
  BY <1>1, <1>4, <1>5, <1>6

(* Filled up to the order k, the book is sold no more than in the end.       *)
Midway(n, f, g, k) == [j \in 1 .. n |-> IF j <= k THEN g[j] ELSE f[j]]

LEMMA LandsIs ==
  ASSUME NEW ph \in Phases, NEW n \in Nat, NEW is \in [1 .. n -> Intents],
         NEW f \in [1 .. n -> Nat], NEW g \in [1 .. n -> Nat],
         NEW live, NEW ended, NEW s, NEW st,
         Book(ph, is, f, live, s, st), Lands(n, is, f, g, live, ended)
  PROVE  /\ \A j \in 1 .. n : f[j] <= g[j] /\ (g[j] # f[j] => j \in live)
         /\ \A e \in EntriesIn(is) \cap live : ExitsAfter(is, e) = {}
<1>1. \A j \in 1 .. n : f[j] <= g[j] /\ (g[j] # f[j] => j \in live)
  <2>1. \A j \in live : f[j] = 0
    BY DEF Book, Fits
  <2>2. \A j \in (1 .. n) \ live : g[j] = f[j]
    BY DEF Lands
  <2> QED
    BY <2>1, <2>2
<1>2. ASSUME NEW e \in EntriesIn(is) \cap live, NEW k \in ExitsAfter(is, e)
      PROVE  FALSE
  <2>1. k \in ExitsIn(is)
    BY DEF ExitsAfter
  <2>2. PICK c \in EntriesIn(is) \ live : k \in ExitsAfter(is, c)
    BY <2>1 DEF Book, ExitsGood, ExitOf
  <2>3. c = e
    BY <1>2, <2>2, OneRound
  <2> QED
    BY <2>2, <2>3
<1> QED
  BY <1>1, <1>2

LEMMA NeverOver ==
  ASSUME NEW ph \in Phases, NEW n \in Nat, NEW is \in [1 .. n -> Intents],
         NEW f \in [1 .. n -> Nat], NEW g \in [1 .. n -> Nat],
         NEW live, NEW ended, NEW s, NEW st,
         Book(ph, is, f, live, s, st), Lands(n, is, f, g, live, ended),
         NEW h \in [1 .. n -> Nat],
         \A j \in 1 .. n : h[j] <= g[j] /\ (h[j] # g[j] => j \in live),
         ~Over(is, g)
  PROVE  ~Over(is, h)
<1>1. SUFFICES ASSUME NEW e \in EntriesIn(is), Unsold(is, h, e) < 0
               PROVE  FALSE
  BY DEF Over
<1> DEFINE K == ExitsAfter(is, e)
<1>2. e \in 1 .. n /\ K \in SUBSET (1 .. n)
  BY DomainsAre
<1>3. CASE e \in live
  <2>1. K = {}
    BY <1>3, LandsIs
  <2>2. Total(h, K) = 0
    BY <2>1, TotalOfOne, Zenon
  <2>3. Unsold(is, h, e) = h[e] - Total(h, K)
    BY DEF Unsold
  <2> HIDE DEF K
  <2> QED
    BY <1>1, <1>2, <2>2, <2>3
<1>4. CASE e \notin live
  <2>1. h[e] = g[e] /\ g[e] \in Int
    BY <1>2, <1>4
  <2>2. Unsold(is, h, e) = h[e] - Total(h, K) /\ Unsold(is, g, e) = g[e] - Total(g, K)
    BY DEF Unsold
  <2>3. \A y \in K : h[y] <= g[y]
    BY <1>2
  <2> HIDE DEF K
  <2>4. Total(h, K) \in Int /\ Total(g, K) \in Int /\ Total(h, K) <= Total(g, K)
    BY <1>2, <2>3, TotalGrows
  <2>5. Unsold(is, g, e) < 0
    BY <1>1, <2>1, <2>2, <2>4
  <2> QED
    BY <2>5 DEF Over
<1> QED
  BY <1>3, <1>4

LEMMA RoundsLand ==
  ASSUME NEW ph \in Phases, ph # "closed", NEW n \in Nat, NEW is \in [1 .. n -> Intents],
         NEW f \in [1 .. n -> Nat], NEW g \in [1 .. n -> Nat],
         NEW live, NEW ended, NEW s \in Scalps, NEW st,
         Book(ph, is, f, live, s, st), Lands(n, is, f, g, live, ended),
         NEW told, IsChain(told, s, n, is, f, g), ~Over(is, g)
  PROVE  Rounds(is, g, told[n])
<1> DEFINE Mix(k) == Midway(n, f, g, k)
           Q      == {k \in 0 .. n : Rounds(is, Mix(k), told[k])}
<1>1. \A k \in 0 .. n : Mix(k) \in [1 .. n -> Nat]
  BY DEF Midway
<1>2. Mix(0) = f /\ Mix(n) = g
  BY DEF Midway
<1>3. \A k \in 0 .. n : \A j \in 1 .. n : Mix(k)[j] = IF j <= k THEN g[j] ELSE f[j]
  BY DEF Midway
<1> HIDE DEF Mix
<1>4. /\ \A j \in 1 .. n : f[j] <= g[j] /\ (g[j] # f[j] => j \in live)
      /\ \A e \in EntriesIn(is) \cap live : ExitsAfter(is, e) = {}
  BY LandsIs
<1>5. ASSUME NEW k \in 0 .. n
      PROVE  ~Over(is, Mix(k))
  <2>1. \A j \in 1 .. n : Mix(k)[j] <= g[j] /\ (Mix(k)[j] # g[j] => j \in live)
    BY <1>3, <1>4
  <2> QED
    BY <1>1, <2>1, NeverOver
<1>6. 0 \in Q
  <2>1. 0 \in 0 .. n /\ told[0] = s
    BY DEF IsChain
  <2>2. ~Over(is, f)
    BY <1>2, <1>5, <2>1
  <2>3. Rounds(is, f, s)
    BY <2>2 DEF Book
  <2> QED
    BY <1>2, <2>1, <2>3
<1>7. ASSUME NEW k \in 1 .. n, k - 1 \in Q
      PROVE  k \in Q
  <2> DEFINE d == g[k] - f[k]
             r == told[k - 1]
             a == Mix(k - 1)
             b == Mix(k)
  <2>1. k - 1 \in 0 .. n /\ k \in 0 .. n /\ d \in Int /\ d >= 0
    BY <1>4
  <2>2. Moves(n, a, b, k, d)
    <3>1. a \in [1 .. n -> Nat] /\ b \in [1 .. n -> Nat]
      BY <1>1, <2>1
    <3>2. b[k] = a[k] + d
      BY <1>3, <2>1
    <3>3. \A y \in (1 .. n) \ {k} : b[y] = a[y]
      BY <1>3, <2>1
    <3> HIDE DEF a, b, d
    <3> QED
      BY <2>1, <3>1, <3>2, <3>3 DEF Moves
  <2>3. Rounds(is, a, r) /\ ~Over(is, b)
    BY <1>5, <1>7, <2>1
  <2>4. told[k] = Told(r, is[k], d) /\ r \in Wide
    BY <2>1 DEF IsChain
  <2>5. Legal(r, s) /\ Opens(r, s, is, g, live, k - 1)
    BY <2>1, ToldIsLegal
  <2>6. /\ r.open => \E e \in EntriesIn(is) : Last(is, e) /\ r.token = is[e].token
        /\ \A j \in EntriesIn(is) \cap live : (k - 1 < j \/ ~(g[j] > 0)) => ~r.open
        /\ ph = "closed" => ~r.open
        /\ \A j \in EntriesIn(is) \cap live : Last(is, j)
    <3> DEFINE l == k - 1
    <3>1. l \in 0 .. n
      BY <2>1
    <3> HIDE DEF r, l
    <3>2. /\ r.open => \E e \in EntriesIn(is) : Last(is, e) /\ r.token = is[e].token
          /\ \A j \in EntriesIn(is) \cap live : (l < j \/ ~(g[j] > 0)) => ~r.open
          /\ ph = "closed" => ~r.open
          /\ \A j \in EntriesIn(is) \cap live : Last(is, j)
      <4>1. Opens(r, s, is, g, live, l)
        BY <2>5 DEF l
      <4>2. r \in Wide /\ s \in Wide /\ \A j \in 1 .. n : f[j] <= g[j]
        BY <1>4, <2>4, WideIs
      <4>3. /\ r.open => \E e \in EntriesIn(is) : HeldOf(is, g, r, e)
            /\ \A j \in EntriesIn(is) \cap live : (l < j \/ ~(g[j] > 0)) => ~r.open
            /\ ph = "closed" => ~r.open
            /\ \A j \in EntriesIn(is) \cap live : Last(is, j)
        BY <3>1, <4>1, <4>2, HeldOnTheWay
      <4> QED
        BY <4>3 DEF HeldOf
    <3> QED
      BY <3>2 DEF l
  <2>7. d > 0 /\ is[k].use = "entry" => Last(is, k) /\ ~r.open
    <3>1. SUFFICES ASSUME d > 0, is[k].use = "entry"
                   PROVE  Last(is, k) /\ ~r.open
      OBVIOUS
    <3>2. k \in EntriesIn(is) \cap live
      BY <1>4, <2>1, <3>1 DEF EntriesIn
    <3> QED
      BY <2>6, <3>2
  <2>8. is[k].use = "exit" => \E e \in EntriesIn(is) :
          k \in ExitsAfter(is, e) /\ is[k].token = is[e].token
    BY DEF Book, ExitsGood, ExitOf, ExitsIn
  <2>9. r.open => r.shares > 0
    BY <2>5 DEF Legal
  <2> HIDE DEF d, r, a, b
  <2>10. Rounds(is, b, Told(r, is[k], d))
    BY <2>1, <2>2, <2>3, <2>4, <2>6, <2>7, <2>8, <2>9, RoundsFollow
  <2> QED
    BY <2>1, <2>4, <2>10 DEF b
<1> HIDE DEF Q
<1>8. n \in Q
  <2>1. n \in 0 .. n
    OBVIOUS
  <2> QED
    BY <1>6, <1>7, <2>1, Reaches
<1> QED
  BY <1>2, <1>8 DEF Q

(* What is due at the exchange, and the scalper told of it, keep the book.   *)
LEMMA LandBook ==
  ASSUME NEW ph \in Phases, NEW n \in Nat, NEW is \in [1 .. n -> Intents],
         NEW f \in [1 .. n -> Nat], NEW g \in [1 .. n -> Nat],
         NEW live, NEW ended, NEW s \in Scalps, NEW st,
         Book(ph, is, f, live, s, st), Lands(n, is, f, g, live, ended),
         NEW told, IsChain(told, s, n, is, f, g)
  PROVE  /\ Book(ph, is, g, live \ ended, told[n], st)
         /\ told[n] \in Scalps /\ told[n].pending = s.pending
<1> DEFINE r == told[n]
           rest == live \ ended
<1>1. n \in 0 .. n
  OBVIOUS
<1>2. Legal(r, s) /\ Opens(r, s, is, g, live, n)
  BY <1>1, ToldIsLegal
<1>3. /\ r \in Scalps /\ r.pending = s.pending /\ (r.open => r.shares > 0)
  BY <1>2 DEF Legal
<1> HIDE DEF r
<1>0. /\ \A j \in 1 .. n : f[j] <= g[j] /\ (g[j] # f[j] => j \in live)
      /\ \A e \in EntriesIn(is) \cap live : ExitsAfter(is, e) = {}
  BY LandsIs
<1>4. /\ r.open => \E e \in EntriesIn(is) : HeldOf(is, g, r, e)
      /\ \A j \in EntriesIn(is) \cap live : (n < j \/ ~(g[j] > 0)) => ~r.open
      /\ ph = "closed" => ~r.open
      /\ \A j \in EntriesIn(is) \cap live : Last(is, j)
  <2>1. r \in Wide /\ s \in Wide /\ \A j \in 1 .. n : f[j] <= g[j]
    BY <1>3, <1>0, WideIs
  <2> QED
    BY <1>1, <1>2, <2>1, HeldOnTheWay
<1>5. Fits(is, g, rest) /\ Total(Sizes(is), BuysIn(is)) = st
  <2>1. \A k \in DOMAIN is : g[k] <= is[k].size
    BY DEF Lands
  <2>2. \A k \in rest : g[k] = 0
    BY DEF Lands
  <2> QED
    BY <2>1, <2>2 DEF Book, Fits
<1>6. EntriesGood(ph, is, rest, r)
  <2>1. ASSUME ph \in {"mid", "armed"}, NEW k \in EntriesIn(is) \cap rest
        PROVE  r.pending = k /\ ~r.open /\ Last(is, k)
    <3>1. s.pending = k
      BY <2>1 DEF Book, EntriesGood
    <3>2. k \in EntriesIn(is) \cap live /\ g[k] = 0
      BY DEF Lands
    <3>3. ~(g[k] > 0)
      BY <3>2
    <3> QED
      BY <1>3, <1>4, <3>1, <3>2, <3>3
  <2>2. ph \in {"lockout", "closed"} => EntriesIn(is) \cap rest = {}
    BY DEF Book, EntriesGood
  <2> HIDE DEF rest
  <2> QED
    BY <1>3, <1>4, <2>1, <2>2 DEF EntriesGood
<1>7. ExitsGood(is, g, rest, r)
  <2>1. ASSUME NEW k \in ExitsIn(is)
        PROVE  \E e \in EntriesIn(is) \ rest : ExitOf(is, g, k, e)
    <3>1. PICK e \in EntriesIn(is) \ live : ExitOf(is, f, k, e)
      BY DEF Book, ExitsGood
    <3>2. e \in 1 .. n
      BY DomainsAre
    <3>3. g[e] = f[e]
      BY <1>0, <3>1, <3>2
    <3> QED
      BY <3>1, <3>3 DEF ExitOf
  <2> HIDE DEF rest
  <2> QED
    BY <1>4, <2>1 DEF ExitsGood
<1>8. ph # "closed" /\ ~Over(is, g) => Rounds(is, g, r)
  BY RoundsLand DEF r
<1> QED
  BY <1>3, <1>5, <1>6, <1>7, <1>8 DEF Book, r

-----------------------------------------------------------------------------
(* One more order.                                                           *)
Asked(n, is, js, i) ==
  /\ n \in Nat /\ i \in Intents
  /\ is \in [1 .. n -> Intents] /\ js \in [1 .. n + 1 -> Intents]
  /\ js[n + 1] = i /\ \A y \in 1 .. n : js[y] = is[y]

Extends(n, f, g) ==
  /\ n \in Nat /\ f \in [1 .. n -> Nat] /\ g \in [1 .. n + 1 -> Nat]
  /\ \A y \in 1 .. n : g[y] = f[y]

LEMMA TotalSplits ==
  ASSUME NEW n, NEW f, NEW g, Extends(n, f, g), NEW K \in SUBSET (1 .. n + 1)
  PROVE  /\ Total(f, K \ {n + 1}) \in Int
         /\ n + 1 \in K => Total(g, K) = Total(f, K \ {n + 1}) + g[n + 1]
         /\ n + 1 \notin K => Total(g, K) = Total(f, K \ {n + 1})
<1>1. /\ n \in Nat /\ f \in [1 .. n -> Nat] /\ g \in [1 .. n + 1 -> Nat]
      /\ \A y \in 1 .. n : g[y] = f[y]
  BY DEF Extends
<1> DEFINE M == K \ {n + 1}
<1>2. M \in SUBSET (1 .. n)
  BY <1>1
<1>3. (n + 1 \in K => K = M \cup {n + 1}) /\ (n + 1 \notin K => K = M)
  OBVIOUS
<1> HIDE DEF M
<1>4. /\ Total(f, M) \in Int
      /\ Total(g, M) = Total(f, M)
      /\ Total(g, M \cup {n + 1}) = Total(f, M) + g[n + 1]
  <2>1. n \in Nat /\ f \in [1 .. n -> Nat] /\ g \in [1 .. n + 1 -> Nat]
    BY <1>1
  <2>2. \A y \in 1 .. n : g[y] = f[y]
    BY <1>1
  <2> QED
    BY <1>2, <2>1, <2>2, TotalExtends, Zenon
<1>5. /\ n + 1 \in K => Total(g, K) = Total(f, M) + g[n + 1]
      /\ n + 1 \notin K => Total(g, K) = Total(f, M)
  BY <1>3, <1>4, Zenon
<1> QED
  BY <1>4, <1>5 DEF M

LEMMA SetsExtend ==
  ASSUME NEW n, NEW is, NEW js, NEW i, Asked(n, is, js, i)
  PROVE  /\ EntriesIn(js) \subseteq 1 .. n + 1 /\ ExitsIn(js) \subseteq 1 .. n + 1
         /\ BuysIn(js) \subseteq 1 .. n + 1
         /\ EntriesIn(js) \ {n + 1} = EntriesIn(is) /\ ExitsIn(js) \ {n + 1} = ExitsIn(is)
         /\ BuysIn(js) \ {n + 1} = BuysIn(is)
         /\ n + 1 \in EntriesIn(js) <=> i.use = "entry"
         /\ n + 1 \in ExitsIn(js) <=> i.use = "exit"
         /\ n + 1 \in BuysIn(js) <=> i.use # "exit"
<1>1. /\ n \in Nat /\ i \in Intents
      /\ is \in [1 .. n -> Intents] /\ js \in [1 .. n + 1 -> Intents]
      /\ js[n + 1] = i /\ \A y \in 1 .. n : js[y] = is[y]
  BY DEF Asked
<1>2. DOMAIN js = 1 .. n + 1 /\ DOMAIN is = 1 .. n /\ (1 .. n + 1) \ {n + 1} = 1 .. n
      /\ n + 1 \in 1 .. n + 1
  BY <1>1
<1>3. EntriesIn(js) \ {n + 1} = EntriesIn(is) /\ (n + 1 \in EntriesIn(js) <=> i.use = "entry")
  BY <1>1, <1>2 DEF EntriesIn
<1>4. ExitsIn(js) \ {n + 1} = ExitsIn(is) /\ (n + 1 \in ExitsIn(js) <=> i.use = "exit")
  BY <1>1, <1>2 DEF ExitsIn
<1>5. BuysIn(js) \ {n + 1} = BuysIn(is) /\ (n + 1 \in BuysIn(js) <=> i.use # "exit")
  BY <1>1, <1>2 DEF BuysIn
<1> QED
  BY <1>2, <1>3, <1>4, <1>5 DEF EntriesIn, ExitsIn, BuysIn

LEMMA RoundsExtend ==
  ASSUME NEW n, NEW is, NEW js, NEW i, Asked(n, is, js, i)
  PROVE  /\ \A e \in EntriesIn(is) :
              /\ e \in EntriesIn(js) /\ e \in 1 .. n
              /\ ExitsAfter(js, e) \ {n + 1} = ExitsAfter(is, e)
              /\ Last(js, e) <=> Last(is, e) /\ i.use # "entry"
         /\ \A e : ExitsAfter(js, e) \subseteq 1 .. n + 1
         /\ ExitsAfter(js, n + 1) = {}
         /\ i.use = "entry" => Last(js, n + 1)
         /\ \A t : /\ OfToken(js, EntriesIn(js), t) \ {n + 1} = OfToken(is, EntriesIn(is), t)
                   /\ OfToken(js, ExitsIn(js), t) \ {n + 1} = OfToken(is, ExitsIn(is), t)
                   /\ OfToken(js, EntriesIn(js), t) \subseteq 1 .. n + 1
                   /\ OfToken(js, ExitsIn(js), t) \subseteq 1 .. n + 1
<1>1. /\ n \in Nat /\ i \in Intents
      /\ is \in [1 .. n -> Intents] /\ js \in [1 .. n + 1 -> Intents]
      /\ js[n + 1] = i /\ \A y \in 1 .. n : js[y] = is[y]
  BY DEF Asked
<1>2. /\ EntriesIn(js) \subseteq 1 .. n + 1 /\ ExitsIn(js) \subseteq 1 .. n + 1
      /\ EntriesIn(js) \ {n + 1} = EntriesIn(is) /\ ExitsIn(js) \ {n + 1} = ExitsIn(is)
      /\ n + 1 \in EntriesIn(js) <=> i.use = "entry"
  BY SetsExtend
<1>3. ASSUME NEW e \in EntriesIn(is)
      PROVE  /\ e \in EntriesIn(js) /\ e \in 1 .. n
             /\ ExitsAfter(js, e) \ {n + 1} = ExitsAfter(is, e)
             /\ Last(js, e) <=> Last(is, e) /\ i.use # "entry"
  <2>1. e \in EntriesIn(js) /\ e \in 1 .. n
    BY <1>1, <1>2, DomainsAre
  <2>2. ASSUME NEW k \in ExitsIn(is)
        PROVE  k \in ExitsAfter(js, e) <=> k \in ExitsAfter(is, e)
    <3>1. k \in 1 .. n /\ k \in ExitsIn(js)
      BY <1>1, <1>2, DomainsAre
    <3>2. \A l \in e + 1 .. k : js[l] = is[l]
      BY <1>1, <2>1, <3>1
    <3> QED
      BY <3>1, <3>2 DEF ExitsAfter
  <2>3. ExitsAfter(js, e) \subseteq ExitsIn(js) /\ ExitsAfter(is, e) \subseteq ExitsIn(is)
    BY DEF ExitsAfter
  <2>4. ExitsAfter(js, e) \ {n + 1} = ExitsAfter(is, e)
    BY <1>2, <2>2, <2>3
  <2>5. Last(js, e) <=> Last(is, e) /\ i.use # "entry"
    <3>1. ~(n + 1 <= e)
      BY <1>1, <2>1
    <3> QED
      BY <1>2, <3>1 DEF Last
  <2> QED
    BY <2>1, <2>4, <2>5
<1>4. \A e : ExitsAfter(js, e) \subseteq 1 .. n + 1
  BY <1>2 DEF ExitsAfter
<1>5. ExitsAfter(js, n + 1) = {}
  <2>1. \A k \in 1 .. n + 1 : ~(n + 1 < k)
    BY <1>1
  <2> QED
    BY <1>2, <2>1 DEF ExitsAfter
<1>6. Last(js, n + 1)
  BY <1>1, <1>2 DEF Last
<1>7. ASSUME NEW t
      PROVE  /\ OfToken(js, EntriesIn(js), t) \ {n + 1} = OfToken(is, EntriesIn(is), t)
             /\ OfToken(js, ExitsIn(js), t) \ {n + 1} = OfToken(is, ExitsIn(is), t)
             /\ OfToken(js, EntriesIn(js), t) \subseteq 1 .. n + 1
             /\ OfToken(js, ExitsIn(js), t) \subseteq 1 .. n + 1
  <2>1. \A k \in EntriesIn(is) \cup ExitsIn(is) : js[k] = is[k]
    BY <1>1, DomainsAre
  <2> QED
    BY <1>2, <2>1 DEF OfToken
<1> QED
  BY <1>3, <1>4, <1>5, <1>6, <1>7

LEMMA UnsoldExtends ==
  ASSUME NEW n, NEW is, NEW js, NEW i, Asked(n, is, js, i),
         NEW f, NEW g, Extends(n, f, g), g[n + 1] = 0
  PROVE  /\ \A e \in EntriesIn(is) : Unsold(js, g, e) = Unsold(is, f, e)
         /\ Unsold(js, g, n + 1) = 0
         /\ \A t \in Tokens : Holding(js, g, t) = Holding(is, f, t)
<1>1. ASSUME NEW K \in SUBSET (1 .. n + 1)
      PROVE  Total(g, K) = Total(f, K \ {n + 1})
  <2>1. /\ Total(f, K \ {n + 1}) \in Int
        /\ n + 1 \in K => Total(g, K) = Total(f, K \ {n + 1}) + g[n + 1]
        /\ n + 1 \notin K => Total(g, K) = Total(f, K \ {n + 1})
    BY TotalSplits
  <2> QED
    BY <2>1
<1>2. ASSUME NEW e \in EntriesIn(is)
      PROVE  Unsold(js, g, e) = Unsold(is, f, e)
  <2> DEFINE K == ExitsAfter(js, e)
  <2>1. K \in SUBSET (1 .. n + 1) /\ K \ {n + 1} = ExitsAfter(is, e) /\ e \in 1 .. n
    BY RoundsExtend
  <2>2. g[e] = f[e]
    BY <2>1 DEF Extends
  <2>3. Unsold(js, g, e) = g[e] - Total(g, K) /\ Unsold(is, f, e) = f[e] - Total(f, ExitsAfter(is, e))
    BY DEF Unsold
  <2> HIDE DEF K
  <2>4. Total(g, K) = Total(f, K \ {n + 1})
    BY <1>1, <2>1
  <2> QED
    BY <2>1, <2>2, <2>3, <2>4
<1>3. Unsold(js, g, n + 1) = 0
  <2>1. ExitsAfter(js, n + 1) = {}
    BY RoundsExtend
  <2>2. n + 1 \in Nat /\ g \in [1 .. n + 1 -> Nat]
    BY DEF Extends
  <2>3. Total(g, {}) = 0
    BY <2>2, TotalOfOne
  <2>4. Unsold(js, g, n + 1) = g[n + 1] - Total(g, {})
    BY <2>1 DEF Unsold
  <2> QED
    BY <2>3, <2>4
<1>4. ASSUME NEW t \in Tokens
      PROVE  Holding(js, g, t) = Holding(is, f, t)
  <2> DEFINE E == OfToken(js, EntriesIn(js), t)
             X == OfToken(js, ExitsIn(js), t)
  <2>1. /\ E \in SUBSET (1 .. n + 1) /\ X \in SUBSET (1 .. n + 1)
        /\ E \ {n + 1} = OfToken(is, EntriesIn(is), t)
        /\ X \ {n + 1} = OfToken(is, ExitsIn(is), t)
    BY RoundsExtend
  <2>2. /\ Holding(js, g, t) = Total(g, E) - Total(g, X)
        /\ Holding(is, f, t) = Total(f, OfToken(is, EntriesIn(is), t)) - Total(f, OfToken(is, ExitsIn(is), t))
    BY DEF Holding
  <2> HIDE DEF E, X
  <2>3. Total(g, E) = Total(f, E \ {n + 1}) /\ Total(g, X) = Total(f, X \ {n + 1})
    BY <1>1, <2>1
  <2> QED
    BY <2>1, <2>2, <2>3
<1> QED
  BY <1>2, <1>3, <1>4

(* The scalper asks for an entry when it has none, for an exit when it holds *)
(* the position, and of no more than that.                                   *)
MayAsk(ph, s, i) ==
  /\ ph # "closed"
  /\ i.use = "entry" => ph = "mid" /\ ~s.open /\ s.pending = 0
  /\ i.use = "exit" => s.open /\ i.token = s.token /\ i.size <= s.shares

Counts(s, st, i, id, z, su) ==
  z = Registered(s, i, id) /\ su = st + IF IsBuy(i) THEN i.size ELSE 0

LEMMA AddBook ==
  ASSUME NEW ph \in Phases, NEW n, NEW is, NEW js, NEW i, Asked(n, is, js, i),
         NEW f, NEW g, Extends(n, f, g), g[n + 1] = 0,
         NEW live \in SUBSET (1 .. n), NEW s \in Scalps, NEW st \in Nat,
         Book(ph, is, f, live, s, st), MayAsk(ph, s, i), n + 1 \in 1 .. MaxOrders,
         NEW z, NEW su, Counts(s, st, i, n + 1, z, su)
  PROVE  Book(ph, js, g, live \cup {n + 1}, z, su) /\ z \in Scalps
<1>0. z = Registered(s, i, n + 1) /\ su = st + IF IsBuy(i) THEN i.size ELSE 0
  BY DEF Counts
<1>1. /\ n \in Nat /\ i \in Intents /\ i.size \in Nat /\ i.use \in {"snipe", "entry", "exit"}
      /\ is \in [1 .. n -> Intents] /\ js \in [1 .. n + 1 -> Intents]
      /\ js[n + 1] = i /\ \A y \in 1 .. n : js[y] = is[y]
  BY DEF Asked, Intents, Uses
<1>2. /\ f \in [1 .. n -> Nat] /\ g \in [1 .. n + 1 -> Nat] /\ \A y \in 1 .. n : g[y] = f[y]
  BY DEF Extends
<1>3. /\ z \in Scalps /\ z.open = s.open /\ z.token = s.token /\ z.shares = s.shares
      /\ i.use = "entry" => z.pending = n + 1
      /\ i.use # "entry" => z = s
  <2>1. CASE i.use = "entry"
    <3>1. n + 1 \in 0 .. MaxOrders
      BY <1>1
    <3>2. z = [s EXCEPT !.pending = n + 1]
      BY <1>0, <2>1 DEF Registered
    <3> QED
      BY <2>1, <3>1, <3>2 DEF Scalps
  <2>2. CASE i.use # "entry"
    BY <1>0, <2>2 DEF Registered
  <2> QED
    BY <2>1, <2>2
<1> DEFINE more == live \cup {n + 1}
<1>4. /\ EntriesIn(js) \ {n + 1} = EntriesIn(is) /\ ExitsIn(js) \ {n + 1} = ExitsIn(is)
      /\ BuysIn(js) \ {n + 1} = BuysIn(is) /\ BuysIn(js) \subseteq 1 .. n + 1
      /\ n + 1 \in EntriesIn(js) <=> i.use = "entry"
      /\ n + 1 \in ExitsIn(js) <=> i.use = "exit"
      /\ n + 1 \in BuysIn(js) <=> i.use # "exit"
  BY SetsExtend
<1>5. n + 1 \notin live /\ n + 1 \notin EntriesIn(is)
  BY <1>1, DomainsAre
<1>6. \A e \in EntriesIn(is) :
        /\ e \in EntriesIn(js) /\ e \in 1 .. n
        /\ ExitsAfter(js, e) \ {n + 1} = ExitsAfter(is, e)
        /\ Last(js, e) <=> Last(is, e) /\ i.use # "entry"
  BY RoundsExtend
<1>7. Fits(js, g, more)
  <2>1. \A k \in DOMAIN is : f[k] <= is[k].size
    BY DEF Book, Fits
  <2>2. \A k \in live : f[k] = 0
    BY DEF Book, Fits
  <2>3. \A k \in DOMAIN js : g[k] <= js[k].size
    <3>1. SUFFICES ASSUME NEW k \in 1 .. n + 1 PROVE g[k] <= js[k].size
      BY <1>1
    <3>2. CASE k = n + 1
      BY <1>1, <3>2
    <3>3. CASE k # n + 1
      <4>1. k \in 1 .. n /\ k \in DOMAIN is
        BY <1>1, <3>3
      <4> QED
        BY <1>1, <1>2, <2>1, <4>1
    <3> QED
      BY <3>2, <3>3
  <2>4. \A k \in more : g[k] = 0
    BY <1>2, <2>2
  <2> QED
    BY <2>3, <2>4 DEF Fits
<1>8. Total(Sizes(js), BuysIn(js)) = su
  <2> DEFINE a == Sizes(is)
             b == Sizes(js)
  <2>1. Extends(n, a, b) /\ b[n + 1] = i.size
    <3>1. \A j \in Intents : j.size \in Nat
      BY DEF Intents
    <3>2. a \in [1 .. n -> Nat] /\ b \in [1 .. n + 1 -> Nat]
      BY <1>1, <3>1 DEF Sizes
    <3>3. b[n + 1] = i.size /\ \A y \in 1 .. n : b[y] = a[y]
      BY <1>1 DEF Sizes
    <3> HIDE DEF a, b
    <3> QED
      BY <1>1, <3>2, <3>3 DEF Extends
  <2>2. Total(a, BuysIn(is)) = st
    BY DEF Book
  <2> HIDE DEF a, b
  <2> DEFINE K == BuysIn(js)
  <2>3. K \in SUBSET (1 .. n + 1) /\ K \ {n + 1} = BuysIn(is) /\ (n + 1 \in K <=> IsBuy(i))
    BY <1>4 DEF IsBuy
  <2> HIDE DEF K
  <2>4. /\ n + 1 \in K => Total(b, K) = Total(a, K \ {n + 1}) + b[n + 1]
        /\ n + 1 \notin K => Total(b, K) = Total(a, K \ {n + 1})
    BY <2>1, <2>3, TotalSplits
  <2>5. CASE IsBuy(i)
    <3>1. Total(b, K) = st + i.size
      BY <2>1, <2>2, <2>3, <2>4, <2>5
    <3> QED
      BY <1>0, <2>5, <3>1 DEF K, b
  <2>6. CASE ~IsBuy(i)
    <3>1. Total(b, K) = st
      BY <2>1, <2>2, <2>3, <2>4, <2>6
    <3> QED
      BY <1>0, <1>1, <2>6, <3>1 DEF K, b
  <2> QED
    BY <2>5, <2>6
<1>9. EntriesIn(is) \cap live # {} => ph \in {"mid", "armed"} /\ s.pending # 0 /\ ~s.open
  <2>1. SUFFICES ASSUME NEW k \in EntriesIn(is) \cap live
                 PROVE  ph \in {"mid", "armed"} /\ s.pending # 0 /\ ~s.open
    OBVIOUS
  <2>2. ph \in {"mid", "armed"}
    BY DEF Book, EntriesGood, Phases
  <2>3. s.pending = k /\ ~s.open
    BY <2>2 DEF Book, EntriesGood
  <2> QED
    BY <2>2, <2>3
<1>10. EntriesGood(ph, js, more, z)
  <2>1. ASSUME ph \in {"mid", "armed"}, NEW k \in EntriesIn(js) \cap more
        PROVE  z.pending = k /\ ~z.open /\ Last(js, k)
    <3>1. CASE k = n + 1
      <4>1. i.use = "entry"
        BY <1>4, <3>1
      <4>2. Last(js, n + 1)
        BY <4>1, RoundsExtend
      <4> QED
        BY <1>3, <3>1, <4>1, <4>2 DEF MayAsk
    <3>2. CASE k # n + 1
      <4>1. k \in EntriesIn(is) \cap live
        BY <1>4, <3>2
      <4>2. i.use # "entry"
        BY <1>9, <4>1 DEF MayAsk
      <4>3. s.pending = k /\ ~s.open /\ Last(is, k)
        BY <2>1, <4>1 DEF Book, EntriesGood
      <4> QED
        BY <1>3, <1>6, <4>1, <4>2, <4>3
    <3> QED
      BY <3>1, <3>2
  <2>2. ph \in {"lockout", "closed"} => EntriesIn(js) \cap more = {}
    <3>1. SUFFICES ASSUME ph \in {"lockout", "closed"} PROVE EntriesIn(js) \cap more = {}
      OBVIOUS
    <3>2. i.use # "entry"
      BY <3>1 DEF MayAsk
    <3> QED
      BY <1>4, <1>9, <3>1, <3>2
  <2>3. (z.open => z.shares > 0) /\ (ph = "closed" => ~z.open)
    BY <1>3 DEF Book, EntriesGood
  <2> HIDE DEF more
  <2> QED
    BY <2>1, <2>2, <2>3 DEF EntriesGood
<1>11. s.open => \E e \in EntriesIn(is) : HeldOf(is, f, s, e)
  BY DEF Book, ExitsGood
<1>12. \A e \in EntriesIn(is) : js[e] = is[e] /\ g[e] = f[e] /\ f[e] \in Nat
  <2>1. \A e \in EntriesIn(is) : e \in 1 .. n
    BY <1>1, DomainsAre
  <2> QED
    BY <1>1, <1>2, <2>1
<1>13. ExitsGood(js, g, more, z)
  <2>1. ASSUME z.open
        PROVE  \E e \in EntriesIn(js) : HeldOf(js, g, z, e)
    <3>1. i.use # "entry" /\ s.open
      BY <1>3, <2>1 DEF MayAsk
    <3>2. PICK e \in EntriesIn(is) : HeldOf(is, f, s, e)
      BY <1>11, <3>1
    <3>3. e \in EntriesIn(js) /\ (Last(is, e) => Last(js, e))
      BY <1>6, <3>1
    <3> QED
      BY <1>3, <1>12, <3>2, <3>3 DEF HeldOf
  <2>2. ASSUME NEW k \in ExitsIn(js)
        PROVE  \E e \in EntriesIn(js) \ more : ExitOf(js, g, k, e)
    <3>1. CASE k # n + 1
      <4>1. k \in ExitsIn(is)
        BY <1>4, <3>1
      <4>2. PICK e \in EntriesIn(is) \ live : ExitOf(is, f, k, e)
        BY <4>1 DEF Book, ExitsGood
      <4>3. js[k] = is[k] /\ js[e] = is[e] /\ g[e] = f[e]
        BY <1>1, <1>12, <4>1, DomainsAre
      <4> QED
        BY <1>5, <1>6, <4>2, <4>3 DEF ExitOf
    <3>2. CASE k = n + 1
      <4>1. i.use = "exit" /\ s.open /\ i.token = s.token /\ i.size <= s.shares
        BY <1>4, <3>2 DEF MayAsk
      <4>2. PICK e \in EntriesIn(is) : HeldOf(is, f, s, e)
        BY <1>11, <4>1
      <4>3. Last(is, e) /\ s.token = is[e].token /\ i.size <= f[e]
        <5>1. s.shares \in Int /\ f[e] \in Int
          BY <1>12 DEF Scalps
        <5> QED
          BY <1>1, <4>1, <4>2, <5>1 DEF HeldOf
      <4>4. e \in EntriesIn(js) \ more
        BY <1>5, <1>6, <1>9, <4>1
      <4>5. Last(js, e) /\ e \in 1 .. n
        BY <1>6, <4>1, <4>3
      <4>6. \A l \in e + 1 .. n + 1 : js[l].use # "entry"
        <5>1. SUFFICES ASSUME NEW l \in e + 1 .. n + 1, js[l].use = "entry" PROVE FALSE
          OBVIOUS
        <5>2. l \in EntriesIn(js)
          BY <1>1, <4>5, <5>1 DEF EntriesIn
        <5> QED
          BY <1>1, <4>5, <5>1, <5>2 DEF Last
      <4>7. k \in ExitsAfter(js, e)
        BY <1>1, <3>2, <4>5, <4>6 DEF ExitsAfter
      <4> QED
        BY <1>1, <1>12, <3>2, <4>1, <4>3, <4>4, <4>7 DEF ExitOf
    <3> QED
      BY <3>1, <3>2
  <2> HIDE DEF more
  <2> QED
    BY <2>1, <2>2 DEF ExitsGood
<1>14. ASSUME ph # "closed", ~Over(js, g)
       PROVE  Rounds(js, g, z)
  <2>1. /\ \A e \in EntriesIn(is) : Unsold(js, g, e) = Unsold(is, f, e)
        /\ Unsold(js, g, n + 1) = 0
        /\ \A t \in Tokens : Holding(js, g, t) = Holding(is, f, t)
    BY UnsoldExtends
  <2>2. ~Over(is, f)
    BY <1>6, <1>14, <2>1 DEF Over
  <2>3. Rounds(is, f, s)
    BY <1>14, <2>2 DEF Book
  <2>4. Managed(z) = Managed(s) /\ (i.use = "entry" => Managed(s) = 0)
    BY <1>3 DEF Managed, MayAsk
  <2>5. ASSUME NEW e \in EntriesIn(js)
        PROVE  Unsold(js, g, e) = IF Last(js, e) THEN Managed(z) ELSE 0
    <3>1. CASE e = n + 1
      <4>1. i.use = "entry"
        BY <1>4, <3>1
      <4> QED
        BY <2>1, <2>4, <3>1, <4>1
    <3>2. CASE e # n + 1
      <4>1. e \in EntriesIn(is)
        BY <1>4, <3>2
      <4>2. Unsold(is, f, e) = IF Last(is, e) THEN Managed(s) ELSE 0
        BY <2>3, <4>1 DEF Rounds
      <4> QED
        BY <1>6, <2>1, <2>4, <4>1, <4>2
    <3> QED
      BY <3>1, <3>2
  <2>6. ASSUME NEW t \in Tokens
        PROVE  Holding(js, g, t) = IF z.token = t THEN Managed(z) ELSE 0
    BY <1>3, <2>1, <2>3, <2>4 DEF Rounds
  <2> QED
    BY <2>5, <2>6 DEF Rounds
<1> HIDE DEF more
<1> QED
  BY <1>3, <1>7, <1>8, <1>10, <1>13, <1>14 DEF Book, more

-----------------------------------------------------------------------------
(* The book of a sequence of orders.                                         *)
LEMMA BookIs ==
  ASSUME NEW os \in Seq(Orders)
  PROVE  LET n == Len(os)
         IN /\ n \in Nat /\ DOMAIN os = 1 .. n
            /\ Is(os) \in [1 .. n -> Intents] /\ Bk(os) \in [1 .. n -> Nat]
            /\ Live(os) \in SUBSET (1 .. n)
            /\ \A k \in 1 .. n : /\ Is(os)[k] = os[k].i
                                 /\ Bk(os)[k] = os[k].x.om.booked
                                 /\ k \in Live(os) <=> ~IsTerminal(os[k].x.om)
<1> DEFINE n == Len(os)
<1>1. n \in Nat /\ DOMAIN os = 1 .. n /\ os \in [1 .. n -> Orders]
  OBVIOUS
<1> HIDE DEF n
<1>2. ASSUME NEW k \in 1 .. n
      PROVE  os[k].i \in Intents /\ os[k].x.om.booked \in Nat
  <2>1. os[k] \in Orders
    BY <1>1
  <2>2. os[k].x \in OrderRecords /\ os[k].i \in Intents
    BY <2>1 DEF Orders
  <2>3. os[k].x.om \in ManagedOrder
    BY <2>2 DEF OrderRecords
  <2> QED
    BY <2>2, <2>3 DEF ManagedOrder
<1>3. Is(os) \in [1 .. n -> Intents] /\ Bk(os) \in [1 .. n -> Nat] /\ Live(os) \in SUBSET (1 .. n)
  BY <1>1, <1>2 DEF Is, Bk, Live
<1>4. \A k \in 1 .. n : /\ Is(os)[k] = os[k].i
                        /\ Bk(os)[k] = os[k].x.om.booked
                        /\ k \in Live(os) <=> ~IsTerminal(os[k].x.om)
  BY <1>1 DEF Is, Bk, Live
<1> QED
  BY <1>1, <1>3, <1>4 DEF n

(* Steps that change no intent, no fill and no end leave the book alone.     *)
LEMMA SameBook ==
  ASSUME NEW os \in Seq(Orders), NEW ps \in Seq(Orders), Len(ps) = Len(os),
         \A k \in 1 .. Len(os) :
           /\ ps[k].i = os[k].i /\ ps[k].x.om.booked = os[k].x.om.booked
           /\ IsTerminal(ps[k].x.om) <=> IsTerminal(os[k].x.om)
  PROVE  Is(ps) = Is(os) /\ Bk(ps) = Bk(os) /\ Live(ps) = Live(os)
<1> DEFINE n == Len(os)
<1>1. DOMAIN os = 1 .. n /\ DOMAIN ps = 1 .. n
  OBVIOUS
<1> HIDE DEF n
<1> QED
  BY <1>1 DEF Is, Bk, Live, n

(* process_due over the window.                                              *)
LEMMA ArrivedIs ==
  ASSUME Good(phase, orders, scalp, stake), NEW seen \in [Due -> Views]
  PROVE  LET after == Arrived(seen)
             n     == Len(orders)
             ended == Live(orders) \ Live(after)
         IN /\ after \in Seq(Orders) /\ Len(after) = n
            /\ \A k \in 1 .. n : OrderOK(after[k])
            /\ \A k \in 1 .. n : after[k].i = orders[k].i /\ Follows(after[k].x, orders[k].x)
            /\ Is(after) = Is(orders)
            /\ Lands(n, Is(orders), Bk(orders), Bk(after), Live(orders), ended)
            /\ Live(after) = Live(orders) \ ended
<1> DEFINE after == Arrived(seen)
           n     == Len(orders)
           ended == Live(orders) \ Live(after)
<1>1. orders \in Seq(Orders) /\ n \in Nat /\ DOMAIN orders = 1 .. n /\ orders \in [1 .. n -> Orders]
  BY DEF Good
<1>2. DOMAIN seen = Due /\ Due \subseteq 1 .. n
  BY <1>1 DEF Due
<1>3. ASSUME NEW k \in 1 .. n
      PROVE  /\ after[k] \in Orders /\ OrderOK(after[k]) /\ after[k].i = orders[k].i
             /\ after[k].x.om.booked <= orders[k].i.size
             /\ Follows(after[k].x, orders[k].x)
  <2> DEFINE o == orders[k]
  <2>1. o \in Orders /\ OrderOK(o) /\ o.x \in OrderRecords /\ o.i \in Intents /\ o.task \in Tasks
    BY <1>1 DEF Good, Orders
  <2>2. CASE k \notin Due
    <3>1. after[k] = o
      BY <1>1, <1>2, <2>2 DEF Arrived
    <3> QED
      BY <2>1, <3>1 DEF OrderOK, Kept, Follows
  <2>3. CASE k \in Due
    <3> DEFINE y == ProcessDue(o.x, o.i, seen[k], TRUE)
    <3>1. after[k] = [o EXCEPT !.x = y]
      BY <1>1, <1>2, <2>3 DEF Arrived
    <3>2. Kept(o.x, o.i) /\ (o.x.cancels # {} => o.x.om.state # "DRAFT") /\ seen[k] \in Views
      BY <2>1, <2>3 DEF OrderOK
    <3>3. Kept(y, o.i) /\ Follows(y, o.x)
      BY <2>1, <3>2, ProcessDueIs
    <3>4. o.x.om.state # "DRAFT"
      <4>1. (o.x.place = "pending" /\ o.x.left = 0) \/ 0 \in o.x.cancels
        BY <2>3 DEF Due
      <4> QED
        BY <3>2, <4>1, StatesAre DEF Kept
    <3> HIDE DEF y, o
    <3>5. after[k].x = y /\ after[k].i = o.i /\ after[k].task = o.task /\ after[k] \in Orders
      <4>1. y \in OrderRecords
        BY <3>3 DEF Kept
      <4> QED
        BY <2>1, <3>1, <4>1 DEF Orders
    <3>6. y.om.state # "DRAFT"
      BY <3>3, <3>4, StatesAre DEF Follows, IsTerminal
    <3>7. OrderOK(after[k])
      BY <2>1, <3>3, <3>4, <3>5, <3>6 DEF OrderOK
    <3>8. y.om.booked <= o.i.size
      BY <3>3 DEF Kept
    <3> QED
      BY <3>3, <3>5, <3>7, <3>8 DEF o
  <2> QED
    BY <2>2, <2>3
<1>4. after \in Seq(Orders) /\ Len(after) = n
  <2>1. DOMAIN after = 1 .. n /\ after = [k \in 1 .. n |-> after[k]]
    BY <1>1 DEF Arrived
  <2> HIDE DEF after, n
  <2> QED
    BY <1>1, <1>3, <2>1
<1> HIDE DEF after
<1>5. /\ Is(orders) \in [1 .. n -> Intents] /\ Is(after) \in [1 .. n -> Intents]
      /\ Live(orders) \in SUBSET (1 .. n)
      /\ \A k \in 1 .. n :
           /\ Is(orders)[k] = orders[k].i /\ Is(after)[k] = after[k].i
           /\ Bk(orders)[k] = orders[k].x.om.booked /\ Bk(after)[k] = after[k].x.om.booked
           /\ k \in Live(orders) <=> ~IsTerminal(orders[k].x.om)
           /\ k \in Live(after) <=> ~IsTerminal(after[k].x.om)
  BY <1>1, <1>4, BookIs
<1>6. Is(after) = Is(orders)
  BY <1>3, <1>5
<1>7. \A k \in 1 .. n : IsTerminal(orders[k].x.om) => after[k].x.om = orders[k].x.om
  BY <1>3 DEF Follows, IsTerminal
<1>8. Live(after) = Live(orders) \ ended
  <2>1. Live(after) \subseteq Live(orders)
    <3>1. Live(after) \in SUBSET (1 .. n)
      BY <1>4, BookIs
    <3> QED
      BY <1>5, <1>7, <3>1
  <2> QED
    BY <2>1
<1>9. Lands(n, Is(orders), Bk(orders), Bk(after), Live(orders), ended)
  <2>1. \A k \in 1 .. n : Bk(after)[k] <= Is(orders)[k].size
    BY <1>3, <1>5
  <2>2. \A k \in Live(orders) \ ended : Bk(after)[k] = 0
    <3>1. SUFFICES ASSUME NEW k \in Live(orders), k \in Live(after) PROVE Bk(after)[k] = 0
      OBVIOUS
    <3>2. k \in 1 .. n /\ ~IsTerminal(after[k].x.om)
      BY <1>5, <3>1
    <3>3. after[k].x.om.booked = 0
      BY <1>3, <3>2 DEF OrderOK, Kept, IsTerminal
    <3> QED
      BY <1>5, <3>2, <3>3
  <2>3. \A k \in (1 .. n) \ Live(orders) : Bk(after)[k] = Bk(orders)[k]
    BY <1>5, <1>7
  <2> QED
    BY <1>5, <2>1, <2>2, <2>3 DEF Lands
<1> QED
  BY <1>3, <1>4, <1>6, <1>8, <1>9 DEF after

LEMMA FillsToldIs ==
  ASSUME Good(phase, orders, scalp, stake),
         NEW after \in Seq(Orders), Len(after) = Len(orders)
  PROVE  \E told : /\ IsChain(told, scalp, Len(orders), Is(orders), Bk(orders), Bk(after))
                   /\ FillsTold(after) = told[Len(orders)]
<1> DEFINE n     == Len(orders)
           is    == Is(orders)
           f     == Bk(orders)
           g     == Bk(after)
           Step(h, k) ==
             IF k = 0 THEN scalp
             ELSE LET d == after[k].x.om.booked - orders[k].x.om.booked
                  IN IF d > 0 /\ IsScalp(k) THEN OnFill(h[k - 1], orders[k].i, d) ELSE h[k - 1]
           told  == CHOOSE h : h = [k \in 0 .. Len(orders) |-> Step(h, k)]
<1>1. /\ n \in Nat /\ is \in [1 .. n -> Intents] /\ f \in [1 .. n -> Nat] /\ g \in [1 .. n -> Nat]
      /\ \A k \in 1 .. n : /\ is[k] = orders[k].i /\ f[k] = orders[k].x.om.booked
                           /\ g[k] = after[k].x.om.booked
  <2>1. orders \in Seq(Orders)
    BY DEF Good
  <2> QED
    BY <2>1, BookIs
<1>2. scalp \in Wide
  BY WideIs DEF Good
<1>3. FillsTold(after) = told[Len(orders)]
  BY Zenon DEF FillsTold
<1>4. \A h : \A k \in 1 .. n : Step(h, k) = Told(h[k - 1], is[k], g[k] - f[k])
  BY <1>1 DEF Told, IsScalp
<1>5. \A h : Step(h, 0) = scalp
  OBVIOUS
<1> HIDE DEF n, is, f, g, Step
<1>6. \E h : h = [k \in 0 .. n |-> Step(h, k)]
  <2>1. PICK h : IsChain(h, scalp, n, is, f, g)
    BY <1>1, <1>2, ChainExists
  <2>2. h \in [0 .. n -> Wide] /\ \A k \in 0 .. n : h[k] = Step(h, k)
    <3>1. /\ h \in [0 .. n -> Wide] /\ h[0] = scalp
          /\ \A k \in 1 .. n : h[k] = Told(h[k - 1], is[k], g[k] - f[k])
      BY <2>1 DEF IsChain
    <3>2. \A k \in 0 .. n : k = 0 \/ k \in 1 .. n
      BY <1>1
    <3> QED
      BY <1>4, <1>5, <3>1, <3>2
  <2>3. h = [k \in 0 .. n |-> Step(h, k)]
    BY <2>2
  <2> QED
    BY <2>3
<1>7. told = [k \in 0 .. n |-> Step(told, k)]
  BY <1>6 DEF n
<1> HIDE DEF told
<1>8. told[0] = scalp /\ \A k \in 1 .. n : told[k] = Told(told[k - 1], is[k], g[k] - f[k])
  <2>1. \A k \in 0 .. n : told[k] = Step(told, k)
    BY <1>7
  <2>2. 0 \in 0 .. n /\ \A k \in 1 .. n : k \in 0 .. n
    BY <1>1
  <2> QED
    BY <1>4, <1>5, <2>1, <2>2
<1> DEFINE Q == {k \in 0 .. n : told[k] \in Wide}
<1>9. 0 \in Q
  BY <1>1, <1>2, <1>8
<1>10. ASSUME NEW k \in 1 .. n, k - 1 \in Q
       PROVE  k \in Q
  <2> DEFINE r == told[k - 1]
             m == g[k] - f[k]
             i == is[k]
  <2>1. told[k] = Told(r, i, m) /\ k \in 0 .. n /\ r \in Wide
    BY <1>8, <1>10
  <2>2. m \in Int /\ i \in Intents
    BY <1>1
  <2> HIDE DEF r, m, i
  <2>3. Told(r, i, m) \in Wide
    <3>1. CASE m > 0 /\ i.use # "snipe"
      BY <2>1, <2>2, <3>1, ToldIs
    <3>2. CASE ~(m > 0 /\ i.use # "snipe")
      BY <2>1, <3>2 DEF Told
    <3> QED
      BY <3>1, <3>2
  <2> QED
    BY <2>1, <2>3
<1> HIDE DEF Q
<1>11. \A k \in 0 .. n : k \in Q
  BY <1>1, <1>9, <1>10, Reaches
<1>12. told \in [0 .. n -> Wide]
  <2>1. \A k \in 0 .. n : told[k] \in Wide
    BY <1>11 DEF Q
  <2> QED
    BY <1>7, <2>1
<1>13. IsChain(told, scalp, n, is, f, g)
  BY <1>8, <1>12 DEF IsChain
<1> QED
  BY <1>3, <1>13 DEF n, is, f, g

-----------------------------------------------------------------------------
(* What the decisions of a pump work on.                                     *)
Works == [orders: Seq(Orders), scalp: Scalps, fired: BOOLEAN, stake: 0 .. MaxStake]

WorkOK(w) == w \in Works /\ Good(phase, w.orders, w.scalp, w.stake)

New(i) == [x |-> [Unplaced EXCEPT !.om = Drafted], i |-> i, task |-> "queued"]

LEMMA NewIs ==
  ASSUME NEW i \in Intents
  PROVE  /\ New(i) \in Orders /\ OrderOK(New(i)) /\ New(i).i = i
         /\ New(i).x.om.booked = 0 /\ ~IsTerminal(New(i).x.om)
<1> DEFINE x == [Unplaced EXCEPT !.om = Drafted]
<1>1. /\ Drafted \in ManagedOrder /\ Drafted.state = "DRAFT" /\ ~Drafted.raised
      /\ Drafted.filled = 0 /\ Drafted.booked = 0
  BY StatesAre DEF Drafted, NoOrder, ManagedOrder, States
<1>2. Unplaced \in OrderRecords /\ Unplaced.place = "none" /\ Unplaced.cancels = {}
  <2>1. 0 \in 0 .. MaxRtt /\ 0 \in Depths /\ 0 \in Nat /\ "none" \in Places
    BY RttAssumption, DepthAssumption DEF Depths, Places
  <2>2. NoOrder \in ManagedOrder
    BY StatesAre DEF NoOrder, ManagedOrder, States
  <2> HIDE DEF Places
  <2> QED
    BY <2>1, <2>2 DEF Unplaced, OrderRecords
<1>3. x \in OrderRecords /\ x.om = Drafted /\ x.place = "none" /\ x.cancels = {}
  BY <1>1, <1>2 DEF OrderRecords
<1>4. i.size \in Nat /\ i.size > 0
  BY TradingAssumption DEF Intents
<1> HIDE DEF x
<1>5. Kept(x, i)
  BY <1>1, <1>3, <1>4, StatesAre DEF Kept, Whole
<1>6. New(i) = [x |-> x, i |-> i, task |-> "queued"]
  BY DEF New, x
<1>7. New(i).x = x /\ New(i).i = i /\ New(i).task = "queued" /\ New(i) \in Orders
  BY <1>3, <1>6 DEF Orders, Tasks
<1> QED
  BY <1>1, <1>3, <1>5, <1>7, StatesAre DEF OrderOK, IsTerminal

LEMMA AppendBook ==
  ASSUME NEW ph \in Phases, NEW os, NEW s, NEW st, Good(ph, os, s, st),
         NEW i \in Intents, MayAsk(ph, s, i), Len(os) + 1 <= MaxOrders,
         NEW su \in 0 .. MaxStake, su = st + IF IsBuy(i) THEN i.size ELSE 0
  PROVE  Good(ph, Append(os, New(i)), Registered(s, i, Len(os) + 1), su)
<1> DEFINE n  == Len(os)
           ps == Append(os, New(i))
<1>1. os \in Seq(Orders) /\ s \in Scalps /\ st \in Nat /\ \A k \in DOMAIN os : OrderOK(os[k])
  BY DEF Good
<1>2. /\ New(i) \in Orders /\ OrderOK(New(i)) /\ New(i).i = i
      /\ New(i).x.om.booked = 0 /\ ~IsTerminal(New(i).x.om)
  BY NewIs
<1>3. /\ n \in Nat /\ DOMAIN os = 1 .. n /\ DOMAIN ps = 1 .. n + 1
      /\ ps \in Seq(Orders) /\ Len(ps) = n + 1
      /\ ps[n + 1] = New(i) /\ \A k \in 1 .. n : ps[k] = os[k]
  BY <1>1, <1>2
<1> HIDE DEF n, ps
<1>4. /\ Is(os) \in [1 .. n -> Intents] /\ Bk(os) \in [1 .. n -> Nat]
      /\ Live(os) \in SUBSET (1 .. n)
      /\ \A k \in 1 .. n : /\ Is(os)[k] = os[k].i
                           /\ Bk(os)[k] = os[k].x.om.booked
                           /\ k \in Live(os) <=> ~IsTerminal(os[k].x.om)
  BY <1>1, BookIs DEF n
<1>5. /\ Is(ps) \in [1 .. n + 1 -> Intents] /\ Bk(ps) \in [1 .. n + 1 -> Nat]
      /\ Live(ps) \in SUBSET (1 .. n + 1)
      /\ \A k \in 1 .. n + 1 : /\ Is(ps)[k] = ps[k].i
                               /\ Bk(ps)[k] = ps[k].x.om.booked
                               /\ k \in Live(ps) <=> ~IsTerminal(ps[k].x.om)
  BY <1>3, BookIs
<1>6. n + 1 \in 1 .. n + 1 /\ 1 .. n \subseteq 1 .. n + 1 /\ (1 .. n + 1) \ {n + 1} = 1 .. n
  BY <1>3
<1> DEFINE m == n + 1
<1>7. /\ Is(ps)[m] = i /\ Bk(ps)[m] = 0 /\ m \in Live(ps)
      /\ \A k \in 1 .. n : /\ Is(ps)[k] = Is(os)[k] /\ Bk(ps)[k] = Bk(os)[k]
                           /\ k \in Live(ps) <=> k \in Live(os)
  <2> HIDE DEF m
  <2>1. m \in 1 .. m /\ ps[m] = New(i) /\ 1 .. n \subseteq 1 .. m
    BY <1>3, <1>6 DEF m
  <2>2. \A k \in 1 .. m : /\ Is(ps)[k] = ps[k].i
                          /\ Bk(ps)[k] = ps[k].x.om.booked
                          /\ k \in Live(ps) <=> ~IsTerminal(ps[k].x.om)
    BY <1>5 DEF m
  <2>3. Is(ps)[m] = i /\ Bk(ps)[m] = 0 /\ m \in Live(ps)
    BY <1>2, <2>1, <2>2
  <2>4. ASSUME NEW k \in 1 .. n
        PROVE  /\ Is(ps)[k] = Is(os)[k] /\ Bk(ps)[k] = Bk(os)[k]
               /\ k \in Live(ps) <=> k \in Live(os)
    <3>1. k \in 1 .. m /\ ps[k] = os[k]
      BY <1>3, <2>1
    <3> QED
      BY <1>4, <2>2, <3>1
  <2> QED
    BY <2>3, <2>4
<1>8. Asked(n, Is(os), Is(ps), i) /\ Extends(n, Bk(os), Bk(ps))
  BY <1>3, <1>4, <1>5, <1>7 DEF Asked, Extends
<1>9. Live(ps) = Live(os) \cup {n + 1}
  <2>1. \A k \in 1 .. n + 1 : k \in Live(ps) <=> k \in Live(os) \cup {n + 1}
    BY <1>4, <1>6, <1>7
  <2> QED
    BY <1>4, <1>5, <1>6, <2>1
<1>10. n + 1 \in 1 .. MaxOrders
  BY <1>3, TradingAssumption DEF n
<1>11. Book(ph, Is(os), Bk(os), Live(os), s, st)
  BY DEF Good
<1>12. /\ Book(ph, Is(ps), Bk(ps), Live(os) \cup {n + 1}, Registered(s, i, n + 1), su)
       /\ Registered(s, i, n + 1) \in Scalps
  <2> DEFINE z  == Registered(s, i, n + 1)
             is == Is(os)
             js == Is(ps)
             f  == Bk(os)
             g  == Bk(ps)
             live == Live(os)
  <2>1. Counts(s, st, i, n + 1, z, su) /\ g[n + 1] = 0
    BY <1>7 DEF Counts
  <2>2. /\ Asked(n, is, js, i) /\ Extends(n, f, g) /\ live \in SUBSET (1 .. n)
        /\ Book(ph, is, f, live, s, st)
    BY <1>4, <1>8, <1>11
  <2> HIDE DEF m, z, is, js, f, g, live
  <2>3. Book(ph, js, g, live \cup {n + 1}, z, su) /\ z \in Scalps
    BY <1>1, <1>10, <2>1, <2>2, AddBook
  <2> QED
    BY <2>3 DEF z, js, g, live
<1>13. \A k \in DOMAIN ps : OrderOK(ps[k])
  BY <1>1, <1>2, <1>3, <1>6
<1> QED
  BY <1>3, <1>9, <1>12, <1>13 DEF Good, n, ps

(* _handle_intent.                                                           *)
(* Decisions only append, and what they append has not ended.                *)
Grows(ps, os) ==
  /\ Len(os) \in Nat /\ Len(ps) \in Nat /\ Len(os) <= Len(ps)
  /\ \A k \in 1 .. Len(os) : ps[k] = os[k]
  /\ \A k \in Len(os) + 1 .. Len(ps) : ~IsTerminal(ps[k].x.om)

LEMMA GrowsOn ==
  ASSUME NEW qs, NEW ps, NEW os, Grows(qs, ps), Grows(ps, os)
  PROVE  Grows(qs, os)
<1>1. \A k \in 1 .. Len(os) : k \in 1 .. Len(ps)
  BY DEF Grows
<1>2. \A k \in Len(os) + 1 .. Len(qs) :
        k \in Len(ps) + 1 .. Len(qs) \/ (k \in Len(os) + 1 .. Len(ps) /\ k \in 1 .. Len(ps))
  BY DEF Grows
<1>3. \A k \in 1 .. Len(os) : qs[k] = os[k]
  BY <1>1 DEF Grows
<1>4. \A k \in Len(os) + 1 .. Len(qs) : ~IsTerminal(qs[k].x.om)
  BY <1>2 DEF Grows
<1> QED
  BY <1>3, <1>4 DEF Grows

LEMMA HandledGrows ==
  ASSUME NEW w \in Works, NEW i, NEW p
  PROVE  Grows(Handled(w, i, p).orders, w.orders)
<1> DEFINE v == Handled(w, i, p)
           S == Orders \cup {New(i)}
<1>1. w.orders \in Seq(Orders) /\ Len(w.orders) \in Nat
  BY DEF Works
<1>2. w.orders \in Seq(S) /\ New(i) \in S
  <2>1. \A k \in 1 .. Len(w.orders) : w.orders[k] \in S
    BY <1>1
  <2> HIDE DEF S
  <2>2. w.orders \in Seq(S)
    BY <1>1, <2>1
  <2> QED
    BY <2>2 DEF S
<1> HIDE DEF S
<1>3. CASE ~Allowed(w, i, p)
  BY <1>1, <1>3 DEF Handled, Grows
<1>4. CASE Allowed(w, i, p)
  <2> DEFINE os == Append(w.orders, New(i))
             s  == Registered(w.scalp, i, Len(w.orders) + 1)
             su == w.stake + IF IsBuy(i) THEN i.size ELSE 0
  <2>1. v = [[[w EXCEPT !.orders = os] EXCEPT !.scalp = s] EXCEPT !.stake = su]
    BY <1>4 DEF Handled, New, Works
  <2>2. /\ Len(os) = Len(w.orders) + 1
        /\ \A k \in 1 .. Len(w.orders) : os[k] = w.orders[k]
        /\ os[Len(w.orders) + 1] = New(i)
    BY <1>1, <1>2
  <2>3. ~IsTerminal(New(i).x.om)
    BY StatesAre DEF New, Unplaced, Drafted, NoOrder, IsTerminal
  <2> HIDE DEF os, s, su
  <2>4. v.orders = os
    BY <2>1 DEF Works
  <2>5. Grows(os, w.orders)
    BY <1>1, <2>2, <2>3 DEF Grows
  <2> HIDE DEF v
  <2> QED
    BY <2>4, <2>5 DEF v
<1> QED
  BY <1>3, <1>4

LEMMA HandledIs ==
  ASSUME NEW w, WorkOK(w), NEW p, NEW i,
         Allowed(w, i, p) => i \in Intents /\ MayAsk(phase, w.scalp, i),
         phase \in Phases
  PROVE  LET v == Handled(w, i, p)
         IN /\ Len(w.orders) \in Nat /\ Len(v.orders) \in Nat
            /\ Len(w.orders) <= Len(v.orders)
            /\ Len(v.orders) <= MaxOrders => WorkOK(v)
            /\ i.use # "entry" => v \in Works
<1> DEFINE v == Handled(w, i, p)
<1>1. w \in Works /\ w.orders \in Seq(Orders) /\ w.stake \in 0 .. MaxStake /\ MaxStake \in Nat
  BY TradingAssumption DEF WorkOK, Works
<1>2. CASE ~Allowed(w, i, p)
  <2>1. v = w
    BY <1>2 DEF Handled
  <2> QED
    BY <1>1, <2>1
<1>3. CASE Allowed(w, i, p)
  <2> DEFINE n  == Len(w.orders)
             os == Append(w.orders, New(i))
             s  == Registered(w.scalp, i, n + 1)
             su == w.stake + IF IsBuy(i) THEN i.size ELSE 0
  <2>1. i \in Intents /\ MayAsk(phase, w.scalp, i) /\ i.size \in Nat
    BY <1>3 DEF Intents
  <2>2. New(i) \in Orders
    BY <2>1, NewIs
  <2>3. os \in Seq(Orders) /\ Len(os) = n + 1 /\ n \in Nat
    BY <1>1, <2>2
  <2>4. su \in 0 .. MaxStake
    <3>1. CASE IsBuy(i)
      BY <1>1, <1>3, <2>1, <3>1 DEF Allowed
    <3>2. CASE ~IsBuy(i)
      BY <1>1, <3>2
    <3> QED
      BY <3>1, <3>2
  <2>5. v = [[[w EXCEPT !.orders = os] EXCEPT !.scalp = s] EXCEPT !.stake = su]
    BY <1>1, <1>3 DEF Handled, New, Works
  <2>6. n + 1 <= MaxOrders => Good(phase, os, s, su)
    <3>1. SUFFICES ASSUME n + 1 <= MaxOrders PROVE Good(phase, os, s, su)
      OBVIOUS
    <3>2. Good(phase, w.orders, w.scalp, w.stake)
      BY DEF WorkOK
    <3> QED
      BY <2>1, <2>4, <3>1, <3>2, AppendBook
  <2>7. s \in Scalps => v \in Works
    <3> HIDE DEF os, s, su
    <3> QED
      BY <1>1, <2>3, <2>4, <2>5 DEF Works
  <2>8. v.orders = os /\ v.scalp = s /\ v.stake = su
    <3> HIDE DEF os, s, su
    <3> QED
      BY <1>1, <2>5 DEF Works
  <2>9. Good(phase, os, s, su) => s \in Scalps
    BY DEF Good
  <2>13. i.use # "entry" => s \in Scalps
    BY <1>1 DEF Registered, Works
  <2> HIDE DEF os, s, su, v, n
  <2>10. Len(v.orders) = n + 1
    BY <2>3, <2>8
  <2>11. n + 1 <= MaxOrders => WorkOK(v)
    BY <2>6, <2>7, <2>8, <2>9 DEF WorkOK
  <2>12. n \in Nat /\ Len(v.orders) \in Nat /\ n <= Len(v.orders)
    BY <2>3, <2>10
  <2> QED
    BY <2>7, <2>10, <2>11, <2>12, <2>13 DEF n, v
<1> QED
  BY <1>2, <1>3

LEMMA ContextIs ==
  ASSUME NEW s, NEW p \in Contexts(s), NEW use \in Uses, p.signal # "none"
  PROVE  /\ Entry(p, use) \in Intents /\ Entry(p, use).use = use
<1>1. p.signal \in Tokens /\ p.size \in 1 .. MaxSize
  BY DEF Contexts
<1> QED
  BY <1>1 DEF Entry, Intents

(* A decision that leaves the orders and the stake alone.                    *)
LEMMA SameWork ==
  ASSUME NEW w, WorkOK(w), NEW v \in Works, v.orders = w.orders, v.stake = w.stake,
         v.scalp.pending = w.scalp.pending, v.scalp.open = w.scalp.open,
         v.scalp.token = w.scalp.token, v.scalp.shares = w.scalp.shares
  PROVE  WorkOK(v)
<1> DEFINE s == w.scalp
           z == v.scalp
           is == Is(w.orders)
           f  == Bk(w.orders)
           live == Live(w.orders)
<1>1. z.pending = s.pending /\ z.open = s.open /\ z.token = s.token /\ z.shares = s.shares
  OBVIOUS
<1>2. v.scalp \in Scalps
  BY DEF Works
<1>3. /\ w.orders \in Seq(Orders) /\ (\A k \in DOMAIN w.orders : OrderOK(w.orders[k]))
      /\ w.stake \in 0 .. MaxStake /\ Book(phase, is, f, live, s, w.stake)
  BY DEF WorkOK, Good
<1> HIDE DEF s, z, is, f, live
<1>4. Managed(z) = Managed(s)
  BY <1>1 DEF Managed
<1>5. EntriesGood(phase, is, live, z)
  BY <1>1, <1>3 DEF Book, EntriesGood
<1>6. ExitsGood(is, f, live, z)
  BY <1>1, <1>3 DEF Book, ExitsGood, HeldOf
<1>7. Rounds(is, f, s) => Rounds(is, f, z)
  BY <1>1, <1>4 DEF Rounds
<1>8. Book(phase, is, f, live, z, w.stake)
  BY <1>3, <1>5, <1>6, <1>7 DEF Book
<1> QED
  BY <1>2, <1>3, <1>8 DEF WorkOK, Good, z, is, f, live

LEMMA SnipedIs ==
  ASSUME NEW w, WorkOK(w), NEW s, NEW p \in Contexts(s), phase \in Phases
  PROVE  LET v == Sniped(w, p)
         IN /\ Len(w.orders) \in Nat /\ Len(v.orders) \in Nat
            /\ Len(w.orders) <= Len(v.orders)
            /\ Len(v.orders) <= MaxOrders => WorkOK(v)
            /\ v \in Works
<1>1. Len(w.orders) \in Nat /\ w \in Works
  BY DEF WorkOK, Works
<1>2. CASE ~(SnipeWanted(w.fired) /\ p.signal # "none")
  <2>1. Sniped(w, p) = w
    BY <1>2 DEF Sniped
  <2> QED
    BY <1>1, <2>1
<1>3. CASE SnipeWanted(w.fired) /\ p.signal # "none"
  <2> DEFINE u == [w EXCEPT !.fired = TRUE]
             i == Entry(p, "snipe")
  <2>1. u \in Works /\ u.orders = w.orders /\ u.scalp = w.scalp /\ u.stake = w.stake
    BY <1>1 DEF Works
  <2>2. i \in Intents /\ i.use = "snipe"
    <3>1. "snipe" \in Uses
      BY DEF Uses
    <3> QED
      BY <1>3, <3>1, ContextIs
  <2>3. Sniped(w, p) = Handled(u, i, p)
    BY <1>3 DEF Sniped
  <2> HIDE DEF u, i
  <2>4. WorkOK(u)
    BY <2>1, SameWork
  <2>5. MayAsk(phase, u.scalp, i)
    BY <1>3, <2>2 DEF MayAsk, SnipeWanted
  <2> QED
    BY <2>1, <2>2, <2>3, <2>4, <2>5, HandledIs
<1> QED
  BY <1>2, <1>3

LEMMA ExitedIs ==
  ASSUME NEW w, WorkOK(w), NEW s, NEW p \in Contexts(s), phase \in Phases \ {"closed"},
         w.scalp.open
  PROVE  LET v == Exited(w, p)
         IN /\ Len(w.orders) \in Nat /\ Len(v.orders) \in Nat
            /\ Len(w.orders) <= Len(v.orders)
            /\ Len(v.orders) <= MaxOrders => WorkOK(v)
<1>1. Len(w.orders) \in Nat /\ w \in Works /\ w.scalp \in Scalps
  BY DEF WorkOK, Works
<1>2. CASE p.exit = "none"
  <2>1. Exited(w, p) = w
    BY <1>2 DEF Exited
  <2> QED
    BY <1>1, <2>1
<1>3. CASE p.exit = "sure" /\ phase # "mid"
  <2> DEFINE z == [w.scalp EXCEPT !.hold = TRUE]
             v == [w EXCEPT !.scalp = z]
  <2>1. z \in Scalps /\ z.pending = w.scalp.pending /\ z.open = w.scalp.open
        /\ z.token = w.scalp.token /\ z.shares = w.scalp.shares
    BY <1>1 DEF Scalps
  <2>2. Exited(w, p) = v
    BY <1>3 DEF Exited
  <2> HIDE DEF z
  <2>3. v \in Works /\ v.orders = w.orders /\ v.scalp = z /\ v.stake = w.stake
    BY <1>1, <2>1 DEF Works
  <2> HIDE DEF v
  <2>4. WorkOK(v)
    BY <2>1, <2>3, SameWork
  <2> QED
    BY <1>1, <2>2, <2>3, <2>4
<1>4. CASE ~(p.exit = "none") /\ ~(p.exit = "sure" /\ phase # "mid")
  <2> DEFINE i == CrossOut(w.scalp)
  <2>1. Exited(w, p) = Handled(w, i, p)
    BY <1>4 DEF Exited
  <2>2. w.scalp.shares \in 1 .. MaxSize /\ w.scalp.token \in Tokens
    <3>1. w.scalp.shares \in 0 .. MaxSize /\ w.scalp.token \in Tokens
      BY <1>1 DEF Scalps
    <3>2. w.scalp.shares > 0
      BY DEF WorkOK, Good, Book, EntriesGood
    <3> QED
      BY <3>1, <3>2
  <2>3. /\ i \in Intents /\ i.use = "exit" /\ i.token = w.scalp.token
        /\ i.size <= w.scalp.shares
    BY <2>2, TradingAssumption DEF CrossOut, Intents, Uses
  <2> HIDE DEF i
  <2>4. MayAsk(phase, w.scalp, i)
    BY <2>3 DEF MayAsk
  <2> QED
    BY <2>1, <2>3, <2>4, HandledIs
<1> QED
  BY <1>2, <1>3, <1>4

LEMMA SnipedGrows ==
  ASSUME NEW w \in Works, NEW p
  PROVE  Grows(Sniped(w, p).orders, w.orders)
<1> DEFINE u == [w EXCEPT !.fired = TRUE]
<1>1. u \in Works /\ u.orders = w.orders
  BY DEF Works
<1>2. Grows(w.orders, w.orders)
  BY DEF Works, Grows
<1>3. \A i : Grows(Handled(u, i, p).orders, w.orders)
  <2> HIDE DEF u
  <2>1. \A i : Grows(Handled(u, i, p).orders, u.orders)
    BY <1>1, HandledGrows
  <2> QED
    BY <1>1, <2>1
<1> QED
  BY <1>2, <1>3 DEF Sniped

LEMMA ScalpedGrows ==
  ASSUME NEW w \in Works, NEW p
  PROVE  Grows(Scalped(w, p).orders, w.orders)
<1>1. Grows(w.orders, w.orders)
  BY DEF Works, Grows
<1>2. \A i : Grows(Handled(w, i, p).orders, w.orders)
  BY HandledGrows
<1>3. [w EXCEPT !.scalp.hold = TRUE].orders = w.orders
  BY DEF Works
<1> QED
  BY <1>1, <1>2, <1>3 DEF Scalped, Exited

LEMMA ScalpedIs ==
  ASSUME NEW w, WorkOK(w), NEW s, NEW p \in Contexts(s), phase \in Phases \ {"closed"}
  PROVE  LET v == Scalped(w, p)
         IN /\ Len(w.orders) \in Nat /\ Len(v.orders) \in Nat
            /\ Len(w.orders) <= Len(v.orders)
            /\ Len(v.orders) <= MaxOrders => WorkOK(v)
<1>1. Len(w.orders) \in Nat
  BY DEF WorkOK, Works
<1>2. CASE ExitWanted(w.scalp)
  <2>1. Scalped(w, p) = Exited(w, p) /\ w.scalp.open
    BY <1>2 DEF Scalped, ExitWanted
  <2> QED
    BY <2>1, ExitedIs
<1>3. CASE ~ExitWanted(w.scalp) /\ EntryWanted(w.scalp) /\ p.signal # "none"
  <2> DEFINE i == Entry(p, "entry")
  <2>1. Scalped(w, p) = Handled(w, i, p)
    BY <1>3 DEF Scalped
  <2>2. i \in Intents /\ i.use = "entry"
    <3>1. "entry" \in Uses
      BY DEF Uses
    <3> QED
      BY <1>3, <3>1, ContextIs
  <2> HIDE DEF i
  <2>3. MayAsk(phase, w.scalp, i)
    BY <1>3, <2>2 DEF MayAsk, EntryWanted
  <2> QED
    BY <2>1, <2>2, <2>3, HandledIs
<1>4. CASE ~ExitWanted(w.scalp) /\ ~(EntryWanted(w.scalp) /\ p.signal # "none")
  <2>1. Scalped(w, p) = w
    BY <1>4 DEF Scalped
  <2> QED
    BY <1>1, <2>1
<1> QED
  BY <1>2, <1>3, <1>4

-----------------------------------------------------------------------------
(* Step by step.  Whatever happens, an order keeps its intent, ends once and *)
(* fills no more, and what is new has not ended.                             *)
Onward(ps, os) ==
  /\ Len(os) \in Nat /\ Len(ps) \in Nat /\ Len(os) <= Len(ps)
  /\ \A k \in 1 .. Len(os) :
       /\ ps[k].i = os[k].i
       /\ IsTerminal(os[k].x.om) =>
            IsTerminal(ps[k].x.om) /\ ps[k].x.om.booked = os[k].x.om.booked
  /\ \A k \in Len(os) + 1 .. Len(ps) : ~IsTerminal(ps[k].x.om)

LEMMA InvIs ==
  ASSUME IInv
  PROVE  /\ phase \in Phases /\ fired \in BOOLEAN
         /\ Good(phase, orders, scalp, stake)
         /\ orders \in Seq(Orders) /\ Len(orders) \in Nat /\ Len(orders) <= MaxOrders
         /\ DOMAIN orders = 1 .. Len(orders)
         /\ scalp \in Scalps /\ stake \in 0 .. MaxStake
         /\ \A k \in 1 .. Len(orders) : orders[k] \in Orders /\ OrderOK(orders[k])
<1>1. Good(phase, orders, scalp, stake) /\ TypeOK
  BY DEF IInv
<1>2. orders \in Seq(Orders) /\ \A k \in DOMAIN orders : OrderOK(orders[k])
  BY <1>1 DEF Good
<1>3. /\ Len(orders) \in Nat /\ DOMAIN orders = 1 .. Len(orders)
      /\ \A k \in 1 .. Len(orders) : orders[k] \in Orders
  BY <1>2
<1> QED
  BY <1>1, <1>2, <1>3 DEF TypeOK

LEMMA InvFrom ==
  ASSUME phase' \in Phases, fired' \in BOOLEAN, Len(orders') <= MaxOrders,
         Good(phase, orders, scalp, stake)'
  PROVE  IInv'
BY DEF IInv, TypeOK, Good, Orders

LEMMA PumpStep ==
  ASSUME IInv, Pump
  PROVE  IInv' /\ Onward(orders', orders)
<1>1. /\ phase \in Phases /\ fired \in BOOLEAN
      /\ Good(phase, orders, scalp, stake)
      /\ orders \in Seq(Orders) /\ Len(orders) \in Nat
      /\ scalp \in Scalps /\ stake \in 0 .. MaxStake
  BY InvIs
<1>2. PICK seen \in [Due -> Views] :
        LET after == Arrived(seen)
            told  == FillsTold(after)
            st    == [orders |-> after, scalp |-> told, fired |-> fired, stake |-> stake]
        IN \E p \in Contexts(told) :
             LET next == IF phase = "closed" THEN st ELSE Scalped(Sniped(st, p), p)
             IN /\ Len(next.orders) <= MaxOrders
                /\ orders' = next.orders
                /\ scalp' = next.scalp
                /\ fired' = next.fired
                /\ stake' = next.stake
                /\ UNCHANGED phase
  BY DEF Pump
<1> DEFINE after == Arrived(seen)
           held  == FillsTold(after)
           w     == [orders |-> after, scalp |-> held, fired |-> fired, stake |-> stake]
<1>3. PICK p \in Contexts(held) :
        LET next == IF phase = "closed" THEN w ELSE Scalped(Sniped(w, p), p)
        IN /\ Len(next.orders) <= MaxOrders
           /\ orders' = next.orders
           /\ scalp' = next.scalp
           /\ fired' = next.fired
           /\ stake' = next.stake
           /\ UNCHANGED phase
  BY <1>2
<1> DEFINE n     == Len(orders)
           ended == Live(orders) \ Live(after)
<1>4. /\ after \in Seq(Orders) /\ Len(after) = n
      /\ \A k \in 1 .. n : OrderOK(after[k])
      /\ \A k \in 1 .. n : after[k].i = orders[k].i /\ Follows(after[k].x, orders[k].x)
      /\ Is(after) = Is(orders)
      /\ Lands(n, Is(orders), Bk(orders), Bk(after), Live(orders), ended)
      /\ Live(after) = Live(orders) \ ended
  BY <1>1, ArrivedIs
<1> HIDE DEF after
<1>5. Good(phase, after, held, stake)
  <2>1. PICK told : IsChain(told, scalp, n, Is(orders), Bk(orders), Bk(after)) /\ held = told[n]
    BY <1>1, <1>4, FillsToldIs
  <2>2. /\ n \in Nat /\ Is(orders) \in [1 .. n -> Intents]
        /\ Bk(orders) \in [1 .. n -> Nat]
    BY <1>1, BookIs
  <2>3. Bk(after) \in [1 .. n -> Nat] /\ DOMAIN after = 1 .. n
    BY <1>4, BookIs
  <2>4. Book(phase, Is(orders), Bk(orders), Live(orders), scalp, stake)
    BY <1>1 DEF Good
  <2> HIDE DEF held, n, ended
  <2>5. /\ Book(phase, Is(orders), Bk(after), Live(orders) \ ended, told[n], stake)
        /\ told[n] \in Scalps
    BY <1>1, <1>4, <2>1, <2>2, <2>3, <2>4, LandBook
  <2> QED
    BY <1>1, <1>4, <2>1, <2>3, <2>5 DEF Good
<1> HIDE DEF held, n, ended
<1>6. WorkOK(w)
  BY <1>1, <1>4, <1>5 DEF WorkOK, Works, Good
<1> HIDE DEF w
<1> DEFINE next == IF phase = "closed" THEN w ELSE Scalped(Sniped(w, p), p)
<1>7. /\ Len(next.orders) <= MaxOrders /\ orders' = next.orders /\ scalp' = next.scalp
      /\ fired' = next.fired /\ stake' = next.stake /\ phase' = phase
  BY <1>3
<1>8. WorkOK(next)
  <2>1. CASE phase = "closed"
    BY <1>6, <2>1
  <2>2. CASE phase # "closed"
    <3> DEFINE u == Sniped(w, p)
               v == Scalped(u, p)
    <3>1. Len(v.orders) <= MaxOrders /\ next = v
      BY <1>7, <2>2
    <3> HIDE DEF next
    <3>2. /\ Len(u.orders) \in Nat /\ u \in Works
          /\ Len(u.orders) <= MaxOrders => WorkOK(u)
      BY <1>1, <1>6, SnipedIs
    <3>3. phase \in Phases \ {"closed"} /\ MaxOrders \in Nat
      BY <1>1, <2>2, TradingAssumption
    <3> HIDE DEF u
    <3>4. SUFFICES Len(u.orders) <= MaxOrders
      <4>1. ASSUME WorkOK(u)
            PROVE  WorkOK(v)
        BY <3>1, <3>3, <4>1, ScalpedIs
      <4> QED
        BY <3>1, <3>2, <4>1
    <3>5. Len(u.orders) <= Len(v.orders) /\ Len(v.orders) \in Nat
      BY <3>2, ScalpedGrows DEF Grows
    <3> QED
      BY <3>1, <3>2, <3>3, <3>5
  <2> QED
    BY <2>1, <2>2
<1>9. Grows(next.orders, after)
  <2> DEFINE u == Sniped(w, p)
  <2>1. w \in Works /\ w.orders = after
    BY <1>6 DEF WorkOK, w
  <2>2. CASE phase = "closed"
    <3>1. Grows(after, after)
      BY <1>4 DEF Grows
    <3> QED
      BY <2>1, <2>2, <3>1
  <2>3. CASE phase # "closed"
    <3>1. u \in Works
      BY <1>1, <1>6, SnipedIs
    <3>2. Grows(u.orders, after)
      BY <2>1, SnipedGrows
    <3> HIDE DEF u
    <3>3. Grows(Scalped(u, p).orders, u.orders)
      BY <3>1, ScalpedGrows
    <3>4. Grows(Scalped(u, p).orders, after)
      BY <3>2, <3>3, GrowsOn
    <3> QED
      BY <2>3, <3>4 DEF u
  <2> QED
    BY <2>2, <2>3
<1> HIDE DEF next
<1>10. Good(phase, orders, scalp, stake)' /\ fired' \in BOOLEAN
  BY <1>7, <1>8 DEF WorkOK, Works
<1>11. Onward(orders', orders)
  <2>1. Grows(orders', after) /\ Len(after) = Len(orders) /\ Len(orders) \in Nat
    BY <1>1, <1>4, <1>7, <1>9 DEF n
  <2>2. ASSUME NEW k \in 1 .. Len(orders)
        PROVE  /\ orders'[k] = after[k] /\ after[k].i = orders[k].i
               /\ IsTerminal(orders[k].x.om) => after[k].x.om = orders[k].x.om
    BY <1>4, <2>1, <2>2 DEF Grows, Follows, IsTerminal, n
  <2> QED
    BY <2>1, <2>2 DEF Grows, Onward
<1> QED
  BY <1>1, <1>7, <1>10, <1>11, InvFrom

(* The other steps end no order and fill none.                               *)
Like(p, o) ==
  /\ p \in Orders /\ OrderOK(p)
  /\ p.i = o.i /\ p.x.om.booked = o.x.om.booked
  /\ IsTerminal(p.x.om) <=> IsTerminal(o.x.om)

LEMMA LikeBook ==
  ASSUME NEW os \in Seq(Orders), NEW ps, DOMAIN ps = 1 .. Len(os), ps = [k \in DOMAIN ps |-> ps[k]],
         \A k \in 1 .. Len(os) : Like(ps[k], os[k])
  PROVE  /\ ps \in Seq(Orders) /\ Len(ps) = Len(os)
         /\ \A k \in DOMAIN ps : OrderOK(ps[k])
         /\ Is(ps) = Is(os) /\ Bk(ps) = Bk(os) /\ Live(ps) = Live(os)
<1> DEFINE n == Len(os)
<1>1. n \in Nat
  OBVIOUS
<1>2. \A k \in 1 .. n : ps[k] \in Orders /\ OrderOK(ps[k])
  BY DEF Like
<1>3. ps \in Seq(Orders) /\ Len(ps) = n
  <2> HIDE DEF n
  <2>1. DOMAIN ps = 1 .. n /\ ps = [k \in DOMAIN ps |-> ps[k]]
    BY DEF n
  <2>2. ps \in [1 .. n -> Orders]
    BY <1>2, <2>1
  <2> QED
    BY <1>1, <2>2
<1>4. Is(ps) = Is(os) /\ Bk(ps) = Bk(os) /\ Live(ps) = Live(os)
  BY <1>3, SameBook DEF Like
<1> QED
  BY <1>2, <1>3, <1>4

LEMMA LikeItself ==
  ASSUME NEW o \in Orders, OrderOK(o)
  PROVE  Like(o, o)
BY DEF Like

LEMMA LikeOnward ==
  ASSUME NEW os, Len(os) \in Nat, NEW ps, Len(ps) = Len(os),
         \A k \in 1 .. Len(os) : Like(ps[k], os[k])
  PROVE  Onward(ps, os)
<1>1. Len(os) + 1 .. Len(ps) = {}
  OBVIOUS
<1> QED
  BY <1>1 DEF Onward, Like

LEMMA CancelIs ==
  ASSUME NEW o \in Orders, OrderOK(o), IsOpen(o.x.om), NEW rtt \in Rtts
  PROVE  Like([o EXCEPT !.x = CancelAll(@, rtt)], o)
<1> DEFINE x == o.x
           m == CancelFlagged(x.om)
           c == IF x.place = "none" THEN x.cancels ELSE x.cancels \cup {rtt}
           y == CancelAll(x, rtt)
           z == [o EXCEPT !.x = y]
<1>1. /\ x \in OrderRecords /\ x.om \in ManagedOrder /\ Kept(x, o.i)
      /\ o.task = "queued" <=> x.om.state = "DRAFT"
      /\ x.cancels # {} => x.om.state # "DRAFT"
  BY DEF Orders, OrderRecords, OrderOK
<1>2. /\ m \in ManagedOrder /\ m.state = x.om.state /\ m.raised = x.om.raised
      /\ m.filled = x.om.filled /\ m.booked = x.om.booked
  BY <1>1 DEF CancelFlagged, ManagedOrder
<1>3. y = [[x EXCEPT !.om = m] EXCEPT !.cancels = c]
  BY <1>1 DEF CancelAll, Flagged, ScheduleCancel, OrderRecords
<1>4. c \in SUBSET (0 .. MaxRtt)
  BY <1>1, RttAssumption DEF OrderRecords, Rtts
<1> HIDE DEF m, y
<1>5. /\ y \in OrderRecords /\ y.om = m /\ y.place = x.place /\ y.cancels = c
  <2> HIDE DEF c, x
  <2> QED
    BY <1>1, <1>2, <1>3, <1>4 DEF OrderRecords
<1>6. c # {} => x.om.state # "DRAFT"
  <2>1. x.place \in {"none", "pending"}
    BY <1>1 DEF Kept, OrderRecords, Places
  <2>2. x.place = "pending" => x.om.state = "ACKED"
    BY <1>1 DEF Kept
  <2> HIDE DEF x
  <2> QED
    BY <1>1, <2>1, <2>2
<1> HIDE DEF c
<1>7. z \in Orders /\ z.x = y /\ z.i = o.i /\ z.task = o.task
  BY <1>5 DEF Orders
<1> HIDE DEF z, x
<1>8. Kept(y, o.i)
  BY <1>1, <1>2, <1>5 DEF Kept, Whole
<1>9. OrderOK(z)
  BY <1>1, <1>2, <1>5, <1>6, <1>7, <1>8 DEF OrderOK
<1> QED
  BY <1>2, <1>5, <1>7, <1>9 DEF Like, IsTerminal, z, x, y

LEMMA TickIs ==
  ASSUME NEW o \in Orders, OrderOK(o)
  PROVE  Like([o EXCEPT !.x = Tick(@)], o)
<1> DEFINE x == o.x
           l == Dec(x.left)
           c == {Dec(d) : d \in x.cancels}
           y == Tick(x)
           z == [o EXCEPT !.x = y]
<1>1. /\ x \in OrderRecords /\ x.om \in ManagedOrder /\ Kept(x, o.i)
      /\ o.task = "queued" <=> x.om.state = "DRAFT"
      /\ x.cancels # {} => x.om.state # "DRAFT"
  BY DEF Orders, OrderRecords, OrderOK
<1>2. \A d \in 0 .. MaxRtt : Dec(d) \in 0 .. MaxRtt
  BY RttAssumption DEF Dec
<1>3. l \in 0 .. MaxRtt /\ c \in SUBSET (0 .. MaxRtt) /\ (c # {} => x.cancels # {})
  BY <1>1, <1>2 DEF OrderRecords
<1>4. y = [[x EXCEPT !.left = l] EXCEPT !.cancels = c]
  BY <1>1 DEF Tick, OrderRecords
<1> HIDE DEF c, l, y, x
<1>5. y \in OrderRecords /\ y.om = x.om /\ y.place = x.place /\ y.cancels = c
  BY <1>1, <1>3, <1>4 DEF OrderRecords
<1>6. z \in Orders /\ z.x = y /\ z.i = o.i /\ z.task = o.task
  BY <1>5 DEF Orders, x
<1> HIDE DEF z
<1>7. Kept(y, o.i)
  BY <1>1, <1>5 DEF Kept
<1>8. OrderOK(z)
  BY <1>1, <1>3, <1>5, <1>6, <1>7 DEF OrderOK
<1> QED
  BY <1>5, <1>6, <1>8 DEF Like, z, x, y

LEMMA RecordedIs ==
  ASSUME NEW o \in Orders, OrderOK(o), o.task = "recording"
  PROVE  Like([o EXCEPT !.task = "done"], o)
<1> DEFINE z == [o EXCEPT !.task = "done"]
<1>1. z \in Orders /\ z.x = o.x /\ z.i = o.i /\ z.task = "done"
  BY DEF Orders, Tasks
<1> HIDE DEF z
<1>2. OrderOK(z)
  BY <1>1 DEF OrderOK
<1> QED
  BY <1>1, <1>2 DEF Like, z

LEMMA SubmittedIs ==
  ASSUME NEW o \in Orders, OrderOK(o), o.task = "queued", NEW rtt \in Rtts
  PROVE  Like([o EXCEPT !.x.om = Submitted(@), !.x.place = "pending", !.x.left = rtt,
                        !.task = "recording"], o)
<1> DEFINE x == o.x
           m == Submitted(x.om)
           y == [[[x EXCEPT !.om = m] EXCEPT !.place = "pending"] EXCEPT !.left = rtt]
           z == [[o EXCEPT !.x = y] EXCEPT !.task = "recording"]
<1>1. /\ x \in OrderRecords /\ x.om \in ManagedOrder /\ Kept(x, o.i)
      /\ x.om.state = "DRAFT" /\ ~x.om.raised
  BY DEF Orders, OrderRecords, OrderOK, Kept
<1>2. /\ m \in ManagedOrder /\ m.state = "ACKED" /\ ~m.raised
      /\ m.filled = x.om.filled /\ m.booked = x.om.booked
  <2> DEFINE a == [x.om EXCEPT !.state = "SIGNED"]
             b == [a EXCEPT !.state = "SENT"]
             d == [b EXCEPT !.state = "ACKED"]
  <2>1. {"DRAFT", "SIGNED", "SENT", "ACKED"} \subseteq States
    BY DEF States, Working
  <2>2. /\ "SIGNED" \in ValidTransitions["DRAFT"] /\ "SENT" \in ValidTransitions["SIGNED"]
        /\ "ACKED" \in ValidTransitions["SENT"]
    BY <2>1 DEF ValidTransitions
  <2>3. a \in ManagedOrder /\ a.state = "SIGNED" /\ a.raised = x.om.raised
        /\ a.filled = x.om.filled /\ a.booked = x.om.booked /\ Transition(x.om, "SIGNED") = a
    BY <1>1, <2>1, <2>2, MovedIs DEF Transition
  <2> HIDE DEF a
  <2>4. b \in ManagedOrder /\ b.state = "SENT" /\ b.raised = a.raised
        /\ b.filled = a.filled /\ b.booked = a.booked /\ Transition(a, "SENT") = b
    BY <2>1, <2>2, <2>3, MovedIs DEF Transition
  <2> HIDE DEF b
  <2>5. d \in ManagedOrder /\ d.state = "ACKED" /\ d.raised = b.raised
        /\ d.filled = b.filled /\ d.booked = b.booked /\ Transition(b, "ACKED") = d
    BY <2>1, <2>2, <2>4, MovedIs DEF Transition
  <2> HIDE DEF d
  <2>6. m = d
    BY <2>3, <2>4, <2>5 DEF Submitted
  <2> HIDE DEF m, x
  <2> QED
    BY <1>1, <2>3, <2>4, <2>5, <2>6
<1> HIDE DEF m
<1>3. "pending" \in Places /\ rtt \in 0 .. MaxRtt
  BY RttAssumption DEF Places, Rtts
<1>4. /\ y \in OrderRecords /\ y.om = m /\ y.place = "pending" /\ y.cancels = x.cancels
  <2> HIDE DEF x
  <2> QED
    BY <1>1, <1>2, <1>3 DEF OrderRecords
<1>5. [o EXCEPT !.x.om = Submitted(@), !.x.place = "pending", !.x.left = rtt,
                !.task = "recording"] = z
  BY <1>1 DEF Orders, OrderRecords, m
<1> HIDE DEF y
<1>6. z \in Orders /\ z.x = y /\ z.i = o.i /\ z.task = "recording"
  BY <1>4 DEF Orders, Tasks
<1> HIDE DEF z
<1>7. Kept(y, o.i)
  BY <1>1, <1>2, <1>4, StatesAre DEF Kept, Whole
<1>8. OrderOK(z)
  BY <1>2, <1>4, <1>6, <1>7 DEF OrderOK
<1> QED
  BY <1>1, <1>2, <1>4, <1>5, <1>6, <1>8, StatesAre DEF Like, IsTerminal

LEMMA GoodAgain ==
  ASSUME NEW ph, NEW os, NEW s, NEW st, Good(ph, os, s, st),
         NEW ps, DOMAIN ps = 1 .. Len(os), ps = [k \in DOMAIN ps |-> ps[k]],
         \A k \in 1 .. Len(os) : Like(ps[k], os[k])
  PROVE  Good(ph, ps, s, st) /\ Len(ps) = Len(os) /\ Onward(ps, os)
<1>1. os \in Seq(Orders) /\ Len(os) \in Nat
  BY DEF Good
<1>2. Good(ph, ps, s, st) /\ Len(ps) = Len(os)
  BY LikeBook DEF Good
<1> QED
  BY <1>1, <1>2, LikeOnward

LEMMA OneOrder ==
  ASSUME IInv, NEW k \in DOMAIN orders, NEW p, Like(p, orders[k])
  PROVE  LET ps == [orders EXCEPT ![k] = p]
         IN Good(phase, ps, scalp, stake) /\ Len(ps) <= MaxOrders /\ Onward(ps, orders)
<1> DEFINE ps == [orders EXCEPT ![k] = p]
<1>1. /\ Good(phase, orders, scalp, stake) /\ DOMAIN orders = 1 .. Len(orders)
      /\ Len(orders) <= MaxOrders
      /\ \A j \in 1 .. Len(orders) : orders[j] \in Orders /\ OrderOK(orders[j])
  BY InvIs
<1>2. DOMAIN ps = 1 .. Len(orders) /\ ps = [j \in DOMAIN ps |-> ps[j]]
  BY <1>1
<1>3. \A j \in 1 .. Len(orders) : Like(ps[j], orders[j])
  BY <1>1, LikeItself
<1> HIDE DEF ps
<1>4. Good(phase, ps, scalp, stake) /\ Len(ps) = Len(orders) /\ Onward(ps, orders)
  BY <1>1, <1>2, <1>3, GoodAgain
<1> QED
  BY <1>1, <1>4 DEF ps

LEMMA SubmitTaskStep ==
  ASSUME IInv, NEW k \in DOMAIN orders, SubmitTask(k)
  PROVE  IInv' /\ Onward(orders', orders)
<1>1. /\ orders[k] \in Orders /\ OrderOK(orders[k]) /\ orders[k].task = "queued"
      /\ phase \in Phases /\ fired \in BOOLEAN
  BY InvIs DEF SubmitTask
<1>2. PICK rtt \in Rtts :
        orders' = [orders EXCEPT ![k].x.om = Submitted(@),
                                 ![k].x.place = "pending",
                                 ![k].x.left = rtt,
                                 ![k].task = "recording"]
  BY DEF SubmitTask
<1> DEFINE p == [orders[k] EXCEPT !.x.om = Submitted(@), !.x.place = "pending", !.x.left = rtt,
                                  !.task = "recording"]
<1>3. Like(p, orders[k])
  BY <1>1, SubmittedIs
<1>4. orders' = [orders EXCEPT ![k] = p]
  BY <1>2
<1> HIDE DEF p
<1>5. Good(phase, orders', scalp, stake) /\ Len(orders') <= MaxOrders /\ Onward(orders', orders)
  BY <1>3, <1>4, OneOrder
<1>6. UNCHANGED <<phase, scalp, fired, stake>>
  BY DEF SubmitTask
<1> QED
  BY <1>1, <1>5, <1>6, InvFrom

LEMMA RecordDoneStep ==
  ASSUME IInv, NEW k \in DOMAIN orders, RecordDone(k)
  PROVE  IInv' /\ Onward(orders', orders)
<1>1. /\ orders[k] \in Orders /\ OrderOK(orders[k]) /\ orders[k].task = "recording"
      /\ phase \in Phases /\ fired \in BOOLEAN
      /\ Good(phase, orders, scalp, stake) /\ k \in 1 .. Len(orders)
  BY InvIs DEF RecordDone
<1> DEFINE p  == [orders[k] EXCEPT !.task = "done"]
           ps == [orders EXCEPT ![k] = p]
<1>2. Like(p, orders[k])
  BY <1>1, RecordedIs
<1>3. orders' = ps
  BY DEF RecordDone
<1> HIDE DEF p
<1>4. Good(phase, ps, scalp, stake) /\ Len(ps) <= MaxOrders /\ Onward(ps, orders)
  BY <1>2, OneOrder
<1>5. ps \in Seq(Orders) /\ DOMAIN ps = 1 .. Len(ps) /\ k \in 1 .. Len(ps) /\ ps[k] = p
  BY <1>1, <1>4 DEF Good
<1> HIDE DEF ps
<1>6. CASE EntryEnded(k) /\ scalp.pending = k
  <2> DEFINE z == [scalp EXCEPT !.pending = 0]
  <2>1. scalp' = z
    BY <1>6 DEF RecordDone
  <2>2. scalp \in Scalps
    BY InvIs
  <2>3. /\ z \in Scalps /\ z.pending = 0 /\ z.open = scalp.open
        /\ z.token = scalp.token /\ z.shares = scalp.shares
    BY <2>2, TradingAssumption DEF Scalps
  <2> HIDE DEF z
  <2> DEFINE is == Is(ps)
             f  == Bk(ps)
             live == Live(ps)
  <2>4. Book(phase, is, f, live, scalp, stake)
    BY <1>4 DEF Good
  <2>5. k \notin live
    <3>1. IsTerminal(ps[k].x.om)
      BY <1>2, <1>5, <1>6 DEF Like, EntryEnded
    <3> QED
      BY <1>5, <3>1, BookIs
  <2> HIDE DEF is, f, live
  <2>6. EntriesGood(phase, is, live, z)
    BY <1>6, <2>3, <2>4, <2>5 DEF Book, EntriesGood
  <2>7. ExitsGood(is, f, live, z)
    BY <2>3, <2>4 DEF Book, ExitsGood, HeldOf
  <2>8. Rounds(is, f, scalp) => Rounds(is, f, z)
    BY <2>3 DEF Rounds, Managed
  <2>9. Book(phase, is, f, live, z, stake)
    BY <2>4, <2>6, <2>7, <2>8 DEF Book
  <2>10. Good(phase, ps, z, stake)
    BY <1>4, <2>3, <2>9 DEF Good, is, f, live
  <2>11. UNCHANGED <<phase, fired, stake>>
    BY DEF RecordDone
  <2> QED
    BY <1>1, <1>3, <1>4, <2>1, <2>10, <2>11, InvFrom
<1>7. CASE ~(EntryEnded(k) /\ scalp.pending = k)
  <2>1. UNCHANGED <<phase, scalp, fired, stake>>
    BY <1>7 DEF RecordDone
  <2> QED
    BY <1>1, <1>3, <1>4, <2>1, InvFrom
<1> QED
  BY <1>6, <1>7

LEMMA NextPhaseStep ==
  ASSUME IInv, NextPhase
  PROVE  IInv' /\ Onward(orders', orders)
<1>1. /\ fired \in BOOLEAN /\ Good(phase, orders, scalp, stake)
      /\ Len(orders) <= MaxOrders /\ DOMAIN orders = 1 .. Len(orders)
      /\ phase \in {"mid", "armed"} /\ Short(phase)
      /\ phase' = IF phase = "mid" THEN "armed" ELSE "lockout"
      /\ UNCHANGED <<orders, scalp, fired, stake>>
  BY InvIs DEF NextPhase
<1> DEFINE is == Is(orders)
           f  == Bk(orders)
           live == Live(orders)
<1>2. Book(phase, is, f, live, scalp, stake)
  BY <1>1 DEF Good
<1>3. phase = "armed" => EntriesIn(is) \cap live = {}
  <2>1. SUFFICES ASSUME phase = "armed", NEW k \in EntriesIn(is) \cap live PROVE FALSE
    OBVIOUS
  <2>2. orders \in Seq(Orders)
    BY <1>1 DEF Good
  <2>3. k \in 1 .. Len(orders) /\ ~IsTerminal(orders[k].x.om) /\ is[k] = orders[k].i
    <3>1. k \in 1 .. Len(orders)
      BY <2>2, BookIs
    <3> QED
      BY <2>2, <3>1, BookIs
  <2>4. IsEntry(k)
    BY <2>3 DEF EntriesIn, IsEntry
  <2> QED
    BY <1>1, <2>1, <2>3, <2>4 DEF Short
<1> HIDE DEF is, f, live
<1>4. EntriesGood(phase', is, live, scalp)
  BY <1>1, <1>2, <1>3 DEF Book, EntriesGood
<1>5. Book(phase', is, f, live, scalp, stake)
  BY <1>1, <1>2, <1>4 DEF Book
<1>6. Good(phase', orders, scalp, stake)
  BY <1>1, <1>5 DEF Good, is, f, live
<1>7. phase' \in Phases
  BY <1>1 DEF Phases
<1>8. Onward(orders', orders)
  <2>1. orders \in Seq(Orders) /\ Len(orders) \in Nat
    BY <1>1 DEF Good
  <2>2. \A k \in 1 .. Len(orders) : orders[k] \in Orders /\ OrderOK(orders[k])
    BY InvIs
  <2> QED
    BY <1>1, <2>1, <2>2, LikeItself, LikeOnward
<1> QED
  BY <1>1, <1>6, <1>7, <1>8, InvFrom

LEMMA CloseWindowStep ==
  ASSUME IInv, CloseWindow
  PROVE  IInv' /\ Onward(orders', orders)
<1>1. /\ fired \in BOOLEAN /\ Good(phase, orders, scalp, stake)
      /\ Len(orders) <= MaxOrders /\ DOMAIN orders = 1 .. Len(orders)
      /\ \A k \in 1 .. Len(orders) : orders[k] \in Orders /\ OrderOK(orders[k])
  BY InvIs
<1>2. PICK rtt \in Rtts :
        orders' = [k \in DOMAIN orders |->
          IF IsOpen(orders[k].x.om)
          THEN [orders[k] EXCEPT !.x = CancelAll(@, rtt)] ELSE orders[k]]
  BY DEF CloseWindow
<1>3. phase = "lockout" /\ phase' = "closed" /\ scalp' = Fresh /\ UNCHANGED <<fired, stake>>
  BY DEF CloseWindow
<1>4. \A k \in 1 .. Len(orders) : Like(orders'[k], orders[k])
  <2>1. SUFFICES ASSUME NEW k \in 1 .. Len(orders) PROVE Like(orders'[k], orders[k])
    OBVIOUS
  <2>2. CASE IsOpen(orders[k].x.om)
    <3>1. orders'[k] = [orders[k] EXCEPT !.x = CancelAll(@, rtt)]
      BY <1>1, <1>2, <2>2
    <3> QED
      BY <1>1, <2>2, <3>1, CancelIs
  <2>3. CASE ~IsOpen(orders[k].x.om)
    <3>1. orders'[k] = orders[k]
      BY <1>1, <1>2, <2>3
    <3> QED
      BY <1>1, <3>1, LikeItself
  <2> QED
    BY <2>2, <2>3
<1> DEFINE ps == orders'
<1>5. DOMAIN ps = 1 .. Len(orders) /\ ps = [k \in DOMAIN ps |-> ps[k]]
  BY <1>1, <1>2
<1>6. \A k \in 1 .. Len(orders) : Like(ps[k], orders[k])
  BY <1>4
<1> HIDE DEF ps
<1>7. Good(phase, ps, scalp, stake) /\ Len(ps) = Len(orders) /\ Onward(ps, orders)
  BY <1>1, <1>5, <1>6, GoodAgain
<1> DEFINE is == Is(ps)
           f  == Bk(ps)
           live == Live(ps)
<1>8. Book(phase, is, f, live, scalp, stake)
  BY <1>7 DEF Good
<1> HIDE DEF is, f, live
<1>9. Fresh \in Scalps /\ Fresh.open = FALSE
  BY TradingAssumption DEF Fresh, Scalps, Tokens
<1>10. EntriesGood("closed", is, live, Fresh)
  BY <1>3, <1>8, <1>9 DEF Book, EntriesGood
<1>11. ExitsGood(is, f, live, Fresh)
  BY <1>8, <1>9 DEF Book, ExitsGood
<1>12. Book("closed", is, f, live, Fresh, stake)
  BY <1>8, <1>10, <1>11 DEF Book
<1>13. Good("closed", ps, Fresh, stake)
  BY <1>7, <1>9, <1>12 DEF Good, is, f, live
<1>14. Good(phase, orders, scalp, stake)' /\ "closed" \in Phases
  BY <1>3, <1>13 DEF ps, Phases
<1> QED
  BY <1>1, <1>3, <1>7, <1>14, InvFrom DEF ps

LEMMA AdvanceStep ==
  ASSUME IInv, Advance
  PROVE  IInv' /\ Onward(orders', orders)
<1>1. /\ phase \in Phases /\ fired \in BOOLEAN /\ Good(phase, orders, scalp, stake)
      /\ Len(orders) <= MaxOrders /\ DOMAIN orders = 1 .. Len(orders)
      /\ \A k \in 1 .. Len(orders) : orders[k] \in Orders /\ OrderOK(orders[k])
  BY InvIs
<1> DEFINE ps == [k \in DOMAIN orders |-> [orders[k] EXCEPT !.x = Tick(@)]]
<1>2. orders' = ps /\ UNCHANGED <<phase, scalp, fired, stake>>
  BY DEF Advance
<1>3. DOMAIN ps = 1 .. Len(orders) /\ ps = [k \in DOMAIN ps |-> ps[k]]
  BY <1>1
<1>4. \A k \in 1 .. Len(orders) : Like(ps[k], orders[k])
  <2>1. SUFFICES ASSUME NEW k \in 1 .. Len(orders) PROVE Like(ps[k], orders[k])
    OBVIOUS
  <2>2. ps[k] = [orders[k] EXCEPT !.x = Tick(@)]
    BY <1>1
  <2> QED
    BY <1>1, <2>2, TickIs
<1> HIDE DEF ps
<1>5. Good(phase, ps, scalp, stake) /\ Len(ps) = Len(orders) /\ Onward(ps, orders)
  BY <1>1, <1>3, <1>4, GoodAgain
<1> QED
  BY <1>1, <1>2, <1>5, InvFrom

-----------------------------------------------------------------------------
LEMMA InitStep ==
  ASSUME Init
  PROVE  IInv
<1>1. phase = "mid" /\ orders = <<>> /\ scalp = Fresh /\ fired = FALSE /\ stake = 0
  BY DEF Init
<1>2. orders \in Seq(Orders) /\ Len(orders) = 0 /\ DOMAIN orders = 1 .. 0 /\ 1 .. 0 = {}
  BY <1>1
<1>3. /\ Fresh \in Scalps /\ ~Fresh.open /\ Fresh.shares = 0 /\ Fresh.token \in Tokens
      /\ 0 \in 0 .. MaxStake /\ phase \in Phases /\ 0 <= MaxOrders
  BY <1>1, TradingAssumption DEF Fresh, Scalps, Tokens, Phases
<1> DEFINE is == Is(orders)
           f  == Bk(orders)
           z  == Sizes(is)
<1>4. 0 \in Nat /\ is \in [1 .. 0 -> Intents] /\ f \in [1 .. 0 -> Nat] /\ Live(orders) = {}
  BY <1>2, BookIs
<1>5. z \in [1 .. 0 -> Nat] /\ DOMAIN is = {} /\ DOMAIN f = {}
  BY <1>2, <1>4 DEF Sizes
<1> HIDE DEF is, f, z
<1>6. EntriesIn(is) = {} /\ ExitsIn(is) = {} /\ BuysIn(is) = {}
  BY <1>5 DEF EntriesIn, ExitsIn, BuysIn
<1>7. Total(f, {}) = 0 /\ Total(z, {}) = 0
  BY <1>4, <1>5, TotalOfOne
<1>8. Fits(is, f, {}) /\ Total(Sizes(is), BuysIn(is)) = 0
  BY <1>5, <1>6, <1>7 DEF Fits, z
<1>9. EntriesGood("mid", is, {}, Fresh) /\ ExitsGood(is, f, {}, Fresh)
  BY <1>3, <1>6 DEF EntriesGood, ExitsGood
<1>10. Rounds(is, f, Fresh)
  <2>1. \A t \in Tokens : OfToken(is, {}, t) = {}
    BY DEF OfToken
  <2>2. \A t \in Tokens : Holding(is, f, t) = 0
    BY <1>6, <1>7, <2>1 DEF Holding
  <2>3. Managed(Fresh) = 0
    BY <1>3 DEF Managed
  <2> QED
    BY <1>6, <2>2, <2>3 DEF Rounds
<1>11. Book("mid", is, f, {}, Fresh, 0)
  BY <1>8, <1>9, <1>10 DEF Book
<1>12. Good(phase, orders, scalp, stake)
  BY <1>1, <1>2, <1>3, <1>4, <1>11 DEF Good, is, f
<1> QED
  BY <1>1, <1>2, <1>3, <1>12 DEF IInv, TypeOK, Orders

LEMMA StepKeeps ==
  ASSUME IInv, [Next]_vars
  PROVE  IInv' /\ Onward(orders', orders)
<1>1. CASE Pump
  BY <1>1, PumpStep
<1>2. ASSUME NEW k \in DOMAIN orders, SubmitTask(k)
      PROVE  IInv' /\ Onward(orders', orders)
  BY <1>2, SubmitTaskStep
<1>3. ASSUME NEW k \in DOMAIN orders, RecordDone(k)
      PROVE  IInv' /\ Onward(orders', orders)
  BY <1>3, RecordDoneStep
<1>4. CASE NextPhase
  BY <1>4, NextPhaseStep
<1>5. CASE CloseWindow
  BY <1>5, CloseWindowStep
<1>6. CASE Advance
  BY <1>6, AdvanceStep
<1>7. CASE UNCHANGED vars
  <2>1. IInv'
    BY <1>7 DEF vars, IInv, TypeOK, Good
  <2>2. \A k \in 1 .. Len(orders) : Like(orders[k], orders[k])
    BY InvIs, LikeItself
  <2>3. orders' = orders /\ Len(orders) \in Nat
    BY <1>7, InvIs DEF vars
  <2> QED
    BY <2>1, <2>2, <2>3, LikeOnward
<1> QED
  BY <1>1, <1>2, <1>3, <1>4, <1>5, <1>6, <1>7 DEF Next

(* The book of the window stays right: what was asked, what it has filled,   *)
(* what is on its way and what the scalper takes itself to hold agree, over  *)
(* every pump, task, phase and round trip.                                   *)
THEOREM Inductive == Spec => []IInv
<1>1. IInv /\ [Next]_vars => IInv'
  BY StepKeeps
<1> QED
  BY <1>1, InitStep, PTL DEF Spec

(* Types, the scalper's shares and the stake included: neither ever leaves   *)
(* its bound, whatever is filled and sold.                                   *)
THEOREM TypeCorrect == Spec => []TypeOK
<1>1. IInv => TypeOK
  BY DEF IInv
<1> QED
  BY <1>1, Inductive, PTL

-----------------------------------------------------------------------------
(* Selling twice.  With one exit of each entry filled at most, no more is    *)
(* sold than was bought, of an entry and of a token.                         *)
Twice(is, f) ==
  \E e \in EntriesIn(is) : \E k, l \in ExitsAfter(is, e) : k # l /\ f[k] > 0 /\ f[l] > 0

Sells(is, f, live, s) ==
  ExitsGood(is, f, live, s) /\ \A k \in DOMAIN is : f[k] <= is[k].size

LEMMA ExitIsOf ==
  ASSUME NEW n \in Nat, NEW is \in [1 .. n -> Intents], NEW f \in [1 .. n -> Nat],
         NEW live, NEW s, Sells(is, f, live, s), NEW k \in ExitsIn(is)
  PROVE  \E e \in EntriesIn(is) : /\ k \in ExitsAfter(is, e) /\ is[k].token = is[e].token
                                  /\ f[k] <= f[e]
<1>1. PICK e \in EntriesIn(is) : ExitOf(is, f, k, e)
  BY DEF Sells, ExitsGood
<1>2. e \in 1 .. n /\ k \in 1 .. n
  BY DomainsAre
<1>3. f[k] \in Nat /\ f[e] \in Nat /\ is[k].size \in Int
  BY <1>2, TradingAssumption DEF Intents
<1>4. f[k] <= is[k].size
  BY <1>2 DEF Sells
<1> QED
  BY <1>1, <1>3, <1>4 DEF ExitOf

LEMMA OverIsTwice ==
  ASSUME NEW n \in Nat, NEW is \in [1 .. n -> Intents], NEW f \in [1 .. n -> Nat],
         NEW live, NEW s, Sells(is, f, live, s), Over(is, f)
  PROVE  Twice(is, f)
<1>1. PICK e \in EntriesIn(is) : Unsold(is, f, e) < 0
  BY DEF Over
<1> DEFINE K == ExitsAfter(is, e)
<1>2. e \in 1 .. n /\ K \in SUBSET (1 .. n) /\ K \subseteq ExitsIn(is)
  BY DomainsAre DEF ExitsAfter
<1>3. f \in [1 .. n -> Int] /\ f[e] \in Nat /\ \A k \in K : f[k] \in Nat
  BY <1>2
<1>4. f[e] - Total(f, K) < 0
  BY <1>1 DEF Unsold
<1>5. \A L \in SUBSET K : IsFiniteSet(L) /\ L \subseteq 1 .. n
  <2>1. IsFiniteSet(1 .. n)
    BY FS_Interval
  <2> HIDE DEF K
  <2> QED
    BY <1>2, <2>1, FS_Subset
<1>6. \A k \in K : f[k] <= f[e]
  <2>1. SUFFICES ASSUME NEW k \in K PROVE f[k] <= f[e]
    OBVIOUS
  <2>2. PICK c \in EntriesIn(is) : k \in ExitsAfter(is, c) /\ f[k] <= f[c]
    BY <1>2, ExitIsOf
  <2>3. c = e
    BY <2>2, OneRound
  <2> QED
    BY <2>2, <2>3
<1>7. SUFFICES ASSUME \A k, l \in K : k # l => ~(f[k] > 0 /\ f[l] > 0)
               PROVE  FALSE
  BY DEF Twice
<1> HIDE DEF K
<1>8. CASE \A k \in K : f[k] = 0
  <2>1. Total(f, K) = 0
    BY <1>3, <1>5, <1>8, SumOfNothing DEF Total
  <2> QED
    BY <1>3, <1>4, <2>1
<1>9. ASSUME NEW k \in K, f[k] # 0 PROVE FALSE
  <2>1. \A l \in K \ {k} : f[l] = 0
    BY <1>3, <1>7, <1>9
  <2>2. Total(f, K) = f[k] + Total(f, K \ {k})
    BY <1>3, <1>5, SumTakes DEF Total
  <2>3. Total(f, K \ {k}) = 0
    BY <1>3, <1>5, <2>1, SumOfNothing DEF Total
  <2> QED
    BY <1>3, <1>4, <1>6, <2>2, <2>3
<1> QED
  BY <1>8, <1>9

(* A token's holding, counted over the first orders of the window.           *)
Until(K, m) == {k \in K : k <= m}

Net(is, f, t, m) ==
  Total(f, Until(OfToken(is, EntriesIn(is), t), m))
    - Total(f, Until(OfToken(is, ExitsIn(is), t), m))

LEMMA TotalUpTo ==
  ASSUME NEW n \in Nat, NEW f \in [1 .. n -> Nat], NEW K \in SUBSET (1 .. n), NEW m \in 1 .. n
  PROVE  /\ Total(f, Until(K, m - 1)) \in Int
         /\ m \in K => Total(f, Until(K, m)) = Total(f, Until(K, m - 1)) + f[m]
         /\ m \notin K => Total(f, Until(K, m)) = Total(f, Until(K, m - 1))
<1> DEFINE All == Until(K, m)
           Old == Until(K, m - 1)
<1>1. f \in [1 .. n -> Int] /\ f[m] \in Int
  OBVIOUS
<1>2. \A k \in 1 .. n : k <= m - 1 <=> k <= m /\ k # m
  OBVIOUS
<1>3. /\ All \in SUBSET (1 .. n) /\ Old \in SUBSET (1 .. n)
      /\ m \in K => m \in All
      /\ Old = All \ {m}
  <2>1. \A k : k \in Old <=> k \in K /\ k <= m - 1
    BY Zenon DEF Until
  <2>2. \A k : k \in All <=> k \in K /\ k <= m
    BY Zenon DEF Until
  <2> HIDE DEF All, Old
  <2>3. All \in SUBSET (1 .. n) /\ Old \in SUBSET (1 .. n) /\ (m \in K => m \in All)
    <3>1. \A k : (k \in All => k \in K) /\ (k \in Old => k \in K)
      BY <2>1, <2>2
    <3>2. m <= m
      OBVIOUS
    <3> QED
      BY <2>2, <3>1, <3>2
  <2>4. \A k : k \in Old <=> k \in All /\ k # m
    BY <1>2, <2>1, <2>2
  <2> QED
    BY <2>3, <2>4
<1>4. m \notin K => All \ {m} = All
  BY DEF Until
<1> HIDE DEF All, Old
<1>5. IsFiniteSet(All)
  <2>1. IsFiniteSet(1 .. n)
    BY FS_Interval
  <2> QED
    BY <1>3, <2>1, FS_Subset
<1>6. Total(f, Old) \in Int
  BY <1>3, TotalIsInt
<1>7. ASSUME m \in K PROVE Total(f, All) = Total(f, Old) + f[m]
  <2>1. Total(f, All) = f[m] + Total(f, All \ {m})
    BY <1>1, <1>3, <1>5, <1>7, SumTakes DEF Total
  <2>2. Total(f, All) = f[m] + Total(f, Old)
    BY <1>3, <2>1, Zenon
  <2> QED
    BY <1>1, <1>6, <2>2
<1>8. ASSUME m \notin K PROVE Total(f, All) = Total(f, Old)
  BY <1>3, <1>4, <1>8, Zenon
<1> QED
  BY <1>6, <1>7, <1>8 DEF All, Old

LEMMA NetStep ==
  ASSUME NEW n \in Nat, NEW is \in [1 .. n -> Intents], NEW f \in [1 .. n -> Nat],
         NEW t, NEW m \in 1 .. n
  PROVE  /\ Net(is, f, t, m - 1) \in Int
         /\ is[m].token = t /\ is[m].use = "entry" => Net(is, f, t, m) = Net(is, f, t, m - 1) + f[m]
         /\ is[m].token = t /\ is[m].use = "exit" => Net(is, f, t, m) = Net(is, f, t, m - 1) - f[m]
         /\ is[m].token # t \/ is[m].use = "snipe" => Net(is, f, t, m) = Net(is, f, t, m - 1)
<1> DEFINE E == OfToken(is, EntriesIn(is), t)
           X == OfToken(is, ExitsIn(is), t)
           e == Total(f, Until(E, m))
           d == Total(f, Until(E, m - 1))
           x == Total(f, Until(X, m))
           w == Total(f, Until(X, m - 1))
<1>1. /\ E \in SUBSET (1 .. n) /\ X \in SUBSET (1 .. n)
      /\ m \in E <=> is[m].token = t /\ is[m].use = "entry"
      /\ m \in X <=> is[m].token = t /\ is[m].use = "exit"
  BY DEF OfToken, EntriesIn, ExitsIn
<1> HIDE DEF E, X
<1>2. /\ d \in Int
      /\ m \in E => e = d + f[m]
      /\ m \notin E => e = d
  BY <1>1, TotalUpTo
<1>3. /\ w \in Int
      /\ m \in X => x = w + f[m]
      /\ m \notin X => x = w
  BY <1>1, TotalUpTo
<1>4. Net(is, f, t, m) = e - x /\ Net(is, f, t, m - 1) = d - w
  BY DEF Net, E, X
<1>5. f[m] \in Int
  OBVIOUS
<1> HIDE DEF e, d, x, w
<1> QED
  BY <1>1, <1>2, <1>3, <1>4, <1>5

(* The last entry, while none of its exits has filled, is still held.        *)
Spare(is, f, e, m) ==
  /\ e <= m /\ \A l \in EntriesIn(is) : l <= m => l <= e
  /\ \A k \in ExitsAfter(is, e) : k <= m => f[k] = 0

LEMMA ShortIsTwice ==
  ASSUME NEW n \in Nat, NEW is \in [1 .. n -> Intents], NEW f \in [1 .. n -> Nat],
         NEW live, NEW s, Sells(is, f, live, s), ~Twice(is, f), NEW t
  PROVE  Holding(is, f, t) >= 0
<1> DEFINE H(m) == Net(is, f, t, m)
           E    == OfToken(is, EntriesIn(is), t)
           X    == OfToken(is, ExitsIn(is), t)
           Q    == {m \in 0 .. n : H(m) >= 0 /\ \A e \in E : Spare(is, f, e, m) => H(m) >= f[e]}
<1>1. E \in SUBSET (1 .. n) /\ X \in SUBSET (1 .. n)
  BY DomainsAre DEF OfToken
<1>2. 0 \in Q
  <2>1. Until(E, 0) = {} /\ Until(X, 0) = {}
    BY <1>1 DEF Until
  <2>2. H(0) = 0
    <3>1. H(0) = Total(f, {}) - Total(f, {})
      BY <2>1 DEF Net
    <3>2. Total(f, {}) = 0
      BY TotalOfOne
    <3> QED
      BY <3>1, <3>2
  <2>3. \A e \in E : ~(e <= 0)
    BY <1>1
  <2> QED
    BY <2>2, <2>3 DEF Spare
<1>3. ASSUME NEW m \in 1 .. n, m - 1 \in Q
      PROVE  m \in Q
  <2> DEFINE l == m - 1
             a == H(l)
             b == H(m)
  <2>1. /\ l \in Int /\ m \in 0 .. n /\ f[m] \in Nat
        /\ is[m].use \in {"snipe", "entry", "exit"}
    BY DEF Intents, Uses
  <2>2. /\ a \in Int
        /\ is[m].token = t /\ is[m].use = "entry" => b = a + f[m]
        /\ is[m].token = t /\ is[m].use = "exit" => b = a - f[m]
        /\ is[m].token # t \/ is[m].use = "snipe" => b = a
    BY NetStep
  <2>3. a >= 0 /\ \A e \in E : Spare(is, f, e, l) => a >= f[e]
    BY <1>3
  <2>4. \A e \in 1 .. n : Spare(is, f, e, m) => e = m \/ Spare(is, f, e, l)
    <3>1. SUFFICES ASSUME NEW e \in 1 .. n, Spare(is, f, e, m), e # m
                   PROVE  Spare(is, f, e, l)
      OBVIOUS
    <3>2. e <= l /\ \A k \in 1 .. n : k <= l => k <= m
      BY <3>1 DEF Spare
    <3>3. EntriesIn(is) \subseteq 1 .. n /\ ExitsAfter(is, e) \subseteq 1 .. n
      BY DomainsAre
    <3> HIDE DEF l
    <3> QED
      BY <3>1, <3>2, <3>3 DEF Spare
  <2>5. \A e \in E : f[e] \in Nat /\ is[e].token = t /\ e \in 1 .. n /\ is[e].use = "entry"
    BY <1>1 DEF OfToken, EntriesIn
  <2>6. SUFFICES b >= 0 /\ \A e \in E : Spare(is, f, e, m) => b >= f[e]
    BY <2>1
  <2> HIDE DEF H, l, a, b, E
  <2>7. CASE is[m].use = "entry" /\ is[m].token = t
    <3>1. ASSUME NEW e \in E, Spare(is, f, e, m) PROVE e = m
      <4>1. m \in EntriesIn(is)
        BY <2>7 DEF EntriesIn
      <4> QED
        BY <2>5, <3>1, <4>1 DEF Spare
    <3> QED
      BY <2>1, <2>2, <2>3, <2>7, <3>1
  <2>8. CASE is[m].use = "exit" /\ is[m].token = t /\ f[m] # 0
    <3>1. m \in ExitsIn(is)
      BY <2>8 DEF ExitsIn
    <3>2. PICK e \in EntriesIn(is) : /\ m \in ExitsAfter(is, e) /\ is[m].token = is[e].token
                                    /\ f[m] <= f[e]
      BY <3>1, ExitIsOf
    <3>3. e \in E /\ e \in 1 .. n
      BY <2>8, <3>2, DomainsAre DEF E, OfToken
    <3>4. /\ e < m /\ \A k \in e + 1 .. m : is[k].use # "entry"
      BY <3>2 DEF ExitsAfter
    <3>5. Spare(is, f, e, l)
      <4>1. \A k \in EntriesIn(is) : k <= l => k <= e
        <5>1. SUFFICES ASSUME NEW k \in EntriesIn(is), k <= l, ~(k <= e) PROVE FALSE
          OBVIOUS
        <5>2. k \in 1 .. n /\ is[k].use = "entry"
          BY DomainsAre DEF EntriesIn
        <5>3. k \in e + 1 .. m
          BY <3>3, <5>1, <5>2 DEF l
        <5> QED
          BY <3>4, <5>2, <5>3
      <4>2. \A k \in ExitsAfter(is, e) : k <= l => f[k] = 0
        <5>1. SUFFICES ASSUME NEW k \in ExitsAfter(is, e), k <= l, f[k] # 0 PROVE FALSE
          OBVIOUS
        <5>2. k \in 1 .. n
          BY DomainsAre
        <5>3. k # m /\ f[k] > 0 /\ f[m] > 0
          BY <2>1, <2>8, <5>1, <5>2 DEF l
        <5> QED
          BY <3>2, <5>1, <5>3 DEF Twice
      <4>3. e <= l
        BY <3>3, <3>4 DEF l
      <4> QED
        BY <4>1, <4>2, <4>3 DEF Spare
    <3>6. a >= f[e] /\ f[e] \in Nat
      BY <2>3, <2>5, <3>3, <3>5
    <3>7. b >= 0
      BY <2>1, <2>2, <2>8, <3>2, <3>6
    <3>8. ASSUME NEW c \in E, Spare(is, f, c, m) PROVE FALSE
      <4>1. c \in EntriesIn(is)
        BY <2>5 DEF EntriesIn
      <4>2. c <= m /\ e <= c
        BY <3>2, <3>3, <3>4, <3>8 DEF Spare
      <4>3. c = e
        <5>1. c \in 1 .. n /\ is[c].use = "entry"
          BY <2>5
        <5> QED
          BY <3>3, <3>4, <4>2, <5>1
      <4> QED
        BY <2>8, <3>2, <3>8, <4>3 DEF Spare
    <3> QED
      BY <3>7, <3>8
  <2>9. CASE ~(is[m].use \in {"entry", "exit"} /\ is[m].token = t /\ (is[m].use = "exit" => f[m] # 0))
    <3>1. b = a
      BY <2>1, <2>2, <2>9
    <3>2. ASSUME NEW e \in E, Spare(is, f, e, m) PROVE Spare(is, f, e, l)
      <4>1. e # m
        BY <2>5, <2>9
      <4> QED
        BY <2>4, <2>5, <3>2, <4>1
    <3> QED
      BY <2>3, <3>1, <3>2
  <2> QED
    BY <2>7, <2>8, <2>9
<1> HIDE DEF Q
<1>4. n \in Q
  <2>1. n \in 0 .. n
    OBVIOUS
  <2> QED
    BY <1>2, <1>3, <2>1, Reaches
<1>5. Until(E, n) = E /\ Until(X, n) = X
  BY <1>1 DEF Until
<1>6. H(n) = Holding(is, f, t)
  BY <1>5 DEF Net, Holding
<1> QED
  BY <1>4, <1>6 DEF Q

-----------------------------------------------------------------------------
(* What the book of the window says of the run's properties.                 *)
LEMMA BookSays ==
  ASSUME IInv
  PROVE  LET n  == Len(orders)
             is == Is(orders)
             f  == Bk(orders)
         IN /\ n \in Nat /\ DOMAIN orders = 1 .. n
            /\ is \in [1 .. n -> Intents] /\ f \in [1 .. n -> Nat]
            /\ \A k \in 1 .. n : /\ is[k] = orders[k].i
                                 /\ InFlight(k) <=> k \in Live(orders)
            /\ \A K : Booked(K) = Total(f, K)
            /\ phase \in Phases /\ stake \in 0 .. MaxStake /\ scalp \in Scalps
            /\ Book(phase, is, f, Live(orders), scalp, stake)
<1>1. /\ phase \in Phases /\ orders \in Seq(Orders) /\ stake \in 0 .. MaxStake
      /\ scalp \in Scalps /\ Good(phase, orders, scalp, stake)
  BY InvIs
<1>2. LET n == Len(orders)
      IN /\ n \in Nat /\ DOMAIN orders = 1 .. n
         /\ Is(orders) \in [1 .. n -> Intents] /\ Bk(orders) \in [1 .. n -> Nat]
         /\ Live(orders) \in SUBSET (1 .. n)
         /\ \A k \in 1 .. n : /\ Is(orders)[k] = orders[k].i
                              /\ Bk(orders)[k] = orders[k].x.om.booked
                              /\ k \in Live(orders) <=> ~IsTerminal(orders[k].x.om)
  BY <1>1, BookIs
<1>3. \A K : Booked(K) = Total(Bk(orders), K)
  BY DEF Booked, Total, Bk
<1>4. Book(phase, Is(orders), Bk(orders), Live(orders), scalp, stake)
  BY <1>1 DEF Good
<1> QED
  BY <1>1, <1>2, <1>3, <1>4 DEF InFlight

LEMMA InvOneEntry ==
  ASSUME IInv
  PROVE  OneEntry
<1>1. /\ phase \in Phases /\ Len(orders) \in Nat /\ DOMAIN orders = 1 .. Len(orders)
      /\ Is(orders) \in [1 .. Len(orders) -> Intents]
      /\ \A k \in 1 .. Len(orders) : /\ Is(orders)[k] = orders[k].i
                                     /\ InFlight(k) <=> k \in Live(orders)
      /\ EntriesGood(phase, Is(orders), Live(orders), scalp)
  BY BookSays DEF Book
<1>2. \A k \in DOMAIN orders : IsEntry(k) /\ InFlight(k) => k \in EntriesIn(Is(orders)) \cap Live(orders)
  BY <1>1 DEF IsEntry, EntriesIn
<1>3. \A k \in EntriesIn(Is(orders)) \cap Live(orders) : scalp.pending = k /\ ~scalp.open
  BY <1>1 DEF EntriesGood, Phases
<1> QED
  BY <1>2, <1>3 DEF OneEntry

LEMMA InvStakeCap ==
  ASSUME IInv
  PROVE  WindowStakeCap
<1> DEFINE n  == Len(orders)
           is == Is(orders)
           f  == Bk(orders)
           z  == Sizes(is)
           K  == BuysIn(is)
<1>1. /\ n \in Nat /\ DOMAIN orders = 1 .. n /\ is \in [1 .. n -> Intents]
      /\ f \in [1 .. n -> Nat]
      /\ \A k \in 1 .. n : is[k] = orders[k].i
      /\ \A L : Booked(L) = Total(f, L)
      /\ stake \in 0 .. MaxStake
      /\ Book(phase, is, f, Live(orders), scalp, stake)
  BY BookSays
<1>2. {k \in DOMAIN orders : IsBuy(orders[k].i)} = K
  BY <1>1 DEF IsBuy, BuysIn
<1> HIDE DEF n, is, f
<1>3. z \in [1 .. n -> Nat] /\ \A k \in 1 .. n : z[k] = is[k].size
  BY <1>1 DEF Sizes, Intents
<1>4. Total(z, K) = stake /\ \A k \in 1 .. n : f[k] <= is[k].size
  BY <1>1 DEF Book, Fits
<1>5. K \in SUBSET (1 .. n)
  BY <1>1, DomainsAre
<1> HIDE DEF z, K
<1>6. \A y \in K : f[y] <= z[y]
  BY <1>3, <1>4, <1>5
<1>7. Total(f, K) \in Int /\ Total(z, K) \in Int /\ Total(f, K) <= Total(z, K)
  BY <1>1, <1>3, <1>5, <1>6, TotalGrows
<1>8. Booked(K) <= MaxStake
  BY <1>1, <1>4, <1>7, TradingAssumption
<1> QED
  BY <1>2, <1>8 DEF WindowStakeCap

(* The orders of an entry and the holding of a token, in the book's terms.   *)
LEMMA WindowIs ==
  ASSUME IInv
  PROVE  LET n  == Len(orders)
             is == Is(orders)
             f  == Bk(orders)
         IN /\ \A e \in 1 .. n : /\ ExitsOf(e) = ExitsAfter(is, e)
                                 /\ IsEntry(e) <=> e \in EntriesIn(is)
            /\ \A t \in Tokens : Position(t) = Holding(is, f, t)
<1> DEFINE n  == Len(orders)
           is == Is(orders)
           f  == Bk(orders)
<1>1. /\ n \in Nat /\ DOMAIN orders = 1 .. n /\ is \in [1 .. n -> Intents]
      /\ f \in [1 .. n -> Nat]
      /\ \A k \in 1 .. n : is[k] = orders[k].i
      /\ \A L : Booked(L) = Total(f, L)
      /\ Book(phase, is, f, Live(orders), scalp, stake)
  BY BookSays
<1>0. DOMAIN is = 1 .. n
  BY <1>1
<1> HIDE DEF n, is, f
<1>2. \A e \in 1 .. n : /\ ExitsOf(e) = ExitsAfter(is, e)
                        /\ IsEntry(e) <=> e \in EntriesIn(is)
  <2>1. \A k \in 1 .. n : /\ IsEntry(k) <=> k \in EntriesIn(is)
                          /\ orders[k].i.use = "exit" <=> k \in ExitsIn(is)
    BY <1>0, <1>1 DEF IsEntry, EntriesIn, ExitsIn
  <2>2. ASSUME NEW e \in 1 .. n PROVE ExitsOf(e) = ExitsAfter(is, e)
    <3>1. \A k \in 1 .. n : \A l \in e + 1 .. k : l \in 1 .. n
      BY <1>1
    <3>2. \A k \in 1 .. n : \A l \in e + 1 .. k : IsEntry(l) <=> is[l].use = "entry"
      BY <1>1, <3>1 DEF IsEntry
    <3>3. \A k \in 1 .. n : (\E l \in e + 1 .. k : IsEntry(l)) <=> \E l \in e + 1 .. k : is[l].use = "entry"
      BY <3>2
    <3> QED
      BY <1>0, <1>1, <2>1, <3>3 DEF ExitsOf, ExitsAfter, ExitsIn
  <2> QED
    BY <2>1, <2>2
<1>3. ASSUME NEW t \in Tokens PROVE Position(t) = Holding(is, f, t)
  <2> DEFINE K == {k \in DOMAIN orders : IsScalp(k) /\ orders[k].i.token = t}
  <2>1. \A k \in 1 .. n : is[k].use \in Uses
    BY <1>1 DEF Intents
  <2>2. {k \in K : IsEntry(k)} = OfToken(is, EntriesIn(is), t)
    BY <1>0, <1>1 DEF IsEntry, IsScalp, EntriesIn, OfToken
  <2>3. {k \in K : ~IsEntry(k)} = OfToken(is, ExitsIn(is), t)
    BY <1>0, <1>1, <2>1 DEF IsEntry, IsScalp, ExitsIn, OfToken, Uses
  <2>4. Position(t) = Booked({k \in K : IsEntry(k)}) - Booked({k \in K : ~IsEntry(k)})
    BY Zenon DEF Position
  <2> QED
    BY <1>1, <2>2, <2>3, <2>4 DEF Holding
<1> QED
  BY <1>2, <1>3 DEF n, is, f

LEMMA InvNoForgotten ==
  ASSUME IInv
  PROVE  NoForgottenShares
<1> DEFINE n  == Len(orders)
           is == Is(orders)
           f  == Bk(orders)
<1>1. /\ n \in Nat /\ DOMAIN orders = 1 .. n /\ is \in [1 .. n -> Intents]
      /\ f \in [1 .. n -> Nat]
      /\ \A k \in 1 .. n : is[k] = orders[k].i
      /\ \A L : Booked(L) = Total(f, L)
      /\ Book(phase, is, f, Live(orders), scalp, stake)
  BY BookSays
<1>2. /\ \A e \in 1 .. n : /\ ExitsOf(e) = ExitsAfter(is, e)
                           /\ IsEntry(e) <=> e \in EntriesIn(is)
      /\ \A t \in Tokens : Position(t) = Holding(is, f, t)
  BY WindowIs
<1> HIDE DEF n, is, f
<1>3. Over(is, f) => Oversold
  <2>1. SUFFICES ASSUME NEW e \in EntriesIn(is), Unsold(is, f, e) < 0 PROVE Oversold
    BY DEF Over
  <2>2. e \in 1 .. n /\ ExitsAfter(is, e) \in SUBSET (1 .. n)
    BY <1>1, DomainsAre
  <2> DEFINE out == Total(f, ExitsAfter(is, e))
  <2>3. out \in Int
    BY <1>1, <2>2, TotalIsInt
  <2>4. f[e] \in Nat /\ f[e] - out < 0
    BY <1>1, <2>1, <2>2 DEF Unsold
  <2>5. Total(f, {e}) = f[e]
    BY <1>1, <2>2, TotalOfOne
  <2>6. Booked({e}) = f[e] /\ Booked(ExitsOf(e)) = out
    BY <1>1, <1>2, <2>2, <2>5
  <2> HIDE DEF out
  <2>7. Booked({e}) < Booked(ExitsOf(e))
    BY <2>3, <2>4, <2>6
  <2> QED
    BY <1>1, <1>2, <2>1, <2>2, <2>7 DEF Oversold
<1>4. ASSUME phase # "closed", ~Oversold, NEW t \in Tokens
      PROVE  Position(t) = IF scalp.open /\ scalp.token = t THEN scalp.shares ELSE 0
  <2>1. Rounds(is, f, scalp)
    BY <1>1, <1>3, <1>4 DEF Book
  <2>2. Holding(is, f, t) = IF scalp.token = t THEN Managed(scalp) ELSE 0
    BY <1>4, <2>1 DEF Rounds
  <2> QED
    BY <1>2, <1>4, <2>2 DEF Managed
<1> QED
  BY <1>4 DEF NoForgottenShares

LEMMA InvOnlySoldTwice ==
  ASSUME IInv
  PROVE  OnlySoldTwice
<1> DEFINE n  == Len(orders)
           is == Is(orders)
           f  == Bk(orders)
<1>1. /\ n \in Nat /\ DOMAIN orders = 1 .. n /\ is \in [1 .. n -> Intents]
      /\ f \in [1 .. n -> Nat]
      /\ \A L : Booked(L) = Total(f, L)
      /\ Book(phase, is, f, Live(orders), scalp, stake)
  BY BookSays
<1>2. /\ \A e \in 1 .. n : /\ ExitsOf(e) = ExitsAfter(is, e)
                           /\ IsEntry(e) <=> e \in EntriesIn(is)
      /\ \A t \in Tokens : Position(t) = Holding(is, f, t)
  BY WindowIs
<1> HIDE DEF n, is, f
<1>3. Sells(is, f, Live(orders), scalp)
  BY <1>1 DEF Book, Fits, Sells
<1>4. Twice(is, f) => SoldTwice
  <2>1. SUFFICES ASSUME NEW e \in EntriesIn(is), NEW k \in ExitsAfter(is, e),
                        NEW l \in ExitsAfter(is, e), k # l, f[k] > 0, f[l] > 0
                 PROVE  SoldTwice
    BY DEF Twice
  <2>2. e \in 1 .. n /\ k \in 1 .. n /\ l \in 1 .. n
    BY <1>1, DomainsAre
  <2>3. Booked({k}) = f[k] /\ Booked({l}) = f[l]
    BY <1>1, <2>2, TotalOfOne
  <2>4. IsEntry(e) /\ k \in ExitsOf(e) /\ l \in ExitsOf(e)
    BY <1>2, <2>2
  <2> QED
    BY <1>1, <2>1, <2>2, <2>3, <2>4 DEF SoldTwice
<1>5. Oversold => Over(is, f)
  <2>1. SUFFICES ASSUME NEW e \in 1 .. n, IsEntry(e), Booked({e}) < Booked(ExitsOf(e))
                 PROVE  Over(is, f)
    BY <1>1 DEF Oversold
  <2>2. e \in EntriesIn(is) /\ ExitsAfter(is, e) \in SUBSET (1 .. n)
    BY <1>1, <1>2, <2>1, DomainsAre
  <2> DEFINE out == Total(f, ExitsAfter(is, e))
  <2>3. out \in Int /\ f[e] \in Nat
    BY <1>1, <2>2, TotalIsInt
  <2>4. Booked({e}) = f[e] /\ Booked(ExitsOf(e)) = out
    BY <1>1, <1>2, TotalOfOne
  <2>5. Unsold(is, f, e) = f[e] - out
    BY DEF Unsold
  <2> HIDE DEF out
  <2>6. Unsold(is, f, e) < 0
    BY <2>1, <2>3, <2>4, <2>5
  <2> QED
    BY <2>2, <2>6 DEF Over
<1>6. Over(is, f) => Twice(is, f)
  BY <1>1, <1>3, OverIsTwice
<1>7. ~Twice(is, f) => NeverShort
  <2>1. ~Twice(is, f) => \A t \in Tokens : Holding(is, f, t) >= 0
    BY <1>1, <1>3, ShortIsTwice
  <2> QED
    BY <1>2, <2>1 DEF NeverShort
<1> QED
  BY <1>4, <1>5, <1>6, <1>7 DEF OnlySoldTwice

(* The scalper never has two entries on their way, nor one beside an open    *)
(* position, although evaluate runs on every feed event, submit in a task of *)
(* its own, and the fill that opens the position in a later pump.            *)
THEOREM OneEntryAtATime == Spec => []OneEntry
BY InvOneEntry, Inductive, PTL

(* What the window buys never costs more than its cap: the stake is counted  *)
(* when an order is drafted, before anything is known of its fill.           *)
THEOREM CapIsKept == Spec => []WindowStakeCap
BY InvStakeCap, Inductive, PTL

(* Until the window closes the scalper manages exactly what its orders have  *)
(* bought and not sold, unless an entry's shares were sold twice.            *)
THEOREM NothingForgotten == Spec => []NoForgottenShares
BY InvNoForgotten, Inductive, PTL

(* No entry's shares and no token's are ever sold beyond what was bought,    *)
(* unless two exits of one entry have both filled: whatever the cross-outs   *)
(* on their way, one alone is never of more than its entry bought.           *)
THEOREM ShortOnlyIfTwice == Spec => []OnlySoldTwice
BY InvOnlySoldTwice, Inductive, PTL

-----------------------------------------------------------------------------
(* Each order of the window keeps the contract.  Its size is what the sniper *)
(* or the scalper made it when it was drafted, so the contract is that of    *)
(* the sizes the orders of a behaviour turn out to have: Sized, any function.*)
(* Every behaviour has one, because an order keeps its intent (IntentsStay). *)
CONSTANT Sized

Promised(os, k) ==
  IF k \in DOMAIN os
  THEN [status |-> StatusOf(os[k].x.om), filled |-> os[k].x.om.filled]
  ELSE [status |-> "idle", filled |-> 0]

Contract == INSTANCE OrderContract WITH
  Orders  <- 1 .. MaxOrders,
  Tif     <- [k \in 1 .. MaxOrders |-> "FAK"],
  Size    <- Sized,
  promise <- [k \in 1 .. MaxOrders |-> Promised(orders, k)]

AllOK(os) ==
  /\ Len(os) \in Nat /\ DOMAIN os = 1 .. Len(os)
  /\ \A k \in DOMAIN os : os[k] \in Orders /\ OrderOK(os[k])

AsSized == \A k \in DOMAIN orders : orders[k].i.size = Sized[k]

LEMMA AllAre ==
  ASSUME NEW ph, NEW os, NEW s, NEW st, Good(ph, os, s, st)
  PROVE  AllOK(os)
BY DEF Good, AllOK

LEMMA StepOnward ==
  ASSUME IInv, [Next]_vars
  PROVE  AllOK(orders) /\ AllOK(orders') /\ Onward(orders', orders)
<1>1. IInv' /\ Onward(orders', orders)
  BY StepKeeps
<1>2. Good(phase, orders, scalp, stake) /\ Good(phase', orders', scalp', stake')
  BY <1>1 DEF IInv
<1> QED
  BY <1>1, <1>2, AllAre

(* What the manager tells of an order of these strategies.                   *)
LEMMA StatusIs ==
  ASSUME NEW o \in Orders, OrderOK(o)
  PROVE  LET p == [status |-> StatusOf(o.x.om), filled |-> o.x.om.filled]
         IN /\ p \in [status: Contract!Statuses, filled: Nat]
            /\ ~IsTerminal(o.x.om) => p = [status |-> "open", filled |-> 0]
            /\ IsTerminal(o.x.om) =>
                 /\ p.filled = o.x.om.booked /\ p.filled \in 0 .. o.i.size
                 /\ p.status = IF o.x.om.booked = o.i.size THEN "filled" ELSE "dead"
<1> DEFINE m == o.x.om
           p == [status |-> StatusOf(m), filled |-> m.filled]
<1>1. Kept(o.x, o.i) /\ o.i \in Intents /\ o.x \in OrderRecords
  BY DEF OrderOK, Orders
<1>2. m \in ManagedOrder /\ m.state \in States /\ m.filled \in Nat /\ m.booked \in Nat
  BY <1>1 DEF OrderRecords, ManagedOrder
<1>3. /\ m.filled = m.booked /\ (m.state = "FILLED" <=> m.booked = o.i.size)
      /\ m.booked <= o.i.size /\ o.i.size \in Nat
      /\ m.state \in {"DRAFT", "ACKED"} \cup Terminal
      /\ m.state \notin Terminal => m.filled = 0
  BY <1>1 DEF Kept, Whole, Intents
<1> HIDE DEF m
<1>4. CASE m.state \in Terminal
  <2>1. StatusOf(m) = IF m.state = "FILLED" THEN "filled" ELSE "dead"
    BY <1>4 DEF StatusOf, Terminal
  <2> QED
    BY <1>2, <1>3, <1>4, <2>1 DEF Contract!Statuses, IsTerminal, m
<1>5. CASE m.state \notin Terminal
  <2>1. StatusOf(m) = "open"
    BY <1>3, <1>5 DEF StatusOf, Terminal
  <2> QED
    BY <1>2, <1>3, <1>5, <2>1 DEF Contract!Statuses, IsTerminal, m
<1> QED
  BY <1>4, <1>5

LEMMA OrderMoves ==
  ASSUME NEW o \in Orders, OrderOK(o), NEW q \in Orders, OrderOK(q), q.i = o.i,
         IsTerminal(o.x.om) => IsTerminal(q.x.om) /\ q.x.om.booked = o.x.om.booked
  PROVE  LET a == [status |-> StatusOf(o.x.om), filled |-> o.x.om.filled]
             b == [status |-> StatusOf(q.x.om), filled |-> q.x.om.filled]
         IN b = a \/ Contract!Moves(a, b, "FAK", o.i.size)
<1> DEFINE a == [status |-> StatusOf(o.x.om), filled |-> o.x.om.filled]
           b == [status |-> StatusOf(q.x.om), filled |-> q.x.om.filled]
<1>1. /\ a \in [status: Contract!Statuses, filled: Nat]
      /\ ~IsTerminal(o.x.om) => a = [status |-> "open", filled |-> 0]
      /\ IsTerminal(o.x.om) =>
           /\ a.filled = o.x.om.booked
           /\ a.status = IF o.x.om.booked = o.i.size THEN "filled" ELSE "dead"
  BY StatusIs
<1>2. /\ b \in [status: Contract!Statuses, filled: Nat]
      /\ ~IsTerminal(q.x.om) => b = [status |-> "open", filled |-> 0]
      /\ IsTerminal(q.x.om) =>
           /\ b.filled = q.x.om.booked /\ b.filled \in 0 .. o.i.size
           /\ b.status = IF q.x.om.booked = o.i.size THEN "filled" ELSE "dead"
  BY StatusIs
<1> HIDE DEF a, b
<1>3. CASE IsTerminal(o.x.om)
  <2>1. a.filled = b.filled /\ a.status = b.status
    BY <1>1, <1>2, <1>3
  <2> QED
    BY <1>1, <1>2, <2>1 DEF a, b
<1>4. CASE ~IsTerminal(o.x.om) /\ ~IsTerminal(q.x.om)
  BY <1>1, <1>2, <1>4 DEF a, b
<1>5. CASE ~IsTerminal(o.x.om) /\ IsTerminal(q.x.om)
  <2>1. a.status = "open" /\ a.filled = 0
    BY <1>1, <1>5
  <2>2. Contract!Moves(a, b, "FAK", o.i.size)
    BY <1>2, <1>5, <2>1 DEF Contract!Moves
  <2> QED
    BY <2>2 DEF a, b
<1> QED
  BY <1>3, <1>4, <1>5

LEMMA PromiseIs ==
  ASSUME NEW os, AllOK(os), NEW k
  PROVE  Promised(os, k) \in [status: Contract!Statuses, filled: Nat]
<1>1. CASE k \in DOMAIN os
  BY <1>1, StatusIs DEF Promised, AllOK
<1>2. CASE k \notin DOMAIN os
  BY <1>2 DEF Promised, Contract!Statuses
<1> QED
  BY <1>1, <1>2

LEMMA PromiseMoves ==
  ASSUME AllOK(orders), AllOK(orders'), Onward(orders', orders), AsSized, NEW k \in 1 .. MaxOrders
  PROVE  LET a == Promised(orders, k)
             b == Promised(orders', k)
         IN \/ b = a
            \/ Contract!Opens(a, b)
            \/ Contract!Moves(a, b, "FAK", Sized[k])
<1>1. /\ DOMAIN orders = 1 .. Len(orders) /\ Len(orders) \in Nat
      /\ \A j \in DOMAIN orders : orders[j] \in Orders /\ OrderOK(orders[j])
  BY DEF AllOK
<1>2. /\ DOMAIN orders' = 1 .. Len(orders') /\ Len(orders') \in Nat
      /\ \A j \in DOMAIN orders' : orders'[j] \in Orders /\ OrderOK(orders'[j])
  BY DEF AllOK
<1>3. CASE k \in DOMAIN orders
  <2> DEFINE o == orders[k]
             q == orders'[k]
  <2>1. /\ o \in Orders /\ OrderOK(o) /\ q \in Orders /\ OrderOK(q) /\ q.i = o.i
        /\ IsTerminal(o.x.om) => IsTerminal(q.x.om) /\ q.x.om.booked = o.x.om.booked
        /\ k \in DOMAIN orders' /\ o.i.size = Sized[k]
    BY <1>1, <1>2, <1>3 DEF Onward, AsSized
  <2> QED
    BY <1>3, <2>1, OrderMoves DEF Promised
<1>4. CASE k \notin DOMAIN orders /\ k \in DOMAIN orders'
  <2>1. orders'[k] \in Orders /\ OrderOK(orders'[k]) /\ ~IsTerminal(orders'[k].x.om)
    BY <1>1, <1>2, <1>4 DEF Onward
  <2>2. Promised(orders', k) = [status |-> "open", filled |-> 0]
    BY <1>4, <2>1, StatusIs DEF Promised
  <2>3. Promised(orders, k) = [status |-> "idle", filled |-> 0]
    BY <1>4 DEF Promised
  <2> QED
    BY <2>2, <2>3 DEF Contract!Opens, Contract!Idle
<1>5. CASE k \notin DOMAIN orders /\ k \notin DOMAIN orders'
  BY <1>5 DEF Promised
<1> QED
  BY <1>3, <1>4, <1>5

(* The orders of the window are only ever appended, and an order keeps the   *)
(* intent it was drafted with.                                               *)
IntentsStay ==
  [][\A k \in DOMAIN orders : k \in DOMAIN orders' /\ orders'[k].i = orders[k].i]_vars

THEOREM DraftedForGood == Spec => IntentsStay
<1>1. IInv /\ [Next]_vars =>
        [\A k \in DOMAIN orders : k \in DOMAIN orders' /\ orders'[k].i = orders[k].i]_vars
  <2> SUFFICES ASSUME IInv, [Next]_vars, NEW k \in DOMAIN orders
               PROVE  k \in DOMAIN orders' /\ orders'[k].i = orders[k].i
    OBVIOUS
  <2> QED
    BY StepOnward DEF AllOK, Onward
<1> QED
  BY <1>1, Inductive, PTL DEF Spec, IntentsStay

(* The orders that the engine's pump, tasks, phases and round trips move all *)
(* keep the contract of their sizes: drafted once, filled only at their end  *)
(* and within their size, filled exactly when all of it is, and ended for    *)
(* good.                                                                     *)
THEOREM Implements == Spec /\ []AsSized => Contract!Spec
<1>1. Init => Contract!Init
  <2> SUFFICES ASSUME Init PROVE Contract!Init
    OBVIOUS
  <2>1. \A k \in 1 .. MaxOrders : Promised(orders, k) = Contract!Idle
    BY DEF Init, Promised, Contract!Idle
  <2> QED
    BY <2>1 DEF Contract!Init
<1>2. IInv /\ AsSized /\ [Next]_vars => [Contract!Next]_([k \in 1 .. MaxOrders |-> Promised(orders, k)])
  <2> SUFFICES ASSUME IInv, AsSized, [Next]_vars PROVE Contract!Next
    OBVIOUS
  <2>1. AllOK(orders) /\ AllOK(orders') /\ Onward(orders', orders)
    BY StepOnward
  <2>2. \A k \in 1 .. MaxOrders :
          LET a == Promised(orders, k)
              b == Promised(orders', k)
          IN \/ b = a
             \/ Contract!Opens(a, b)
             \/ Contract!Moves(a, b, "FAK", Sized[k])
    BY <2>1, PromiseMoves
  <2>3. \A k \in 1 .. MaxOrders :
          Promised(orders', k) \in [status: Contract!Statuses, filled: Nat]
    BY <2>1, PromiseIs
  <2> QED
    BY <2>2, <2>3 DEF Contract!Next
<1> QED
  BY <1>1, <1>2, Inductive, PTL DEF Spec, Contract!Spec
=============================================================================
