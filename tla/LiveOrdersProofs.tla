-------------------------- MODULE LiveOrdersProofs --------------------------
(* Proofs about LiveOrders: that what the manager books is what the exchange *)
(* reported of the orders it knows, each trade once, and that a cancel-all   *)
(* that is global at the exchange stays within one window, and that the      *)
(* manager keeps the contract of OrderContract with this adapter too.        *)
EXTENDS LiveOrders, FiniteSetTheorems, TLAPS

-----------------------------------------------------------------------------
(* The state, in three parts that few actions touch together.                *)
ManagerOK ==
  /\ om \in [Orders -> ManagedOrder]
  /\ known \in SUBSET Orders /\ seen \in SUBSET Trades
  /\ task \in [Orders -> {"none", "signing", "posting", "over"}]

ExchangeOK ==
  /\ ex \in [Orders -> {"away", "wire", "open", "refused", "ended"}]
  /\ matched \in [Orders -> Nat]
  /\ left \in [Trades -> 0 .. MaxReports] /\ missed \in [Trades -> 0 .. MaxReports]

SweepsOK ==
  /\ window \in Windows /\ closing \in BOOLEAN
  /\ stop \in [stage : Stages, window : Windows]
  /\ cancels \in SUBSET Orders
  /\ sweeps \in SUBSET Sweepers
  /\ swept \in SUBSET Sweepers
  /\ raised \in SUBSET Sweepers
  /\ onWay \in SUBSET Orders
  /\ sweptBy \in [Orders -> Sweepers \cup {Nobody}]

(* Where the manager is with an order.  It is known from the ack on, no fill *)
(* reaches it before, and no answer to the placement after.                  *)
Stage(o) ==
  /\ task[o] = "none" <=> om[o].state = "NONE"
  /\ task[o] = "signing" => om[o].state = "DRAFT"
  /\ task[o] = "posting" => om[o].state = "SENT" /\ o \notin known
  /\ o \in known => om[o].state \in {"ACKED", "PARTIAL", "FILLED"}
  /\ om[o].state = "FILLED" <=> om[o].filled = Size[o]
  /\ om[o].filled = om[o].booked /\ ~om[o].raised

(* Where the exchange is with it: what it has matched is what it may.        *)
Matching(o) ==
  /\ task[o] \in {"none", "signing"} => ex[o] = "away"
  /\ ex[o] \in {"away", "wire", "refused"} => matched[o] = 0
  /\ ex[o] = "open" => matched[o] < Size[o]
  /\ matched[o] <= Size[o]

(* The reports of a trade: they begin with the match, and the trade is in    *)
(* the ledger as soon as one of them is neither to come nor missed.          *)
Reported(t) ==
  /\ t[2] > matched[t[1]] => left[t] = 0 /\ missed[t] = 0
  /\ left[t] + missed[t] <= MaxReports
  /\ t \in seen <=> t[2] <= matched[t[1]] /\ left[t] + missed[t] < MaxReports
  /\ t \in seen => t[1] \in known

Counted(o) == om[o].booked = Cardinality(seen \cap Of(o))

(* A window asks for one cancel-all, when it closes; one that is still on    *)
(* its way when the window is over was answered with an exception.           *)
Asked(w) ==
  /\ w \in sweeps \cup swept => w < window \/ (w = window /\ closing)
  /\ ~ (w \in sweeps /\ w \in swept)
  /\ w \in sweeps /\ w < window => w \in raised

(* Nothing of the order is at the exchange or on its way there.              *)
Gone(o) == ex[o] \in {"away", "refused", "ended"} /\ task[o] # "signing"

Swept(o) ==
  /\ task[o] # "none" => WindowOf[o] <= window
  /\ WindowOf[o] \in swept => o \in onWay \/ Gone(o)
  /\ task[o] # "none" /\ WindowOf[o] < window =>
       o \in onWay \/ WindowOf[o] \in raised \/ Gone(o)

Orderly  == \A o \in Orders : Stage(o) /\ Matching(o) /\ Counted(o)
Reports  == \A t \in Trades : Reported(t)
Sweeping == (\A w \in Windows : Asked(w)) /\ (\A o \in Orders : Swept(o))

IInv ==
  /\ ManagerOK /\ ExchangeOK /\ SweepsOK
  /\ Orderly /\ Reports
  /\ Sweeping /\ CanceledByOwn

-----------------------------------------------------------------------------
(* The handlers of one order.                                                *)
LEMMA TableIs ==
  /\ \A s \in States : ValidTransitions[s] \subseteq States
  /\ {"SIGNED", "REJECTED"} \subseteq ValidTransitions["DRAFT"]
  /\ "SENT" \in ValidTransitions["SIGNED"]
  /\ {"ACKED", "REJECTED", "PARTIAL", "FILLED"} \subseteq ValidTransitions["SENT"]
  /\ {"PARTIAL", "FILLED"} \subseteq ValidTransitions["ACKED"]
  /\ {"PARTIAL", "FILLED"} \subseteq ValidTransitions["PARTIAL"]
BY DEF ValidTransitions, States, Working, Terminal

LEMMA TransitionIs ==
  ASSUME NEW m \in ManagedOrder, NEW new \in ValidTransitions[m.state]
  PROVE  /\ Transition(m, new) \in ManagedOrder
         /\ Transition(m, new).state = new
         /\ Transition(m, new).filled = m.filled
         /\ Transition(m, new).booked = m.booked
         /\ Transition(m, new).raised = m.raised
<1>1. m.state \in States /\ new \in States
  BY TableIs DEF ManagedOrder
<1> QED
  BY <1>1 DEF Transition, ManagedOrder

(* A flag changes nothing that the proofs speak of.                          *)
Alike(m, n) ==
  /\ n.state = m.state /\ n.filled = m.filled /\ n.booked = m.booked /\ n.raised = m.raised

LEMMA FlaggedIs ==
  ASSUME NEW m \in ManagedOrder
  PROVE  CancelFlagged(m) \in ManagedOrder /\ Alike(m, CancelFlagged(m))
BY DEF CancelFlagged, ManagedOrder, Alike

LEMMA DraftedIs ==
  /\ Drafted \in ManagedOrder /\ Drafted.state = "DRAFT"
  /\ Drafted.filled = 0 /\ Drafted.booked = 0 /\ Drafted.raised = FALSE
  /\ NoOrder \in ManagedOrder /\ NoOrder.state = "NONE"
  /\ NoOrder.filled = 0 /\ NoOrder.booked = 0 /\ NoOrder.raised = FALSE
BY DEF Drafted, NoOrder, ManagedOrder, States, Working, Terminal

(* A fill of an order that can take it: it is counted and booked, and moves  *)
(* the order.                                                                *)
LEMMA FillIs ==
  ASSUME NEW m \in ManagedOrder, NEW size \in Nat, m.state \in {"ACKED", "PARTIAL"},
         ~ m.raised, m.filled + 1 <= size
  PROVE  /\ ApplyFill(m, 1, size) \in ManagedOrder
         /\ ApplyFill(m, 1, size).state \in {"PARTIAL", "FILLED"}
         /\ ApplyFill(m, 1, size).state = "FILLED" <=> ApplyFill(m, 1, size).filled = size
         /\ ApplyFill(m, 1, size).filled = m.filled + 1
         /\ ApplyFill(m, 1, size).booked = m.booked + 1
         /\ ApplyFill(m, 1, size).raised = FALSE
<1> DEFINE c == [m EXCEPT !.filled = MinOf(@ + 1, size)]
           v == FillState(c, size)
<1>1. /\ c \in ManagedOrder /\ c.state = m.state /\ c.filled = m.filled + 1
      /\ c.booked = m.booked /\ c.raised = FALSE
  BY DEF ManagedOrder, MinOf
<1> HIDE DEF c
<1>2. /\ v \in ManagedOrder /\ v.filled = m.filled + 1 /\ v.booked = m.booked /\ v.raised = FALSE
      /\ v.state \in {"PARTIAL", "FILLED"} /\ (v.state = "FILLED" <=> m.filled + 1 = size)
  <2>1. CASE c.filled >= size
    <3>0. ~ (c.filled < size) /\ c.state # "CANCELED"
      BY <1>1, <2>1 DEF ManagedOrder
    <3>1. v = Transition(c, "FILLED")
      BY <2>1, <3>0 DEF FillState
    <3>2. "FILLED" \in ValidTransitions[c.state]
      BY <1>1, TableIs
    <3> HIDE DEF v
    <3> QED
      BY <1>1, <2>1, <3>1, <3>2, TransitionIs DEF ManagedOrder
  <2>2. CASE ~ (c.filled >= size)
    <3>1. c.filled < size
      BY <1>1, <2>2 DEF ManagedOrder
    <3>2. v = Transition(c, "PARTIAL")
      BY <1>1, <2>2, <3>1 DEF FillState, Working
    <3>3. "PARTIAL" \in ValidTransitions[c.state]
      BY <1>1, TableIs
    <3> HIDE DEF v
    <3>4. m.filled + 1 # size
      BY <1>1, <3>1 DEF ManagedOrder
    <3>5. /\ v \in ManagedOrder /\ v.filled = m.filled + 1 /\ v.booked = m.booked
          /\ v.raised = FALSE /\ v.state = "PARTIAL"
      BY <1>1, <3>2, <3>3, TransitionIs
    <3> QED
      BY <3>4, <3>5
  <2> QED
    BY <2>1, <2>2
<1> HIDE DEF v
<1>3. ApplyFill(m, 1, size) = [v EXCEPT !.booked = @ + 1]
  BY <1>2 DEF ApplyFill, c, v
<1> QED
  BY <1>2, <1>3 DEF ManagedOrder

-----------------------------------------------------------------------------
LEMMA TradesAre ==
  /\ \A t \in Trades : t[1] \in Orders /\ t[2] \in 1 .. Size[t[1]] /\ t = <<t[1], t[2]>>
  /\ \A o \in Orders : Size[o] \in Nat \ {0} /\ WindowOf[o] \in Windows
  /\ \A o \in Orders : Of(o) = {t \in Trades : t[1] = o}
BY OrdersAssumption DEF Trades, Of, Windows

(* An order has no more trades seen than were matched.                       *)
LEMMA SeenFits ==
  ASSUME ManagerOK, ExchangeOK, Reports, NEW o \in Orders
  PROVE  /\ IsFiniteSet(seen \cap Of(o)) /\ Cardinality(seen \cap Of(o)) \in Nat
         /\ o \notin known => Cardinality(seen \cap Of(o)) = 0
         /\ Cardinality(seen \cap Of(o)) <= matched[o]
         /\ \A t \in Of(o) \ seen : t[2] <= matched[o] => Cardinality(seen \cap Of(o)) + 1 <= matched[o]
<1> DEFINE S == seen \cap Of(o)
           M == {t \in Of(o) : t[2] <= matched[o]}
           n == matched[o]
           f == [t \in M |-> t[2]]
<1>1. n \in Nat
  BY DEF ExchangeOK
<1>2. \A t \in M : t = <<o, t[2]>> /\ t[2] \in 1 .. n
  BY <1>1, TradesAre
<1>3. f \in Injection(M, 1 .. n)
  BY <1>2 DEF Injection, IsInjective
<1>4. IsFiniteSet(1 .. n) /\ Cardinality(1 .. n) = n
  BY <1>1, FS_Interval
<1>5. IsFiniteSet(M) /\ Cardinality(M) <= n
  BY <1>3, <1>4, FS_Injection
<1>6. S \subseteq M
  BY TradesAre DEF Reports, Reported
<1>7. IsFiniteSet(S) /\ Cardinality(S) \in Nat
  BY <1>5, <1>6, FS_Subset, FS_CardinalityType
<1>8. o \notin known => S = {}
  BY TradesAre DEF Reports, Reported
<1>10. Cardinality(S) <= n
  <2>1. Cardinality(S) <= Cardinality(M) /\ Cardinality(M) \in Nat
    BY <1>5, <1>6, FS_Subset, FS_CardinalityType
  <2> QED
    BY <1>1, <1>5, <1>7, <2>1
<1>9. ASSUME NEW t \in Of(o) \ seen, t[2] <= matched[o]
      PROVE  Cardinality(S) + 1 <= n
  <2>1. S \cup {t} \subseteq M /\ t \notin S
    BY <1>6, <1>9
  <2>2. Cardinality(S \cup {t}) = Cardinality(S) + 1
    BY <1>7, <2>1, FS_AddElement
  <2>3. Cardinality(S \cup {t}) <= Cardinality(M) /\ Cardinality(M) \in Nat
    BY <1>5, <2>1, FS_Subset, FS_CardinalityType
  <2> QED
    BY <1>1, <1>5, <1>7, <2>2, <2>3
<1> QED
  BY <1>7, <1>8, <1>9, <1>10, FS_EmptySet

(* So the manager holds no more of an order as filled than its size, and     *)
(* nothing of an order that has not been drafted.                            *)
FillsOK ==
  \A o \in Orders : om[o].filled <= Size[o] /\ (om[o].state = "NONE" => om[o].filled = 0)

LEMMA FillsFit == IInv => FillsOK
<1> SUFFICES ASSUME IInv, NEW o \in Orders
             PROVE  om[o].filled <= Size[o] /\ (om[o].state = "NONE" => om[o].filled = 0)
  BY DEF FillsOK
<1>1. /\ om[o].filled = Cardinality(seen \cap Of(o))
      /\ matched[o] <= Size[o] /\ (om[o].state = "NONE" => o \notin known)
  BY DEF IInv, Orderly, Stage, Matching, Counted
<1>2. /\ Cardinality(seen \cap Of(o)) \in Nat /\ Cardinality(seen \cap Of(o)) <= matched[o]
      /\ o \notin known => Cardinality(seen \cap Of(o)) = 0
  BY SeenFits DEF IInv
<1>3. matched[o] \in Nat /\ Size[o] \in Nat
  BY TradesAre DEF IInv, ExchangeOK
<1> QED
  BY <1>1, <1>2, <1>3

(* A trade that is reported for the first time, of an order that is known,   *)
(* finds room in it.                                                         *)
LEMMA ReportFits ==
  ASSUME IInv, NEW t \in Trades, left[t] > 0, t \notin seen, t[1] \in known
  PROVE  /\ om[t[1]].state \in {"ACKED", "PARTIAL"} /\ ~ om[t[1]].raised
         /\ om[t[1]].filled + 1 <= Size[t[1]]
<1> DEFINE o == t[1]
<1>1. o \in Orders /\ t \in Of(o) \ seen /\ t[2] \in Nat
  BY TradesAre
<1>2. matched[o] \in Nat /\ matched[o] <= Size[o] /\ Size[o] \in Nat
  BY <1>1, TradesAre DEF IInv, ExchangeOK, Orderly, Matching
<1>3. t[2] <= matched[o]
  <2>1. t[2] > matched[o] => left[t] = 0
    BY DEF IInv, Reports, Reported
  <2> QED
    BY <1>1, <1>2, <2>1
<1>4. /\ om[o].state \in {"ACKED", "PARTIAL", "FILLED"} /\ ~ om[o].raised
      /\ om[o].filled = Cardinality(seen \cap Of(o)) /\ om[o].filled \in Nat
      /\ om[o].state = "FILLED" <=> om[o].filled = Size[o]
  BY <1>1 DEF IInv, ManagerOK, ManagedOrder, Orderly, Stage, Counted
<1>5. Cardinality(seen \cap Of(o)) + 1 <= matched[o]
  BY <1>1, <1>3, SeenFits DEF IInv
<1> HIDE DEF o
<1> QED
  BY <1>2, <1>4, <1>5 DEF o

-----------------------------------------------------------------------------
LEMMA InitialState == Init => IInv
<1> SUFFICES ASSUME Init PROVE IInv
  OBVIOUS
<1>1. ManagerOK /\ ExchangeOK /\ SweepsOK
  <2>1. ManagerOK
    BY DraftedIs DEF Init, ManagerOK
  <2>2. ExchangeOK
    BY OrdersAssumption DEF Init, ExchangeOK
  <2>3. SweepsOK
    <3>1. 0 \in Windows
      BY OrdersAssumption DEF Windows
    <3> QED
      BY <3>1 DEF Init, SweepsOK, Stages
  <2> QED
    BY <2>1, <2>2, <2>3
<1>2. Orderly
  <2>1. \A o \in Orders : Stage(o) /\ Matching(o)
    BY DraftedIs, TradesAre DEF Init, Stage, Matching
  <2>2. \A o \in Orders : Counted(o)
    BY DraftedIs, FS_EmptySet DEF Init, Counted
  <2> QED
    BY <2>1, <2>2 DEF Orderly
<1>3. Reports
  BY TradesAre, OrdersAssumption DEF Init, Reports, Reported
<1>4. Sweeping
  BY DEF Init, Sweeping, Asked, Swept, Gone
<1>5. CanceledByOwn
  BY OrdersAssumption DEF Init, CanceledByOwn, Nobody, Windows
<1> QED
  BY <1>1, <1>2, <1>3, <1>4, <1>5 DEF IInv

-----------------------------------------------------------------------------
(* Orders that look alike, at the same stage of the same task.               *)
Fine(o) == Stage(o) /\ Counted(o)

LEMMA StageStays ==
  ASSUME NEW o \in Orders, Fine(o), Alike(om[o], om'[o]), task'[o] = task[o],
         o \in known' <=> o \in known, seen' \cap Of(o) = seen \cap Of(o)
  PROVE  Fine(o)'
BY DEF Fine, Stage, Counted, Alike

LEMMA ManagerStays ==
  ASSUME ManagerOK, Orderly, UNCHANGED <<known, seen, task>>,
         om' \in [Orders -> ManagedOrder], \A o \in Orders : Alike(om[o], om'[o])
  PROVE  ManagerOK' /\ \A o \in Orders : Fine(o)'
<1>1. ManagerOK'
  BY DEF ManagerOK
<1>2. \A o \in Orders : Fine(o)'
  BY StageStays DEF Orderly, Fine
<1> QED
  BY <1>1, <1>2

LEMMA CancelAllIs ==
  ASSUME ManagerOK, NEW who, NEW w, CancelAll(who, w)
  PROVE  om' \in [Orders -> ManagedOrder] /\ \A o \in Orders : Alike(om[o], om'[o])
<1>1. \A o \in Orders : om[o] \in ManagedOrder
  BY DEF ManagerOK
<1>2. \A o \in Orders : CancelFlagged(om[o]) \in ManagedOrder /\ Alike(om[o], CancelFlagged(om[o]))
  BY <1>1, FlaggedIs
<1> QED
  BY <1>1, <1>2 DEF Alike, CancelAll

(* A step of the manager on one order.                                       *)
LEMMA OneOrder ==
  ASSUME ManagerOK, Orderly, NEW o \in Orders, NEW m \in ManagedOrder,
         om' = [om EXCEPT ![o] = m], known' \in SUBSET Orders, seen' \in SUBSET Trades,
         task' \in [Orders -> {"none", "signing", "posting", "over"}],
         \A p \in Orders : p # o => /\ task'[p] = task[p] /\ (p \in known' <=> p \in known)
                                  /\ seen' \cap Of(p) = seen \cap Of(p),
         Fine(o)'
  PROVE  ManagerOK' /\ \A p \in Orders : Fine(p)'
<1>1. ManagerOK'
  BY DEF ManagerOK
<1>2. ASSUME NEW p \in Orders, p # o
      PROVE  Fine(p)'
  BY <1>2, StageStays DEF Orderly, Fine, ManagerOK, Alike
<1> QED
  BY <1>1, <1>2

LEMMA ManagerStep == IInv /\ [Next]_vars => ManagerOK' /\ \A o \in Orders : Fine(o)'
<1> SUFFICES ASSUME IInv, [Next]_vars
             PROVE  ManagerOK' /\ \A o \in Orders : Fine(o)'
  OBVIOUS
<1>0. /\ ManagerOK /\ ExchangeOK /\ Orderly /\ Reports
      /\ \A o \in Orders : om[o] \in ManagedOrder /\ Stage(o) /\ Matching(o) /\ Counted(o)
      /\ om \in [Orders -> ManagedOrder] /\ known \in SUBSET Orders /\ seen \in SUBSET Trades
      /\ task \in [Orders -> {"none", "signing", "posting", "over"}]
  BY DEF IInv, ManagerOK, Orderly
<1>1. CASE manager' = manager
  BY <1>0, <1>1, ManagerStays DEF manager, Alike
<1>2. ASSUME NEW o \in Orders, Draft(o)
      PROVE  ManagerOK' /\ \A p \in Orders : Fine(p)'
  <2>1. om[o].state = "NONE" /\ om' = [om EXCEPT ![o] = Drafted] /\ known' = known /\ seen' = seen
        /\ task' = [task EXCEPT ![o] = "signing"]
    BY <1>2 DEF Draft
  <2>2. Cardinality(seen \cap Of(o)) = 0
    BY <1>0, <2>1, SeenFits DEF Stage
  <2>3. om'[o] = Drafted /\ task'[o] = "signing" /\ o \notin known' /\ Size[o] # 0
    BY <1>0, <2>1, TradesAre DEF Stage
  <2>4. Stage(o)'
    BY <2>3, DraftedIs DEF Stage
  <2>5. Fine(o)'
    BY <2>1, <2>2, <2>3, <2>4, DraftedIs DEF Fine, Counted
  <2> QED
    BY <1>0, <2>1, <2>5, DraftedIs, OneOrder
<1>3. ASSUME NEW o \in Orders, Signed(o)
      PROVE  ManagerOK' /\ \A p \in Orders : Fine(p)'
  <2> DEFINE m == Transition(om[o], "SIGNED")
             n == Transition(m, "SENT")
  <2>1. task[o] = "signing" /\ om' = [om EXCEPT ![o] = n] /\ known' = known /\ seen' = seen
        /\ task' = [task EXCEPT ![o] = "posting"]
    BY <1>3 DEF Signed
  <2>2. om[o].state = "DRAFT"
    BY <1>0, <2>1 DEF Stage
  <2>3. /\ m \in ManagedOrder /\ m.state = "SIGNED" /\ m.filled = om[o].filled
        /\ m.booked = om[o].booked /\ m.raised = om[o].raised
    BY <1>0, <2>2, TableIs, TransitionIs
  <2> HIDE DEF m
  <2>4. /\ n \in ManagedOrder /\ n.state = "SENT" /\ n.filled = om[o].filled
        /\ n.booked = om[o].booked /\ n.raised = om[o].raised
    BY <2>3, TableIs, TransitionIs
  <2> HIDE DEF n
  <2>5. Fine(o)'
    BY <1>0, <2>1, <2>2, <2>4 DEF Stage, Fine, Counted
  <2> QED
    BY <1>0, <2>1, <2>4, <2>5, OneOrder
<1>4. ASSUME NEW o \in Orders, SignFails(o)
      PROVE  ManagerOK' /\ \A p \in Orders : Fine(p)'
  <2>1. task[o] = "signing" /\ known' = known /\ seen' = seen /\ task' = [task EXCEPT ![o] = "over"]
    BY <1>4 DEF SignFails
  <2>2. om[o].state = "DRAFT"
    BY <1>0, <2>1 DEF Stage
  <2>3. CASE om' = om
    <3>1. om' = [om EXCEPT ![o] = om[o]]
      BY <1>0, <2>3
    <3>2. Fine(o)'
      BY <1>0, <2>1, <2>2, <2>3 DEF Stage, Fine, Counted
    <3> QED
      BY <1>0, <2>1, <3>1, <3>2, OneOrder
  <2>4. CASE om' = [om EXCEPT ![o] = Transition(@, "REJECTED")]
    <3> DEFINE n == Transition(om[o], "REJECTED")
    <3>1. /\ n \in ManagedOrder /\ n.state = "REJECTED" /\ n.filled = om[o].filled
          /\ n.booked = om[o].booked /\ n.raised = om[o].raised
      BY <1>0, <2>2, TableIs, TransitionIs
    <3>2. om' = [om EXCEPT ![o] = n]
      BY <2>4
    <3> HIDE DEF n
    <3>3. Fine(o)'
      BY <1>0, <2>1, <2>2, <3>1, <3>2 DEF Stage, Fine, Counted
    <3> QED
      BY <1>0, <2>1, <3>1, <3>2, <3>3, OneOrder
  <2> QED
    BY <1>4, <2>3, <2>4 DEF SignFails
<1>5. ASSUME NEW o \in Orders, Acked(o) \/ Rejected(o)
      PROVE  ManagerOK' /\ \A p \in Orders : Fine(p)'
  <2>1. PICK new \in {"ACKED", "REJECTED"} :
          /\ Answered(o, new)
          /\ known' = IF new = "ACKED" /\ om'[o].state = "ACKED" THEN known \cup {o} ELSE known
    BY <1>5 DEF Acked, Rejected
  <2> DEFINE n == Transition(om[o], new)
  <2>2. task[o] = "posting" /\ om[o].state = "SENT" /\ o \notin known
    BY <1>0, <2>1 DEF Answered, Stage
  <2>3. om' = [om EXCEPT ![o] = n] /\ seen' = seen /\ task' = [task EXCEPT ![o] = "over"]
    BY <2>1, <2>2 DEF Answered, Terminal
  <2>4. /\ n \in ManagedOrder /\ n.state = new /\ n.filled = om[o].filled
        /\ n.booked = om[o].booked /\ n.raised = om[o].raised
    BY <1>0, <2>2, TableIs, TransitionIs
  <2> HIDE DEF n
  <2>5. om'[o] = n
    BY <1>0, <2>3
  <2>6. known' = IF new = "ACKED" THEN known \cup {o} ELSE known
    BY <2>1, <2>4, <2>5
  <2>7. Fine(o)'
    BY <1>0, <2>2, <2>3, <2>4, <2>5, <2>6 DEF Stage, Fine, Counted
  <2>8. known' \in SUBSET Orders /\ \A p \in Orders : p # o => (p \in known' <=> p \in known)
    BY <1>0, <2>6
  <2> QED
    BY <1>0, <2>3, <2>4, <2>7, <2>8, OneOrder
<1>6. ASSUME NEW o \in Orders, RequestCancel(o)
      PROVE  ManagerOK' /\ \A p \in Orders : Fine(p)'
  <2>1. om' = [om EXCEPT ![o] = CancelFlagged(@)] /\ UNCHANGED <<known, seen, task>>
    BY <1>6 DEF RequestCancel
  <2>2. CancelFlagged(om[o]) \in ManagedOrder /\ Alike(om[o], CancelFlagged(om[o]))
    BY <1>0, FlaggedIs
  <2>3. om' \in [Orders -> ManagedOrder] /\ \A p \in Orders : Alike(om[p], om'[p])
    BY <1>0, <2>1, <2>2 DEF Alike
  <2> QED
    BY <1>0, <2>1, <2>3, ManagerStays
<1>7. CASE Close \/ Stop \/ StopAgain
  <2>1. PICK who, w : CancelAll(who, w)
    BY <1>7 DEF Close, Stop, StopAgain
  <2>2. UNCHANGED <<known, seen, task>>
    BY <1>7 DEF Close, Stop, StopAgain
  <2> QED
    BY <1>0, <2>1, <2>2, CancelAllIs, ManagerStays
<1>8. CASE Stopped
  <2>1. om' = om /\ known' = known /\ seen' = seen
        /\ task' = [o \in Orders |-> IF task[o] = "none" THEN "none" ELSE "over"]
    BY <1>8 DEF Stopped, Cut
  <2>2. ManagerOK'
    BY <1>0, <2>1 DEF ManagerOK
  <2> QED
    BY <1>0, <2>1, <2>2 DEF Stage, Fine, Counted
<1>9. ASSUME NEW t \in Trades, Report(t)
      PROVE  ManagerOK' /\ \A p \in Orders : Fine(p)'
  <2> DEFINE o == t[1]
             m == ApplyFill(om[o], 1, Size[o])
  <2>1. o \in Orders /\ t \in Of(o) /\ known' = known /\ task' = task
    BY <1>9, TradesAre DEF Report
  <2>2. seen' \in SUBSET Trades
    BY <1>0, <1>9 DEF Report, Kept
  <2>3. CASE o \in known /\ t \notin seen
    <3>1. om' = [om EXCEPT ![o] = m]
      BY <1>9, <2>3 DEF Report
    <3>2. left[t] > 0
      BY <1>9 DEF Report
    <3>3. /\ om[o].booked = om[o].filled /\ om[o].booked = Cardinality(seen \cap Of(o))
          /\ ~ om[o].raised
      BY <1>0, <2>1 DEF Stage, Counted
    <3>5. Size[o] \in Nat /\ om[o].filled \in Nat
      BY <1>0, <2>1, TradesAre DEF ManagedOrder
    <3>6. om[o].state \in {"ACKED", "PARTIAL"} /\ om[o].filled + 1 <= Size[o]
      BY <2>3, <3>2, ReportFits
    <3>7. /\ m \in ManagedOrder /\ m.state \in {"PARTIAL", "FILLED"}
          /\ m.state = "FILLED" <=> m.filled = Size[o]
          /\ m.filled = om[o].filled + 1 /\ m.booked = om[o].booked + 1 /\ m.raised = FALSE
      BY <1>0, <2>1, <3>3, <3>5, <3>6, FillIs
    <3> HIDE DEF m
    <3>8. seen' = seen \cup {t}
      BY <1>9, <2>3 DEF Report, Kept
    <3>9. Cardinality(seen' \cap Of(o)) = Cardinality(seen \cap Of(o)) + 1
      <4>1. seen' \cap Of(o) = (seen \cap Of(o)) \cup {t} /\ t \notin seen \cap Of(o)
        BY <2>1, <2>3, <3>8
      <4> QED
        BY <1>0, <2>1, <4>1, SeenFits, FS_AddElement
    <3>10. \A p \in Orders : p # o => seen' \cap Of(p) = seen \cap Of(p)
      BY <2>1, <3>8, TradesAre
    <3> HIDE DEF o
    <3>11. Fine(o)'
      BY <1>0, <2>1, <2>3, <3>1, <3>3, <3>7, <3>9 DEF Stage, Fine, Counted
    <3> QED
      BY <1>0, <2>1, <2>2, <3>1, <3>7, <3>10, <3>11, OneOrder
  <2>4. CASE ~ (o \in known /\ t \notin seen)
    <3>1. om' = om
      BY <1>9, <2>4 DEF Report
    <3>2. seen' = seen
      BY <1>9, <2>4 DEF Report, Kept
    <3> QED
      BY <1>0, <2>1, <3>1, <3>2, ManagerStays DEF Alike
  <2> QED
    BY <2>3, <2>4
<1> QED
  BY <1>1, <1>2, <1>3, <1>4, <1>5, <1>6, <1>7, <1>8, <1>9
  DEF Next, vars, Arrive, Matches, CancelArrives, Closed, Sweep

-----------------------------------------------------------------------------
(* Only a sign sends an order, and only the exchange's own steps, a cancel   *)
(* and a cancel-all move it there.                                           *)
AtExchange ==
  \/ UNCHANGED <<ex, matched, left, missed, onWay, sweptBy, seen>>
  \/ \E o \in Orders : Signed(o) \/ Arrive(o) \/ Matches(o) \/ CancelArrives(o)
  \/ \E who \in Sweepers : Sweep(who)
  \/ \E t \in Trades : Report(t)

LEMMA AtExchangeIs == [Next]_vars => AtExchange
BY DEF Next, vars, AtExchange, manager, exchange, channel, Draft, SignFails, Acked, Rejected,
     Answered, RequestCancel, Close, Closed, Stop, StopAgain, Stopped

(* A task begins with the draft and goes on from there.                      *)
LEMMA TaskStep ==
  ASSUME IInv, [Next]_vars, NEW o \in Orders
  PROVE  /\ task'[o] \in {"none", "signing"} => task[o] \in {"none", "signing"}
         /\ task'[o] = "signing" => task[o] = "signing" \/ Draft(o)
         /\ task'[o] # "none" => task[o] # "none" \/ Draft(o)
         /\ known \subseteq known'
<1>0. /\ task \in [Orders -> {"none", "signing", "posting", "over"}]
      /\ \A p \in Orders : task[p] = "none" <=> om[p].state = "NONE"
  BY DEF IInv, ManagerOK, Orderly, Stage
<1>1. CASE \E p \in Orders : Draft(p)
  BY <1>0, <1>1 DEF Draft
<1>2. CASE \E p \in Orders : Signed(p) \/ SignFails(p) \/ Acked(p) \/ Rejected(p)
  BY <1>0, <1>2 DEF Signed, SignFails, Acked, Rejected, Answered
<1>3. CASE Stopped
  BY <1>0, <1>3 DEF Stopped, Cut
<1>4. CASE task' = task /\ known' = known
  BY <1>4
<1> QED
  BY <1>1, <1>2, <1>3, <1>4
  DEF Next, vars, manager, RequestCancel, Arrive, Matches, CancelArrives, Close, Closed, Stop,
      StopAgain, Sweep, Report

(* A match of n lots of o.                                                   *)
LEMMA MatchIs ==
  ASSUME ExchangeOK, Reports, NEW o \in Orders, NEW n \in Nat, Match(o, n),
         matched[o] + n <= Size[o], known' = known, seen' = seen
  PROVE  /\ matched' = [matched EXCEPT ![o] = matched[o] + n]
         /\ matched' \in [Orders -> Nat]
         /\ left' \in [Trades -> 0 .. MaxReports] /\ missed' \in [Trades -> 0 .. MaxReports]
         /\ Reports'
<1>1. /\ matched \in [Orders -> Nat] /\ MaxReports \in Nat \ {0}
      /\ left \in [Trades -> 0 .. MaxReports] /\ missed \in [Trades -> 0 .. MaxReports]
  BY OrdersAssumption DEF ExchangeOK
<1>2. matched' = [matched EXCEPT ![o] = matched[o] + n] /\ missed' = missed
  BY DEF Match
<1>3. left' = [t \in Trades |->
        IF t[1] = o /\ t[2] \in matched[o] + 1 .. matched[o] + n THEN MaxReports ELSE left[t]]
  BY DEF Match
<1>4. matched' \in [Orders -> Nat] /\ left' \in [Trades -> 0 .. MaxReports]
  BY <1>1, <1>2, <1>3
<1>5. ASSUME NEW t \in Trades
      PROVE  Reported(t)'
  <2>1. Reported(t) /\ t[1] \in Orders /\ t[2] \in Nat /\ matched[t[1]] \in Nat /\ matched[o] \in Nat
    BY <1>1, TradesAre DEF Reports
  <2>2. CASE t[1] = o /\ t[2] \in matched[o] + 1 .. matched[o] + n
    <3>1. left'[t] = MaxReports /\ missed'[t] = 0 /\ t \notin seen /\ matched'[t[1]] = matched[o] + n
      BY <1>1, <1>2, <1>3, <2>1, <2>2 DEF Reported
    <3> QED
      BY <1>1, <2>1, <2>2, <3>1 DEF Reported
  <2>3. CASE ~ (t[1] = o /\ t[2] \in matched[o] + 1 .. matched[o] + n)
    <3>1. left'[t] = left[t] /\ missed'[t] = missed[t]
      BY <1>2, <1>3, <2>3
    <3>2. t[2] <= matched'[t[1]] <=> t[2] <= matched[t[1]]
      BY <1>1, <1>2, <2>1, <2>3
    <3>3. t[2] > matched'[t[1]] <=> t[2] > matched[t[1]]
      BY <1>1, <1>2, <2>1, <2>3
    <3> QED
      BY <2>1, <3>1, <3>2, <3>3 DEF Reported
  <2> QED
    BY <2>2, <2>3
<1> QED
  BY <1>1, <1>2, <1>4, <1>5 DEF Reports

LEMMA ExchangeStep ==
  IInv /\ [Next]_vars => ExchangeOK' /\ Reports' /\ \A o \in Orders : Matching(o)'
<1> SUFFICES ASSUME IInv, [Next]_vars
             PROVE  ExchangeOK' /\ Reports' /\ \A o \in Orders : Matching(o)'
  OBVIOUS
<1>0. /\ ManagerOK /\ ExchangeOK /\ Reports
      /\ \A o \in Orders : Stage(o) /\ Matching(o) /\ matched[o] \in Nat /\ Size[o] \in Nat \ {0}
      /\ ex \in [Orders -> {"away", "wire", "open", "refused", "ended"}]
      /\ task \in [Orders -> {"none", "signing", "posting", "over"}]
  BY TradesAre DEF IInv, ManagerOK, ExchangeOK, Orderly
<1>1. CASE UNCHANGED <<ex, matched, left, missed, onWay, sweptBy, seen>>
  <2>1. \A o \in Orders : task'[o] \in {"none", "signing"} => task[o] \in {"none", "signing"}
    BY TaskStep
  <2>2. \A o \in Orders : Matching(o)'
    BY <1>0, <1>1, <2>1 DEF Matching
  <2>3. ExchangeOK' /\ (\A o \in Orders : matched'[o] = matched[o])
    BY <1>0, <1>1 DEF ExchangeOK
  <2>4. \A o \in Orders : o \in known => o \in known'
    BY TaskStep
  <2>5. Reports'
    BY <1>0, <1>1, <2>4, TradesAre DEF Reports, Reported
  <2> QED
    BY <2>2, <2>3, <2>5
<1>2. ASSUME NEW o \in Orders, Signed(o)
      PROVE  ExchangeOK' /\ Reports' /\ \A p \in Orders : Matching(p)'
  <2>1. /\ task[o] = "signing" /\ task' = [task EXCEPT ![o] = "posting"]
        /\ ex' = [ex EXCEPT ![o] = "wire"]
        /\ UNCHANGED <<known, seen, matched, left, missed>>
    BY <1>2 DEF Signed, channel
  <2>2. ExchangeOK'
    BY <1>0, <2>1 DEF ExchangeOK
  <2>3. Reports'
    BY <1>0, <2>1 DEF Reports, Reported
  <2>4. \A p \in Orders : Matching(p)'
    BY <1>0, <2>1 DEF Matching
  <2> QED
    BY <2>2, <2>3, <2>4
<1>3. ASSUME NEW o \in Orders, Arrive(o)
      PROVE  ExchangeOK' /\ Reports' /\ \A p \in Orders : Matching(p)'
  <2>1. /\ ex[o] = "wire" /\ matched[o] = 0 /\ task[o] \notin {"none", "signing"}
        /\ UNCHANGED <<known, seen, task>>
    BY <1>0, <1>3 DEF Arrive, manager, Matching
  <2>2. CASE ex' = [ex EXCEPT ![o] = "refused"] /\ UNCHANGED <<matched, channel>>
    <3>1. UNCHANGED <<matched, left, missed>>
      BY <2>2 DEF channel
    <3>2. ExchangeOK'
      BY <1>0, <2>2, <3>1 DEF ExchangeOK
    <3>3. Reports'
      BY <1>0, <2>1, <3>1 DEF Reports, Reported
    <3>4. \A p \in Orders : Matching(p)'
      BY <1>0, <2>1, <2>2, <3>1 DEF Matching
    <3> QED
      BY <3>2, <3>3, <3>4
  <2>3. ASSUME NEW n \in 0 .. Size[o], NEW rests \in BOOLEAN, Match(o, n),
               ex' = [ex EXCEPT ![o] = IF rests /\ n < Size[o] THEN "open" ELSE "ended"]
        PROVE  ExchangeOK' /\ Reports' /\ \A p \in Orders : Matching(p)'
    <3>1. n \in Nat /\ matched[o] + n <= Size[o] /\ matched[o] + n = n
      BY <1>0, <2>1
    <3>2. /\ matched' = [matched EXCEPT ![o] = matched[o] + n] /\ matched' \in [Orders -> Nat]
          /\ left' \in [Trades -> 0 .. MaxReports] /\ missed' \in [Trades -> 0 .. MaxReports]
          /\ Reports'
      BY <1>0, <2>1, <2>3, <3>1, MatchIs
    <3>3. ex' \in [Orders -> {"away", "wire", "open", "refused", "ended"}]
      BY <1>0, <2>3
    <3>4. ExchangeOK'
      BY <3>2, <3>3 DEF ExchangeOK
    <3>5. \A p \in Orders : p # o => ex'[p] = ex[p] /\ matched'[p] = matched[p]
      BY <1>0, <2>3, <3>2
    <3>6. matched'[o] = n /\ ex'[o] \in {"open", "ended"} /\ (ex'[o] = "open" => n < Size[o])
      BY <1>0, <2>3, <3>1, <3>2 DEF ExchangeOK
    <3>7. Matching(o)'
      BY <1>0, <2>1, <3>1, <3>6 DEF Matching
    <3>8. \A p \in Orders : Matching(p)'
      BY <1>0, <2>1, <3>5, <3>7 DEF Matching
    <3> QED
      BY <3>2, <3>4, <3>8
  <2> QED
    BY <1>3, <2>2, <2>3 DEF Arrive
<1>4. ASSUME NEW o \in Orders, Matches(o)
      PROVE  ExchangeOK' /\ Reports' /\ \A p \in Orders : Matching(p)'
  <2>1. /\ ex[o] = "open" /\ matched[o] < Size[o] /\ task[o] \notin {"none", "signing"}
        /\ UNCHANGED <<known, seen, task>> /\ Match(o, 1) /\ matched[o] + 1 <= Size[o]
    BY <1>0, <1>4 DEF Matches, manager, Matching
  <2>2. /\ matched' = [matched EXCEPT ![o] = matched[o] + 1] /\ matched' \in [Orders -> Nat]
        /\ left' \in [Trades -> 0 .. MaxReports] /\ missed' \in [Trades -> 0 .. MaxReports]
        /\ Reports'
    BY <1>0, <2>1, MatchIs
  <2>3. matched'[o] = matched[o] + 1
    BY <2>2 DEF ExchangeOK
  <2>4. ex' = IF matched'[o] = Size[o] THEN [ex EXCEPT ![o] = "ended"] ELSE ex
    BY <1>4 DEF Matches
  <2>5. ExchangeOK'
    BY <1>0, <2>2, <2>4 DEF ExchangeOK
  <2>6. \A p \in Orders : p # o => ex'[p] = ex[p] /\ matched'[p] = matched[p]
    BY <1>0, <2>2, <2>4
  <2>7. ex'[o] \in {"open", "ended"} /\ (ex'[o] = "open" => matched'[o] # Size[o])
    BY <1>0, <2>1, <2>4
  <2>8. Matching(o)'
    BY <1>0, <2>1, <2>3, <2>7 DEF Matching
  <2>9. \A p \in Orders : Matching(p)'
    BY <1>0, <2>1, <2>6, <2>8 DEF Matching
  <2> QED
    BY <2>2, <2>5, <2>9
<1>5. CASE (\E o \in Orders : CancelArrives(o)) \/ (\E who \in Sweepers : Sweep(who))
  <2>1. /\ UNCHANGED <<known, seen, task, matched, left, missed>>
        /\ ex' \in [Orders -> {"away", "wire", "open", "refused", "ended"}]
        /\ \A p \in Orders : ex'[p] = ex[p] \/ (ex[p] = "open" /\ ex'[p] = "ended")
    BY <1>0, <1>5 DEF CancelArrives, Sweep, manager, channel, Reached
  <2>2. ExchangeOK'
    BY <1>0, <2>1 DEF ExchangeOK
  <2>3. Reports'
    BY <1>0, <2>1 DEF Reports, Reported
  <2>4. \A p \in Orders : Matching(p)'
    BY <1>0, <2>1 DEF Matching
  <2> QED
    BY <2>2, <2>3, <2>4
<1>6. ASSUME NEW t \in Trades, Report(t)
      PROVE  ExchangeOK' /\ Reports' /\ \A p \in Orders : Matching(p)'
  <2>1. /\ left[t] > 0 /\ left' = [left EXCEPT ![t] = @ - 1]
        /\ seen' = IF t[1] \in known THEN seen \cup {t} ELSE seen
        /\ missed' = IF t[1] \in known THEN missed ELSE [missed EXCEPT ![t] = @ + 1]
        /\ UNCHANGED <<known, task, ex, matched>>
    BY <1>6 DEF Report, Kept, exchange
  <2>2. /\ MaxReports \in Nat /\ t[1] \in Orders /\ t[2] \in Nat /\ Reported(t)
        /\ left \in [Trades -> 0 .. MaxReports] /\ missed \in [Trades -> 0 .. MaxReports]
        /\ left[t] \in 0 .. MaxReports /\ missed[t] \in 0 .. MaxReports
    BY <1>0, TradesAre, OrdersAssumption DEF Reports, ExchangeOK
  <2>3. left[t] - 1 \in 0 .. MaxReports /\ left[t] + missed[t] <= MaxReports
        /\ missed[t] + 1 \in 0 .. MaxReports /\ t[2] <= matched[t[1]]
    BY <1>0, <2>1, <2>2 DEF Reported
  <2>4. ExchangeOK'
    BY <1>0, <2>1, <2>2, <2>3 DEF ExchangeOK
  <2>5. ASSUME NEW u \in Trades, u # t
        PROVE  Reported(u)'
    <3>1. Reported(u) /\ left'[u] = left[u] /\ missed'[u] = missed[u] /\ (u \in seen' <=> u \in seen)
      BY <1>0, <2>1, <2>2, <2>5 DEF Reports
    <3> QED
      BY <2>1, <3>1 DEF Reported
  <2>6. Reported(t)'
    <3>1. left'[t] = left[t] - 1
      BY <2>1, <2>2
    <3>2. CASE t[1] \in known
      <4>1. t \in seen' /\ missed'[t] = missed[t]
        BY <2>1, <3>2
      <4> QED
        BY <1>0, <2>1, <2>2, <2>3, <3>1, <3>2, <4>1 DEF Reported
    <3>3. CASE t[1] \notin known
      <4>1. seen' = seen /\ missed'[t] = missed[t] + 1
        BY <2>1, <2>2, <3>3
      <4> QED
        BY <1>0, <2>1, <2>2, <2>3, <3>1, <3>3, <4>1 DEF Reported
    <3> QED
      BY <3>2, <3>3
  <2>7. \A p \in Orders : Matching(p)'
    BY <1>0, <2>1 DEF Matching
  <2> QED
    BY <2>4, <2>5, <2>6, <2>7 DEF Reports
<1> QED
  BY <1>1, <1>2, <1>3, <1>4, <1>5, <1>6, AtExchangeIs DEF AtExchange

-----------------------------------------------------------------------------
LEMMA SweepersAre ==
  /\ Windows \subseteq Nat /\ Windows \subseteq Sweepers
  /\ StopNow \in Sweepers \ Windows /\ StopNext \in Sweepers \ Windows
  /\ \A w \in Windows : w < LastWindow => w + 1 \in Windows
  /\ LastWindow \in Nat
BY OrdersAssumption DEF Windows, Sweepers, StopNow, StopNext

LEMMA SweepsStep == IInv /\ [Next]_vars => SweepsOK'
<1> SUFFICES ASSUME IInv, [Next]_vars
             PROVE  SweepsOK'
  OBVIOUS
<1>0. /\ SweepsOK /\ window \in Windows /\ window \in Sweepers
      /\ stop \in [stage : Stages, window : Windows]
      /\ cancels \in SUBSET Orders /\ sweeps \in SUBSET Sweepers /\ swept \in SUBSET Sweepers
      /\ raised \in SUBSET Sweepers /\ onWay \in SUBSET Orders
      /\ sweptBy \in [Orders -> Sweepers \cup {Nobody}] /\ closing \in BOOLEAN
  BY SweepersAre DEF IInv, SweepsOK
<1>1. CASE UNCHANGED <<sweeping, engine, onWay, sweptBy>> /\ cancels' \in SUBSET Orders
  BY <1>0, <1>1 DEF SweepsOK, sweeping, engine
<1>2. CASE Close
  BY <1>0, <1>2 DEF SweepsOK, Close, CancelAll, exchange
<1>3. CASE Closed
  BY <1>0, <1>3, SweepersAre DEF SweepsOK, Closed, Returns, exchange
<1>4. CASE Stop
  <2>1. stop' \in [stage : Stages, window : Windows]
    BY <1>0, <1>4 DEF Stop, Stages
  <2> QED
    BY <1>0, <1>4, <2>1, SweepersAre DEF SweepsOK, Stop, CancelAll, exchange
<1>5. CASE StopAgain
  <2>1. stop' \in [stage : Stages, window : Windows]
    BY <1>0, <1>5 DEF StopAgain, Stages
  <2> QED
    BY <1>0, <1>5, <2>1, SweepersAre DEF SweepsOK, StopAgain, CancelAll, Returns, exchange
<1>6. CASE Stopped
  <2>1. stop' \in [stage : Stages, window : Windows]
    BY <1>0, <1>6 DEF Stopped, Stages
  <2>2. raised' \in SUBSET Sweepers
    BY <1>0, <1>6, SweepersAre DEF Stopped, Returns
  <2> QED
    BY <1>0, <1>6, <2>1, <2>2 DEF SweepsOK, Stopped, exchange
<1>7. ASSUME NEW who \in Sweepers, Sweep(who)
      PROVE  SweepsOK'
  <2>1. UNCHANGED <<engine, cancels, raised>>
    BY <1>7 DEF Sweep
  <2>2. sweeps' \in SUBSET Sweepers /\ swept' \in SUBSET Sweepers /\ onWay' \in SUBSET Orders
    BY <1>0, <1>7 DEF Sweep
  <2>3. sweptBy' \in [Orders -> Sweepers \cup {Nobody}]
    BY <1>0, <1>7 DEF Sweep
  <2> QED
    BY <1>0, <2>1, <2>2, <2>3 DEF SweepsOK, engine
<1> QED
  BY <1>0, <1>1, <1>2, <1>3, <1>4, <1>5, <1>6, <1>7
  DEF Next, vars, sweeping, exchange, Draft, Signed, SignFails, Acked, Rejected, Answered,
      RequestCancel, Arrive, Matches, CancelArrives, Report

-----------------------------------------------------------------------------
(* What is neither at the exchange nor on its way there does not come back.  *)
LEMMA GoneStays ==
  ASSUME IInv, [Next]_vars, NEW o \in Orders, Gone(o), ~ Draft(o)
  PROVE  Gone(o)'
<1>0. ex \in [Orders -> {"away", "wire", "open", "refused", "ended"}]
  BY DEF IInv, ExchangeOK
<1>1. task'[o] # "signing"
  BY TaskStep DEF Gone
<1>2. ex'[o] = ex[o]
  <2>1. CASE UNCHANGED <<ex, matched, left, missed, onWay, sweptBy, seen>>
    BY <2>1
  <2>2. ASSUME NEW p \in Orders, Signed(p)
        PROVE  ex'[o] = ex[o]
    <3>1. task[p] = "signing" /\ ex' = [ex EXCEPT ![p] = "wire"]
      BY <2>2 DEF Signed
    <3> QED
      BY <1>0, <3>1 DEF Gone
  <2>3. ASSUME NEW p \in Orders, Arrive(p)
        PROVE  ex'[o] = ex[o]
    <3>1. ex[p] = "wire" /\ \E e : ex' = [ex EXCEPT ![p] = e]
      BY <2>3 DEF Arrive
    <3> QED
      BY <1>0, <3>1 DEF Gone
  <2>4. ASSUME NEW p \in Orders, Matches(p)
        PROVE  ex'[o] = ex[o]
    <3>1. ex[p] = "open" /\ (ex' = ex \/ ex' = [ex EXCEPT ![p] = "ended"])
      BY <2>4 DEF Matches
    <3> QED
      BY <1>0, <3>1 DEF Gone
  <2>5. CASE (\E p \in Orders : CancelArrives(p)) \/ (\E who \in Sweepers : Sweep(who))
    BY <1>0, <2>5 DEF CancelArrives, Sweep, Reached, Gone
  <2>6. CASE \E t \in Trades : Report(t)
    BY <2>6 DEF Report, exchange
  <2> QED
    BY <2>1, <2>2, <2>3, <2>4, <2>5, <2>6, AtExchangeIs DEF AtExchange
<1> QED
  BY <1>1, <1>2 DEF Gone

(* An order keeps its place with respect to the cancel-all of its window     *)
(* while no window asks or is served and none ends.                          *)
LEMMA SweptStays ==
  ASSUME IInv, [Next]_vars, NEW o \in Orders, UNCHANGED <<window, swept, closing>>,
         raised \subseteq raised', onWay \subseteq onWay'
  PROVE  Swept(o)'
<1>0. /\ Swept(o) /\ WindowOf[o] \in Windows /\ Asked(WindowOf[o]) /\ window \in Nat
      /\ WindowOf[o] \in Nat
  BY TradesAre, SweepersAre DEF IInv, Sweeping, SweepsOK
<1>1. CASE Draft(o)
  <2>1. WindowOf[o] = window /\ ~ closing
    BY <1>1 DEF Draft
  <2>2. WindowOf[o] \notin swept
    BY <1>0, <2>1 DEF Asked
  <2> QED
    BY <1>0, <2>1, <2>2 DEF Swept
<1>2. CASE ~ Draft(o)
  <2>1. Gone(o) => Gone(o)'
    BY <1>2, GoneStays
  <2>2. task'[o] # "none" => task[o] # "none"
    BY <1>2, TaskStep
  <2> QED
    BY <1>0, <2>1, <2>2 DEF Swept
<1> QED
  BY <1>1, <1>2

LEMMA SweepingStep == IInv /\ [Next]_vars => Sweeping' /\ CanceledByOwn'
<1> SUFFICES ASSUME IInv, [Next]_vars
             PROVE  Sweeping' /\ CanceledByOwn'
  OBVIOUS
<1>0. /\ \A w \in Windows : Asked(w) /\ w \in Nat
      /\ \A o \in Orders : Swept(o) /\ Matching(o) /\ WindowOf[o] \in Windows
      /\ CanceledByOwn /\ window \in Windows /\ window \in Nat /\ closing \in BOOLEAN
      /\ ex \in [Orders -> {"away", "wire", "open", "refused", "ended"}]
      /\ sweptBy \in [Orders -> Sweepers \cup {Nobody}] /\ sweeps \in SUBSET Sweepers
      /\ Windows \subseteq Nat
  BY TradesAre, SweepersAre DEF IInv, Sweeping, SweepsOK, ExchangeOK, Orderly
<1>1. CASE UNCHANGED <<sweeping, window, closing, onWay, sweptBy>>
  <2>1. UNCHANGED <<window, closing, sweeps, swept, raised, onWay, sweptBy>>
    BY <1>1 DEF sweeping
  <2>2. \A w \in Windows : Asked(w)'
    BY <1>0, <2>1 DEF Asked
  <2>3. \A o \in Orders : Swept(o)'
    BY <2>1, SweptStays
  <2>4. CanceledByOwn'
    BY <1>0, <2>1 DEF CanceledByOwn
  <2> QED
    BY <2>2, <2>3, <2>4 DEF Sweeping
<1>2. CASE Close
  <2>1. /\ ~ closing /\ closing' = TRUE /\ sweeps' = sweeps \cup {window}
        /\ UNCHANGED <<window, swept, raised, onWay, sweptBy, ex, task>>
    BY <1>2 DEF Close, CancelAll, exchange
  <2>2. \A w \in Windows : Asked(w)'
    BY <1>0, <2>1 DEF Asked
  <2>3. \A o \in Orders : Swept(o)'
    BY <1>0, <2>1 DEF Swept, Gone
  <2>4. CanceledByOwn'
    BY <1>0, <2>1 DEF CanceledByOwn
  <2> QED
    BY <2>2, <2>3, <2>4 DEF Sweeping
<1>3. CASE Closed
  <2>1. /\ closing /\ closing' = FALSE /\ window' = window + 1
        /\ window \in swept \/ window \in raised'
        /\ raised \subseteq raised'
        /\ UNCHANGED <<sweeps, swept, onWay, sweptBy, ex, task>>
    BY <1>3 DEF Closed, Returns, exchange, manager
  <2>2. ASSUME NEW w \in Windows
        PROVE  Asked(w)'
    <3>1. w \in Nat /\ Asked(w)
      BY <1>0
    <3>2. w < window' => w < window \/ w = window
      BY <1>0, <2>1, <3>1
    <3>3. w < window \/ w = window => w < window'
      BY <1>0, <2>1, <3>1
    <3> QED
      BY <2>1, <3>1, <3>2, <3>3 DEF Asked
  <2>3. ASSUME NEW o \in Orders
        PROVE  Swept(o)'
    <3>1. WindowOf[o] \in Nat /\ Swept(o)
      BY <1>0
    <3>2. WindowOf[o] < window' => WindowOf[o] < window \/ WindowOf[o] = window
      BY <1>0, <2>1, <3>1
    <3>3. WindowOf[o] <= window => WindowOf[o] <= window'
      BY <1>0, <2>1, <3>1
    <3>4. Gone(o)' <=> Gone(o)
      BY <2>1 DEF Gone
    <3> QED
      BY <2>1, <3>1, <3>2, <3>3, <3>4 DEF Swept
  <2>4. CanceledByOwn'
    BY <1>0, <2>1 DEF CanceledByOwn
  <2> QED
    BY <2>2, <2>3, <2>4 DEF Sweeping
<1>4. CASE Stop \/ StopAgain \/ Stopped
  <2>1. /\ sweeps \subseteq sweeps' /\ sweeps' \subseteq sweeps \cup {StopNow, StopNext}
        /\ raised \subseteq raised'
        /\ UNCHANGED <<window, closing, swept, onWay, sweptBy>>
    BY <1>4 DEF Stop, StopAgain, Stopped, CancelAll, Returns, exchange
  <2>2. \A w \in Windows : w \in sweeps' <=> w \in sweeps
    BY <2>1, SweepersAre
  <2>3. \A w \in Windows : Asked(w)'
    BY <1>0, <2>1, <2>2 DEF Asked
  <2>4. \A o \in Orders : Swept(o)'
    BY <2>1, SweptStays
  <2>5. CanceledByOwn'
    BY <1>0, <2>1 DEF CanceledByOwn
  <2> QED
    BY <2>3, <2>4, <2>5 DEF Sweeping
<1>5. ASSUME NEW who \in Sweepers, Sweep(who)
      PROVE  Sweeping' /\ CanceledByOwn'
  <2>1. /\ who \in sweeps /\ sweeps' = sweeps \ {who} /\ swept' = swept \cup {who}
        /\ onWay \subseteq onWay'
        /\ \A o \in Orders : /\ ex'[o] = IF ex[o] = "open" THEN "ended" ELSE ex[o]
                             /\ sweptBy'[o] = IF ex[o] = "open" THEN who ELSE sweptBy[o]
        /\ \A o \in Orders : WindowOf[o] = who /\ (task[o] = "signing" \/ ex[o] = "wire") => o \in onWay'
        /\ UNCHANGED <<window, closing, raised, task>>
    BY <1>5 DEF Sweep, Reached, engine, manager
  <2>2. \A w \in Windows : Asked(w)'
    BY <1>0, <2>1 DEF Asked
  <2>3. ASSUME NEW o \in Orders
        PROVE  Swept(o)'
    <3>1. Gone(o) => Gone(o)'
      BY <1>0, <2>1 DEF Gone
    <3>2. WindowOf[o] = who => o \in onWay' \/ Gone(o)'
      BY <1>0, <2>1 DEF Gone
    <3> QED
      BY <1>0, <2>1, <3>1, <3>2 DEF Swept
  <2>4. ASSUME NEW o \in Orders, ex[o] = "open", who \in Windows
        PROVE  \/ who = WindowOf[o]
               \/ who < WindowOf[o] /\ who \in raised
               \/ who > WindowOf[o] /\ (o \in onWay \/ WindowOf[o] \in raised)
    <3>1. task[o] # "none" /\ ~ Gone(o)
      BY <1>0, <2>4 DEF Matching, Gone
    <3>2. WindowOf[o] <= window /\ who <= window /\ WindowOf[o] \in Nat /\ who \in Nat
      <4>1. Swept(o) /\ Asked(who) /\ WindowOf[o] \in Nat /\ who \in Nat /\ window \in Nat
        BY <1>0, <2>4
      <4> QED
        BY <2>1, <3>1, <4>1 DEF Swept, Asked
    <3>3. CASE who < WindowOf[o]
      <4>1. who < window
        BY <1>0, <3>2, <3>3
      <4> QED
        BY <1>0, <2>1, <2>4, <3>3, <4>1 DEF Asked
    <3>4. CASE who > WindowOf[o]
      <4>1. WindowOf[o] < window
        BY <1>0, <3>2, <3>4
      <4> QED
        BY <1>0, <3>1, <3>4, <4>1 DEF Swept
    <3> QED
      BY <3>2, <3>3, <3>4
  <2>5. CanceledByOwn'
    BY <1>0, <2>1, <2>4 DEF CanceledByOwn
  <2> QED
    BY <2>2, <2>3, <2>5 DEF Sweeping
<1> QED
  BY <1>1, <1>2, <1>3, <1>4, <1>5
  DEF Next, vars, engine, exchange, Draft, Signed, SignFails, Acked, Rejected, Answered,
      RequestCancel, Arrive, Matches, CancelArrives, Report

-----------------------------------------------------------------------------
(* The invariant all of this rests on: where the task, the manager and the   *)
(* exchange are with each order, which reports of a trade are still to come, *)
(* and which windows have asked for their cancel-all and been served.        *)
THEOREM Inductive == Spec => []IInv
<1>1. IInv /\ [Next]_vars => IInv'
  <2> SUFFICES ASSUME IInv, [Next]_vars
               PROVE  IInv'
    OBVIOUS
  <2>1. ManagerOK' /\ \A o \in Orders : Fine(o)'
    BY ManagerStep
  <2>2. ExchangeOK' /\ Reports' /\ \A o \in Orders : Matching(o)'
    BY ExchangeStep
  <2>3. Orderly'
    BY <2>1, <2>2 DEF Orderly, Fine
  <2> QED
    BY <2>1, <2>2, <2>3, SweepsStep, SweepingStep DEF IInv
<1> QED
  BY <1>1, InitialState, PTL DEF Spec

(* Every variable has its type; in particular the exchange matches no more   *)
(* of an order than its size, and no trade is reported more often than it is.*)
THEOREM TypeCorrect == Spec => []TypeOK
<1>1. IInv => TypeOK
  BY TradesAre DEF IInv, ManagerOK, ExchangeOK, SweepsOK, Orderly, Matching, TypeOK
<1> QED
  BY <1>1, Inductive, PTL

(* apply_fill books a trade once, if and only if one of its reports came     *)
(* after the ack was taken, whatever is repeated, lost or early on the user  *)
(* channel; what the manager holds as filled is what it booked.              *)
THEOREM EachTradeOnce == Spec => []BookedExactly
<1>1. IInv => BookedExactly
  BY DEF IInv, Orderly, Reports, Stage, Counted, Reported, BookedExactly
<1> QED
  BY <1>1, Inductive, PTL

(* cancel_all_for_session cancels at the exchange, where it is global, no    *)
(* order of another window, and leaves none of its own open, but for the     *)
(* races and the exceptions that the property names.                         *)
THEOREM WindowsKeptApart == Spec => []WindowsApart
<1>1. IInv => LeftByRace
  <2> SUFFICES ASSUME IInv, NEW o \in Orders, ex[o] = "open", WindowOf[o] < window
               PROVE  o \in onWay \/ WindowOf[o] \in raised
    BY DEF LeftByRace
  <2>1. task[o] # "none" /\ ~ Gone(o)
    BY DEF IInv, Orderly, Matching, Gone
  <2> QED
    BY <2>1 DEF IInv, Sweeping, Swept
<1>2. IInv => WindowsApart
  BY <1>1 DEF IInv, WindowsApart
<1> QED
  BY <1>2, Inductive, PTL

-----------------------------------------------------------------------------
(* What a step may do to an order at the manager: nothing that the contract  *)
(* speaks of, open it, or, while it is open, fill it further or end it.      *)
Ages(m, n) ==
  \/ Alike(m, n)
  \/ m.state = "NONE" /\ n = Drafted
  \/ IsOpen(m) /\ n.state # "NONE" /\ n.filled >= m.filled

LEMMA AgesStep ==
  ASSUME IInv, [Next]_vars, NEW o \in Orders
  PROVE  Ages(om[o], om'[o])
<1>0. /\ ManagerOK /\ om \in [Orders -> ManagedOrder]
      /\ \A p \in Orders : om[p] \in ManagedOrder /\ Stage(p)
  BY DEF IInv, ManagerOK, Orderly
<1>1. CASE om' = om
  BY <1>1 DEF Ages, Alike
<1>2. ASSUME NEW p \in Orders, NEW m, om' = [om EXCEPT ![p] = m], Ages(om[p], m)
      PROVE  Ages(om[o], om'[o])
  <2>1. o # p => om'[o] = om[o]
    BY <1>0, <1>2
  <2>2. om'[p] = m
    BY <1>0, <1>2
  <2> QED
    BY <1>2, <2>1, <2>2 DEF Ages, Alike
<1>3. ASSUME NEW p \in Orders, Draft(p)
      PROVE  Ages(om[o], om'[o])
  BY <1>2, <1>3 DEF Draft, Ages
<1>4. ASSUME NEW m \in ManagedOrder, NEW new \in ValidTransitions[m.state]
      PROVE  IsOpen(m) /\ Transition(m, new).state = new /\ Transition(m, new).filled = m.filled
             /\ Transition(m, new) \in ManagedOrder /\ new # "NONE" /\ m.filled \in Nat
  <2>1. m.state \in States /\ m.filled \in Nat
    BY DEF ManagedOrder
  <2>2. m.state \notin Terminal \cup {"NONE"} /\ new # "NONE"
    BY <1>4, <2>1 DEF ValidTransitions, States, Working, Terminal
  <2> QED
    BY <1>4, <2>1, <2>2, TransitionIs DEF IsOpen
<1>5. ASSUME NEW p \in Orders, Signed(p)
      PROVE  Ages(om[o], om'[o])
  <2> DEFINE m == Transition(om[p], "SIGNED")
             n == Transition(m, "SENT")
  <2>1. om[p].state = "DRAFT" /\ om' = [om EXCEPT ![p] = n]
    BY <1>0, <1>5 DEF Signed, Stage
  <2>2. /\ IsOpen(om[p]) /\ m \in ManagedOrder /\ m.state = "SIGNED" /\ m.filled = om[p].filled
        /\ m.filled \in Nat
    BY <1>0, <1>4, <2>1, TableIs
  <2> HIDE DEF m
  <2>3. n.state = "SENT" /\ n.filled = m.filled
    BY <1>4, <2>2, TableIs
  <2> HIDE DEF n
  <2>4. Ages(om[p], n)
    BY <2>2, <2>3 DEF Ages
  <2> QED
    BY <1>2, <2>1, <2>4
<1>6. ASSUME NEW p \in Orders, NEW new, new \in ValidTransitions[om[p].state],
             om' = [om EXCEPT ![p] = Transition(@, new)]
      PROVE  Ages(om[o], om'[o])
  <2> DEFINE m == Transition(om[p], new)
  <2>1. IsOpen(om[p]) /\ m.state # "NONE" /\ m.filled = om[p].filled /\ m.filled \in Nat
    BY <1>0, <1>4, <1>6
  <2>2. om' = [om EXCEPT ![p] = m]
    BY <1>6
  <2> HIDE DEF m
  <2>3. Ages(om[p], m)
    BY <2>1 DEF Ages
  <2> QED
    BY <1>2, <1>6, <2>2, <2>3
<1>7. ASSUME NEW p \in Orders, SignFails(p)
      PROVE  Ages(om[o], om'[o])
  <2>1. om[p].state = "DRAFT" /\ (om' = om \/ om' = [om EXCEPT ![p] = Transition(@, "REJECTED")])
    BY <1>0, <1>7 DEF SignFails, Stage
  <2> QED
    BY <1>1, <1>6, <2>1, TableIs
<1>8. ASSUME NEW p \in Orders, Acked(p) \/ Rejected(p)
      PROVE  Ages(om[o], om'[o])
  <2>1. PICK new \in {"ACKED", "REJECTED"} : Answered(p, new)
    BY <1>8 DEF Acked, Rejected
  <2>2. om[p].state = "SENT"
    BY <1>0, <2>1 DEF Answered, Stage
  <2>3. om' = om \/ om' = [om EXCEPT ![p] = Transition(@, new)]
    BY <2>1 DEF Answered
  <2> QED
    BY <1>1, <1>6, <2>2, <2>3, TableIs
<1>9. ASSUME NEW p \in Orders, RequestCancel(p)
      PROVE  Ages(om[o], om'[o])
  <2> DEFINE m == CancelFlagged(om[p])
  <2>1. om' = [om EXCEPT ![p] = m]
    BY <1>9 DEF RequestCancel
  <2>2. Alike(om[p], m)
    BY <1>0, FlaggedIs
  <2> HIDE DEF m
  <2> QED
    BY <1>2, <2>1, <2>2 DEF Ages
<1>10. CASE Close \/ Stop \/ StopAgain
  <2>1. PICK who, w : CancelAll(who, w)
    BY <1>10 DEF Close, Stop, StopAgain
  <2> QED
    BY <1>0, <2>1, CancelAllIs DEF Ages
<1>11. ASSUME NEW t \in Trades, Report(t), om' # om
      PROVE  Ages(om[o], om'[o])
  <2> DEFINE p == t[1]
             m == ApplyFill(om[p], 1, Size[p])
  <2>1. p \in Orders /\ t \in Of(p) /\ p \in known /\ t \notin seen /\ om' = [om EXCEPT ![p] = m]
    BY <1>11, TradesAre DEF Report
  <2>2. om[p].state \in {"ACKED", "PARTIAL"} /\ om[p].filled + 1 <= Size[p] /\ ~ om[p].raised
    <3>1. left[t] > 0
      BY <1>11 DEF Report
    <3> QED
      BY <2>1, <3>1, ReportFits
  <2>3. m.state # "NONE" /\ m.filled = om[p].filled + 1 /\ om[p].filled \in Nat
    <3>1. om[p] \in ManagedOrder /\ Size[p] \in Nat
      BY <1>0, <2>1, TradesAre
    <3> QED
      BY <2>2, <3>1, FillIs DEF ManagedOrder
  <2>4. IsOpen(om[p])
    BY <2>2 DEF IsOpen, States, Working, Terminal
  <2> HIDE DEF m, p
  <2>5. Ages(om[p], m)
    BY <2>3, <2>4 DEF Ages
  <2> QED
    BY <1>2, <2>1, <2>5
<1> QED
  BY <1>1, <1>3, <1>5, <1>7, <1>8, <1>9, <1>10, <1>11
  DEF Next, vars, manager, Arrive, Matches, CancelArrives, Closed, Stopped, Sweep

LEMMA StatusIs ==
  ASSUME NEW m \in ManagedOrder
  PROVE  /\ StatusOf(m) \in {"idle", "open", "filled", "dead"}
         /\ StatusOf(m) = "idle" <=> m.state = "NONE"
         /\ StatusOf(m) = "filled" <=> m.state = "FILLED"
         /\ StatusOf(m) = "open" <=> IsOpen(m)
<1>1. m.state \in States
  BY DEF ManagedOrder
<1> QED
  BY <1>1 DEF StatusOf, IsOpen, States, Working, Terminal

PromiseOf(m) == [status |-> StatusOf(m), filled |-> m.filled]

(* Such a step keeps the promise.                                            *)
LEMMA PromiseStep ==
  ASSUME NEW m \in ManagedOrder, NEW n \in ManagedOrder, NEW size \in Nat, Ages(m, n),
         m.state = "NONE" => m.filled = 0, n.filled <= size,
         n.state = "FILLED" <=> n.filled = size
  PROVE  \/ PromiseOf(n) = PromiseOf(m)
         \/ Contract!Opens(PromiseOf(m), PromiseOf(n))
         \/ Contract!Moves(PromiseOf(m), PromiseOf(n), "GTC", size)
<1>1. CASE Alike(m, n)
  BY <1>1 DEF Alike, PromiseOf, StatusOf
<1>2. CASE m.state = "NONE" /\ n = Drafted
  <2>1. n.state = "DRAFT" /\ n.filled = 0 /\ m.filled = 0
    BY <1>2, DraftedIs
  <2>2. IsOpen(n)
    BY <2>1 DEF IsOpen, States, Working, Terminal
  <2>3. PromiseOf(m) = [status |-> "idle", filled |-> 0]
    BY <1>2, <2>1, StatusIs DEF PromiseOf
  <2>4. PromiseOf(n) = [status |-> "open", filled |-> 0]
    BY <2>1, <2>2, StatusIs DEF PromiseOf
  <2> QED
    BY <2>3, <2>4 DEF Contract!Opens, Contract!Idle
<1>3. CASE IsOpen(m) /\ n.state # "NONE" /\ n.filled >= m.filled
  <2>1. m.filled \in Nat /\ n.filled \in Nat
    BY DEF ManagedOrder
  <2>2. n.filled \in m.filled .. size
    BY <1>3, <2>1
  <2>3. StatusOf(m) = "open" /\ StatusOf(n) \in {"open", "filled", "dead"}
    BY <1>3, StatusIs
  <2>4. StatusOf(n) = "filled" <=> n.filled = size
    BY StatusIs
  <2> QED
    BY <2>2, <2>3, <2>4 DEF Contract!Moves, PromiseOf
<1> QED
  BY <1>1, <1>2, <1>3 DEF Ages

(* The manager on the live adapter implements the contract: whatever is      *)
(* repeated, lost or late on the requests and on the user channel, an order  *)
(* is opened once, its fills only grow, within its size, it is filled when   *)
(* they reach it, and what has ended stays as it ended (order_manager.py     *)
(* against OrderContract, with every order as one that may rest).            *)
THEOREM Implements == Spec => KeepsContract
<1>1. Init => Contract!Init
  <2>1. SUFFICES ASSUME Init, NEW o \in Orders
                 PROVE  PromiseOf(om[o]) = Contract!Idle
    BY DEF Contract!Init, PromiseOf
  <2>2. om[o] = NoOrder
    BY <2>1 DEF Init
  <2> QED
    BY <2>2, DraftedIs, StatusIs DEF PromiseOf, Contract!Idle
<1>2. IInv => FillsOK
  BY FillsFit
<1>3. IInv' => FillsOK'
  BY FillsFit, PTL
<1>4. IInv /\ IInv' /\ [Next]_vars => Contract!Next
  <2>1. SUFFICES ASSUME IInv, IInv', [Next]_vars
                 PROVE  Contract!Next
    OBVIOUS
  <2>2. ASSUME NEW o \in Orders
        PROVE  LET p == PromiseOf(om[o])
                   q == PromiseOf(om'[o])
               IN \/ q = p
                  \/ Contract!Opens(p, q)
                  \/ Contract!Moves(p, q, "GTC", Size[o])
    <3>1. om[o] \in ManagedOrder /\ om'[o] \in ManagedOrder /\ Size[o] \in Nat
      BY <2>1, TradesAre DEF IInv, ManagerOK
    <3>2. om[o].state = "NONE" => om[o].filled = 0
      BY <1>2, <2>1 DEF FillsOK
    <3>3. om'[o].filled <= Size[o]
      BY <1>3, <2>1 DEF FillsOK
    <3>4. om'[o].state = "FILLED" <=> om'[o].filled = Size[o]
      BY <2>1 DEF IInv, Orderly, Stage
    <3>5. Ages(om[o], om'[o])
      BY <2>1, AgesStep
    <3> QED
      BY <3>1, <3>2, <3>3, <3>4, <3>5, PromiseStep
  <2>3. ASSUME NEW o \in Orders
        PROVE  PromiseOf(om'[o]) \in [status: {"idle", "open", "filled", "dead"}, filled: Nat]
    <3>1. om'[o] \in ManagedOrder
      BY <2>1 DEF IInv, ManagerOK
    <3>2. om'[o].filled \in Nat
      BY <3>1 DEF ManagedOrder
    <3> QED
      BY <3>1, <3>2, StatusIs DEF PromiseOf
  <2> QED
    BY <2>2, <2>3 DEF Contract!Next, Contract!Statuses, PromiseOf
<1> QED
  BY <1>1, <1>4, Inductive, PTL DEF Spec, KeepsContract, Contract!Spec
=============================================================================
