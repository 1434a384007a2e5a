----------------------------- MODULE TablesProofs -----------------------------
(* Proofs about the two things the edge report reads.  First about Tables:   *)
(* the row of a settled window stays, and the report agrees with the ledger. *)
(* Then about MissedSignals: what the report says of a window that was not   *)
(* traded is what the engine did in it.  The two share no variable.          *)
EXTENDS Tables, MissedSignals, FoldLemmas

IsSettlement(x) == x.table = "windows" /\ x.row.settled

(* What this process holds and has drawn, and what earlier ones did.         *)
HeldOK ==
  /\ \A w \in Windows : session[w] # "none" <=> process \in heldBy[w]
  /\ \A w \in Windows : session[w] # "none" => w <= now
  /\ \A w \in Windows : session[w] \in {"settling", "done"} => w < now
  /\ \A i \in Ids : i \in DOMAIN orders <=> process \in drawnBy[i]
  /\ \A w \in Windows : \A p \in heldBy[w] : p <= process
  /\ \A i \in Ids : \A p \in drawnBy[i] : p <= process

(* One order a window, so there are no more of them than windows; and no     *)
(* more trades than they can have.                                           *)
FilledIds == {i \in DOMAIN orders : orders[i].filled > 0}

OrdersOK ==
  /\ \A i \in DOMAIN orders : session[orders[i].window] # "none"
  /\ \A i, j \in DOMAIN orders : orders[i].window = orders[j].window => i = j
  /\ Len(orders) <= now + 1
  /\ now \in Windows /\ OrdersOf(now) = {} => Len(orders) <= now
  /\ trades <= MaxTaken * Cardinality(FilledIds)

(* Behind the settlement of a window only the rows of its orders wait.       *)
QueueOK ==
  /\ \A j \in DOMAIN queue :
       /\ session[queue[j].window] # "none"
       /\ queue[j].table # "windows" =>
            queue[j].id \in DOMAIN orders /\ orders[queue[j].id].window = queue[j].window
       /\ IsSettlement(queue[j]) =>
            session[queue[j].window] = "done" /\ queue[j].row.n = Booked(queue[j].window)
  /\ \A j, l \in DOMAIN queue :
       j < l /\ IsSettlement(queue[j]) /\ queue[l].window = queue[j].window => queue[l].table = "orders"

(* No summary of a settled window waits, and none will be asked for.         *)
Final(w) ==
  /\ w < now /\ session[w] \in {"none", "done"}
  /\ \A j \in DOMAIN queue : queue[j].window = w => queue[j].table # "windows"

RowsOK ==
  /\ \A w \in Windows : windowRow[w].settled => Final(w)
  /\ \A i \in Ids : orderRow[i] # NoWindow => \E p \in drawnBy[i] : p \in heldBy[orderRow[i]]
  /\ \A i \in DOMAIN orders : drawnBy[i] = {process} => orderRow[i] \in {NoWindow, orders[i].window}
  /\ \A i \in Ids, t \in TradeIds : <<i, t>> \in fillRows => drawnBy[i] # {}

(* The fills of an order, written or waiting, are numbered in a row.         *)
Pending(i, t) == \E j \in DOMAIN queue : queue[j].table = "fills" /\ queue[j].id = i /\ queue[j].trade = t

FillsOK ==
  \A i \in DOMAIN orders : drawnBy[i] = {process} /\ orders[i].window \notin gaps =>
    \E a \in 0 .. trades :
      /\ a + orders[i].filled <= trades
      /\ \A t \in TradeIds :
           <<i, t>> \in fillRows \/ Pending(i, t) <=> a < t /\ t <= a + orders[i].filled

(* The settlement of a window waits, or all of it is there.                  *)
Waits(w) == \E j \in DOMAIN queue : queue[j].window = w /\ IsSettlement(queue[j])
There(w) ==
  /\ windowRow[w] = [settled |-> TRUE, n |-> Booked(w)]
  /\ \A j \in DOMAIN queue : queue[j].window = w => queue[j].table = "orders"

DoneOK == \A w \in Windows \ gaps : session[w] = "done" => Waits(w) \/ There(w)

(* What an earlier process left behind agrees.                               *)
PastAgrees == \A i \in ReconciliationErrors : process \notin drawnBy[i] => Excused(i)

IInv ==
  /\ TypeOK /\ HeldOK /\ OrdersOK /\ QueueOK /\ RowsOK
  /\ FillsOK /\ DoneOK /\ PastAgrees

-----------------------------------------------------------------------------
LEMMA ConstantsAre ==
  /\ LastWindow \in Nat /\ MaxRestarts \in Nat /\ MaxTaken \in Nat /\ MaxTaken > 0 /\ MaxFailed \in Nat
  /\ MaxTaken * (LastWindow + 1) \in Nat
BY TablesAssumption

LEMMA Times ==
  ASSUME NEW a \in Nat, NEW b \in Nat, NEW c \in Nat
  PROVE  /\ c * a \in Nat /\ c * (a + 1) = c * a + c
         /\ a <= b => c * a <= c * b
<1>1. c * a \in Nat /\ c * (a + 1) = c * a + c
  OBVIOUS
<1>2. ASSUME a <= b
      PROVE  c * a <= c * b
  <2>1. b - a \in Nat /\ b = a + (b - a)
    BY <1>2
  <2>2. \A d \in Nat : c * d \in Nat /\ c * (a + d) = c * a + c * d
    OBVIOUS
  <2>3. c * b = c * a + c * (b - a) /\ c * (b - a) \in Nat
    BY <2>1, <2>2
  <2> QED
    BY <1>1, <2>3
<1> QED
  BY <1>1, <1>2

(* The records that wait.                                                    *)
LEMMA CallsAre ==
  /\ \A x \in Calls : /\ x.window \in Windows
                      /\ \/ x.table = "windows" /\ x.row \in Row
                         \/ x.table = "orders" /\ x.id \in Ids
                         \/ x.table = "fills" /\ x.id \in Ids /\ x.trade \in TradeIds
  /\ \A w \in Windows, r \in Row : [table |-> "windows", window |-> w, row |-> r] \in Calls
  /\ \A w \in Windows, i \in Ids : [table |-> "orders", window |-> w, id |-> i] \in Calls
  /\ \A w \in Windows, i \in Ids, t \in TradeIds :
       [table |-> "fills", window |-> w, id |-> i, trade |-> t] \in Calls
<1> DEFINE A == [table : {"windows"}, window : Windows, row : Row]
           B == [table : {"orders"}, window : Windows, id : Ids]
           C == [table : {"fills"}, window : Windows, id : Ids, trade : TradeIds]
<1>1. \A x \in A : x.table = "windows" /\ x.window \in Windows /\ x.row \in Row
  OBVIOUS
<1>2. \A x \in B : x.table = "orders" /\ x.window \in Windows /\ x.id \in Ids
  OBVIOUS
<1>3. \A x \in C : x.table = "fills" /\ x.window \in Windows /\ x.id \in Ids /\ x.trade \in TradeIds
  OBVIOUS
<1>4. \A w \in Windows, r \in Row : [table |-> "windows", window |-> w, row |-> r] \in A
  OBVIOUS
<1>5. \A w \in Windows, i \in Ids : [table |-> "orders", window |-> w, id |-> i] \in B
  OBVIOUS
<1>6. \A w \in Windows, i \in Ids, t \in TradeIds :
        [table |-> "fills", window |-> w, id |-> i, trade |-> t] \in C
  OBVIOUS
<1>7. Calls = A \cup B \cup C
  BY DEF Calls
<1> HIDE DEF A, B, C
<1> QED
  BY <1>1, <1>2, <1>3, <1>4, <1>5, <1>6, <1>7

LEMMA RowsAre ==
  /\ \A b \in BOOLEAN, n \in 0 .. MaxTaken :
       /\ [settled |-> b, n |-> n] \in Row
       /\ [settled |-> b, n |-> n].settled = b /\ [settled |-> b, n |-> n].n = n
  /\ \A r \in Row : r.settled \in BOOLEAN /\ r.n \in 0 .. MaxTaken /\ r = [settled |-> r.settled, n |-> r.n]
BY DEF Row

(* What an order's record is, and is when one of its fields changes.         *)
Ordering == [window : Windows, filled : 0 .. MaxTaken, recorded : BOOLEAN]

LEMMA OrderingsAre ==
  /\ \A o \in Ordering : o.window \in Windows /\ o.filled \in 0 .. MaxTaken /\ o.recorded \in BOOLEAN
  /\ \A o \in Ordering : /\ [o EXCEPT !.recorded = TRUE] \in Ordering
                         /\ [o EXCEPT !.recorded = TRUE].window = o.window
                         /\ [o EXCEPT !.recorded = TRUE].filled = o.filled
  /\ \A o \in Ordering, n \in 0 .. MaxTaken :
       /\ [o EXCEPT !.filled = n] \in Ordering
       /\ [o EXCEPT !.filled = n].window = o.window /\ [o EXCEPT !.filled = n].filled = n
  /\ \A w \in Windows :
       /\ [window |-> w, filled |-> 0, recorded |-> FALSE] \in Ordering
       /\ [window |-> w, filled |-> 0, recorded |-> FALSE].window = w
       /\ [window |-> w, filled |-> 0, recorded |-> FALSE].filled = 0
<1>1. 0 \in 0 .. MaxTaken /\ TRUE \in BOOLEAN /\ FALSE \in BOOLEAN
  BY ConstantsAre
<1> DEFINE N == 0 .. MaxTaken
<1> HIDE DEF N
<1>2. ASSUME NEW o \in Ordering
      PROVE  /\ o.window \in Windows /\ o.filled \in N /\ o.recorded \in BOOLEAN
             /\ [o EXCEPT !.recorded = TRUE] \in Ordering
             /\ [o EXCEPT !.recorded = TRUE].window = o.window
             /\ [o EXCEPT !.recorded = TRUE].filled = o.filled
  BY <1>2, <1>1 DEF Ordering, N
<1>3. ASSUME NEW o \in Ordering, NEW n \in N
      PROVE  /\ [o EXCEPT !.filled = n] \in Ordering
             /\ [o EXCEPT !.filled = n].window = o.window /\ [o EXCEPT !.filled = n].filled = n
  BY <1>3, <1>1 DEF Ordering, N
<1>4. ASSUME NEW w \in Windows
      PROVE  [window |-> w, filled |-> 0, recorded |-> FALSE] \in Ordering
  BY <1>4, <1>1 DEF Ordering, N
<1> QED
  BY <1>2, <1>3, <1>4 DEF N

(* The snapshot, whose book is within its bounds.                            *)
LEMMA SnapshotIs ==
  ASSUME TypeOK, NEW w \in Windows, NEW b \in BOOLEAN
  PROVE  /\ Booked(w) \in 0 .. MaxTaken
         /\ Snapshot(w, b) \in Calls /\ Snapshot(w, b).table = "windows"
         /\ Snapshot(w, b).window = w /\ Snapshot(w, b).row.settled = b
         /\ Snapshot(w, b).row.n = Booked(w)
<1>1. Booked(w) \in 0 .. MaxTaken
  <2>1. CASE OrdersOf(w) = {}
    BY <2>1, ConstantsAre DEF Booked
  <2>2. CASE OrdersOf(w) # {}
    <3> DEFINE i == CHOOSE i \in OrdersOf(w) : TRUE
    <3>1. i \in OrdersOf(w)
      BY <2>2
    <3> HIDE DEF i
    <3>2. orders \in Seq(Ordering) /\ i \in DOMAIN orders
      BY <3>1 DEF TypeOK, Ordering, OrdersOf
    <3>3. orders[i] \in Ordering
      BY <3>2
    <3>4. orders[i].filled \in 0 .. MaxTaken
      BY <3>3, OrderingsAre
    <3> QED
      BY <2>2, <3>4 DEF Booked, i
  <2> QED
    BY <2>1, <2>2
<1> DEFINE n == Booked(w)
<1> HIDE DEF n
<1>2. [settled |-> b, n |-> n] \in Row
  BY <1>1, RowsAre DEF n
<1>3. Snapshot(w, b) = [table |-> "windows", window |-> w, row |-> [settled |-> b, n |-> n]]
  BY DEF Snapshot, n
<1> QED
  BY <1>1, <1>2, <1>3, CallsAre DEF n

(* The book of a window does not change unless its orders fill.              *)
LEMMA BookedStays ==
  ASSUME NEW w, OrdersOf(w)' = OrdersOf(w), \A i \in OrdersOf(w) : orders'[i].filled = orders[i].filled
  PROVE  Booked(w)' = Booked(w)
<1>1. CASE OrdersOf(w) = {}
  BY <1>1 DEF Booked
<1>2. CASE OrdersOf(w) # {}
  <2> DEFINE i == CHOOSE i \in OrdersOf(w) : TRUE
  <2>1. i \in OrdersOf(w)
    BY <1>2
  <2>2. Booked(w) = orders[i].filled
    BY <1>2 DEF Booked
  <2>3. Booked(w)' = orders'[i].filled
    BY <1>2 DEF Booked
  <2> QED
    BY <2>1, <2>2, <2>3
<1> QED
  BY <1>1, <1>2

-----------------------------------------------------------------------------
LEMMA ProcessesAre ==
  /\ IsFiniteSet(Processes)
  /\ \A A \in SUBSET Processes : IsFiniteSet(A) /\ Cardinality(A) \in Nat
<1>1. IsFiniteSet(Processes)
  BY FS_Interval, ConstantsAre DEF Processes
<1> QED
  BY <1>1, FS_Subset, FS_CardinalityType

LEMMA TwoAreMany ==
  ASSUME NEW A \in SUBSET Processes, NEW p \in A, NEW q \in A, p # q
  PROVE  Cardinality(A) > 1
<1>1. /\ IsFiniteSet({}) /\ Cardinality({}) = 0
      /\ IsFiniteSet({p}) /\ Cardinality({p}) = 1
      /\ IsFiniteSet({p, q}) /\ Cardinality({p, q}) = 2
  <2>1. IsFiniteSet({}) /\ Cardinality({}) = 0
    BY FS_EmptySet
  <2>2. IsFiniteSet({p}) /\ Cardinality({p}) = 1
    BY FS_Singleton
  <2>3. IsFiniteSet({p} \cup {q}) /\ Cardinality({p} \cup {q}) = 1 + 1
    BY <2>2, FS_AddElement
  <2>4. {p} \cup {q} = {p, q}
    OBVIOUS
  <2> QED
    BY <2>1, <2>2, <2>3, <2>4
<1>2. {p, q} \subseteq A
  OBVIOUS
<1>3. Cardinality({p, q}) <= Cardinality(A) /\ Cardinality(A) \in Nat
  BY <1>2, FS_Subset, ProcessesAre
<1> QED
  BY <1>1, <1>3

LEMMA ManyGrow ==
  ASSUME NEW A \in SUBSET Processes, NEW B \in SUBSET Processes, A \subseteq B, Cardinality(A) > 1
  PROVE  Cardinality(B) > 1
<1>1. Cardinality(A) <= Cardinality(B) /\ Cardinality(A) \in Nat /\ Cardinality(B) \in Nat
  BY FS_Subset, ProcessesAre
<1> QED
  BY <1>1

(* Rows that stay agree as they did.                                         *)
LEMMA PastStays ==
  ASSUME TypeOK, PastAgrees, UNCHANGED <<windowRow, orderRow, fillRows, process>>,
         heldBy' \in [Windows -> SUBSET Processes], drawnBy' \in [Ids -> SUBSET Processes],
         \A w \in Windows : heldBy[w] \subseteq heldBy'[w],
         \A i \in Ids : drawnBy[i] \subseteq drawnBy'[i],
         gaps \subseteq gaps'
  PROVE  PastAgrees'
<1>1. ReconciliationErrors' = ReconciliationErrors
  BY DEF ReconciliationErrors, SettledTrades, Trade, FilledSize
<1> SUFFICES ASSUME NEW i \in ReconciliationErrors, process \notin drawnBy'[i]
             PROVE  Excused(i)'
  BY <1>1 DEF PastAgrees
<1>2. i \in Ids /\ orderRow[i] \in Windows
  BY DEF ReconciliationErrors, SettledTrades, TypeOK
<1>3. Trade(i).window = orderRow[i] /\ Trade(i)'.window = orderRow[i]
  BY DEF Trade
<1>4. Excused(i)
  BY <1>2 DEF PastAgrees
<1>5. Reused(i) => Reused(i)'
  <2>1. drawnBy[i] \in SUBSET Processes /\ drawnBy'[i] \in SUBSET Processes
    BY <1>2 DEF TypeOK
  <2> QED
    BY <1>2, <2>1, ManyGrow DEF Reused
<1>6. Straddled(orderRow[i]) => Straddled(orderRow[i])'
  <2>1. heldBy[orderRow[i]] \in SUBSET Processes /\ heldBy'[orderRow[i]] \in SUBSET Processes
    BY <1>2 DEF TypeOK
  <2> QED
    BY <1>2, <2>1, ManyGrow DEF Straddled
<1>7. Reused(i) \/ Straddled(orderRow[i]) \/ orderRow[i] \in gaps
  BY <1>3, <1>4 DEF Excused
<1>8. orderRow[i] \in gaps => orderRow[i] \in gaps'
  OBVIOUS
<1> QED
  BY <1>3, <1>5, <1>6, <1>7, <1>8 DEF Excused

LEMMA Initial == Init => IInv
<1> SUFFICES ASSUME Init PROVE IInv
  OBVIOUS
<1>1. TypeOK
  <2>1. /\ 0 \in 0 .. LastWindow + 1 /\ 0 \in Processes /\ 0 \in 0 .. MaxTaken * (LastWindow + 1)
        /\ 0 \in 0 .. MaxFailed /\ NoRow \in Row /\ 0 <= LastWindow + 1
    <3>1. 0 \in 0 .. MaxTaken
      BY ConstantsAre
    <3>2. NoRow \in Row
      BY <3>1 DEF Row, NoRow
    <3> QED
      BY <3>2, ConstantsAre DEF Processes
  <2>2. /\ session \in [Windows -> {"none", "active", "settling", "done"}]
        /\ windowRow \in [Windows -> Row] /\ orderRow \in [Ids -> Windows \cup {NoWindow}]
        /\ heldBy \in [Windows -> SUBSET Processes] /\ drawnBy \in [Ids -> SUBSET Processes]
    BY <2>1 DEF Init
  <2> QED
    BY <2>1, <2>2 DEF Init, TypeOK
<1>2. HeldOK
  BY ConstantsAre DEF Init, HeldOK
<1>3. OrdersOK
  <2>1. FilledIds = {}
    BY DEF Init, FilledIds
  <2>2. Cardinality(FilledIds) = 0
    BY <2>1, FS_EmptySet
  <2> QED
    BY <2>2, ConstantsAre DEF Init, OrdersOK
<1>4. QueueOK
  BY DEF Init, QueueOK
<1>5. RowsOK
  BY DEF Init, RowsOK, NoRow
<1>6. FillsOK /\ DoneOK
  BY DEF Init, FillsOK, DoneOK
<1>7. PastAgrees
  BY DEF Init, PastAgrees, ReconciliationErrors, SettledTrades
<1> QED
  BY <1>1, <1>2, <1>3, <1>4, <1>5, <1>6, <1>7 DEF IInv

-----------------------------------------------------------------------------
(* What an order or a call that waits is.                                    *)
LEMMA EachIs ==
  ASSUME TypeOK
  PROVE  /\ orders \in Seq(Ordering) /\ Len(orders) \in Nat /\ DOMAIN orders = 1 .. Len(orders)
         /\ DOMAIN orders \subseteq Ids
         /\ \A i \in DOMAIN orders : orders[i] \in Ordering /\ orders[i].window \in Windows
         /\ queue \in Seq(Calls) /\ Len(queue) \in Nat /\ DOMAIN queue = 1 .. Len(queue)
         /\ \A j \in DOMAIN queue : queue[j] \in Calls /\ queue[j].window \in Windows
         /\ now \in Nat /\ process \in Nat /\ trades \in Nat
<1>1. orders \in Seq(Ordering) /\ Len(orders) \in Nat /\ DOMAIN orders = 1 .. Len(orders)
  BY DEF TypeOK, Ordering
<1>2. Len(orders) <= LastWindow + 1
  BY DEF TypeOK
<1>3. DOMAIN orders \subseteq Ids
  BY <1>1, <1>2, ConstantsAre DEF Ids
<1>4. \A i \in DOMAIN orders : orders[i] \in Ordering /\ orders[i].window \in Windows
  BY <1>1, OrderingsAre
<1>5. queue \in Seq(Calls) /\ Len(queue) \in Nat /\ DOMAIN queue = 1 .. Len(queue)
  BY DEF TypeOK
<1>6. \A j \in DOMAIN queue : queue[j] \in Calls /\ queue[j].window \in Windows
  BY <1>5, CallsAre
<1>7. now \in Nat /\ process \in Nat /\ trades \in Nat
  BY ConstantsAre DEF TypeOK, Processes
<1> QED
  BY <1>1, <1>3, <1>4, <1>5, <1>6, <1>7

(* The two bounds, apart from the product that one of them is.               *)
LEMMA BoundsAre ==
  ASSUME TypeOK
  PROVE  /\ Len(orders) <= LastWindow + 1
         /\ \E g \in Nat : g = MaxTaken * (LastWindow + 1) /\ trades \in Nat /\ trades <= g
<1>1. Len(orders) <= LastWindow + 1
  BY DEF TypeOK
<1> DEFINE g == MaxTaken * (LastWindow + 1)
<1>2. g \in Nat /\ trades \in 0 .. g
  BY ConstantsAre DEF TypeOK
<1> HIDE DEF g
<1>3. trades \in Nat /\ trades <= g
  BY <1>2
<1>4. g = MaxTaken * (LastWindow + 1)
  BY Zenon DEF g
<1>5. \E h \in Nat : h = MaxTaken * (LastWindow + 1) /\ trades \in Nat /\ trades <= h
  BY <1>2, <1>3, <1>4, Zenon
<1> QED
  BY <1>1, <1>5, Zenon

LEMMA OpenStep ==
  ASSUME IInv, Open
  PROVE  IInv'
<1>0. /\ TypeOK /\ HeldOK /\ OrdersOK /\ QueueOK /\ RowsOK /\ FillsOK /\ DoneOK /\ PastAgrees
      /\ now \in Windows /\ session[now] = "none"
      /\ session' = [session EXCEPT ![now] = "active"]
      /\ heldBy' = [heldBy EXCEPT ![now] = @ \cup {process}]
      /\ UNCHANGED <<now, process, loop, orders, trades, queue, windowRow, orderRow, fillRows, failed, gaps, drawnBy>>
  BY DEF IInv, Open, tables
<1>1. /\ session' \in [Windows -> {"none", "active", "settling", "done"}]
      /\ heldBy' \in [Windows -> SUBSET Processes]
      /\ \A w \in Windows : w # now => session'[w] = session[w] /\ heldBy'[w] = heldBy[w]
      /\ session'[now] = "active" /\ heldBy'[now] = heldBy[now] \cup {process}
  BY <1>0 DEF TypeOK
<1>2. TypeOK'
  BY <1>0, <1>1 DEF TypeOK
<1>3. HeldOK'
  BY <1>0, <1>1, EachIs DEF HeldOK
<1>4. OrdersOK'
  BY <1>0, <1>1, EachIs DEF OrdersOK, OrdersOf, FilledIds
<1>5. \A w : Booked(w)' = Booked(w)
  BY <1>0 DEF Booked, OrdersOf
<1>6. QueueOK'
  BY <1>0, <1>1, <1>5, EachIs DEF QueueOK, IsSettlement
<1>7. RowsOK'
  <2>1. \A w \in Windows : Final(w) => Final(w)'
    BY <1>0, <1>1, EachIs DEF Final
  <2>2. \A i \in Ids : orderRow[i] # NoWindow => \E p \in drawnBy[i] : p \in heldBy'[orderRow[i]]
    <3>1. \A i \in Ids : orderRow[i] \in Windows \cup {NoWindow}
      BY <1>0 DEF TypeOK
    <3> QED
      BY <1>0, <1>1, <3>1 DEF RowsOK
  <2> QED
    BY <1>0, <2>1, <2>2 DEF RowsOK
<1>8. FillsOK'
  BY <1>0 DEF FillsOK, Pending
<1>9. DoneOK'
  BY <1>0, <1>1, <1>5 DEF DoneOK, Waits, There, IsSettlement
<1>10. PastAgrees'
  <2>1. drawnBy' \in [Ids -> SUBSET Processes]
    BY <1>0 DEF TypeOK
  <2>2. \A w \in Windows : heldBy[w] \subseteq heldBy'[w]
    BY <1>1
  <2> QED
    BY <1>0, <1>1, <2>1, <2>2, PastStays
<1> QED
  BY <1>2, <1>3, <1>4, <1>6, <1>7, <1>8, <1>9, <1>10 DEF IInv

LEMMA TickStep ==
  ASSUME IInv, Tick
  PROVE  IInv'
<1>0. /\ TypeOK /\ HeldOK /\ OrdersOK /\ QueueOK /\ RowsOK /\ FillsOK /\ DoneOK /\ PastAgrees
      /\ now <= LastWindow /\ now' = now + 1
      /\ UNCHANGED <<process, loop, session, orders, trades, queue, windowRow, orderRow, fillRows,
                     failed, gaps, heldBy, drawnBy>>
  BY DEF IInv, Tick, memory, tables, history
<1>1. Windows \subseteq Nat
  BY DEF Windows
<1>2. TypeOK'
  BY <1>0, ConstantsAre DEF TypeOK
<1>3. HeldOK'
  BY <1>0, <1>1, EachIs DEF HeldOK
<1>4. OrdersOK'
  <2>1. FilledIds' = FilledIds /\ Len(orders) <= now'
    BY <1>0, EachIs DEF OrdersOK, FilledIds
  <2> QED
    BY <1>0, <2>1, EachIs DEF OrdersOK
<1>5. \A w : Booked(w)' = Booked(w)
  BY <1>0 DEF Booked, OrdersOf
<1>6. QueueOK'
  BY <1>0, <1>5 DEF QueueOK, IsSettlement
<1>7. RowsOK'
  <2>1. \A w \in Windows : Final(w) => Final(w)'
    BY <1>0, <1>1, EachIs DEF Final
  <2> QED
    BY <1>0, <2>1 DEF RowsOK
<1>8. FillsOK'
  BY <1>0 DEF FillsOK, Pending
<1>9. DoneOK'
  BY <1>0, <1>5 DEF DoneOK, Waits, There, IsSettlement
<1>10. PastAgrees'
  <2>1. drawnBy' \in [Ids -> SUBSET Processes] /\ heldBy' \in [Windows -> SUBSET Processes]
    BY <1>0 DEF TypeOK
  <2> QED
    BY <1>0, <2>1, PastStays
<1> QED
  BY <1>2, <1>3, <1>4, <1>6, <1>7, <1>8, <1>9, <1>10 DEF IInv

LEMMA DraftStep ==
  ASSUME IInv, Draft
  PROVE  IInv'
<1> DEFINE o == [window |-> now, filled |-> 0, recorded |-> FALSE]
           m == Len(orders) + 1
<1>0. /\ TypeOK /\ HeldOK /\ OrdersOK /\ QueueOK /\ RowsOK /\ FillsOK /\ DoneOK /\ PastAgrees
      /\ now \in Windows /\ session[now] = "active" /\ OrdersOf(now) = {}
      /\ orders' = Append(orders, o)
      /\ drawnBy' = [drawnBy EXCEPT ![Len(orders')] = @ \cup {process}]
      /\ UNCHANGED <<now, process, loop, session, trades, queue, windowRow, orderRow, fillRows, failed, gaps, heldBy>>
  BY DEF IInv, Draft, OneShot, tables
<1>1. o \in Ordering /\ o.window = now /\ o.filled = 0
  BY <1>0, OrderingsAre
<1> HIDE DEF o
<1>2. /\ orders' \in Seq(Ordering) /\ Len(orders') = m /\ DOMAIN orders' = 1 .. m
      /\ \A i \in DOMAIN orders : i \in DOMAIN orders' /\ orders'[i] = orders[i]
      /\ orders'[m] = o
      /\ \A i \in DOMAIN orders' : i \in DOMAIN orders \/ i = m
      /\ m \notin DOMAIN orders
  BY <1>0, <1>1, EachIs
<1>3. Len(orders) <= now /\ now <= LastWindow /\ m \in Ids
  BY <1>0, EachIs, ConstantsAre DEF OrdersOK, Windows, Ids
<1>4. /\ drawnBy' \in [Ids -> SUBSET Processes]
      /\ \A i \in Ids : i # m => drawnBy'[i] = drawnBy[i]
      /\ drawnBy'[m] = drawnBy[m] \cup {process}
  BY <1>0, <1>2, <1>3 DEF TypeOK
<1> HIDE DEF m
<1>5. TypeOK'
  <2>1. Len(orders') <= LastWindow + 1
    BY <1>2, <1>3, EachIs, <1>0, ConstantsAre DEF m
  <2> QED
    BY <1>0, <1>2, <1>4, <2>1 DEF TypeOK, Ordering
<1>6. HeldOK'
  <2>1. \A i \in Ids : i \in DOMAIN orders' <=> process \in drawnBy'[i]
    BY <1>0, <1>2, <1>4 DEF HeldOK
  <2>2. \A i \in Ids : \A p \in drawnBy'[i] : p <= process
    BY <1>0, <1>4, EachIs DEF HeldOK
  <2> QED
    BY <1>0, <2>1, <2>2 DEF HeldOK
<1>7. OrdersOK'
  <2>1. \A i \in DOMAIN orders : orders[i].window # now
    BY <1>0 DEF OrdersOf
  <2>2. \A i \in DOMAIN orders' : session[orders'[i].window] # "none"
    BY <1>0, <1>1, <1>2 DEF OrdersOK
  <2>3. \A i, j \in DOMAIN orders' : orders'[i].window = orders'[j].window => i = j
    BY <1>0, <1>1, <1>2, <2>1 DEF OrdersOK
  <2>4. Len(orders') <= now + 1
    BY <1>0, <1>2, <1>3, EachIs DEF m
  <2>5. OrdersOf(now)' # {}
    BY <1>0, <1>1, <1>2 DEF OrdersOf
  <2>6. FilledIds' = FilledIds
    BY <1>1, <1>2 DEF FilledIds
  <2> QED
    BY <1>0, <2>2, <2>3, <2>4, <2>5, <2>6 DEF OrdersOK
<1>8. ASSUME NEW w \in Windows, w # now
      PROVE  Booked(w)' = Booked(w)
  <2>1. OrdersOf(w)' = OrdersOf(w)
    BY <1>1, <1>2, <1>8 DEF OrdersOf
  <2> QED
    BY <1>2, <2>1, BookedStays DEF OrdersOf
<1>9. QueueOK'
  <2>1. \A j \in DOMAIN queue : queue[j].window \in Windows
    BY <1>0, EachIs
  <2> QED
    BY <1>0, <1>2, <1>8, <2>1 DEF QueueOK, IsSettlement
<1>10. RowsOK'
  <2>1. \A w \in Windows : Final(w) => Final(w)'
    BY <1>0 DEF Final
  <2>2. \A i \in Ids : drawnBy[i] \subseteq drawnBy'[i]
    BY <1>4
  <2>3. ASSUME NEW i \in DOMAIN orders', drawnBy'[i] = {process}
        PROVE  orderRow[i] \in {NoWindow, orders'[i].window}
    <3>1. CASE i \in DOMAIN orders
      <4>1. i # m /\ i \in Ids /\ orders'[i] = orders[i]
        BY <1>0, <1>2, <3>1, EachIs
      <4> QED
        BY <1>0, <1>4, <2>3, <3>1, <4>1 DEF RowsOK
    <3>2. CASE i = m
      <4>1. drawnBy[m] = {}
        BY <1>0, <1>2, <1>3, <1>4, <2>3, <3>2 DEF HeldOK
      <4> QED
        BY <1>0, <1>3, <3>2, <4>1 DEF RowsOK
    <3> QED
      BY <1>2, <3>1, <3>2
  <2> QED
    BY <1>0, <2>1, <2>2, <2>3 DEF RowsOK
<1>11. FillsOK'
  <2>1. \A i \in Ids, t \in TradeIds : Pending(i, t)' <=> Pending(i, t)
    BY <1>0 DEF Pending
  <2>2. ASSUME NEW i \in DOMAIN orders', drawnBy'[i] = {process}, orders'[i].window \notin gaps
        PROVE  \E a \in 0 .. trades :
                 /\ a + orders'[i].filled <= trades
                 /\ \A t \in TradeIds :
                      <<i, t>> \in fillRows \/ Pending(i, t) <=> a < t /\ t <= a + orders'[i].filled
    <3>1. CASE i \in DOMAIN orders
      <4>1. i # m /\ i \in Ids /\ orders'[i] = orders[i]
        BY <1>0, <1>2, <3>1, EachIs
      <4> QED
        BY <1>0, <1>4, <2>2, <3>1, <4>1 DEF FillsOK
    <3>2. CASE i = m
      <4>1. drawnBy[m] = {}
        BY <1>0, <1>2, <1>3, <1>4, <2>2, <3>2 DEF HeldOK
      <4>2. \A t \in TradeIds : <<m, t>> \notin fillRows
        BY <1>0, <1>3, <4>1 DEF RowsOK
      <4>3. \A t \in TradeIds : ~Pending(m, t)
        BY <1>0, <1>2 DEF Pending, QueueOK
      <4>4. \A t \in TradeIds : t \in Int /\ ~(0 < t /\ t <= 0 + orders'[m].filled)
        BY <1>1, <1>2 DEF TradeIds
      <4>5. 0 \in 0 .. trades /\ 0 + orders'[m].filled <= trades
        BY <1>0, <1>1, <1>2, EachIs
      <4> QED
        BY <3>2, <4>2, <4>3, <4>4, <4>5
    <3> QED
      BY <1>2, <2>2, <3>1, <3>2
  <2>3. \A i \in DOMAIN orders' : i \in Ids
    BY <1>0, <1>2, <1>3, EachIs
  <2> QED
    BY <1>0, <2>1, <2>2, <2>3 DEF FillsOK
<1>12. DoneOK'
  BY <1>0, <1>8 DEF DoneOK, Waits, There, IsSettlement
<1>13. PastAgrees'
  <2>1. heldBy' \in [Windows -> SUBSET Processes]
    BY <1>0 DEF TypeOK
  <2>2. \A i \in Ids : drawnBy[i] \subseteq drawnBy'[i]
    BY <1>4
  <2> QED
    BY <1>0, <1>4, <2>1, <2>2, PastStays
<1> QED
  BY <1>5, <1>6, <1>7, <1>9, <1>10, <1>11, <1>12, <1>13 DEF IInv

(* One more call waits.                                                      *)
LEMMA CallJoins ==
  ASSUME TypeOK, NEW x \in Calls, queue' = Append(queue, x)
  PROVE  /\ queue' \in Seq(Calls) /\ Len(queue') = Len(queue) + 1
         /\ \A j \in DOMAIN queue : j \in DOMAIN queue' /\ queue'[j] = queue[j]
         /\ Len(queue) + 1 \in DOMAIN queue' /\ queue'[Len(queue) + 1] = x
         /\ \A j \in DOMAIN queue' :
              \/ j \in DOMAIN queue /\ queue'[j] = queue[j]
              \/ j = Len(queue) + 1 /\ j \notin DOMAIN queue /\ queue'[j] = x
         /\ \A j, l \in DOMAIN queue' : j < l => j \in DOMAIN queue
BY EachIs

(* A call that is no fill leaves the fills that wait as they are.            *)
LEMMA NoFillJoins ==
  ASSUME TypeOK, NEW x \in Calls, queue' = Append(queue, x), x.table # "fills", NEW i, NEW t
  PROVE  Pending(i, t)' <=> Pending(i, t)
BY CallJoins DEF Pending

LEMMA RecordOrderStep ==
  ASSUME IInv, NEW i \in DOMAIN orders, RecordOrder(i)
  PROVE  IInv'
<1> DEFINE x == [table |-> "orders", window |-> orders[i].window, id |-> i]
           o == [orders[i] EXCEPT !.recorded = TRUE]
<1>0. /\ TypeOK /\ HeldOK /\ OrdersOK /\ QueueOK /\ RowsOK /\ FillsOK /\ DoneOK /\ PastAgrees
      /\ orders' = [orders EXCEPT ![i] = o]
      /\ queue' = Append(queue, x)
      /\ UNCHANGED <<now, process, loop, session, trades, windowRow, orderRow, fillRows,
                     failed, gaps, heldBy, drawnBy>>
  BY DEF IInv, RecordOrder, tables, history
<1>1. o \in Ordering /\ o.window = orders[i].window /\ o.filled = orders[i].filled
  BY <1>0, EachIs, OrderingsAre
<1>2. x \in Calls /\ x.table = "orders" /\ x.window = orders[i].window /\ x.id = i
  BY <1>0, EachIs, CallsAre
<1> HIDE DEF o, x
<1>3. /\ orders' \in Seq(Ordering) /\ Len(orders') = Len(orders) /\ DOMAIN orders' = DOMAIN orders
      /\ \A h \in DOMAIN orders : orders'[h].window = orders[h].window /\ orders'[h].filled = orders[h].filled
  BY <1>0, <1>1, EachIs
<1>4. /\ queue' \in Seq(Calls) /\ Len(queue') = Len(queue) + 1
      /\ \A j \in DOMAIN queue : j \in DOMAIN queue' /\ queue'[j] = queue[j]
      /\ \A j \in DOMAIN queue' :
           \/ j \in DOMAIN queue /\ queue'[j] = queue[j]
           \/ j = Len(queue) + 1 /\ j \notin DOMAIN queue /\ queue'[j] = x
      /\ \A j, l \in DOMAIN queue' : j < l => j \in DOMAIN queue
  BY <1>0, <1>2, CallJoins
<1>5. TypeOK'
  BY <1>0, <1>3, <1>4 DEF TypeOK, Ordering
<1>6. HeldOK'
  BY <1>0, <1>3 DEF HeldOK
<1>7. OrdersOK'
  <2>1. OrdersOf(now)' = OrdersOf(now) /\ FilledIds' = FilledIds
    BY <1>0, <1>3 DEF OrdersOf, FilledIds
  <2> QED
    BY <1>0, <1>3, <2>1 DEF OrdersOK
<1>8. ASSUME NEW w
      PROVE  Booked(w)' = Booked(w)
  <2>1. OrdersOf(w)' = OrdersOf(w)
    BY <1>3 DEF OrdersOf
  <2> QED
    BY <1>3, <2>1, BookedStays DEF OrdersOf
<1>9. QueueOK'
  <2>1. ASSUME NEW j \in DOMAIN queue'
        PROVE  /\ session[queue'[j].window] # "none"
               /\ queue'[j].table # "windows" =>
                    queue'[j].id \in DOMAIN orders' /\ orders'[queue'[j].id].window = queue'[j].window
               /\ IsSettlement(queue'[j]) =>
                    session[queue'[j].window] = "done" /\ queue'[j].row.n = Booked(queue'[j].window)
    <3>1. CASE j \in DOMAIN queue /\ queue'[j] = queue[j]
      BY <1>0, <1>3, <3>1 DEF QueueOK
    <3>2. CASE queue'[j] = x
      BY <1>0, <1>2, <1>3, <3>2 DEF OrdersOK, IsSettlement
    <3> QED
      BY <1>4, <3>1, <3>2
  <2>2. \A j, l \in DOMAIN queue' :
          j < l /\ IsSettlement(queue'[j]) /\ queue'[l].window = queue'[j].window => queue'[l].table = "orders"
    BY <1>0, <1>2, <1>4 DEF QueueOK
  <2> QED
    BY <1>0, <1>8, <2>1, <2>2 DEF QueueOK, IsSettlement
<1>10. RowsOK'
  <2>1. \A w \in Windows : Final(w) => Final(w)'
    BY <1>0, <1>2, <1>4 DEF Final
  <2> QED
    BY <1>0, <1>3, <2>1 DEF RowsOK
<1>11. FillsOK'
  <2>1. \A h, t : Pending(h, t)' <=> Pending(h, t)
    BY <1>0, <1>2, NoFillJoins
  <2> QED
    BY <1>0, <1>3, <2>1 DEF FillsOK
<1>12. DoneOK'
  <2>1. \A w : Waits(w) => Waits(w)'
    BY <1>4 DEF Waits, IsSettlement
  <2>2. ASSUME NEW w, There(w)
        PROVE  There(w)'
    <3>1. windowRow'[w] = [settled |-> TRUE, n |-> Booked(w)']
      BY <1>0, <1>8, <2>2 DEF There
    <3>2. \A j \in DOMAIN queue' : queue'[j].window = w => queue'[j].table = "orders"
      BY <1>2, <1>4, <2>2 DEF There
    <3> QED
      BY <3>1, <3>2 DEF There
  <2> QED
    BY <1>0, <2>1, <2>2 DEF DoneOK
<1>13. PastAgrees'
  <2>1. drawnBy' \in [Ids -> SUBSET Processes] /\ heldBy' \in [Windows -> SUBSET Processes]
    BY <1>0 DEF TypeOK
  <2> QED
    BY <1>0, <2>1, PastStays
<1> QED
  BY <1>5, <1>6, <1>7, <1>9, <1>10, <1>11, <1>12, <1>13 DEF IInv

LEMMA CloseStep ==
  ASSUME IInv, NEW w \in Windows, Close(w)
  PROVE  IInv'
<1> DEFINE x == Snapshot(w, FALSE)
<1>0. /\ TypeOK /\ HeldOK /\ OrdersOK /\ QueueOK /\ RowsOK /\ FillsOK /\ DoneOK /\ PastAgrees
      /\ session[w] = "active" /\ w < now
      /\ session' = [session EXCEPT ![w] = "settling"]
      /\ queue' = Append(queue, x)
      /\ UNCHANGED <<now, process, loop, orders, trades, windowRow, orderRow, fillRows,
                     failed, gaps, heldBy, drawnBy>>
  BY DEF IInv, Close, tables, history
<1>1. x \in Calls /\ x.table = "windows" /\ x.window = w /\ ~x.row.settled
  BY <1>0, SnapshotIs
<1> HIDE DEF x
<1>2. /\ session' \in [Windows -> {"none", "active", "settling", "done"}]
      /\ \A v \in Windows : v # w => session'[v] = session[v]
      /\ session'[w] = "settling"
  BY <1>0 DEF TypeOK
<1>3. /\ queue' \in Seq(Calls) /\ Len(queue') = Len(queue) + 1
      /\ \A j \in DOMAIN queue : j \in DOMAIN queue' /\ queue'[j] = queue[j]
      /\ \A j \in DOMAIN queue' :
           \/ j \in DOMAIN queue /\ queue'[j] = queue[j]
           \/ j = Len(queue) + 1 /\ j \notin DOMAIN queue /\ queue'[j] = x
      /\ \A j, l \in DOMAIN queue' : j < l => j \in DOMAIN queue
  BY <1>0, <1>1, CallJoins
<1>4. \A j \in DOMAIN queue : queue[j].window \in Windows
  BY <1>0, EachIs
<1>5. TypeOK'
  BY <1>0, <1>2, <1>3 DEF TypeOK
<1>6. HeldOK'
  BY <1>0, <1>2 DEF HeldOK
<1>7. OrdersOK'
  <2>1. FilledIds' = FilledIds /\ OrdersOf(now)' = OrdersOf(now)
    BY <1>0 DEF FilledIds, OrdersOf
  <2> QED
    BY <1>0, <1>2, <2>1, EachIs DEF OrdersOK
<1>8. \A v : Booked(v)' = Booked(v)
  BY <1>0 DEF Booked, OrdersOf
<1>9. QueueOK'
  <2>1. ASSUME NEW j \in DOMAIN queue'
        PROVE  /\ session'[queue'[j].window] # "none"
               /\ queue'[j].table # "windows" =>
                    queue'[j].id \in DOMAIN orders /\ orders[queue'[j].id].window = queue'[j].window
               /\ IsSettlement(queue'[j]) =>
                    session'[queue'[j].window] = "done" /\ queue'[j].row.n = Booked(queue'[j].window)
    <3>1. CASE j \in DOMAIN queue /\ queue'[j] = queue[j]
      BY <1>0, <1>2, <1>4, <3>1 DEF QueueOK
    <3>2. CASE queue'[j] = x
      BY <1>1, <1>2, <3>2 DEF IsSettlement
    <3> QED
      BY <1>3, <3>1, <3>2
  <2>2. \A j \in DOMAIN queue : IsSettlement(queue[j]) => queue[j].window # w
    BY <1>0 DEF QueueOK
  <2>3. \A j, l \in DOMAIN queue' :
          j < l /\ IsSettlement(queue'[j]) /\ queue'[l].window = queue'[j].window => queue'[l].table = "orders"
    BY <1>0, <1>1, <1>3, <2>2 DEF QueueOK
  <2> QED
    BY <1>0, <1>8, <2>1, <2>3 DEF QueueOK, IsSettlement
<1>10. RowsOK'
  <2>1. \A v \in Windows : Final(v) => Final(v)'
    BY <1>0, <1>1, <1>2, <1>3 DEF Final
  <2> QED
    BY <1>0, <2>1 DEF RowsOK
<1>11. FillsOK'
  <2>1. \A h, t : Pending(h, t)' <=> Pending(h, t)
    BY <1>0, <1>1, NoFillJoins
  <2> QED
    BY <1>0, <2>1 DEF FillsOK
<1>12. DoneOK'
  <2> SUFFICES ASSUME NEW v \in Windows \ gaps, session'[v] = "done"
               PROVE  Waits(v)' \/ There(v)'
    BY <1>0 DEF DoneOK
  <2>1. v # w /\ (Waits(v) \/ There(v))
    BY <1>0, <1>2 DEF DoneOK
  <2>2. Waits(v) => Waits(v)'
    BY <1>3 DEF Waits, IsSettlement
  <2>3. ASSUME There(v)
        PROVE  There(v)'
    <3>1. windowRow'[v] = [settled |-> TRUE, n |-> Booked(v)']
      BY <1>0, <1>8, <2>3 DEF There
    <3>2. \A j \in DOMAIN queue' : queue'[j].window = v => queue'[j].table = "orders"
      BY <1>1, <1>3, <2>1, <2>3 DEF There
    <3> QED
      BY <3>1, <3>2 DEF There
  <2> QED
    BY <2>1, <2>2, <2>3
<1>13. PastAgrees'
  <2>1. drawnBy' \in [Ids -> SUBSET Processes] /\ heldBy' \in [Windows -> SUBSET Processes]
    BY <1>0 DEF TypeOK
  <2> QED
    BY <1>0, <2>1, PastStays
<1> QED
  BY <1>5, <1>6, <1>7, <1>9, <1>10, <1>11, <1>12, <1>13 DEF IInv

LEMMA SettleStep ==
  ASSUME IInv, NEW w \in Windows, Settle(w)
  PROVE  IInv'
<1> DEFINE x == Snapshot(w, TRUE)
<1>0. /\ TypeOK /\ HeldOK /\ OrdersOK /\ QueueOK /\ RowsOK /\ FillsOK /\ DoneOK /\ PastAgrees
      /\ session[w] = "settling"
      /\ session' = [session EXCEPT ![w] = "done"]
      /\ queue' = Append(queue, x)
      /\ UNCHANGED <<now, process, loop, orders, trades, windowRow, orderRow, fillRows,
                     failed, gaps, heldBy, drawnBy>>
  BY DEF IInv, Settle, Settleable, tables, history
<1>1. /\ x \in Calls /\ x.table = "windows" /\ x.window = w /\ x.row.settled
      /\ x.row.n = Booked(w)
  BY <1>0, SnapshotIs
<1> HIDE DEF x
<1>2. /\ session' \in [Windows -> {"none", "active", "settling", "done"}]
      /\ \A v \in Windows : v # w => session'[v] = session[v]
      /\ session'[w] = "done"
  BY <1>0 DEF TypeOK
<1>3. /\ queue' \in Seq(Calls) /\ Len(queue') = Len(queue) + 1
      /\ \A j \in DOMAIN queue : j \in DOMAIN queue' /\ queue'[j] = queue[j]
      /\ Len(queue) + 1 \in DOMAIN queue' /\ queue'[Len(queue) + 1] = x
      /\ \A j \in DOMAIN queue' :
           \/ j \in DOMAIN queue /\ queue'[j] = queue[j]
           \/ j = Len(queue) + 1 /\ j \notin DOMAIN queue /\ queue'[j] = x
      /\ \A j, l \in DOMAIN queue' : j < l => j \in DOMAIN queue
  BY <1>0, <1>1, CallJoins
<1>4. \A j \in DOMAIN queue : queue[j].window \in Windows
  BY <1>0, EachIs
<1>5. TypeOK'
  BY <1>0, <1>2, <1>3 DEF TypeOK
<1>6. HeldOK'
  BY <1>0, <1>2 DEF HeldOK
<1>7. OrdersOK'
  <2>1. FilledIds' = FilledIds /\ OrdersOf(now)' = OrdersOf(now)
    BY <1>0 DEF FilledIds, OrdersOf
  <2> QED
    BY <1>0, <1>2, <2>1, EachIs DEF OrdersOK
<1>8. \A v : Booked(v)' = Booked(v)
  BY <1>0 DEF Booked, OrdersOf
<1>9. QueueOK'
  <2>1. ASSUME NEW j \in DOMAIN queue'
        PROVE  /\ session'[queue'[j].window] # "none"
               /\ queue'[j].table # "windows" =>
                    queue'[j].id \in DOMAIN orders /\ orders[queue'[j].id].window = queue'[j].window
               /\ IsSettlement(queue'[j]) =>
                    session'[queue'[j].window] = "done" /\ queue'[j].row.n = Booked(queue'[j].window)
    <3>1. CASE j \in DOMAIN queue /\ queue'[j] = queue[j]
      BY <1>0, <1>2, <1>4, <3>1 DEF QueueOK
    <3>2. CASE queue'[j] = x
      BY <1>1, <1>2, <3>2 DEF IsSettlement
    <3> QED
      BY <1>3, <3>1, <3>2
  <2>2. \A j \in DOMAIN queue : IsSettlement(queue[j]) => queue[j].window # w
    BY <1>0 DEF QueueOK
  <2>3. \A j, l \in DOMAIN queue' :
          j < l /\ IsSettlement(queue'[j]) /\ queue'[l].window = queue'[j].window => queue'[l].table = "orders"
    BY <1>0, <1>1, <1>3, <2>2 DEF QueueOK
  <2> QED
    BY <1>0, <1>8, <2>1, <2>3 DEF QueueOK, IsSettlement
<1>10. RowsOK'
  <2>1. \A v \in Windows : Final(v) => Final(v)'
    BY <1>0, <1>1, <1>2, <1>3 DEF Final
  <2> QED
    BY <1>0, <2>1 DEF RowsOK
<1>11. FillsOK'
  <2>1. \A h, t : Pending(h, t)' <=> Pending(h, t)
    BY <1>0, <1>1, NoFillJoins
  <2> QED
    BY <1>0, <2>1 DEF FillsOK
<1>12. DoneOK'
  <2> SUFFICES ASSUME NEW v \in Windows \ gaps, session'[v] = "done"
               PROVE  Waits(v)' \/ There(v)'
    BY <1>0 DEF DoneOK
  <2>1. v = w => Waits(v)'
    BY <1>1, <1>3 DEF Waits, IsSettlement
  <2>2. v # w => Waits(v) \/ There(v)
    BY <1>0, <1>2 DEF DoneOK
  <2>3. Waits(v) => Waits(v)'
    BY <1>3 DEF Waits, IsSettlement
  <2>4. ASSUME There(v), v # w
        PROVE  There(v)'
    <3>1. windowRow'[v] = [settled |-> TRUE, n |-> Booked(v)']
      BY <1>0, <1>8, <2>4 DEF There
    <3>2. \A j \in DOMAIN queue' : queue'[j].window = v => queue'[j].table = "orders"
      BY <1>1, <1>3, <2>4 DEF There
    <3> QED
      BY <3>1, <3>2 DEF There
  <2> QED
    BY <2>1, <2>2, <2>3, <2>4
<1>13. PastAgrees'
  <2>1. drawnBy' \in [Ids -> SUBSET Processes] /\ heldBy' \in [Windows -> SUBSET Processes]
    BY <1>0 DEF TypeOK
  <2> QED
    BY <1>0, <2>1, PastStays
<1> QED
  BY <1>5, <1>6, <1>7, <1>9, <1>10, <1>11, <1>12, <1>13 DEF IInv

(* Several calls join at once.                                               *)
LEMMA CallsJoin ==
  ASSUME TypeOK, NEW m \in Seq(Calls), queue' = queue \o m
  PROVE  /\ queue' \in Seq(Calls)
         /\ \A j \in DOMAIN queue : j \in DOMAIN queue' /\ queue'[j] = queue[j]
         /\ \A j \in DOMAIN m : Len(queue) + j \in DOMAIN queue' /\ queue'[Len(queue) + j] = m[j]
         /\ \A j \in DOMAIN queue' :
              \/ j \in DOMAIN queue /\ queue'[j] = queue[j]
              \/ j \notin DOMAIN queue /\ j - Len(queue) \in DOMAIN m /\ queue'[j] = m[j - Len(queue)]
         /\ \A j, l \in DOMAIN queue' : j < l /\ l \in DOMAIN queue => j \in DOMAIN queue
BY EachIs

LEMMA FillStep ==
  ASSUME IInv, NEW i \in DOMAIN orders, NEW n \in 1 .. MaxTaken, Fill(i, n)
  PROVE  IInv'
<1> DEFINE w == orders[i].window
           m == [j \in 1 .. n |->
                   [table |-> "fills", window |-> orders[i].window, id |-> i, trade |-> trades + j]]
           o == [orders[i] EXCEPT !.filled = n]
<1>0. /\ TypeOK /\ HeldOK /\ OrdersOK /\ QueueOK /\ RowsOK /\ FillsOK /\ DoneOK /\ PastAgrees
      /\ orders[i].filled = 0 /\ session[w] # "done" /\ session[w] # "none"
      /\ orders' = [orders EXCEPT ![i] = o]
      /\ trades' = trades + n /\ queue' = queue \o m
      /\ UNCHANGED <<now, process, loop, session, windowRow, orderRow, fillRows,
                     failed, gaps, heldBy, drawnBy>>
  BY DEF IInv, Fill, Fillable, tables, history, OrdersOK
<1>1. n \in Nat /\ n > 0 /\ n <= MaxTaken /\ n \in 0 .. MaxTaken /\ MaxTaken \in Nat
  BY ConstantsAre
<1>2. o \in Ordering /\ o.window = w /\ o.filled = n
  BY <1>0, <1>1, EachIs, OrderingsAre
<1> HIDE DEF o
<1>3. /\ orders' \in Seq(Ordering) /\ Len(orders') = Len(orders) /\ DOMAIN orders' = DOMAIN orders
      /\ \A h \in DOMAIN orders : orders'[h].window = orders[h].window
      /\ \A h \in DOMAIN orders : h # i => orders'[h].filled = orders[h].filled
      /\ orders'[i].filled = n
  BY <1>0, <1>2, EachIs
<1>4. trades' \in Nat /\ trades' <= MaxTaken * Cardinality(FilledIds') /\ trades' <= MaxTaken * (LastWindow + 1)
  <2>1. IsFiniteSet(DOMAIN orders) /\ Cardinality(DOMAIN orders) = Len(orders)
    <3>1. \A b \in Nat : IsFiniteSet(1 .. b) /\ Cardinality(1 .. b) = b
      <4> SUFFICES ASSUME NEW b \in Nat
                   PROVE  IsFiniteSet(1 .. b) /\ Cardinality(1 .. b) = b
        OBVIOUS
      <4>1. IsFiniteSet(1 .. b) /\ Cardinality(1 .. b) = IF 1 > b THEN 0 ELSE b - 1 + 1
        BY FS_Interval
      <4> QED
        BY <4>1
    <3> QED
      BY <1>0, <3>1, EachIs
  <2>2. FilledIds \subseteq DOMAIN orders /\ i \notin FilledIds /\ FilledIds' = FilledIds \cup {i}
    <3>1. \A h : h \in FilledIds' <=> h \in FilledIds \/ h = i
      BY <1>1, <1>3 DEF FilledIds
    <3> QED
      BY <1>0, <3>1 DEF FilledIds
  <2>3. IsFiniteSet(FilledIds) /\ Cardinality(FilledIds) \in Nat
    BY <2>1, <2>2, FS_Subset, FS_CardinalityType
  <2>4. Cardinality(FilledIds') = Cardinality(FilledIds) + 1
    BY <2>2, <2>3, FS_AddElement
  <2>5. FilledIds' \subseteq DOMAIN orders
    BY <2>2
  <2>6. Cardinality(FilledIds') <= Len(orders)
    BY <2>1, <2>5, FS_Subset
  <2>7. trades <= MaxTaken * Cardinality(FilledIds)
    BY <1>0 DEF OrdersOK
  <2> DEFINE c == Cardinality(FilledIds)
             b == LastWindow + 1
  <2>8. c \in Nat /\ c + 1 <= b /\ b \in Nat /\ c + 1 \in Nat /\ MaxTaken \in Nat
    <3>1. Len(orders) <= b /\ Len(orders) \in Nat /\ b \in Nat
      <4>1. LastWindow \in Nat
        BY ConstantsAre, Zenon
      <4>2. b \in Nat
        BY <4>1
      <4>3. Len(orders) <= b /\ Len(orders) \in Nat
        BY <1>0, BoundsAre, EachIs, Zenon DEF b
      <4> QED
        BY <4>2, <4>3, Zenon
    <3>2. c \in Nat /\ c + 1 <= Len(orders)
      BY <2>3, <2>4, <2>6
    <3> HIDE DEF b, c
    <3> QED
      BY <3>1, <3>2, ConstantsAre
  <2> HIDE DEF c, b
  <2>9. /\ MaxTaken * c \in Nat /\ MaxTaken * (c + 1) = MaxTaken * c + MaxTaken
        /\ MaxTaken * (c + 1) <= MaxTaken * b
    BY <2>8, Times
  <2>10. trades \in Nat /\ trades <= MaxTaken * c
    BY <1>0, <2>7, EachIs DEF c
  <2> DEFINE d == MaxTaken * c
             e == MaxTaken * (c + 1)
             g == MaxTaken * b
  <2>11. e = d + MaxTaken /\ e <= g /\ d \in Nat /\ trades <= d /\ g \in Nat
    <3>1. g \in Nat
      BY <2>8, Times
    <3> QED
      BY <2>9, <2>10, <3>1
  <2> HIDE DEF d, e, g
  <2>12. trades' \in Nat /\ trades' <= e /\ trades' <= g
    BY <1>0, <1>1, <2>10, <2>11
  <2>13. e = MaxTaken * Cardinality(FilledIds')
    BY <2>4, Zenon DEF c, e
  <2>14. g = MaxTaken * (LastWindow + 1)
    BY Zenon DEF b, g
  <2> QED
    BY <2>12, <2>13, <2>14, Zenon
<1>5. \A j \in 1 .. n : trades + j \in TradeIds
  <2> DEFINE g == MaxTaken * (LastWindow + 1)
  <2>1. TradeIds = 1 .. g
    BY Zenon DEF TradeIds
  <2>2. trades' <= g /\ g \in Nat
    BY <1>4, ConstantsAre, Zenon
  <2>3. trades \in Nat
    BY <1>0, EachIs, Zenon
  <2> HIDE DEF g
  <2>4. ASSUME NEW j \in 1 .. n
        PROVE  trades + j \in 1 .. g
    <3>1. trades' = trades + n
      BY <1>0
    <3> QED
      BY <1>1, <2>2, <2>3, <3>1
  <2> QED
    BY <2>1, <2>4
<1>6. /\ m \in Seq(Calls) /\ DOMAIN m = 1 .. n
      /\ \A j \in DOMAIN m : /\ m[j].table = "fills" /\ m[j].window = w
                            /\ m[j].id = i /\ m[j].trade = trades + j
  <2>1. w \in Windows /\ i \in Ids
    BY <1>0, EachIs
  <2>2. \A j \in 1 .. n : m[j] \in Calls
    BY <1>5, <2>1, CallsAre
  <2> QED
    BY <1>1, <2>2
<1> HIDE DEF m
<1>7. /\ queue' \in Seq(Calls)
      /\ \A j \in DOMAIN queue : j \in DOMAIN queue' /\ queue'[j] = queue[j]
      /\ \A j \in DOMAIN m : Len(queue) + j \in DOMAIN queue' /\ queue'[Len(queue) + j] = m[j]
      /\ \A j \in DOMAIN queue' :
           \/ j \in DOMAIN queue /\ queue'[j] = queue[j]
           \/ j \notin DOMAIN queue /\ j - Len(queue) \in DOMAIN m /\ queue'[j] = m[j - Len(queue)]
      /\ \A j, l \in DOMAIN queue' : j < l /\ l \in DOMAIN queue => j \in DOMAIN queue
  BY <1>0, <1>6, CallsJoin
<1>8. \A j \in DOMAIN queue' :
        \/ j \in DOMAIN queue /\ queue'[j] = queue[j]
        \/ j \notin DOMAIN queue /\ queue'[j].table = "fills" /\ queue'[j].window = w /\ queue'[j].id = i
  BY <1>6, <1>7
<1>9. \A j \in DOMAIN queue : queue[j].window \in Windows
  BY <1>0, EachIs
<1>10. TypeOK'
  <2>1. trades' \in 0 .. MaxTaken * (LastWindow + 1)
    BY <1>4, ConstantsAre
  <2> QED
    BY <1>0, <1>3, <1>7, <2>1 DEF TypeOK, Ordering
<1>11. HeldOK'
  BY <1>0, <1>3 DEF HeldOK
<1>12. OrdersOK'
  <2>1. OrdersOf(now)' = OrdersOf(now)
    BY <1>0, <1>3 DEF OrdersOf
  <2> QED
    BY <1>0, <1>3, <1>4, <2>1 DEF OrdersOK
<1>13. ASSUME NEW v, v # w
       PROVE  Booked(v)' = Booked(v)
  <2>1. OrdersOf(v)' = OrdersOf(v) /\ i \notin OrdersOf(v)
    BY <1>3, <1>13 DEF OrdersOf
  <2>2. \A h \in OrdersOf(v) : orders'[h].filled = orders[h].filled
    BY <1>3, <2>1 DEF OrdersOf
  <2> QED
    BY <2>1, <2>2, BookedStays
<1>14. QueueOK'
  <2>1. ASSUME NEW j \in DOMAIN queue'
        PROVE  /\ session[queue'[j].window] # "none"
               /\ queue'[j].table # "windows" =>
                    queue'[j].id \in DOMAIN orders' /\ orders'[queue'[j].id].window = queue'[j].window
               /\ IsSettlement(queue'[j]) =>
                    session[queue'[j].window] = "done" /\ queue'[j].row.n = Booked(queue'[j].window)
    <3>1. CASE j \in DOMAIN queue /\ queue'[j] = queue[j]
      BY <1>0, <1>3, <3>1 DEF QueueOK
    <3>2. CASE queue'[j].table = "fills" /\ queue'[j].window = w /\ queue'[j].id = i
      BY <1>0, <1>3, <3>2 DEF IsSettlement
    <3> QED
      BY <1>8, <3>1, <3>2
  <2>2. \A j, l \in DOMAIN queue' :
          j < l /\ IsSettlement(queue'[j]) /\ queue'[l].window = queue'[j].window => queue'[l].table = "orders"
    <3> SUFFICES ASSUME NEW j \in DOMAIN queue', NEW l \in DOMAIN queue',
                        j < l, IsSettlement(queue'[j]), queue'[l].window = queue'[j].window
                 PROVE  queue'[l].table = "orders"
      OBVIOUS
    <3>1. j \in DOMAIN queue /\ queue'[j] = queue[j]
      BY <1>8 DEF IsSettlement
    <3>2. session[queue'[j].window] = "done"
      BY <1>0, <3>1 DEF QueueOK
    <3>3. l \in DOMAIN queue /\ queue'[l] = queue[l]
      BY <1>0, <1>8, <3>2
    <3> QED
      BY <1>0, <3>1, <3>3 DEF QueueOK
  <2>3. \A v : session[v] = "done" => Booked(v)' = Booked(v)
    BY <1>0, <1>13
  <2> QED
    BY <1>0, <2>1, <2>2, <2>3 DEF QueueOK, IsSettlement
<1>15. RowsOK'
  <2>1. \A v \in Windows : Final(v) => Final(v)'
    BY <1>0, <1>8 DEF Final
  <2> QED
    BY <1>0, <1>3, <2>1 DEF RowsOK
<1>16. FillsOK'
  <2> SUFFICES ASSUME NEW h \in DOMAIN orders', drawnBy'[h] = {process'}, orders'[h].window \notin gaps'
               PROVE  \E a \in 0 .. trades' :
                        /\ a + orders'[h].filled <= trades'
                        /\ \A t \in TradeIds :
                             <<h, t>> \in fillRows' \/ Pending(h, t)' <=> a < t /\ t <= a + orders'[h].filled
    BY DEF FillsOK
  <2>0. /\ h \in DOMAIN orders /\ drawnBy[h] = {process} /\ orders[h].window \notin gaps
        /\ fillRows' = fillRows
    BY <1>0, <1>3
  <2>1. PICK a \in 0 .. trades :
          /\ a + orders[h].filled <= trades
          /\ \A t \in TradeIds :
               <<h, t>> \in fillRows \/ Pending(h, t) <=> a < t /\ t <= a + orders[h].filled
    BY <1>0, <2>0 DEF FillsOK
  <2>2. a \in 0 .. trades' /\ trades \in 0 .. trades' /\ a \in Nat /\ trades \in Nat
    BY <1>0, <1>1, EachIs
  <2>3. CASE h # i
    <3>1. \A t : Pending(h, t)' <=> Pending(h, t)
      BY <1>7, <1>8, <2>3 DEF Pending
    <3>2. orders'[h].filled = orders[h].filled /\ a + orders[h].filled <= trades'
      <4>1. orders[h].filled \in Nat
        BY <1>0, <2>0, EachIs, OrderingsAre
      <4> QED
        BY <1>0, <1>1, <1>3, <2>0, <2>1, <2>2, <2>3, <4>1
    <3> QED
      BY <2>0, <2>1, <2>2, <3>1, <3>2
  <2>4. CASE h = i
    <3>1. \A t \in TradeIds : t \in Nat
      BY DEF TradeIds
    <3>2. \A t \in TradeIds : <<i, t>> \notin fillRows /\ ~Pending(i, t)
      BY <1>0, <2>1, <2>2, <2>4, <3>1
    <3>3. ASSUME NEW t \in TradeIds
          PROVE  Pending(i, t)' <=> trades < t /\ t <= trades + n
      <4>1. ASSUME NEW j \in DOMAIN queue', queue'[j].table = "fills", queue'[j].id = i, queue'[j].trade = t
            PROVE  trades < t /\ t <= trades + n
        <5>1. j \notin DOMAIN queue
          BY <1>7, <3>2, <4>1 DEF Pending
        <5>2. j - Len(queue) \in 1 .. n /\ queue'[j].trade = trades + (j - Len(queue))
          BY <1>6, <1>7, <5>1
        <5> QED
          BY <1>1, <2>2, <4>1, <5>2
      <4>2. ASSUME trades < t, t <= trades + n
            PROVE  Pending(i, t)'
        <5> DEFINE j == t - trades
        <5>1. j \in 1 .. n /\ trades + j = t
          BY <1>1, <2>2, <3>1, <4>2
        <5> HIDE DEF j
        <5>2. Len(queue) + j \in DOMAIN queue' /\ queue'[Len(queue) + j] = m[j]
          BY <1>6, <1>7, <5>1
        <5>3. m[j].table = "fills" /\ m[j].id = i /\ m[j].trade = t
          BY <1>6, <5>1
        <5> QED
          BY <5>2, <5>3 DEF Pending
      <4> QED
        BY <4>1, <4>2 DEF Pending
    <3>4. trades + orders'[i].filled <= trades'
      BY <1>0, <1>3, <1>4
    <3> QED
      BY <1>3, <2>0, <2>2, <2>4, <3>2, <3>3, <3>4
  <2> QED
    BY <2>3, <2>4
<1>17. DoneOK'
  <2> SUFFICES ASSUME NEW v \in Windows \ gaps, session[v] = "done"
               PROVE  Waits(v)' \/ There(v)'
    BY <1>0 DEF DoneOK
  <2>1. v # w /\ (Waits(v) \/ There(v))
    BY <1>0 DEF DoneOK
  <2>2. Waits(v) => Waits(v)'
    BY <1>7 DEF Waits, IsSettlement
  <2>3. ASSUME There(v)
        PROVE  There(v)'
    <3>1. windowRow'[v] = [settled |-> TRUE, n |-> Booked(v)']
      BY <1>0, <1>13, <2>1, <2>3 DEF There
    <3>2. \A j \in DOMAIN queue' : queue'[j].window = v => queue'[j].table = "orders"
      BY <1>8, <2>1, <2>3 DEF There
    <3> QED
      BY <3>1, <3>2 DEF There
  <2> QED
    BY <2>1, <2>2, <2>3
<1>18. PastAgrees'
  <2>1. drawnBy' \in [Ids -> SUBSET Processes] /\ heldBy' \in [Windows -> SUBSET Processes]
    BY <1>0 DEF TypeOK
  <2> QED
    BY <1>0, <2>1, PastStays
<1> QED
  BY <1>10, <1>11, <1>12, <1>14, <1>15, <1>16, <1>17, <1>18 DEF IInv

-----------------------------------------------------------------------------
(* The head of the queue is taken.                                           *)
LEMMA CallLeaves ==
  ASSUME TypeOK, queue # <<>>, queue' = Tail(queue)
  PROVE  /\ 1 \in DOMAIN queue /\ Head(queue) = queue[1] /\ Head(queue) \in Calls
         /\ queue' \in Seq(Calls) /\ Len(queue') = Len(queue) - 1
         /\ \A j \in DOMAIN queue' : j + 1 \in DOMAIN queue /\ queue'[j] = queue[j + 1] /\ 1 < j + 1
         /\ \A j, l \in DOMAIN queue' : j < l => j + 1 < l + 1
         /\ \A j \in DOMAIN queue :
              \/ queue[j] = Head(queue)
              \/ j - 1 \in DOMAIN queue' /\ queue'[j - 1] = queue[j]
<1>1. queue \in Seq(Calls) /\ Len(queue) \in Nat /\ DOMAIN queue = 1 .. Len(queue)
  BY EachIs
<1>2. Len(queue) > 0 /\ Head(queue) = queue[1] /\ queue[1] \in Calls
  BY <1>1
<1>3. queue' \in Seq(Calls) /\ Len(queue') = Len(queue) - 1 /\ DOMAIN queue' = 1 .. Len(queue) - 1
      /\ \A j \in 1 .. Len(queue) - 1 : queue'[j] = queue[j + 1]
  BY <1>1, <1>2
<1>4. \A j \in DOMAIN queue : j = 1 \/ (j - 1 \in DOMAIN queue' /\ j - 1 + 1 = j)
  BY <1>1, <1>2, <1>3
<1>5. \A j \in DOMAIN queue' : j + 1 \in DOMAIN queue /\ 1 < j + 1
  BY <1>1, <1>2, <1>3
<1> QED
  BY <1>1, <1>2, <1>3, <1>4, <1>5

LEMMA TailKeeps ==
  ASSUME TypeOK, QueueOK, queue # <<>>, queue' = Tail(queue), UNCHANGED <<orders, session>>
  PROVE  /\ QueueOK'
         /\ \A w : Booked(w)' = Booked(w)
         /\ \A w : w < now /\ now' = now /\ Final(w) => Final(w)'
<1>1. \A w : Booked(w)' = Booked(w)
  BY DEF Booked, OrdersOf
<1>2. \A j \in DOMAIN queue' : j + 1 \in DOMAIN queue /\ queue'[j] = queue[j + 1]
  BY CallLeaves
<1>3. ASSUME NEW j \in DOMAIN queue'
      PROVE  /\ session[queue'[j].window] # "none"
             /\ queue'[j].table # "windows" =>
                  queue'[j].id \in DOMAIN orders /\ orders[queue'[j].id].window = queue'[j].window
             /\ IsSettlement(queue'[j]) =>
                  session[queue'[j].window] = "done" /\ queue'[j].row.n = Booked(queue'[j].window)
  BY <1>2 DEF QueueOK
<1>4. ASSUME NEW j \in DOMAIN queue', NEW l \in DOMAIN queue',
             j < l, IsSettlement(queue'[j]), queue'[l].window = queue'[j].window
      PROVE  queue'[l].table = "orders"
  <2>1. j + 1 < l + 1
    BY <1>4, CallLeaves
  <2> QED
    BY <1>2, <1>4, <2>1 DEF QueueOK
<1>5. QueueOK'
  BY <1>1, <1>3, <1>4 DEF QueueOK, IsSettlement
<1>6. \A w : w < now /\ now' = now /\ Final(w) => Final(w)'
  BY <1>2 DEF Final
<1> QED
  BY <1>1, <1>5, <1>6

LEMMA WriteFailsStep ==
  ASSUME IInv, WriteFails
  PROVE  IInv'
<1> DEFINE x == Head(queue)
<1>0. /\ TypeOK /\ HeldOK /\ OrdersOK /\ QueueOK /\ RowsOK /\ FillsOK /\ DoneOK /\ PastAgrees
      /\ queue # <<>> /\ queue' = Tail(queue) /\ failed' = failed + 1 /\ failed < MaxFailed
      /\ gaps' = gaps \cup {x.window} /\ loop' \in {"dead", loop}
      /\ UNCHANGED <<now, process, session, orders, trades, windowRow, orderRow, fillRows,
                     heldBy, drawnBy>>
  BY DEF IInv, WriteFails, tables
<1>1. /\ x \in Calls /\ x.window \in Windows /\ queue' \in Seq(Calls)
      /\ \A j \in DOMAIN queue' : j + 1 \in DOMAIN queue /\ queue'[j] = queue[j + 1]
      /\ \A j \in DOMAIN queue :
           \/ queue[j] = x
           \/ j - 1 \in DOMAIN queue' /\ queue'[j - 1] = queue[j]
  BY <1>0, CallLeaves, CallsAre
<1> HIDE DEF x
<1>2. TypeOK'
  BY <1>0, <1>1, ConstantsAre DEF TypeOK
<1>3. HeldOK'
  BY <1>0 DEF HeldOK
<1>4. OrdersOK'
  <2>1. OrdersOf(now)' = OrdersOf(now) /\ FilledIds' = FilledIds
    BY <1>0 DEF OrdersOf, FilledIds
  <2> QED
    BY <1>0, <2>1 DEF OrdersOK
<1>5. QueueOK' /\ \A w : Booked(w)' = Booked(w)
  BY <1>0, TailKeeps
<1>6. RowsOK'
  <2>1. \A w \in Windows : Final(w) => Final(w)'
    BY <1>0, <1>1 DEF Final
  <2> QED
    BY <1>0, <2>1 DEF RowsOK
<1>7. FillsOK'
  <2> SUFFICES ASSUME NEW h \in DOMAIN orders, drawnBy[h] = {process}, orders[h].window \notin gaps'
               PROVE  \E a \in 0 .. trades :
                        /\ a + orders[h].filled <= trades
                        /\ \A t \in TradeIds :
                             <<h, t>> \in fillRows \/ Pending(h, t)' <=> a < t /\ t <= a + orders[h].filled
    BY <1>0 DEF FillsOK
  <2>1. orders[h].window # x.window /\ orders[h].window \notin gaps
    BY <1>0
  <2>2. ~(x.table = "fills" /\ x.id = h)
    BY <1>0, <2>1, CallLeaves DEF QueueOK, x
  <2>3. \A t : Pending(h, t)' <=> Pending(h, t)
    BY <1>1, <2>2 DEF Pending
  <2> QED
    BY <1>0, <2>1, <2>3 DEF FillsOK
<1>8. DoneOK'
  <2> SUFFICES ASSUME NEW v \in Windows \ gaps', session[v] = "done"
               PROVE  Waits(v)' \/ There(v)'
    BY <1>0 DEF DoneOK
  <2>1. v # x.window /\ (Waits(v) \/ There(v))
    BY <1>0 DEF DoneOK
  <2>2. Waits(v) => Waits(v)'
    BY <1>1, <2>1 DEF Waits, IsSettlement
  <2>3. ASSUME There(v)
        PROVE  There(v)'
    <3>1. windowRow'[v] = [settled |-> TRUE, n |-> Booked(v)']
      BY <1>0, <1>5, <2>3 DEF There
    <3>2. \A j \in DOMAIN queue' : queue'[j].window = v => queue'[j].table = "orders"
      BY <1>1, <2>3 DEF There
    <3> QED
      BY <3>1, <3>2 DEF There
  <2> QED
    BY <2>1, <2>2, <2>3
<1>9. PastAgrees'
  <2>1. drawnBy' \in [Ids -> SUBSET Processes] /\ heldBy' \in [Windows -> SUBSET Processes]
    BY <1>0 DEF TypeOK
  <2> QED
    BY <1>0, <2>1, PastStays
<1> QED
  BY <1>2, <1>3, <1>4, <1>5, <1>6, <1>7, <1>8, <1>9 DEF IInv

LEMMA WriteStep ==
  ASSUME IInv, Write
  PROVE  IInv'
<1> DEFINE x == Head(queue)
<1>0. /\ TypeOK /\ HeldOK /\ OrdersOK /\ QueueOK /\ RowsOK /\ FillsOK /\ DoneOK /\ PastAgrees
      /\ queue # <<>> /\ queue' = Tail(queue)
      /\ windowRow' = IF x.table = "windows" THEN [windowRow EXCEPT ![x.window] = x.row] ELSE windowRow
      /\ orderRow' = IF x.table = "orders" THEN [orderRow EXCEPT ![x.id] = x.window] ELSE orderRow
      /\ fillRows' = IF x.table = "fills" THEN fillRows \cup {<<x.id, x.trade>>} ELSE fillRows
      /\ UNCHANGED <<now, process, loop, session, orders, trades, failed, gaps, heldBy, drawnBy>>
  BY DEF IInv, Write, Stored, memory, history
<1>1. /\ x \in Calls /\ x.window \in Windows /\ queue' \in Seq(Calls)
      /\ 1 \in DOMAIN queue /\ x = queue[1]
      /\ \A j \in DOMAIN queue' : j + 1 \in DOMAIN queue /\ queue'[j] = queue[j + 1] /\ 1 < j + 1
      /\ \A j \in DOMAIN queue :
           \/ queue[j] = x
           \/ j - 1 \in DOMAIN queue' /\ queue'[j - 1] = queue[j]
  BY <1>0, CallLeaves, CallsAre
<1>2. /\ x.table = "windows" => x.row \in Row
      /\ x.table = "orders" => x.id \in Ids
      /\ x.table = "fills" => x.id \in Ids /\ x.trade \in TradeIds
  BY <1>1, CallsAre
<1>3. /\ session[x.window] # "none" /\ process \in heldBy[x.window]
      /\ x.table # "windows" => /\ x.id \in DOMAIN orders /\ x.id \in Ids
                               /\ orders[x.id].window = x.window /\ process \in drawnBy[x.id]
      /\ IsSettlement(x) => session[x.window] = "done" /\ x.row.n = Booked(x.window)
  BY <1>0, <1>1, EachIs DEF QueueOK, HeldOK
<1>4. ASSUME IsSettlement(x), NEW j \in DOMAIN queue', queue'[j].window = x.window
      PROVE  queue'[j].table = "orders"
  BY <1>0, <1>1, <1>4 DEF QueueOK
<1> HIDE DEF x
<1>5. /\ windowRow' \in [Windows -> Row]
      /\ \A v \in Windows : windowRow'[v] = IF x.table = "windows" /\ x.window = v THEN x.row ELSE windowRow[v]
  BY <1>0, <1>1, <1>2 DEF TypeOK
<1>6. /\ orderRow' \in [Ids -> Windows \cup {NoWindow}]
      /\ \A i \in Ids : orderRow'[i] = IF x.table = "orders" /\ x.id = i THEN x.window ELSE orderRow[i]
  BY <1>0, <1>1, <1>2 DEF TypeOK
<1>7. /\ fillRows' \subseteq Ids \X TradeIds
      /\ \A f : f \in fillRows' <=> f \in fillRows \/ (x.table = "fills" /\ f = <<x.id, x.trade>>)
  BY <1>0, <1>2 DEF TypeOK
<1>8. TypeOK'
  BY <1>0, <1>1, <1>5, <1>6, <1>7 DEF TypeOK
<1>9. HeldOK'
  BY <1>0 DEF HeldOK
<1>10. OrdersOK'
  <2>1. OrdersOf(now)' = OrdersOf(now) /\ FilledIds' = FilledIds
    BY <1>0 DEF OrdersOf, FilledIds
  <2> QED
    BY <1>0, <2>1 DEF OrdersOK
<1>11. QueueOK' /\ \A w : Booked(w)' = Booked(w)
  BY <1>0, TailKeeps
<1>12. RowsOK'
  <2>1. \A w \in Windows : Final(w) => Final(w)'
    BY <1>0, <1>1 DEF Final
  <2>2. ASSUME NEW w \in Windows, windowRow'[w].settled
        PROVE  Final(w)'
    <3>1. CASE x.table = "windows" /\ x.window = w
      <4>1. IsSettlement(x) /\ session[w] = "done" /\ w < now
        BY <1>0, <1>3, <1>5, <2>2, <3>1 DEF IsSettlement, HeldOK
      <4> QED
        BY <1>0, <1>4, <3>1, <4>1 DEF Final
    <3>2. CASE ~(x.table = "windows" /\ x.window = w)
      BY <1>0, <1>5, <2>1, <2>2, <3>2 DEF RowsOK
    <3> QED
      BY <3>1, <3>2
  <2>3. \A i \in Ids : orderRow'[i] # NoWindow => \E p \in drawnBy[i] : p \in heldBy[orderRow'[i]]
    BY <1>0, <1>3, <1>6 DEF RowsOK
  <2>4. ASSUME NEW i \in DOMAIN orders, drawnBy[i] = {process}
        PROVE  orderRow'[i] \in {NoWindow, orders[i].window}
    BY <1>0, <1>3, <1>6, <2>4, EachIs DEF RowsOK
  <2>5. ASSUME NEW i \in Ids, NEW t \in TradeIds, <<i, t>> \in fillRows'
        PROVE  drawnBy[i] # {}
    BY <1>0, <1>3, <1>7, <2>5 DEF RowsOK
  <2> QED
    BY <1>0, <2>2, <2>3, <2>4, <2>5 DEF RowsOK
<1>13. FillsOK'
  <2>1. \A h, t : <<h, t>> \in fillRows' \/ Pending(h, t)' <=> <<h, t>> \in fillRows \/ Pending(h, t)
    <3> SUFFICES ASSUME NEW h, NEW t
                 PROVE  <<h, t>> \in fillRows' \/ Pending(h, t)' <=> <<h, t>> \in fillRows \/ Pending(h, t)
      OBVIOUS
    <3>1. <<h, t>> \in fillRows' <=> <<h, t>> \in fillRows \/ (x.table = "fills" /\ h = x.id /\ t = x.trade)
      BY <1>7
    <3>2. Pending(h, t)' => Pending(h, t)
      BY <1>1 DEF Pending
    <3>3. Pending(h, t) => Pending(h, t)' \/ (x.table = "fills" /\ h = x.id /\ t = x.trade)
      BY <1>1 DEF Pending
    <3>4. x.table = "fills" /\ h = x.id /\ t = x.trade => Pending(h, t)
      BY <1>1 DEF Pending
    <3> QED
      BY <3>1, <3>2, <3>3, <3>4
  <2> QED
    BY <1>0, <2>1 DEF FillsOK
<1>14. DoneOK'
  <2> SUFFICES ASSUME NEW v \in Windows \ gaps, session[v] = "done"
               PROVE  Waits(v)' \/ There(v)'
    BY <1>0 DEF DoneOK
  <2>1. CASE x.window = v /\ IsSettlement(x)
    <3>1. x.row = [settled |-> TRUE, n |-> Booked(v)']
      <4>1. x.row = [settled |-> x.row.settled, n |-> x.row.n] /\ x.row.settled \in BOOLEAN
        BY <1>2, <2>1, RowsAre DEF IsSettlement
      <4>2. x.row.settled = TRUE /\ x.row.n = Booked(v)'
        BY <1>3, <1>11, <2>1, <4>1 DEF IsSettlement
      <4> QED
        BY <4>1, <4>2
    <3>2. windowRow'[v] = [settled |-> TRUE, n |-> Booked(v)']
      BY <1>5, <2>1, <3>1 DEF IsSettlement
    <3>3. \A j \in DOMAIN queue' : queue'[j].window = v => queue'[j].table = "orders"
      BY <1>4, <2>1
    <3> QED
      BY <3>2, <3>3 DEF There
  <2>2. CASE ~(x.window = v /\ IsSettlement(x)) /\ Waits(v)
    BY <1>1, <2>2 DEF Waits, IsSettlement
  <2>3. CASE There(v)
    <3>1. x.window = v => x.table = "orders"
      BY <1>1, <2>3 DEF There
    <3>2. windowRow'[v] = [settled |-> TRUE, n |-> Booked(v)']
      BY <1>5, <1>11, <2>3, <3>1 DEF There
    <3>3. \A j \in DOMAIN queue' : queue'[j].window = v => queue'[j].table = "orders"
      BY <1>1, <2>3 DEF There
    <3> QED
      BY <3>2, <3>3 DEF There
  <2> QED
    BY <1>0, <2>1, <2>2, <2>3 DEF DoneOK
<1>15. PastAgrees'
  <2> SUFFICES ASSUME NEW i \in ReconciliationErrors', process \notin drawnBy[i]
               PROVE  Excused(i)'
    BY <1>0 DEF PastAgrees
  <2>1. i \in Ids /\ orderRow'[i] # NoWindow
    BY DEF ReconciliationErrors, SettledTrades
  <2>2. x.table # "windows" => x.id # i
    BY <1>3
  <2>3. orderRow'[i] = orderRow[i] /\ orderRow[i] \in Windows
    BY <1>0, <1>2, <1>6, <2>1, <2>2 DEF TypeOK
  <2>4. FilledSize(i)' = FilledSize(i)
    <3>1. {f \in fillRows' : f[1] = i} = {f \in fillRows : f[1] = i}
      BY <1>7, <2>2
    <3> QED
      BY <3>1 DEF FilledSize
  <2>5. Trade(i)' = Trade(i) /\ Trade(i).window = orderRow[i] /\ Trade(i).filled = FilledSize(i)
    BY <2>3, <2>4 DEF Trade
  <2>6. PICK p \in drawnBy[i] : p \in heldBy[orderRow[i]]
    BY <1>0, <2>1, <2>3 DEF RowsOK
  <2>7. CASE x.table = "windows" /\ x.window = orderRow[i]
    <3>1. heldBy[orderRow[i]] \in SUBSET Processes
      BY <1>0, <2>3 DEF TypeOK
    <3>2. process \in heldBy[orderRow[i]] /\ p # process
      BY <1>3, <2>6, <2>7
    <3>3. Cardinality(heldBy[orderRow[i]]) > 1
      BY <2>6, <3>1, <3>2, TwoAreMany
    <3>4. Straddled(orderRow[i])'
      BY <1>0, <2>3, <3>3 DEF Straddled
    <3> QED
      BY <2>3, <2>5, <3>4 DEF Excused
  <2>8. CASE ~(x.table = "windows" /\ x.window = orderRow[i])
    <3>1. windowRow'[orderRow[i]] = windowRow[orderRow[i]]
      BY <1>5, <2>3, <2>8
    <3>2. i \in ReconciliationErrors
      BY <2>1, <2>3, <2>4, <2>5, <3>1 DEF ReconciliationErrors, SettledTrades
    <3>3. Excused(i)
      BY <1>0, <3>2 DEF PastAgrees
    <3> QED
      BY <1>0, <2>5, <3>3 DEF Excused, Reused, Straddled
  <2> QED
    BY <2>7, <2>8
<1> QED
  BY <1>8, <1>9, <1>10, <1>11, <1>12, <1>13, <1>14, <1>15 DEF IInv

LEMMA StopEngineStep ==
  ASSUME IInv, StopEngine
  PROVE  IInv'
<1>0. /\ TypeOK /\ HeldOK /\ OrdersOK /\ QueueOK /\ RowsOK /\ FillsOK /\ DoneOK /\ PastAgrees
      /\ queue' = <<>> /\ loop' = "stopping"
      /\ orders' = [i \in DOMAIN orders |-> [orders[i] EXCEPT !.recorded = TRUE]]
      /\ gaps' = gaps \cup {queue[i].window : i \in DOMAIN queue}
      /\ UNCHANGED <<now, process, session, trades, windowRow, orderRow, fillRows, failed, heldBy, drawnBy>>
  BY DEF IInv, StopEngine, tables
<1>1. /\ orders' \in Seq(Ordering) /\ Len(orders') = Len(orders) /\ DOMAIN orders' = DOMAIN orders
      /\ \A h \in DOMAIN orders : orders'[h].window = orders[h].window /\ orders'[h].filled = orders[h].filled
  <2>1. \A h \in DOMAIN orders : /\ orders'[h] \in Ordering /\ orders'[h].window = orders[h].window
                                /\ orders'[h].filled = orders[h].filled
    BY <1>0, EachIs, OrderingsAre
  <2>2. DOMAIN orders' = 1 .. Len(orders) /\ Len(orders) \in Nat
    BY <1>0, EachIs
  <2>3. orders' = [h \in 1 .. Len(orders) |-> orders'[h]]
    BY <1>0, <2>2
  <2> DEFINE o == orders'
  <2>4. o \in Seq(Ordering) /\ Len(o) = Len(orders)
    <3> HIDE DEF o
    <3>1. o = [h \in 1 .. Len(orders) |-> o[h]] /\ \A h \in 1 .. Len(orders) : o[h] \in Ordering
      BY <1>0, <2>1, <2>2, <2>3, EachIs DEF o
    <3> QED
      BY <2>2, <3>1
  <2> QED
    BY <1>0, <2>1, <2>2, <2>4, EachIs
<1>2. queue' \in Seq(Calls) /\ DOMAIN queue' = {} /\ \A j \in DOMAIN queue : queue[j].window \in gaps'
  BY <1>0
<1>3. TypeOK'
  <2>1. gaps' \subseteq Windows
    BY <1>0, EachIs DEF TypeOK
  <2> QED
    BY <1>0, <1>1, <1>2, <2>1 DEF TypeOK, Ordering
<1>4. HeldOK'
  BY <1>0, <1>1 DEF HeldOK
<1>5. OrdersOK'
  <2>1. OrdersOf(now)' = OrdersOf(now) /\ FilledIds' = FilledIds
    BY <1>0, <1>1 DEF OrdersOf, FilledIds
  <2> QED
    BY <1>0, <1>1, <2>1 DEF OrdersOK
<1>6. ASSUME NEW w
      PROVE  Booked(w)' = Booked(w)
  <2>1. OrdersOf(w)' = OrdersOf(w)
    BY <1>1 DEF OrdersOf
  <2> QED
    BY <1>1, <2>1, BookedStays DEF OrdersOf
<1>7. QueueOK'
  BY <1>2 DEF QueueOK
<1>8. RowsOK'
  <2>1. \A w \in Windows : Final(w) => Final(w)'
    BY <1>0, <1>2 DEF Final
  <2> QED
    BY <1>0, <1>1, <2>1 DEF RowsOK
<1>9. FillsOK'
  <2> SUFFICES ASSUME NEW h \in DOMAIN orders', drawnBy'[h] = {process'}, orders'[h].window \notin gaps'
               PROVE  \E a \in 0 .. trades' :
                        /\ a + orders'[h].filled <= trades'
                        /\ \A t \in TradeIds :
                             <<h, t>> \in fillRows' \/ Pending(h, t)' <=> a < t /\ t <= a + orders'[h].filled
    BY DEF FillsOK
  <2>1. h \in DOMAIN orders /\ drawnBy[h] = {process} /\ orders[h].window \notin gaps'
        /\ orders[h].window \notin gaps /\ orders'[h].filled = orders[h].filled
    BY <1>0, <1>1
  <2>2. \A t : ~Pending(h, t) /\ ~Pending(h, t)'
    BY <1>0, <1>2, <2>1 DEF Pending, QueueOK
  <2> QED
    BY <1>0, <2>1, <2>2 DEF FillsOK
<1>10. DoneOK'
  <2> SUFFICES ASSUME NEW v \in Windows \ gaps', session[v] = "done"
               PROVE  There(v)'
    BY <1>0 DEF DoneOK
  <2>1. There(v)
    BY <1>0, <1>2 DEF DoneOK, Waits
  <2>2. windowRow'[v] = [settled |-> TRUE, n |-> Booked(v)']
    BY <1>0, <1>6, <2>1 DEF There
  <2> QED
    BY <1>2, <2>2 DEF There
<1>11. PastAgrees'
  <2>1. drawnBy' \in [Ids -> SUBSET Processes] /\ heldBy' \in [Windows -> SUBSET Processes] /\ gaps \subseteq gaps'
    BY <1>0 DEF TypeOK
  <2> QED
    BY <1>0, <2>1, PastStays
<1> QED
  BY <1>3, <1>4, <1>5, <1>7, <1>8, <1>9, <1>10, <1>11 DEF IInv

-----------------------------------------------------------------------------
(* As many rows as trades in a row.                                          *)
LEMMA RowsInARow ==
  ASSUME NEW F \in SUBSET (Ids \X TradeIds), NEW i \in Ids, NEW a \in Nat, NEW n \in Nat,
         a + n <= MaxTaken * (LastWindow + 1),
         \A t \in TradeIds : <<i, t>> \in F <=> a < t /\ t <= a + n
  PROVE  Cardinality({f \in F : f[1] = i}) = n
<1> DEFINE S == {f \in F : f[1] = i}
           g == [j \in 1 .. n |-> <<i, a + j>>]
<1>1. ASSUME NEW j \in 1 .. n
      PROVE  g[j] \in S
  <2>1. a + j \in TradeIds /\ a < a + j /\ a + j <= a + n
    BY ConstantsAre DEF TradeIds
  <2> QED
    BY <2>1
<1>2. \A j, l \in 1 .. n : g[j] = g[l] => j = l
  OBVIOUS
<1>3. ASSUME NEW f \in S
      PROVE  \E j \in 1 .. n : g[j] = f
  <2>1. PICK t \in TradeIds : f = <<i, t>>
    OBVIOUS
  <2>2. a < t /\ t <= a + n /\ t \in Nat
    BY <2>1 DEF TradeIds
  <2>3. t - a \in 1 .. n /\ a + (t - a) = t
    BY <2>2
  <2> QED
    BY <2>1, <2>3
<1>4. g \in [1 .. n -> S]
  BY <1>1
<1> HIDE DEF S
<1>5. DOMAIN g = 1 .. n
  OBVIOUS
<1> HIDE DEF g
<1>6. g \in Bijection(1 .. n, S)
  BY <1>2, <1>3, <1>4, <1>5 DEF Bijection, Injection, Surjection, IsInjective
<1>7. Cardinality(S) = n
  BY <1>6, FS_CountingElements DEF ExistsBijection
<1> QED
  BY <1>7 DEF S

LEMMA BookedIs ==
  ASSUME OrdersOK, NEW i \in DOMAIN orders
  PROVE  Booked(orders[i].window) = orders[i].filled
<1>1. OrdersOf(orders[i].window) = {i}
  BY DEF OrdersOf, OrdersOK
<1> QED
  BY <1>1 DEF Booked

(* The trades of this process agree as well.                                 *)
LEMMA NoErrorUnexcused ==
  ASSUME IInv, NEW i \in ReconciliationErrors
  PROVE  Excused(i)
<1> DEFINE w == orderRow[i]
<1>0. /\ TypeOK /\ HeldOK /\ OrdersOK /\ QueueOK /\ RowsOK /\ FillsOK /\ DoneOK /\ PastAgrees
      /\ i \in Ids /\ w # NoWindow /\ w \in Windows /\ windowRow[w].settled
      /\ FilledSize(i) # windowRow[w].n /\ Trade(i).window = w
  BY DEF IInv, TypeOK, ReconciliationErrors, SettledTrades, Trade
<1> SUFFICES ASSUME ~Excused(i)
             PROVE  FALSE
  OBVIOUS
<1>1. ~Reused(i) /\ ~Straddled(w) /\ w \notin gaps
  BY <1>0 DEF Excused
<1>2. process \in drawnBy[i]
  BY <1>0 DEF PastAgrees
<1>3. PICK p \in drawnBy[i] : p \in heldBy[w]
  BY <1>0 DEF RowsOK
<1>4. drawnBy[i] = {process}
  <2>1. drawnBy[i] \in SUBSET Processes
    BY <1>0 DEF TypeOK
  <2>2. \A q \in drawnBy[i] : q = process
    BY <1>1, <1>2, <2>1, TwoAreMany DEF Reused
  <2> QED
    BY <1>2, <2>2
<1>5. i \in DOMAIN orders /\ orders[i].window = w
  BY <1>0, <1>2, <1>4 DEF HeldOK, RowsOK
<1>6. session[w] = "done" /\ Final(w)
  <2>1. session[w] # "none"
    BY <1>0, <1>3, <1>4 DEF HeldOK
  <2> QED
    BY <1>0, <2>1 DEF RowsOK, Final
<1>7. There(w)
  <2>1. ~Waits(w)
    BY <1>6 DEF Waits, Final, IsSettlement
  <2> QED
    BY <1>0, <1>1, <1>6, <2>1 DEF DoneOK
<1>8. windowRow[w].n = orders[i].filled
  <2>1. Booked(w) = orders[i].filled
    BY <1>0, <1>5, BookedIs
  <2>2. windowRow[w].n = Booked(w)
    BY <1>7 DEF There
  <2> QED
    BY <2>1, <2>2
<1>9. \A t : ~Pending(i, t)
  BY <1>0, <1>5, <1>7 DEF Pending, There, QueueOK
<1>10. FilledSize(i) = orders[i].filled
  <2>1. PICK a \in 0 .. trades :
          /\ a + orders[i].filled <= trades
          /\ \A t \in TradeIds :
               <<i, t>> \in fillRows \/ Pending(i, t) <=> a < t /\ t <= a + orders[i].filled
    BY <1>0, <1>1, <1>4, <1>5 DEF FillsOK
  <2>2. orders[i].filled \in Nat /\ a \in Nat /\ trades \in Nat
    BY <1>0, <1>5, EachIs, OrderingsAre
  <2>3. a + orders[i].filled <= MaxTaken * (LastWindow + 1)
    <3>1. PICK g \in Nat : g = MaxTaken * (LastWindow + 1) /\ trades \in Nat /\ trades <= g
      BY <1>0, BoundsAre, Zenon
    <3>2. a + orders[i].filled <= g
      BY <2>1, <2>2, <3>1
    <3> QED
      BY <3>1, <3>2, Zenon
  <2>4. \A t \in TradeIds : <<i, t>> \in fillRows <=> a < t /\ t <= a + orders[i].filled
    BY <1>9, <2>1
  <2>5. fillRows \in SUBSET (Ids \X TradeIds)
    BY <1>0 DEF TypeOK
  <2> QED
    BY <1>0, <2>2, <2>3, <2>4, <2>5, RowsInARow DEF FilledSize
<1> QED
  BY <1>0, <1>8, <1>10

LEMMA RestartStep ==
  ASSUME IInv, Restart
  PROVE  IInv'
<1>0. /\ TypeOK /\ HeldOK /\ OrdersOK /\ QueueOK /\ RowsOK
      /\ process < MaxRestarts /\ process' = process + 1
      /\ loop' = "running" /\ session' = [w \in Windows |-> "none"] /\ orders' = <<>> /\ trades' = 0
      /\ queue' = <<>>
      /\ UNCHANGED <<now, windowRow, orderRow, fillRows, failed, gaps, heldBy, drawnBy>>
  BY DEF IInv, Restart, Fresh, tables, history
<1>1. DOMAIN orders' = {} /\ DOMAIN queue' = {} /\ Len(orders') = 0
  BY <1>0
<1>2. TypeOK'
  <2>1. process' \in Processes /\ 0 \in 0 .. MaxTaken * (LastWindow + 1)
    BY <1>0, EachIs, ConstantsAre DEF Processes
  <2>2. queue' \in Seq(Calls) /\ orders' \in Seq(Ordering) /\ Len(orders') <= LastWindow + 1
    BY <1>0, ConstantsAre
  <2>3. session' \in [Windows -> {"none", "active", "settling", "done"}]
    BY <1>0
  <2> QED
    BY <1>0, <2>1, <2>2, <2>3 DEF TypeOK, Ordering
<1>3. HeldOK'
  <2>1. \A w \in Windows : \A p \in heldBy[w] : p <= process /\ p \in Nat
    BY <1>0 DEF HeldOK, TypeOK, Processes
  <2>2. \A i \in Ids : \A p \in drawnBy[i] : p <= process /\ p \in Nat
    BY <1>0 DEF HeldOK, TypeOK, Processes
  <2>3. /\ \A w \in Windows : process' \notin heldBy[w] /\ \A p \in heldBy[w] : p <= process'
        /\ \A i \in Ids : process' \notin drawnBy[i] /\ \A p \in drawnBy[i] : p <= process'
    BY <1>0, <2>1, <2>2, EachIs
  <2> QED
    BY <1>0, <1>1, <2>3 DEF HeldOK
<1>4. OrdersOK'
  <2>1. FilledIds' = {}
    BY <1>1 DEF FilledIds
  <2>2. Cardinality(FilledIds') = 0
    BY <2>1, FS_EmptySet
  <2>3. MaxTaken * 0 = 0
    BY ConstantsAre
  <2> QED
    BY <1>0, <1>1, <2>2, <2>3, EachIs DEF OrdersOK
<1>5. QueueOK'
  BY <1>1 DEF QueueOK
<1>6. RowsOK'
  <2>1. \A w \in Windows : Final(w) => Final(w)'
    BY <1>0, <1>1 DEF Final
  <2> QED
    BY <1>0, <1>1, <2>1 DEF RowsOK
<1>7. FillsOK'
  BY <1>1 DEF FillsOK
<1>8. DoneOK'
  BY <1>0 DEF DoneOK
<1>9. PastAgrees'
  <2>1. ReconciliationErrors' = ReconciliationErrors
    BY <1>0 DEF ReconciliationErrors, SettledTrades, Trade, FilledSize
  <2>2. \A i \in ReconciliationErrors : Excused(i)
    BY NoErrorUnexcused
  <2>3. \A i : Excused(i)' <=> Excused(i)
    BY <1>0 DEF Excused, Reused, Straddled, Trade
  <2> QED
    BY <2>1, <2>2, <2>3 DEF PastAgrees
<1> QED
  BY <1>2, <1>3, <1>4, <1>5, <1>6, <1>7, <1>8, <1>9 DEF IInv

LEMMA StutterStep ==
  ASSUME IInv, UNCHANGED vars
  PROVE  IInv'
<1>0. UNCHANGED <<now, process, loop, session, orders, trades, queue, windowRow, orderRow, fillRows,
                  failed, gaps, heldBy, drawnBy>>
  BY DEF vars, memory, tables, history
<1>1. TypeOK' /\ HeldOK'
  BY <1>0 DEF IInv, TypeOK, HeldOK
<1>2. \A w : Booked(w)' = Booked(w) /\ OrdersOf(w)' = OrdersOf(w) /\ (Final(w) => Final(w)')
  BY <1>0 DEF Booked, OrdersOf, Final
<1>3. OrdersOK' /\ QueueOK' /\ RowsOK'
  BY <1>0, <1>2 DEF IInv, OrdersOK, FilledIds, QueueOK, IsSettlement, RowsOK
<1>4. FillsOK' /\ DoneOK'
  BY <1>0, <1>2 DEF IInv, FillsOK, Pending, DoneOK, Waits, There, IsSettlement
<1>5. PastAgrees'
  BY <1>0 DEF IInv, PastAgrees, ReconciliationErrors, SettledTrades, Trade, FilledSize,
              Excused, Reused, Straddled
<1> QED
  BY <1>1, <1>3, <1>4, <1>5 DEF IInv

(* The invariant of the tables: the queue is between what the process holds  *)
(* and what the rows say, and carries the one over into the other in order.  *)
THEOREM Inductive == Spec => []IInv
<1>1. IInv /\ [Next]_vars => IInv'
  BY OpenStep, DraftStep, WriteStep, WriteFailsStep, StopEngineStep, RestartStep, TickStep,
     RecordOrderStep, FillStep, CloseStep, SettleStep, StutterStep DEF Next
<1> QED
  BY Initial, <1>1, PTL DEF Spec

(* Every variable has its type: no process has more orders than there are    *)
(* windows, nor more trades than they can have.                              *)
THEOREM TypeCorrect == Spec => []TypeOK
<1>1. IInv => TypeOK
  BY DEF IInv
<1> QED
  BY Inductive, <1>1, PTL

(* Nothing but reused ids, cut windows and lost rows makes the report and    *)
(* the ledger disagree, and what this process settled is there.              *)
THEOREM ReportIsRight == Spec => []ReportAgrees
<1>1. IInv => ReportAgrees
  <2> SUFFICES ASSUME IInv, queue = <<>>, NEW w \in Windows \ gaps, session[w] = "done"
               PROVE  windowRow[w] = [settled |-> TRUE, n |-> Booked(w)]
    BY NoErrorUnexcused DEF ReportAgrees
  <2>1. ~Waits(w)
    BY DEF Waits
  <2> QED
    BY <2>1 DEF IInv, DoneOK, There
<1> QED
  BY Inductive, <1>1, PTL

(* The row of a settled window is never replaced, not by a summary that was  *)
(* asked for before and not by a later process.                              *)
THEOREM SettledRowsStay == Spec => SettledRowStays
<1>1. ASSUME IInv, [Next]_vars
      PROVE  [\A w \in Windows : windowRow[w].settled => windowRow'[w] = windowRow[w]]_vars
  <2> SUFFICES ASSUME Next, NEW w \in Windows, windowRow[w].settled
               PROVE  windowRow'[w] = windowRow[w]
    BY <1>1
  <2>1. CASE Write
    <3>1. queue # <<>> /\ Stored(Head(queue))
      BY <2>1 DEF Write
    <3>2. TypeOK /\ Final(w)
      BY <1>1 DEF IInv, RowsOK
    <3>3. 1 \in DOMAIN queue /\ Head(queue) = queue[1]
      BY <3>1, <3>2, EachIs
    <3>4. Head(queue).window = w => Head(queue).table # "windows"
      BY <3>2, <3>3 DEF Final
    <3> QED
      BY <3>1, <3>2, <3>4 DEF Stored, TypeOK
  <2>2. CASE ~Write
    <3>1. UNCHANGED windowRow
      BY <2>2 DEF Next, Open, Draft, WriteFails, StopEngine, Restart, Tick, RecordOrder, Fill,
                  Close, Settle, tables
    <3> QED
      BY <3>1
  <2> QED
    BY <2>1, <2>2
<1> QED
  BY Inductive, <1>1, PTL DEF Spec, SettledRowStays
-----------------------------------------------------------------------------
(* The edge report's explanation of the windows that were not traded.        *)

(* What a quotient rounded half up is between.                               *)
LEMMA RoundedIs ==
  ASSUME NEW n \in Nat, NEW d \in Nat \ {0}
  PROVE  /\ Rounded(n, d) \in Nat
         /\ 2 * (Rounded(n, d) * d) <= 2 * n + d
         /\ 2 * n + d < 2 * (Rounded(n, d) * d) + 2 * d
<1> DEFINE a == 2 * n + d
           b == 2 * d
           q == a \div b
<1>1. a \in Nat /\ b \in Nat \ {0}
  OBVIOUS
<1> HIDE DEF a, b
<1>2. q \in Int /\ b * q <= a /\ a < b * q + b
  BY <1>1, Z3
<1>3. Rounded(n, d) = q
  BY DEF Rounded, a, b
<1> HIDE DEF q
<1>4. b * q = 2 * (q * d)
  BY <1>2, Z3 DEF b
<1>5. q \in Nat
  <2>1. 0 < b * (q + 1)
    BY <1>1, <1>2, Z3
  <2> QED
    BY <1>1, <1>2, <2>1, Z3
<1> QED
  BY <1>2, <1>3, <1>4, <1>5 DEF a, b

(* The three sizes of which the sniper takes the smallest.                   *)
ByDepth(t) == Rounded(t.depth * Cfg.participation, 100)
ByStake(t) == Rounded(Cfg.stake * 10000, t.ask)
ByCap(t)   == Rounded(Cfg.windowStake * 10000, t.ask)

LEMMA NumbersAre ==
  ASSUME NEW t \in Ticks, t.ask # NoAsk
  PROVE  /\ t.depth \in Nat /\ t.ask \in 1 .. 99 /\ t.flag \in Flags
         /\ Cfg.participation \in 1 .. 100 /\ Cfg.liquidity \in Nat
         /\ Cfg.stake \in Nat \ {0} /\ Cfg.windowStake \in Nat /\ Cfg.stake <= Cfg.windowStake
BY SignalsAssumption

LEMMA SizesAre ==
  ASSUME NEW t \in Ticks, t.ask # NoAsk
  PROVE  /\ ByDepth(t) \in Nat /\ ByStake(t) \in Nat /\ ByCap(t) \in Nat
         /\ ByStake(t) <= ByCap(t)
         /\ Size(t) \in {ByDepth(t), ByStake(t)}
         /\ Size(t) <= ByDepth(t) /\ Size(t) <= ByStake(t)
<1> DEFINE a == t.ask
           n == t.depth * Cfg.participation
           s == Cfg.stake * 10000
           c == Cfg.windowStake * 10000
<1>1. a \in Nat \ {0} /\ s \in Nat /\ c \in Nat /\ s <= c
  BY NumbersAre
<1>2. n \in Nat
  BY NumbersAre
<1> HIDE DEF a, n, s, c
<1>3. ByDepth(t) \in Nat
  BY <1>2, RoundedIs DEF ByDepth, n
<1>4. /\ ByStake(t) \in Nat
      /\ 2 * (ByStake(t) * a) <= 2 * s + a
      /\ 2 * s + a < 2 * (ByStake(t) * a) + 2 * a
  <2>1. ByStake(t) = Rounded(s, a)
    BY DEF ByStake, s, a
  <2> QED
    BY <1>1, <2>1, RoundedIs
<1>5. /\ ByCap(t) \in Nat
      /\ 2 * (ByCap(t) * a) <= 2 * c + a
      /\ 2 * c + a < 2 * (ByCap(t) * a) + 2 * a
  <2>1. ByCap(t) = Rounded(c, a)
    BY DEF ByCap, c, a
  <2> QED
    BY <1>1, <2>1, RoundedIs
<1>6. ByStake(t) <= ByCap(t)
  <2> DEFINE x == ByStake(t)
             y == ByCap(t)
  <2>1. x \in Nat /\ y \in Nat /\ x * a \in Int /\ y * a \in Int /\ x * a < y * a + a
    BY <1>1, <1>4, <1>5
  <2> HIDE DEF x, y
  <2>2. x * a < (y + 1) * a
    BY <1>1, <2>1, Z3
  <2>3. x < y + 1
    BY <1>1, <2>1, <2>2, Z3
  <2> QED
    BY <2>1, <2>3 DEF x, y
<1> DEFINE sizes == {ByDepth(t), ByStake(t), ByCap(t)}
<1>7. Size(t) = CHOOSE z \in sizes : \A r \in sizes : z <= r
  BY DEF Size, ByDepth, ByStake, ByCap
<1>8. \E z \in sizes : \A r \in sizes : z <= r
  BY <1>3, <1>4, <1>5
<1>9. Size(t) \in sizes /\ \A r \in sizes : Size(t) <= r
  BY <1>7, <1>8
<1> QED
  BY <1>3, <1>4, <1>5, <1>6, <1>9

(* The share of the depth that is taken, and that nothing of it is rounded.  *)
Share(t) == t.depth * Cfg.participation

Even(t) == (t.depth * Cfg.participation) % 100 = 0

LEMMA DepthIsExact ==
  ASSUME NEW t \in Ticks, t.ask # NoAsk, Even(t)
  PROVE  ByDepth(t) * 100 = t.depth * Cfg.participation
<1> DEFINE n == t.depth * Cfg.participation
<1>1. n \in Nat /\ n % 100 = 0
  BY NumbersAre DEF Even
<1> HIDE DEF n
<1>2. PICK k \in Int : n = 100 * k
  BY <1>1
<1>3. ByDepth(t) = Rounded(n, 100)
  BY DEF ByDepth, n
<1> DEFINE b == ByDepth(t)
           h == 100
<1>4. b \in Nat /\ 2 * (b * h) <= 2 * n + h /\ 2 * n + h < 2 * (b * h) + 2 * h
  <2>1. n \in Nat /\ h \in Nat \ {0} /\ b = Rounded(n, h)
    BY <1>1, <1>3
  <2> HIDE DEF b, h
  <2> QED
    BY <2>1, RoundedIs
<1> HIDE DEF b
<1>5. b * 100 = n
  BY <1>2, <1>4
<1> QED
  BY <1>5 DEF n, b

(* Rounding reaches a limit in hundredths only from half of one below it.    *)
LEMMA DepthReaches ==
  ASSUME NEW t \in Ticks, t.ask # NoAsk, NEW k \in Nat
  PROVE  /\ Share(t) \in Nat
         /\ Share(t) >= 50 => ByDepth(t) > 0
         /\ Share(t) < k * 10000 - 50 => ByDepth(t) < k * 100
<1> DEFINE n == Share(t)
           b == ByDepth(t)
           h == 100
<1>1. n \in Nat
  BY NumbersAre DEF Share
<1>2. b = Rounded(n, h)
  BY DEF ByDepth, Share
<1> HIDE DEF n, b
<1>3. b \in Nat /\ 2 * (b * h) <= 2 * n + h /\ 2 * n + h < 2 * (b * h) + 2 * h
  <2>1. h \in Nat \ {0}
    OBVIOUS
  <2> HIDE DEF h
  <2> QED
    BY <1>1, <1>2, <2>1, RoundedIs
<1>4. (n >= 50 => b > 0) /\ (n < k * 10000 - 50 => b < k * 100)
  BY <1>1, <1>3
<1> QED
  BY <1>1, <1>4 DEF n, b

LEMMA SizeIsPositive ==
  ASSUME NEW t \in Ticks, t.ask # NoAsk, t.depth > 0, Share(t) \notin 1 .. 49
  PROVE  Size(t) > 0
<1>1. ByDepth(t) > 0
  <2> DEFINE n == Share(t)
  <2>1. n \in Nat /\ (n >= 50 => ByDepth(t) > 0)
    BY DepthReaches
  <2>2. n > 0
    BY NumbersAre, Z3 DEF Share
  <2>3. n \notin 1 .. 49
    OBVIOUS
  <2> HIDE DEF n
  <2> QED
    BY <2>1, <2>2, <2>3
<1>2. ByStake(t) > 0
  <2> DEFINE n == Cfg.stake * 10000
             a == t.ask
  <2>1. n \in Nat /\ n >= 10000 /\ a \in 1 .. 99
    BY NumbersAre
  <2>2. ByStake(t) = Rounded(n, a)
    BY DEF ByStake
  <2> HIDE DEF n, a
  <2> DEFINE b == ByStake(t)
  <2>3. b \in Nat /\ 2 * n + a < 2 * (b * a) + 2 * a
    <3>1. n \in Nat /\ a \in Nat \ {0}
      BY <2>1
    <3> QED
      BY <2>2, <3>1, RoundedIs
  <2> HIDE DEF b
  <2>4. ASSUME b = 0
        PROVE  FALSE
    <3>1. b * a = 0
      BY <2>1, <2>4
    <3> QED
      BY <2>1, <2>3, <3>1, SMT
  <2> QED
    BY <2>3, <2>4 DEF b
<1> QED
  BY <1>1, <1>2, SizesAre

(* A size that is too small for the report is so for the gate: stakes are in *)
(* dollars and sizes in shares, so rounding does not reach the limit.        *)
LEMMA TooSmallIs ==
  ASSUME NEW t \in Ticks, t.ask # NoAsk, NEW k \in Nat,
         Share(t) \notin k * 10000 - 50 .. k * 10000 - 1,
         Share(t) < k * 10000 \/ Cfg.stake * 100 < k * t.ask
  PROVE  Size(t) < k * 100
<1>1. CASE Share(t) < k * 10000
  <2> DEFINE n == Share(t)
  <2>1. n \in Nat /\ (n < k * 10000 - 50 => ByDepth(t) < k * 100)
    BY DepthReaches
  <2>2. n < k * 10000 /\ n \notin k * 10000 - 50 .. k * 10000 - 1
    BY <1>1
  <2> HIDE DEF n
  <2>3. ByDepth(t) < k * 100
    BY <2>1, <2>2
  <2> QED
    BY <2>3, SizesAre
<1>2. CASE Cfg.stake * 100 < k * t.ask
  <2> DEFINE a == t.ask
             s == Cfg.stake
             b == ByStake(t)
             n == s * 10000
             l == k * a
  <2>1. a \in 1 .. 99 /\ s \in Nat /\ n \in Nat /\ l \in Nat /\ s * 100 + 1 <= l
    BY <1>2, NumbersAre
  <2>2. b = Rounded(n, a)
    BY DEF ByStake
  <2> HIDE DEF a, b, s
  <2>3. b \in Nat /\ 2 * (b * a) <= 2 * n + a
    <3> HIDE DEF n
    <3> QED
      BY <2>1, <2>2, RoundedIs
  <2>4. b * a \in Nat /\ b * a < 100 * l
    <3>1. b * a \in Nat
      BY <2>1, <2>3
    <3> HIDE DEF l
    <3> QED
      BY <2>1, <2>3, <3>1
  <2>5. b < 100 * k
    <3>1. 100 * l = (100 * k) * a
      BY <2>1, Z3
    <3>2. b * a < (100 * k) * a
      BY <2>4, <3>1
    <3> QED
      BY <2>1, <2>3, <3>2, Z3
  <2> QED
    BY <2>5, SizesAre DEF b
<1> QED
  BY <1>1, <1>2

LEMMA StakeIsExact ==
  ASSUME NEW t \in Ticks, t.ask # NoAsk, (Cfg.stake * 10000) % t.ask = 0
  PROVE  ByStake(t) * t.ask = Cfg.stake * 10000
<1> DEFINE a == t.ask
           n == Cfg.stake * 10000
           b == ByStake(t)
<1>1. a \in Nat \ {0} /\ n \in Nat /\ b = Rounded(n, a)
  BY NumbersAre DEF ByStake
<1>2. n % a = 0
  OBVIOUS
<1> HIDE DEF a, n, b
<1>3. PICK k \in Int : n = a * k
  BY <1>1, <1>2, Z3
<1>4. b \in Nat /\ 2 * (b * a) <= 2 * n + a /\ 2 * n + a < 2 * (b * a) + 2 * a
  BY <1>1, RoundedIs
<1>5. b * a < (k + 1) * a
  BY <1>1, <1>3, <1>4, Z3
<1>6. k * a < (b + 1) * a
  BY <1>1, <1>3, <1>4, Z3
<1>7. b < k + 1 /\ k < b + 1
  BY <1>1, <1>4, <1>5, <1>6, Z3
<1>8. b * a = n
  <2>1. b = k
    BY <1>4, <1>7
  <2> QED
    BY <1>1, <1>3, <2>1, Z3
<1> QED
  BY <1>8 DEF a, b, n

(* A book that is thin for the report is so for the gate.                    *)
LEMMA ThinIs ==
  ASSUME NEW t \in Ticks, t.ask # NoAsk, t.depth > 0, Even(t),
         (Cfg.stake * 10000) % t.ask = 0, ThinBook(t)
  PROVE  t.depth * 10 < Size(t) * Cfg.liquidity
<1> DEFINE a == t.ask
           l == Cfg.liquidity
           p == Cfg.participation
           d == t.depth
           n == Cfg.stake * 10000
<1>1. /\ a \in Nat \ {0} /\ l \in Nat /\ p \in Nat /\ d \in Nat \ {0} /\ n \in Nat
  BY NumbersAre
<1>2. 1000 < p * l /\ (d * a) * 10 < n * l
  BY <1>1 DEF ThinBook
<1>3. /\ ByDepth(t) * 100 = d * p /\ ByStake(t) * a = n
      /\ ByDepth(t) \in Nat /\ ByStake(t) \in Nat
  BY DepthIsExact, StakeIsExact, SizesAre
<1> HIDE DEF a, l, p, d, n
<1>4. d * 10 < ByDepth(t) * l
  <2> DEFINE b == ByDepth(t)
  <2>1. d * 1000 < d * (p * l)
    BY <1>1, <1>2, Z3
  <2>2. d * (p * l) = (b * 100) * l
    BY <1>1, <1>3, Z3
  <2>3. (b * 100) * l = (b * l) * 100 /\ b * l \in Nat
    BY <1>1, <1>3, Z3
  <2> QED
    BY <1>1, <2>1, <2>2, <2>3
<1>5. d * 10 < ByStake(t) * l
  <2> DEFINE b == ByStake(t)
  <2>1. n * l = (b * l) * a /\ (d * a) * 10 = (d * 10) * a
    BY <1>1, <1>3, Z3
  <2>2. (d * 10) * a < (b * l) * a
    BY <1>2, <2>1
  <2>3. b * l \in Nat
    BY <1>1, <1>3
  <2> QED
    BY <1>1, <2>2, <2>3, Z3
<1> QED
  BY <1>4, <1>5, SizesAre DEF d, l

(* The report's first reason for a tick is a filter that the tick fails.     *)
Fails(t, name) ==
  CASE name = "no_ask_quoted"             -> t.ask = NoAsk \/ t.depth = 0
    [] name = "ask_above_price_cap"       -> t.ask > Cfg.maxPrice
    [] name = "edge_below_min_after_fees" ->
         Edge(Sureness(t), t.ask, MetaDoc.rate) < Cfg.minEdge
    [] name = "below_min_size"            -> TooSmall(t)
    [] name = "thin_book"                 -> ThinBook(t)
    [] OTHER                              -> t.flag = name

Names == {"no_ask_quoted", "ask_above_price_cap", "edge_below_min_after_fees", "below_min_size",
          "tie_band", "chainlink_stale", "book_dirty", "thin_book"}

LEMMA FirstFailIs ==
  ASSUME NEW t
  PROVE  \/ FirstFail(t) = "none" /\ \A name \in Names : ~ Fails(t, name)
         \/ FirstFail(t) \in Names /\ Fails(t, FirstFail(t))
<1> DEFINE F == Filters(t)
           I == {i \in DOMAIN F : F[i][2]}
           first == CHOOSE i \in I : \A j \in I : i <= j
<1>1. FirstFail(t) = IF I = {} THEN "none" ELSE F[first][1]
  BY DEF FirstFail
<1>2. /\ DOMAIN F = 1 .. 8
      /\ \A i \in 1 .. 8 : F[i][1] \in Names /\ (F[i][2] <=> Fails(t, F[i][1]))
      /\ \A name \in Names : \E i \in 1 .. 8 : F[i][1] = name
  <2> DEFINE c1 == t.ask = NoAsk \/ t.depth = 0
             c2 == t.ask > Cfg.maxPrice
             c3 == Edge(Sureness(t), t.ask, MetaDoc.rate) < Cfg.minEdge
             c4 == TooSmall(t)
             c5 == t.flag = "tie_band"
             c6 == t.flag = "chainlink_stale"
             c7 == t.flag = "book_dirty"
             c8 == ThinBook(t)
  <2>1. F = << <<"no_ask_quoted", c1>>, <<"ask_above_price_cap", c2>>,
               <<"edge_below_min_after_fees", c3>>, <<"below_min_size", c4>>, <<"tie_band", c5>>,
               <<"chainlink_stale", c6>>, <<"book_dirty", c7>>, <<"thin_book", c8>> >>
    BY DEF Filters
  <2>2. /\ Fails(t, "no_ask_quoted") <=> c1
        /\ Fails(t, "ask_above_price_cap") <=> c2
        /\ Fails(t, "edge_below_min_after_fees") <=> c3
        /\ Fails(t, "below_min_size") <=> c4
        /\ Fails(t, "tie_band") <=> c5
        /\ Fails(t, "chainlink_stale") <=> c6
        /\ Fails(t, "book_dirty") <=> c7
        /\ Fails(t, "thin_book") <=> c8
    BY DEF Fails
  <2> HIDE DEF F, c1, c2, c3, c4, c5, c6, c7, c8
  <2>3. /\ DOMAIN F = 1 .. 8
        /\ F[1][1] = "no_ask_quoted" /\ F[2][1] = "ask_above_price_cap"
        /\ F[3][1] = "edge_below_min_after_fees" /\ F[4][1] = "below_min_size"
        /\ F[5][1] = "tie_band" /\ F[6][1] = "chainlink_stale"
        /\ F[7][1] = "book_dirty" /\ F[8][1] = "thin_book"
    BY <2>1
  <2>4. /\ F[1][2] <=> c1
        /\ F[2][2] <=> c2
        /\ F[3][2] <=> c3
        /\ F[4][2] <=> c4
        /\ F[5][2] <=> c5
        /\ F[6][2] <=> c6
        /\ F[7][2] <=> c7
        /\ F[8][2] <=> c8
    BY <2>1
  <2> QED
    BY <2>2, <2>3, <2>4 DEF Names
<1> HIDE DEF F
<1>3. I # {} => first \in I
  <2>1. I \in SUBSET Nat
    BY <1>2
  <2> HIDE DEF I
  <2>2. ASSUME I # {}
        PROVE  \E n \in I : \A m \in I : n <= m
    BY <2>1, <2>2, SmallestNumber
  <2> QED
    BY <2>2
<1>4. CASE I = {}
  BY <1>1, <1>2, <1>4
<1>5. CASE I # {}
  <2>1. first \in 1 .. 8 /\ F[first][2]
    BY <1>2, <1>3, <1>5
  <2> HIDE DEF first, I
  <2> QED
    BY <1>1, <1>2, <1>5, <2>1
<1> QED
  BY <1>4, <1>5

-----------------------------------------------------------------------------
(* The documents of the log, and what a tick's document tells.               *)
TickDocs == [kind : {"tick"}, tick : Ticks, shot : BOOLEAN,
             failed : SUBSET Gates, meta : Metas]
MetaDocs == [kind : {"market_meta"}, meta : Metas]
Docs == TickDocs \cup MetaDocs \cup [kind : {"scalper"}]

ShotIn(l, j) == l[j].kind = "tick" /\ l[j].shot
ShotBy(l, n) == \E j \in DOMAIN l : j <= n /\ ShotIn(l, j)

(* A shot was wanted and met the gates; where nothing was shot, nothing was  *)
(* wanted or a shot came before; and of a shot that passed there is an order.*)
Shot(doc) == Wants(doc.meta, doc.tick) /\ doc.failed = Failed(doc.meta, doc.tick)

Tells(l, i) ==
  IF l[i].shot THEN Shot(l[i])
  ELSE l[i].failed = {} /\ (Wants(l[i].meta, l[i].tick) => ShotBy(l, i))

Told(l)       == \A i \in DOMAIN l : l[i].kind = "tick" => Tells(l, i)
Ordered(l, r) == \A i \in DOMAIN l : ShotIn(l, i) /\ l[i].failed = {} => r # "none"

SignalsInv ==
  /\ log \in Seq(Docs) /\ Told(log) /\ Ordered(log, row)
  /\ meta \in Metas \cup {NoMeta}
  /\ meta.feesKnown => meta.rate # Unknown
  /\ fired \in BOOLEAN /\ (fired => ShotBy(log, Len(log)))
  /\ torn \in BOOLEAN /\ unwritten \subseteq DOMAIN log
  /\ begun \in 0 .. Len(log)
  /\ row \in {"none", "pending", "written", "lost"}
  /\ restarts \in 0 .. MaxEngineRestarts

LEMMA ShotByGrows ==
  ASSUME NEW l \in Seq(Docs), NEW d \in Docs, NEW i \in Nat, NEW n \in Nat, i <= n, ShotBy(l, i)
  PROVE  ShotBy(l, n) /\ ShotBy(Append(l, d), n)
<1>1. PICK j \in DOMAIN l : j <= i /\ ShotIn(l, j)
  BY DEF ShotBy
<1>2. j \in DOMAIN Append(l, d) /\ Append(l, d)[j] = l[j] /\ j <= n
  BY <1>1
<1> QED
  BY <1>1, <1>2 DEF ShotBy, ShotIn

LEMMA LogAppends ==
  ASSUME NEW l \in Seq(Docs), NEW d \in Docs, NEW r, NEW q,
         Told(l), Ordered(l, r), r # "none" => q # "none",
         d.kind = "tick" =>
           IF d.shot THEN Shot(d) /\ (d.failed = {} => q # "none")
           ELSE d.failed = {} /\ (Wants(d.meta, d.tick) => ShotBy(l, Len(l)))
  PROVE  /\ Append(l, d) \in Seq(Docs) /\ Told(Append(l, d)) /\ Ordered(Append(l, d), q)
         /\ ShotBy(l, Len(l)) \/ (d.kind = "tick" /\ d.shot) => ShotBy(Append(l, d), Len(Append(l, d)))
<1> DEFINE k == Append(l, d)
<1>1. /\ k \in Seq(Docs) /\ Len(l) \in Nat /\ Len(k) = Len(l) + 1
      /\ DOMAIN l = 1 .. Len(l) /\ DOMAIN k = 1 .. Len(k)
      /\ k[Len(k)] = d /\ \A i \in DOMAIN l : k[i] = l[i]
  OBVIOUS
<1>2. \A i \in DOMAIN l : ShotBy(l, i) => ShotBy(k, i)
  BY <1>1, ShotByGrows
<1>3. ShotBy(l, Len(l)) => ShotBy(k, Len(k))
  BY <1>1, ShotByGrows
<1> HIDE DEF k
<1>4. ASSUME NEW i \in DOMAIN k, k[i].kind = "tick"
      PROVE  Tells(k, i)
  <2>1. CASE i \in DOMAIN l
    <3>1. Tells(l, i) /\ k[i] = l[i]
      BY <1>1, <1>4, <2>1 DEF Told
    <3> QED
      BY <1>2, <2>1, <3>1 DEF Tells
  <2>2. CASE i = Len(k)
    <3>1. k[i] = d
      BY <1>1, <2>2
    <3> QED
      BY <1>3, <1>4, <2>2, <3>1 DEF Tells
  <2> QED
    BY <1>1, <2>1, <2>2
<1>5. Ordered(k, q)
  <2> SUFFICES ASSUME NEW i \in DOMAIN k, ShotIn(k, i), k[i].failed = {}
               PROVE  q # "none"
    BY DEF Ordered
  <2>1. CASE i \in DOMAIN l
    BY <1>1, <2>1 DEF Ordered, ShotIn
  <2>2. CASE i = Len(k)
    BY <1>1, <2>2 DEF ShotIn
  <2> QED
    BY <1>1, <2>1, <2>2
<1>6. d.kind = "tick" /\ d.shot => ShotBy(k, Len(k))
  <2>1. Len(k) \in DOMAIN k /\ Len(k) <= Len(k)
    BY <1>1
  <2> QED
    BY <1>1, <2>1 DEF ShotBy, ShotIn
<1> QED
  BY <1>1, <1>3, <1>4, <1>5, <1>6 DEF k, Told

(* What a restart leaves of the log is a log.                                *)
LEMMA LogIsCut ==
  ASSUME NEW l \in Seq(Docs), NEW r, NEW n \in 0 .. Len(l), Told(l), Ordered(l, r)
  PROVE  /\ SubSeq(l, 1, n) \in Seq(Docs) /\ Len(SubSeq(l, 1, n)) = n
         /\ Told(SubSeq(l, 1, n)) /\ Ordered(SubSeq(l, 1, n), r)
<1> DEFINE k == SubSeq(l, 1, n)
<1>1. /\ Len(l) \in Nat /\ DOMAIN l = 1 .. Len(l) /\ \A i \in DOMAIN l : l[i] \in Docs
  OBVIOUS
<1>2. k = [i \in 1 .. n |-> l[i]]
  BY <1>1
<1>3. k \in Seq(Docs) /\ Len(k) = n
  BY <1>1, <1>2
<1>4. DOMAIN k = 1 .. n /\ \A i \in DOMAIN k : k[i] = l[i] /\ i \in DOMAIN l
  BY <1>1, <1>2
<1> HIDE DEF k
<1>5. ASSUME NEW i \in DOMAIN k, k[i].kind = "tick"
      PROVE  Tells(k, i)
  <2>1. Tells(l, i) /\ k[i] = l[i]
    BY <1>4, <1>5 DEF Told
  <2>2. ASSUME ShotBy(l, i)
        PROVE  ShotBy(k, i)
    <3>1. PICK j \in DOMAIN l : j <= i /\ ShotIn(l, j)
      BY <2>2 DEF ShotBy
    <3>2. j \in DOMAIN k /\ k[j] = l[j]
      BY <1>1, <1>4, <3>1
    <3> QED
      BY <3>1, <3>2 DEF ShotBy, ShotIn
  <2> QED
    BY <2>1, <2>2 DEF Tells
<1>6. Ordered(k, r)
  BY <1>4 DEF Ordered, ShotIn
<1> QED
  BY <1>3, <1>5, <1>6 DEF k, Told

LEMMA DocsAre ==
  /\ NoMeta \notin Metas
  /\ NoMeta.feesKnown = FALSE
  /\ \A m \in Metas : [kind |-> "market_meta", meta |-> m] \in Docs
  /\ [kind |-> "scalper"] \in Docs
<1>1. NoMeta \notin Metas
  BY SignalsAssumption DEF NoMeta, Metas, Unknown
<1>2. NoMeta.feesKnown = FALSE
  BY DEF NoMeta
<1> QED
  BY <1>1, <1>2 DEF Docs, MetaDocs

LEMMA SignalsStart ==
  ASSUME SignalsInit
  PROVE  SignalsInv
<1>1. log = <<>> /\ log \in Seq(Docs) /\ Len(log) = 0 /\ DOMAIN log = {} /\ unwritten = {}
  BY DEF SignalsInit
<1>2. Told(log) /\ Ordered(log, row)
  BY <1>1 DEF Told, Ordered
<1>3. meta = NoMeta /\ meta.feesKnown = FALSE
  BY DocsAre DEF SignalsInit
<1>4. fired = FALSE /\ torn = FALSE /\ begun = 0 /\ row = "none" /\ restarts = 0 /\ MaxEngineRestarts \in Nat
  BY SignalsAssumption DEF SignalsInit
<1>5. begun \in 0 .. Len(log) /\ restarts \in 0 .. MaxEngineRestarts
  BY <1>1, <1>4
<1> QED
  BY <1>1, <1>2, <1>3, <1>4, <1>5 DEF SignalsInv

(* Whether it reaches the file or not, a document is the last of the log.    *)
LEMMA RecordIs ==
  ASSUME SignalsInv, NEW d \in Docs, Record(d)
  PROVE  /\ log' = Append(log, d) /\ begun \in 0 .. Len(log')
         /\ unwritten' \subseteq DOMAIN log' /\ torn' \in BOOLEAN
<1>1. PICK full \in BOOLEAN :
        /\ log' = Append(log, d)
        /\ unwritten' = unwritten \cup {n \in {Len(log) + 1} : full \/ torn}
        /\ torn' = (torn /\ full)
  BY DEF Record
<1>2. /\ log \in Seq(Docs) /\ begun \in 0 .. Len(log)
      /\ unwritten \subseteq DOMAIN log /\ torn \in BOOLEAN
  BY DEF SignalsInv
<1>3. Len(log) \in Nat /\ Len(log') = Len(log) + 1 /\ DOMAIN log' = DOMAIN log \cup {Len(log) + 1}
  BY <1>1, <1>2
<1>4. unwritten' \subseteq DOMAIN log'
  BY <1>1, <1>2, <1>3
<1>5. torn' \in BOOLEAN
  BY <1>1, <1>2
<1>6. begun \in 0 .. Len(log')
  BY <1>2, <1>3
<1> QED
  BY <1>1, <1>4, <1>5, <1>6

(* A document that is no tick changes nothing of what the log tells.         *)
LEMMA OtherDocKeeps ==
  ASSUME SignalsInv, NEW d \in Docs, d.kind # "tick", Record(d),
         meta' \in Metas \cup {NoMeta}, meta'.feesKnown => meta'.rate # Unknown,
         UNCHANGED <<fired, begun, row, restarts>>
  PROVE  SignalsInv'
<1> DEFINE k == Append(log, d)
<1>1. /\ log' = k /\ begun \in 0 .. Len(log')
      /\ unwritten' \subseteq DOMAIN log' /\ torn' \in BOOLEAN
  BY RecordIs
<1>2. log \in Seq(Docs) /\ Told(log) /\ Ordered(log, row) /\ (fired => ShotBy(log, Len(log)))
  BY DEF SignalsInv
<1>3. k \in Seq(Docs) /\ Told(k) /\ Ordered(k, row) /\ (ShotBy(log, Len(log)) => ShotBy(k, Len(k)))
  BY <1>2, LogAppends
<1> HIDE DEF k
<1>4. log' \in Seq(Docs) /\ Told(log') /\ Ordered(log', row) /\ (fired => ShotBy(log', Len(log')))
  BY <1>1, <1>2, <1>3
<1> QED
  BY <1>1, <1>4 DEF SignalsInv

LEMMA ResolveKeeps ==
  ASSUME SignalsInv, Resolve
  PROVE  SignalsInv'
<1> DEFINE d == [kind |-> "market_meta", meta |-> meta']
<1>1. PICK up \in Rates \cup {Unknown}, down \in Rates \cup {Unknown},
           tickKnown \in BOOLEAN, min \in MinSizes :
        meta' = Built(up, down, tickKnown, min)
  BY DEF Resolve
<1>2. UNCHANGED <<fired, begun, row, restarts>> /\ Record(d)
  BY DEF Resolve
<1>3. meta' \in Metas /\ (meta'.feesKnown => meta'.rate # Unknown)
  <2> DEFINE known == up # Unknown /\ up = down /\ tickKnown
  <2>1. known \in BOOLEAN /\ (known => up # Unknown)
    OBVIOUS
  <2>2. meta' = [feesKnown |-> known, rate |-> up, minSize |-> min]
    BY <1>1 DEF Built
  <2> HIDE DEF known
  <2> QED
    BY <2>1, <2>2 DEF Metas
<1>4. d \in Docs /\ d.kind # "tick"
  BY <1>3, DocsAre
<1> HIDE DEF d
<1> QED
  BY <1>2, <1>3, <1>4, OtherDocKeeps

LEMMA ScalperKeeps ==
  ASSUME SignalsInv, ScalperBlocked
  PROVE  SignalsInv'
<1> DEFINE d == [kind |-> "scalper"]
<1>1. UNCHANGED <<meta, fired, begun, row, restarts>> /\ Record(d)
  BY DEF ScalperBlocked
<1>2. d \in Docs /\ d.kind # "tick"
  BY DocsAre
<1>3. meta' \in Metas \cup {NoMeta} /\ (meta'.feesKnown => meta'.rate # Unknown)
  BY <1>1 DEF SignalsInv
<1> HIDE DEF d
<1> QED
  BY <1>1, <1>2, <1>3, OtherDocKeeps

(* A tick is logged whether it is shot at or not.                            *)
LEMMA EvaluateKeeps ==
  ASSUME SignalsInv, NEW t \in Ticks, Evaluate(t)
  PROVE  SignalsInv'
<1> DEFINE shot == Shoots(t)
           gates == IF shot THEN Failed(meta, t) ELSE {}
           d == [kind |-> "tick", tick |-> t, shot |-> shot, failed |-> gates, meta |-> meta]
           k == Append(log, d)
<1>1. /\ meta # NoMeta /\ UNCHANGED <<meta, begun, restarts>>
      /\ fired' = (fired \/ shot) /\ Record(d)
      /\ row' = IF shot /\ gates = {} THEN "pending" ELSE row
  BY DEF Evaluate, TickDoc
<1>2. meta \in Metas
  BY <1>1 DEF SignalsInv
<1>4. shot \in BOOLEAN /\ (shot <=> ~ fired /\ Wants(meta, t))
  BY DEF Shoots
<1>5. Failed(meta, t) \subseteq Gates
  <2>1. t.flag \in Flags
    BY SignalsAssumption
  <2> QED
    BY <2>1 DEF Failed, Gates
<1>6. gates \in SUBSET Gates /\ (shot => gates = Failed(meta, t)) /\ (~ shot => gates = {})
  BY <1>5
<1> HIDE DEF shot, gates
<1>7. d \in Docs
  BY <1>2, <1>4, <1>6 DEF Docs, TickDocs
<1>8. d.kind = "tick" /\ d.shot = shot /\ d.failed = gates /\ d.meta = meta /\ d.tick = t
  OBVIOUS
<1> HIDE DEF d
<1>3. /\ log' = k /\ begun \in 0 .. Len(log')
      /\ unwritten' \subseteq DOMAIN log' /\ torn' \in BOOLEAN
  BY <1>1, <1>7, RecordIs
<1>9. /\ log \in Seq(Docs) /\ Told(log) /\ Ordered(log, row)
      /\ fired \in BOOLEAN /\ (fired => ShotBy(log, Len(log)))
      /\ row \in {"none", "pending", "written", "lost"}
  BY DEF SignalsInv
<1>10. row # "none" => row' # "none"
  BY <1>1
<1>11. IF d.shot THEN Shot(d) /\ (d.failed = {} => row' # "none")
       ELSE d.failed = {} /\ (Wants(d.meta, d.tick) => ShotBy(log, Len(log)))
  <2>1. CASE shot
    BY <1>1, <1>4, <1>6, <1>8, <2>1 DEF Shot
  <2>2. CASE ~ shot
    BY <1>4, <1>6, <1>8, <1>9, <2>2
  <2> QED
    BY <1>8, <2>1, <2>2
<1>12. /\ k \in Seq(Docs) /\ Told(k) /\ Ordered(k, row')
       /\ ShotBy(log, Len(log)) \/ (d.kind = "tick" /\ d.shot) => ShotBy(k, Len(k))
  BY <1>7, <1>9, <1>10, <1>11, LogAppends
<1> HIDE DEF k
<1>14. log' \in Seq(Docs) /\ Told(log') /\ Ordered(log', row')
  BY <1>3, <1>12
<1>15. fired' \in BOOLEAN /\ (fired' => ShotBy(log', Len(log')))
  BY <1>1, <1>3, <1>4, <1>8, <1>9, <1>12
<1>16. row' \in {"none", "pending", "written", "lost"}
  BY <1>1, <1>9
<1> QED
  BY <1>1, <1>3, <1>14, <1>15, <1>16 DEF SignalsInv

LEMMA RowKeeps ==
  ASSUME SignalsInv, RowWritten \/ RowLost
  PROVE  SignalsInv'
<1>1. UNCHANGED <<meta, fired, log, unwritten, begun, torn, restarts>> /\ row # "none" /\ row' \in {"written", "lost"}
  BY DEF RowWritten, RowLost
<1>2. Ordered(log, row')
  BY <1>1 DEF SignalsInv, Ordered
<1> QED
  BY <1>1, <1>2 DEF SignalsInv

LEMMA RestartKeeps ==
  ASSUME SignalsInv, RestartEngine
  PROVE  SignalsInv'
<1>1. PICK kept \in begun .. Len(log) :
        /\ log' = SubSeq(log, 1, kept) /\ begun' = kept
        /\ unwritten' = unwritten \cap 1 .. kept /\ torn' \in BOOLEAN
  BY DEF RestartEngine
<1>2. /\ meta' = NoMeta /\ fired' = FALSE /\ restarts < MaxEngineRestarts /\ restarts' = restarts + 1
      /\ row' = IF row = "pending" THEN "lost" ELSE row
  BY DEF RestartEngine
<1>3. log \in Seq(Docs) /\ Told(log) /\ Ordered(log, row) /\ begun \in 0 .. Len(log)
  BY DEF SignalsInv
<1>4. kept \in 0 .. Len(log)
  BY <1>3
<1>5. log' \in Seq(Docs) /\ Len(log') = kept /\ Told(log') /\ Ordered(log', row)
  BY <1>1, <1>3, <1>4, LogIsCut
<1>6. Ordered(log', row')
  BY <1>2, <1>5 DEF Ordered
<1>7. meta'.feesKnown = FALSE
  BY <1>2, DocsAre
<1>8. restarts' \in 0 .. MaxEngineRestarts /\ row' \in {"none", "pending", "written", "lost"}
  <2>1. MaxEngineRestarts \in Nat
    BY SignalsAssumption
  <2> QED
    BY <1>2, <2>1 DEF SignalsInv
<1>9. /\ begun' \in 0 .. Len(log') /\ torn' \in BOOLEAN
      /\ unwritten' \subseteq DOMAIN log'
  <2>1. DOMAIN log' = 1 .. kept
    BY <1>5
  <2> QED
    BY <1>1, <1>4, <1>5, <2>1
<1> QED
  BY <1>2, <1>5, <1>6, <1>7, <1>8, <1>9 DEF SignalsInv

LEMMA SignalsKeeps == SignalsInv /\ [SignalsNext]_signalsVars => SignalsInv'
<1> SUFFICES ASSUME SignalsInv, [SignalsNext]_signalsVars
             PROVE  SignalsInv'
  OBVIOUS
<1>1. CASE SignalsNext
  BY <1>1, ResolveKeeps, ScalperKeeps, EvaluateKeeps, RowKeeps, RestartKeeps DEF SignalsNext
<1>2. CASE UNCHANGED signalsVars
  BY <1>2 DEF signalsVars, SignalsInv
<1> QED
  BY <1>1, <1>2

LEMMA DocIs ==
  ASSUME SignalsInv, NEW i \in Said("tick")
  PROVE  i \in DOMAIN log /\ i \in Nat /\ log[i] \in TickDocs /\ log[i].kind = "tick" /\ Tells(log, i)
<1>1. i \in DOMAIN log /\ log[i].kind = "tick" /\ log \in Seq(Docs) /\ Told(log)
  BY DEF Said, SignalsInv
<1>2. log[i] \in Docs /\ i \in Nat
  BY <1>1
<1>3. log[i] \in TickDocs
  BY <1>1, <1>2 DEF Docs, MetaDocs
<1> QED
  BY <1>1, <1>2, <1>3 DEF Told

LEMMA SurenessIs ==
  ASSUME NEW t, t.p \in Int
  PROVE  Sureness(t) \in Int
<1>1. One \in Int
  BY SMT DEF One
<1> QED
  BY <1>1 DEF Sureness

(* Logging a tick rounds its P_up and leaves the rest.                       *)
LEMMA LoggedIs ==
  ASSUME NEW t \in Ticks
  PROVE  /\ Logged(t).ask = t.ask /\ Logged(t).depth = t.depth /\ Logged(t).flag = t.flag
         /\ Sureness(t) \in Int /\ Sureness(Logged(t)) \in Int
<1>1. t \in [p : 0 .. One, ask : 1 .. 99 \cup {NoAsk}, depth : Nat, flag : Flags] /\ t.p \in Nat
  <2>1. t \in [p : 0 .. One, ask : 1 .. 99 \cup {NoAsk}, depth : Nat, flag : Flags]
    BY SignalsAssumption
  <2>2. One \in Nat
    BY SMT DEF One
  <2> QED
    BY <2>1, <2>2
<1>2. Rounded(t.p, 10) \in Nat
  <2>1. 10 \in Nat \ {0}
    OBVIOUS
  <2> QED
    BY <1>1, <2>1, RoundedIs
<1> DEFINE q == Rounded(t.p, 10) * 10
<1>3. q \in Nat
  BY <1>2
<1>4. Logged(t) = [t EXCEPT !.p = q]
  BY DEF Logged
<1> HIDE DEF q
<1>5. /\ Logged(t).ask = t.ask /\ Logged(t).depth = t.depth /\ Logged(t).flag = t.flag
      /\ Logged(t).p = q
  BY <1>1, <1>4
<1> QED
  BY <1>1, <1>3, <1>5, SurenessIs

LEMMA EdgeIs ==
  ASSUME NEW s \in Int, NEW t \in Ticks, t.ask # NoAsk, NEW m \in Metas
  PROVE  Edge(s, t.ask, m.rate) \in Int
<1> DEFINE r == m.rate
           a == t.ask
           n == r * a * (100 - a)
           f == n \div 100
<1>1. a \in Int /\ Cfg.buffer \in Int
  BY NumbersAre, SignalsAssumption
<1>2. r \in Int
  <2>1. r \in Rates \cup {Unknown}
    BY DEF Metas
  <2>2. Rates \subseteq Int /\ Unknown \in Int
    BY SMT, SignalsAssumption DEF Unknown
  <2> QED
    BY <2>1, <2>2
<1> HIDE DEF r, a
<1>3. n \in Int
  <2>1. r * a \in Int /\ 100 - a \in Int
    BY <1>1, <1>2
  <2> QED
    BY <2>1
<1> HIDE DEF n
<1>4. f \in Int
  BY <1>3
<1>5. Fee(r, a) = f
  BY DEF Fee, n
<1> HIDE DEF f
<1>6. Edge(s, a, r) = s - a * 10000 - f - Cfg.buffer
  BY <1>5 DEF Edge
<1>7. s - a * 10000 - f - Cfg.buffer \in Int
  BY <1>1, <1>4, SMT
<1> QED
  BY <1>6, <1>7 DEF a, r

LEMMA TypesFollow == SignalsInv => SignalsTypeOK
<1> SUFFICES ASSUME SignalsInv
             PROVE  SignalsTypeOK
  OBVIOUS
<1>1. ASSUME NEW i \in Said("market_meta")
      PROVE  log[i].meta \in Metas
  <2>1. i \in DOMAIN log /\ log[i].kind = "market_meta" /\ log \in Seq(Docs)
    BY DEF Said, SignalsInv
  <2>2. log[i] \in Docs
    BY <2>1
  <2> QED
    BY <2>1, <2>2 DEF Docs, MetaDocs, TickDocs
<1>2. ASSUME NEW i \in Said("tick")
      PROVE  /\ log[i].tick \in Ticks /\ log[i].failed \subseteq Gates
             /\ log[i].failed # {} => log[i].shot
  <2>1. log[i] \in TickDocs /\ Tells(log, i)
    BY DocIs
  <2>2. log[i].tick \in Ticks /\ log[i].failed \subseteq Gates
    BY <2>1 DEF TickDocs
  <2>3. log[i].failed # {} => log[i].shot
    BY <2>1 DEF Tells
  <2> QED
    BY <2>2, <2>3
<1> QED
  BY <1>1, <1>2 DEF SignalsInv, SignalsTypeOK

(* What the report knows of a tick for which it need not guess.              *)
LEMMA ExactIs ==
  ASSUME SignalsInv, NEW i \in Numbers("tick"), Exact(log[i])
  PROVE  /\ i \in Said("tick") /\ log[i].tick \in Ticks
         /\ log[i].meta = MetaDoc /\ log[i].meta.feesKnown
         /\ log[i].meta \in Metas /\ MetaDoc.minSize \in Nat
         /\ SameSureness(log[i].tick, MetaDoc.rate)
         /\ Share(log[i].tick) \notin 1 .. 49
         /\ Share(log[i].tick) \notin MetaDoc.minSize * 10000 - 50 .. MetaDoc.minSize * 10000 - 1
         /\ log[i].tick.ask # NoAsk /\ 1000 < Cfg.participation * Cfg.liquidity =>
              Even(log[i].tick) /\ (Cfg.stake * 10000) % log[i].tick.ask = 0
<1>1. i \in Said("tick")
  BY DEF Numbers
<1>2. log[i] \in TickDocs
  BY <1>1, DocIs
<1>3. log[i].tick \in Ticks /\ log[i].meta \in Metas
  BY <1>2 DEF TickDocs
<1>4. log[i].meta.minSize \in Nat
  BY <1>3, SignalsAssumption DEF Metas
<1>5. /\ log[i].meta = MetaDoc /\ log[i].meta.feesKnown
      /\ SameSureness(log[i].tick, MetaDoc.rate) /\ SameSize(log[i].tick, MetaDoc.minSize)
  BY DEF Exact
<1>6. /\ Share(log[i].tick) \notin 1 .. 49
      /\ Share(log[i].tick) \notin MetaDoc.minSize * 10000 - 50 .. MetaDoc.minSize * 10000 - 1
      /\ log[i].tick.ask # NoAsk /\ 1000 < Cfg.participation * Cfg.liquidity =>
           Even(log[i].tick) /\ (Cfg.stake * 10000) % log[i].tick.ask = 0
  BY <1>5 DEF SameSize, Share, Even
<1> QED
  BY <1>1, <1>3, <1>4, <1>5, <1>6

(* A filter that a wanted tick fails is one of the gates it failed at.       *)
LEMMA FilterIsGate ==
  ASSUME SignalsInv, NEW i \in Numbers("tick"), Exact(log[i]),
         Wants(log[i].meta, log[i].tick), NEW name \in Names, Fails(Logged(log[i].tick), name)
  PROVE  name \in Failed(log[i].meta, log[i].tick)
<1> DEFINE t == log[i].tick
           u == Logged(t)
           m == log[i].meta
<1>1. /\ t \in Ticks /\ m \in Metas /\ m = MetaDoc /\ MetaDoc.minSize \in Nat
      /\ SameSureness(t, MetaDoc.rate)
      /\ Share(t) \notin MetaDoc.minSize * 10000 - 50 .. MetaDoc.minSize * 10000 - 1
      /\ t.ask # NoAsk /\ 1000 < Cfg.participation * Cfg.liquidity =>
           Even(t) /\ (Cfg.stake * 10000) % t.ask = 0
  BY ExactIs
<1>2. /\ t.ask # NoAsk /\ t.depth > 0 /\ t.ask <= Cfg.maxPrice
      /\ Edge(Sureness(t), t.ask, m.rate) >= Cfg.minEdge
  BY DEF Wants
<1>3. Fails(u, name)
  OBVIOUS
<1> HIDE DEF t, m
<1>4. u.ask = t.ask /\ u.depth = t.depth /\ u.flag = t.flag /\ Sureness(u) \in Int
  BY <1>1, LoggedIs
<1>5. CASE name = "no_ask_quoted"
  BY <1>1, <1>2, <1>3, <1>4, <1>5, NumbersAre DEF Fails
<1>6. CASE name = "ask_above_price_cap"
  <2>1. t.ask > Cfg.maxPrice
    BY <1>3, <1>4, <1>6 DEF Fails
  <2>2. t.ask \in Int /\ Cfg.maxPrice \in Int
    BY <1>1, <1>2, NumbersAre, SignalsAssumption
  <2> QED
    BY <1>2, <2>1, <2>2
<1>7. CASE name = "edge_below_min_after_fees"
  <2> DEFINE e == Edge(Sureness(u), t.ask, m.rate)
  <2>1. e < Cfg.minEdge
    BY <1>1, <1>3, <1>4, <1>7 DEF Fails
  <2>2. e >= Cfg.minEdge
    BY <1>1, <1>2 DEF SameSureness
  <2>3. e \in Int
    BY <1>1, <1>2, <1>4, EdgeIs
  <2>4. Cfg.minEdge \in Int
    BY SignalsAssumption
  <2> HIDE DEF e
  <2> QED
    BY <2>1, <2>2, <2>3, <2>4
<1>8. CASE name = "below_min_size"
  <2> DEFINE k == MetaDoc.minSize
  <2>1. k \in Nat /\ (Share(t) < k * 10000 \/ Cfg.stake * 100 < k * t.ask)
    BY <1>1, <1>3, <1>4, <1>8 DEF Fails, TooSmall, Share
  <2>2. Share(t) \notin k * 10000 - 50 .. k * 10000 - 1
    BY <1>1
  <2> HIDE DEF k
  <2>3. Size(t) < k * 100
    BY <1>1, <1>2, <2>1, <2>2, TooSmallIs
  <2>4. m.minSize = k
    BY <1>1 DEF k
  <2> QED
    BY <1>8, <2>3, <2>4 DEF Failed, t, m
<1>9. CASE name \in {"tie_band", "chainlink_stale", "book_dirty"}
  <2>1. t.flag = name /\ name # "none"
    BY <1>3, <1>4, <1>9 DEF Fails
  <2> QED
    BY <2>1 DEF Failed, t, m
<1>10. CASE name = "thin_book"
  <2>1. ThinBook(t)
    BY <1>3, <1>4, <1>10 DEF Fails, ThinBook
  <2>2. Even(t) /\ (Cfg.stake * 10000) % t.ask = 0
    BY <1>1, <1>2, <2>1 DEF ThinBook
  <2>3. t.depth * 10 < Size(t) * Cfg.liquidity
    BY <1>1, <1>2, <2>1, <2>2, ThinIs
  <2> QED
    BY <1>10, <2>3 DEF Failed, t, m
<1> QED
  BY <1>5, <1>6, <1>7, <1>8, <1>9, <1>10 DEF Names

(* A tick that the report finds nothing wrong with is one the sniper wants:  *)
(* by then it has shot.                                                      *)
LEMMA WantedIs ==
  ASSUME SignalsInv, NEW i \in Numbers("tick"), Exact(log[i]),
         Sure(Logged(log[i].tick)), log[i].tick.ask # NoAsk, log[i].tick.depth > 0,
         log[i].tick.ask <= Cfg.maxPrice,
         Edge(Sureness(Logged(log[i].tick)), log[i].tick.ask, MetaDoc.rate) >= Cfg.minEdge
  PROVE  \E j \in Said("tick") : j <= i /\ log[j].shot
<1>1. /\ i \in Said("tick") /\ log[i].tick \in Ticks
      /\ log[i].meta = MetaDoc /\ log[i].meta.feesKnown
      /\ SameSureness(log[i].tick, MetaDoc.rate) /\ Share(log[i].tick) \notin 1 .. 49
  BY ExactIs
<1>2. Size(log[i].tick) > 0
  BY <1>1, SizeIsPositive
<1>3. Sure(log[i].tick) /\ Edge(Sureness(log[i].tick), log[i].tick.ask, MetaDoc.rate) >= Cfg.minEdge
  BY <1>1 DEF SameSureness
<1>4. Wants(log[i].meta, log[i].tick)
  BY <1>1, <1>2, <1>3 DEF Wants
<1>5. i \in Nat /\ i \in DOMAIN log /\ Tells(log, i)
  BY <1>1, DocIs
<1>6. CASE log[i].shot
  BY <1>1, <1>5, <1>6
<1>7. CASE ~ log[i].shot
  <2>1. ShotBy(log, i)
    BY <1>4, <1>5, <1>7 DEF Tells
  <2>2. PICK j \in DOMAIN log : j <= i /\ ShotIn(log, j)
    BY <2>1 DEF ShotBy
  <2> QED
    BY <2>2 DEF ShotIn, Said
<1> QED
  BY <1>6, <1>7

LEMMA SweepFollows == SignalsInv => SweepIsPossible
<1> SUFFICES ASSUME SignalsInv, NEW s \in Stricter,
                    NEW i \in Swept(s[1], s[2]), Exact(log[i])
             PROVE  \E j \in Said("tick") : j <= i /\ log[j].shot
  BY DEF SweepIsPossible
<1>1. i \in Numbers("tick") /\ SweepHits(Logged(log[i].tick), s[1], s[2])
  BY DEF Swept
<1> DEFINE t == log[i].tick
           u == Logged(t)
<1>2. t \in Ticks
  BY <1>1, ExactIs
<1>3. u.ask = t.ask /\ u.depth = t.depth /\ Sureness(u) \in Int
  BY <1>2, LoggedIs
<1>4. /\ t.ask # NoAsk /\ t.depth > 0 /\ t.ask <= s[2] /\ Sureness(u) >= s[1]
      /\ Edge(Sureness(u), t.ask, MetaDoc.rate) >= Cfg.minEdge
  <2> HIDE DEF t
  <2>1. SweepHits(u, s[1], s[2])
    BY <1>1 DEF t
  <2> QED
    BY <1>3, <2>1 DEF SweepHits
<1>5. s[1] \in Int /\ s[2] \in Int /\ s[1] >= Cfg.pMin /\ s[2] <= Cfg.maxPrice
  BY SMT DEF Stricter, SweepPMin, SweepMaxPrice
<1>6. t.ask \in Int /\ Cfg.pMin \in Int /\ Cfg.maxPrice \in Int
  BY <1>2, <1>4, NumbersAre, SignalsAssumption
<1>7. t.ask <= Cfg.maxPrice /\ Sure(u)
  BY <1>3, <1>4, <1>5, <1>6 DEF Sure
<1> QED
  BY <1>1, <1>4, <1>7, WantedIs

LEMMA MissesFollow == SignalsInv => MissesExplained
<1> SUFFICES ASSUME SignalsInv, Missed,
                    NEW i \in Qualifying, Exact(log[i])
             PROVE  /\ log[i].failed # {} => Reason(i) \in log[i].failed \cup {"blocked"}
                    /\ log[i].shot /\ log[i].failed = {} =>
                         Reason(i) \in {"would_fire_unexplained", "blocked"}
                    /\ Reason(i) = "would_fire_unexplained" =>
                         row \in {"pending", "lost"} \/ BlockedUnseen(i)
  BY DEF MissesExplained
<1> DEFINE t == log[i].tick
           u == Logged(t)
           fail == FirstFail(u)
<1> HIDE DEF fail
<1>1. i \in Numbers("tick") /\ i \in Said("tick") /\ Sure(u)
  BY DEF Qualifying, Numbers
<1>2. t \in Ticks /\ log[i].meta = MetaDoc /\ log[i].meta \in Metas
  BY <1>1, ExactIs
<1>3. Reason(i) = IF fail # "none" THEN fail
                          ELSE IF Blocked THEN "blocked" ELSE "would_fire_unexplained"
  BY DEF Reason, fail
<1>4. \/ fail = "none" /\ \A name \in Names : ~ Fails(u, name)
      \/ fail \in Names /\ Fails(u, fail)
  <2> HIDE DEF u
  <2> QED
    BY FirstFailIs DEF fail
<1>5. Tells(log, i)
  BY <1>1, DocIs
<1>6. log[i].shot /\ fail # "none" => fail \in log[i].failed
  <2> SUFFICES ASSUME log[i].shot, fail # "none"
               PROVE  fail \in log[i].failed
    OBVIOUS
  <2>1. Wants(log[i].meta, t) /\ log[i].failed = Failed(log[i].meta, t)
    BY <1>5 DEF Tells, Shot
  <2>2. fail \in Names /\ Fails(u, fail)
    BY <1>4
  <2> QED
    BY <1>1, <2>1, <2>2, FilterIsGate
<1>7. log[i].failed # {} => log[i].shot /\ Blocked
  BY <1>1, <1>5 DEF Tells, Blocked
<1>8. Names \cap {"would_fire_unexplained", "blocked"} = {}
  BY DEF Names
<1>9. ASSUME Reason(i) = "would_fire_unexplained"
      PROVE  row \in {"pending", "lost"} \/ BlockedUnseen(i)
  <2>1. fail = "none" /\ ~ Blocked
    BY <1>3, <1>4, <1>8, <1>9
  <2>2. ~ Fails(u, "no_ask_quoted") /\ ~ Fails(u, "ask_above_price_cap") /\ ~ Fails(u, "edge_below_min_after_fees")
    BY <1>4, <2>1 DEF Names
  <2>3. u.ask = t.ask /\ u.depth = t.depth /\ Sureness(u) \in Int
    BY <1>2, LoggedIs
  <2>4. t.ask # NoAsk /\ t.depth # 0 /\ ~ (t.ask > Cfg.maxPrice)
        /\ ~ (Edge(Sureness(u), t.ask, MetaDoc.rate) < Cfg.minEdge)
    BY <2>2, <2>3 DEF Fails
  <2>5. /\ t.depth \in Nat /\ t.ask \in Int /\ Cfg.maxPrice \in Int /\ Cfg.minEdge \in Int
        /\ Edge(Sureness(u), t.ask, MetaDoc.rate) \in Int
    BY <1>2, <2>3, <2>4, NumbersAre, EdgeIs, SignalsAssumption
  <2>6. t.depth > 0 /\ t.ask <= Cfg.maxPrice
        /\ Edge(Sureness(u), t.ask, MetaDoc.rate) >= Cfg.minEdge
    BY <2>4, <2>5
  <2>7. PICK j \in Said("tick") : j <= i /\ log[j].shot
    BY <1>1, <2>4, <2>6, WantedIs
  <2>8. CASE log[j].failed = {}
    <3>1. row # "none"
      BY <2>7, <2>8, DocIs DEF SignalsInv, Ordered, ShotIn
    <3> QED
      BY <3>1 DEF SignalsInv, Missed
  <2>9. CASE log[j].failed # {}
    <3>1. j \in unwritten
      BY <2>1, <2>7, <2>9 DEF Blocked, Numbers
    <3>2. i \notin unwritten /\ i \in Nat /\ j \in Nat
      BY <1>1, <2>7, DocIs DEF Numbers
    <3> QED
      BY <2>7, <2>9, <3>1, <3>2 DEF BlockedUnseen
  <2> QED
    BY <2>8, <2>9
<1>10. log[i].failed # {} => Reason(i) \in log[i].failed \cup {"blocked"}
  BY <1>3, <1>6, <1>7
<1>11. log[i].shot /\ log[i].failed = {} => Reason(i) \in {"would_fire_unexplained", "blocked"}
  BY <1>3, <1>6
<1> QED
  BY <1>9, <1>10, <1>11

(* Every step keeps the invariant, so it holds in every state.               *)
LEMMA SignalsInvariant == SignalsSpec => []SignalsInv
<1>1. SignalsInit => SignalsInv
  BY SignalsStart
<1>2. SignalsInv /\ [SignalsNext]_signalsVars => SignalsInv'
  BY SignalsKeeps
<1> QED
  BY <1>1, <1>2, PTL DEF SignalsSpec

(* Every variable has its type: whatever is logged of a tick, a rate that is *)
(* used is one the exchange gave, and only a shot can fail at a gate.        *)
THEOREM SignalsTyped == SignalsSpec => []SignalsTypeOK
<1>1. SignalsInv => SignalsTypeOK
  BY TypesFollow
<1> QED
  BY <1>1, SignalsInvariant, PTL

(* Whatever the thresholds, the ticks and the fee rates are, with a stake    *)
(* that is positive and no larger than a window may take, and whichever      *)
(* lines the recorder drops: where what the report reads rounded decides     *)
(* nothing, a blocked shot is put down to its gate, a shot that passed is    *)
(* not explained away, an anomaly is an order whose row is missing or a      *)
(* blocked shot whose line is, and stricter thresholds count no trade the    *)
(* sniper would not have tried.                                              *)
THEOREM SignalsExplained == SignalsSpec => []ReportExplains
<1>1. SignalsInv => ReportExplains
  BY MissesFollow, SweepFollows DEF ReportExplains
<1> QED
  BY <1>1, SignalsInvariant, PTL
=============================================================================
