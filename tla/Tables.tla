-------------------------------- MODULE Tables --------------------------------
(* The database of a shadow run (storage/database.py) between the engine     *)
(* that writes it (engine.py), the ledger whose numbers it keeps (pnl.py)    *)
(* and the report that puts trades together from it (m2_edge_report.py),     *)
(* over failing writes, stops, kills and restarts.                           *)
(*                                                                           *)
(* Order ids and trade ids are counted from 1 by every process.  The sniper  *)
(* takes part, with one order per window and process.  A trade is one unit:  *)
(* realised PnL and the number of fills are the same number.                 *)
EXTENDS Integers, FiniteSets, SequencesExt

CONSTANTS
  LastWindow,   \* bound: windows are 0 .. LastWindow, the clock ends after them
  MaxRestarts,  \* bound: processes are 0 .. MaxRestarts
  MaxTaken,     \* bound: levels an order takes
  MaxFailed     \* bound: writes that fail

ASSUME TablesAssumption ==
  /\ LastWindow \in Nat /\ MaxRestarts \in Nat
  /\ MaxTaken \in Nat \ {0} /\ MaxFailed \in Nat

VARIABLES
  now,      \* the window the wall clock is in
  process,  \* how many restarts there were
  loop,     \* "running", "stopping", or "dead" of an exception
  session,  \* this process: state of each window's session
  orders,   \* this process: by client id, the window, what filled, row done with
  trades,   \* this process: _trade_seq
  queue,    \* calls of Database.execute, in the order they asked for the lock
  windowRow, orderRow, fillRows,   \* the tables
  failed,   \* writes that failed
  gaps,     \* windows of which a write failed or was cancelled
  heldBy, drawnBy   \* processes that had a session of a window, drew an id

memory  == <<loop, session, orders, trades>>
tables  == <<windowRow, orderRow, fillRows>>
history == <<failed, gaps, heldBy, drawnBy>>
vars    == <<now, process, memory, queue, tables, history>>

Windows   == 0 .. LastWindow
Processes == 0 .. MaxRestarts
Ids       == 1 .. LastWindow + 1
TradeIds  == 1 .. MaxTaken * (LastWindow + 1)

NoWindow == -1
NoRow    == [settled |-> FALSE, n |-> 0]
Row      == [settled : BOOLEAN, n : 0 .. MaxTaken]

Calls ==
  [table : {"windows"}, window : Windows, row : Row]
    \cup [table : {"orders"}, window : Windows, id : Ids]
    \cup [table : {"fills"}, window : Windows, id : Ids, trade : TradeIds]

TypeOK ==
  /\ now \in 0 .. LastWindow + 1 /\ process \in Processes
  /\ loop \in {"running", "stopping", "dead"}
  /\ session \in [Windows -> {"none", "active", "settling", "done"}]
  /\ orders \in Seq([window : Windows, filled : 0 .. MaxTaken, recorded : BOOLEAN])
  /\ Len(orders) <= LastWindow + 1 /\ trades \in 0 .. MaxTaken * (LastWindow + 1)
  /\ queue \in Seq(Calls)
  /\ windowRow \in [Windows -> Row]
  /\ orderRow \in [Ids -> Windows \cup {NoWindow}]
  /\ fillRows \subseteq Ids \X TradeIds
  /\ failed \in 0 .. MaxFailed /\ gaps \subseteq Windows
  /\ heldBy \in [Windows -> SUBSET Processes] /\ drawnBy \in [Ids -> SUBSET Processes]

Fresh ==
  /\ loop' = "running"
  /\ session' = [w \in Windows |-> "none"]
  /\ orders' = <<>> /\ trades' = 0

Init ==
  /\ now = 0 /\ process = 0 /\ loop = "running"
  /\ session = [w \in Windows |-> "none"]
  /\ orders = <<>> /\ trades = 0
  /\ queue = <<>>
  /\ windowRow = [w \in Windows |-> NoRow]
  /\ orderRow = [i \in Ids |-> NoWindow] /\ fillRows = {}
  /\ failed = 0 /\ gaps = {}
  /\ heldBy = [w \in Windows |-> {}] /\ drawnBy = [i \in Ids |-> {}]

-----------------------------------------------------------------------------
(* The ledger's book of a window: what its orders filled.                    *)
OrdersOf(w) == {i \in DOMAIN orders : orders[i].window = w}
Booked(w)   == IF OrdersOf(w) = {} THEN 0 ELSE orders[CHOOSE i \in OrdersOf(w) : TRUE].filled

(* _snapshot_window: its values are read when it is called.  Nothing is      *)
(* realised before the settlement.                                           *)
Snapshot(w, settled) ==
  [table |-> "windows", window |-> w, row |-> [settled |-> settled, n |-> Booked(w)]]

IsTeardown(x) == x.table = "windows" /\ ~x.row.settled

(* The housekeeping loop awaits the snapshot of its teardown.                *)
LoopFree == loop = "running" /\ \A i \in DOMAIN queue : ~IsTeardown(queue[i])

(* The session of the clock's window is created and made current.            *)
Open ==
  /\ LoopFree /\ now \in Windows /\ session[now] = "none"
  /\ \A w \in Windows : session[w] # "active"
  /\ session' = [session EXCEPT ![now] = "active"]
  /\ heldBy' = [heldBy EXCEPT ![now] = @ \cup {process}]
  /\ UNCHANGED <<now, process, loop, orders, trades, queue, tables, failed, gaps, drawnBy>>

(* Mutant: the sniper forgets that it has fired.                             *)
BadOneShot == TRUE

OneShot == OrdersOf(now) = {}

(* An allowed intent of the sniper: a client id is drawn.  Feeds evaluate    *)
(* until they are stopped, whatever the loop does.                           *)
Draft ==
  /\ now \in Windows /\ session[now] = "active" /\ OneShot
  /\ orders' = Append(orders, [window |-> now, filled |-> 0, recorded |-> FALSE])
  /\ drawnBy' = [drawnBy EXCEPT ![Len(orders')] = @ \cup {process}]
  /\ UNCHANGED <<now, process, loop, session, trades, queue, tables, failed, gaps, heldBy>>

(* The submitting task writes latencies and then the order's row, as late as *)
(* the lock lets it.                                                         *)
RecordOrder(i) ==
  /\ ~orders[i].recorded
  /\ orders' = [orders EXCEPT ![i].recorded = TRUE]
  /\ queue' = Append(queue, [table |-> "orders", window |-> orders[i].window, id |-> i])
  /\ UNCHANGED <<now, process, loop, session, trades, tables, history>>

(* Mutant: a settled window still fills.                                     *)
BadFillable(i) == orders[i].filled = 0

(* A FAK takes all it will take at once.  Settlement drops the fee model,    *)
(* without which nothing fills.                                              *)
Fillable(i) == orders[i].filled = 0 /\ session[orders[i].window] # "done"

Fill(i, n) ==
  /\ Fillable(i)
  /\ orders' = [orders EXCEPT ![i].filled = n]
  /\ trades' = trades + n
  /\ queue' = queue \o [j \in 1 .. n |->
       [table |-> "fills", window |-> orders[i].window, id |-> i, trade |-> trades + j]]
  /\ UNCHANGED <<now, process, loop, session, tables, history>>

(* Teardown: handed to settlement and summed up, in one go.                  *)
Close(w) ==
  /\ LoopFree /\ session[w] = "active" /\ w < now
  /\ session' = [session EXCEPT ![w] = "settling"]
  /\ queue' = Append(queue, Snapshot(w, FALSE))
  /\ UNCHANGED <<now, process, loop, orders, trades, tables, history>>

(* Mutant: a window may settle while its session is the current one.         *)
BadSettleable(w) == session[w] \in {"active", "settling"}

Settleable(w) == session[w] = "settling"

(* The next boundary's print settles the window: summed up again.            *)
Settle(w) ==
  /\ Settleable(w)
  /\ session' = [session EXCEPT ![w] = "done"]
  /\ queue' = Append(queue, Snapshot(w, TRUE))
  /\ UNCHANGED <<now, process, loop, orders, trades, tables, history>>

-----------------------------------------------------------------------------
(* INSERT OR REPLACE by the table's primary key; asyncio.Lock is fair.       *)
Stored(x) ==
  /\ windowRow' = IF x.table = "windows" THEN [windowRow EXCEPT ![x.window] = x.row] ELSE windowRow
  /\ orderRow'  = IF x.table = "orders" THEN [orderRow EXCEPT ![x.id] = x.window] ELSE orderRow
  /\ fillRows'  = IF x.table = "fills" THEN fillRows \cup {<<x.id, x.trade>>} ELSE fillRows

Write ==
  /\ queue # <<>>
  /\ Stored(Head(queue))
  /\ queue' = Tail(queue)
  /\ UNCHANGED <<now, process, memory, history>>

(* sqlite3 raises in the task that writes; in the teardown that task is the  *)
(* engine's loop.                                                            *)
WriteFails ==
  /\ queue # <<>> /\ failed < MaxFailed
  /\ failed' = failed + 1
  /\ gaps' = gaps \cup {Head(queue).window}
  /\ loop' = IF IsTeardown(Head(queue)) /\ loop = "running" THEN "dead" ELSE loop
  /\ queue' = Tail(queue)
  /\ UNCHANGED <<now, process, session, orders, trades, tables, heldBy, drawnBy>>

(* engine.stop cancels its tasks with the rows they write or were to write.  *)
StopEngine ==
  /\ loop # "stopping"
  /\ loop' = "stopping"
  /\ queue' = <<>>
  /\ orders' = [i \in DOMAIN orders |-> [orders[i] EXCEPT !.recorded = TRUE]]
  /\ gaps' = gaps \cup {queue[i].window : i \in DOMAIN queue}
  /\ UNCHANGED <<now, process, session, trades, tables, failed, heldBy, drawnBy>>

(* Killed, or stopped to the end; the next process starts with nothing.      *)
Restart ==
  /\ process < MaxRestarts
  /\ process' = process + 1
  /\ Fresh
  /\ queue' = <<>>
  /\ UNCHANGED <<now, tables, history>>

Tick ==
  /\ now <= LastWindow
  /\ now' = now + 1
  /\ UNCHANGED <<process, memory, queue, tables, history>>

Next ==
  \/ Open \/ Draft \/ Write \/ WriteFails \/ StopEngine \/ Restart \/ Tick
  \/ \E i \in DOMAIN orders : RecordOrder(i) \/ \E n \in 1 .. MaxTaken : Fill(i, n)
  \/ \E w \in Windows : Close(w) \/ Settle(w)

Spec == Init /\ [][Next]_vars

-----------------------------------------------------------------------------
(* The report's trades: one per order row, with the fill rows of its id.     *)
FilledSize(i) == Cardinality({f \in fillRows : f[1] = i})
Trade(i)      == [window |-> orderRow[i], filled |-> FilledSize(i)]
SettledTrades ==
  {i \in Ids : orderRow[i] # NoWindow /\ windowRow[orderRow[i]].settled /\ FilledSize(i) > 0}

(* What the report looks for: a trade whose fills do not make up the PnL the *)
(* ledger wrote for its window.                                              *)
ReconciliationErrors ==
  {i \in SettledTrades : Trade(i).filled # windowRow[Trade(i).window].n}

(* Restarts reuse ids and cut windows in two; nothing else may make the      *)
(* report and the ledger disagree.                                           *)
Reused(i)    == Cardinality(drawnBy[i]) > 1
Straddled(w) == Cardinality(heldBy[w]) > 1
Excused(i)   == Reused(i) \/ Straddled(Trade(i).window) \/ Trade(i).window \in gaps

(* The report finds no error but an excused one, however writes, fills and   *)
(* settlements interleave, and whenever the process is killed; and once      *)
(* nothing is on its way every window this process settled is there as the   *)
(* ledger has it (m2_edge_report.py:425).                                    *)
ReportAgrees ==
  /\ \A i \in ReconciliationErrors : Excused(i)
  /\ queue = <<>> =>
       \A w \in Windows \ gaps :
         session[w] = "done" => windowRow[w] = [settled |-> TRUE, n |-> Booked(w)]

(* The row of a settled window is never replaced: not by the summary of its  *)
(* teardown, which is written in a task of its own, and not by a later       *)
(* process.                                                                  *)
SettledRowStays ==
  [][\A w \in Windows : windowRow[w].settled => windowRow'[w] = windowRow[w]]_vars
=============================================================================
