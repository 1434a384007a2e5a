----------------------------- MODULE LiveOrders -----------------------------
(* The order manager (exec/order_manager.py) on the live adapter             *)
(* (exec/live_exchange.py) and the user channel (feeds/clob_user_ws.py).     *)
(* sign, post, cancel and cancel-all are requests of a library that run in   *)
(* executor threads: the coroutine that awaits one is suspended, several are *)
(* on their way at once, one that raises may have been carried out, or be    *)
(* carried out later, or never.  The exchange matches an order from the      *)
(* moment it arrives, acked or not, and reports each trade several times     *)
(* over a channel that loses what is sent while it is down.  What is lost is *)
(* what never comes: no request or report has to be carried out.             *)
(*                                                                           *)
(* Each trade is of one lot.  The channel's callback is OrderManager's       *)
(* apply_fill, whose type on_fill has; main.py does not connect it yet.      *)
EXTENDS OrderManager, FiniteSets

CONSTANTS
  Orders,      \* client ids
  WindowOf,    \* the window each order is drafted in
  Size,        \* its size in lots
  LastWindow,  \* bound: windows are 0 .. LastWindow
  MaxReports   \* reports of a trade: matched, mined, confirmed

ASSUME OrdersAssumption ==
  /\ LastWindow \in Nat /\ MaxReports \in Nat \ {0}
  /\ WindowOf \in [Orders -> 0 .. LastWindow]
  /\ Size \in [Orders -> Nat \ {0}]

Windows  == 0 .. LastWindow
StopNow  == LastWindow + 1  \* engine.stop, for the current session
StopNext == LastWindow + 2  \* and for the one that is prefetched
Sweepers == Windows \cup {StopNow, StopNext}
Nobody   == LastWindow + 3
Trades  == UNION {{<<o, i>> : i \in 1 .. Size[o]} : o \in Orders}
Of(o)   == {t \in Trades : t[1] = o}

VARIABLES
  om,       \* ManagedOrder of each client id
  known,    \* the orders of _by_exchange_id
  seen,     \* seen_trade_ids of all orders
  task,     \* where submit is with the order
  window,   \* the current session
  closing,  \* its teardown awaits the cancel-all
  stop,     \* how far the shutdown is, and in which window it began
  ex,       \* the order at the exchange
  matched,  \* lots the exchange has matched
  left,     \* reports of a trade that are still to come
  missed,   \* reports that came for an order not known
  cancels,  \* cancel requests on their way
  sweeps,   \* cancel-all requests on their way, by who asked
  swept,    \* who has asked and been served
  raised,   \* who has asked and been answered with an exception
  onWay,    \* orders that were being submitted when their window was swept
  sweptBy   \* whose cancel-all canceled the order

manager  == <<om, known, seen, task>>
exchange == <<ex, matched, onWay, sweptBy>>
engine   == <<window, closing, stop>>
channel  == <<left, missed>>
sweeping == <<sweeps, swept, raised>>
vars == <<manager, exchange, channel, sweeping, engine, cancels>>

Stages == {"running", "first", "second", "draining"}

TypeOK ==
  /\ om \in [Orders -> ManagedOrder]
  /\ known \in SUBSET Orders /\ seen \in SUBSET Trades
  /\ task \in [Orders -> {"none", "signing", "posting", "over"}]
  /\ window \in Windows /\ closing \in BOOLEAN
  /\ stop \in [stage : Stages, window : Windows]
  /\ ex \in [Orders -> {"away", "wire", "open", "refused", "ended"}]
  /\ \A o \in Orders : matched[o] \in 0 .. Size[o]
  /\ left \in [Trades -> 0 .. MaxReports] /\ missed \in [Trades -> 0 .. MaxReports]
  /\ cancels \in SUBSET Orders
  /\ sweeps \in SUBSET Sweepers
  /\ swept \in SUBSET Sweepers
  /\ raised \in SUBSET Sweepers
  /\ onWay \in SUBSET Orders
  /\ sweptBy \in [Orders -> Sweepers \cup {Nobody}]

Init ==
  /\ om = [o \in Orders |-> NoOrder]
  /\ known = {} /\ seen = {}
  /\ task = [o \in Orders |-> "none"]
  /\ window = 0 /\ closing = FALSE
  /\ stop = [stage |-> "running", window |-> 0]
  /\ ex = [o \in Orders |-> "away"]
  /\ matched = [o \in Orders |-> 0]
  /\ left = [t \in Trades |-> 0] /\ missed = [t \in Trades |-> 0]
  /\ cancels = {} /\ sweeps = {} /\ swept = {} /\ raised = {}
  /\ onWay = {} /\ sweptBy = [o \in Orders |-> Nobody]

-----------------------------------------------------------------------------
(* The engine drafts an order of the current session and spawns the task     *)
(* that submits it.  stop does not keep the feeds from evaluating.           *)
Draft(o) ==
  /\ om[o].state = "NONE"
  /\ WindowOf[o] = window /\ ~closing
  /\ om' = [om EXCEPT ![o] = Drafted]
  /\ task' = [task EXCEPT ![o] = "signing"]
  /\ UNCHANGED <<known, seen, exchange, channel, sweeping, engine, cancels>>

(* sign has returned: the order is on its way to the exchange.               *)
Signed(o) ==
  /\ task[o] = "signing"
  /\ om' = [om EXCEPT ![o] = Transition(Transition(@, "SIGNED"), "SENT")]
  /\ task' = [task EXCEPT ![o] = "posting"]
  /\ ex' = [ex EXCEPT ![o] = "wire"]
  /\ UNCHANGED <<known, seen, matched, onWay, sweptBy, channel, sweeping, engine, cancels>>

(* sign raises: submit catches a network error and rejects the order; any    *)
(* other exception ends the task and leaves a draft.                         *)
SignFails(o) ==
  /\ task[o] = "signing"
  /\ \E network \in BOOLEAN :
       om' = IF network THEN [om EXCEPT ![o] = Transition(@, "REJECTED")] ELSE om
  /\ task' = [task EXCEPT ![o] = "over"]
  /\ UNCHANGED <<known, seen, exchange, channel, sweeping, engine, cancels>>

(* After place, an order that a fill has already moved is left as it is.     *)
Answered(o, new) ==
  /\ task[o] = "posting"
  /\ om' = IF om[o].state \in Terminal \cup {"PARTIAL"} THEN om
           ELSE [om EXCEPT ![o] = Transition(@, new)]
  /\ task' = [task EXCEPT ![o] = "over"]
  /\ UNCHANGED <<seen, exchange, channel, sweeping, engine, cancels>>

(* place answers with the exchange id.                                       *)
Acked(o) ==
  /\ ex[o] \in {"open", "ended"}
  /\ Answered(o, "ACKED")
  /\ known' = IF om'[o].state = "ACKED" THEN known \cup {o} ELSE known

(* place answers with an error: the exchange has refused, or the request has *)
(* raised, whatever became of it.                                            *)
Rejected(o) ==
  /\ Answered(o, "REJECTED")
  /\ UNCHANGED known

(* request_cancel: flagged, and sent if the order has its exchange id.       *)
RequestCancel(o) ==
  /\ IsOpen(om[o])
  /\ om' = [om EXCEPT ![o] = CancelFlagged(@)]
  /\ cancels' = IF o \in known THEN cancels \cup {o} ELSE cancels
  /\ UNCHANGED <<known, seen, task, exchange, channel, sweeping, engine>>

-----------------------------------------------------------------------------
(* cancel_all_for_session, by who: the open orders of window w are flagged   *)
(* and the global cancel-all is sent.                                        *)
CancelAll(who, w) ==
  /\ om' = [o \in Orders |-> IF WindowOf[o] = w THEN CancelFlagged(om[o]) ELSE om[o]]
  /\ sweeps' = sweeps \cup {who}

(* It returns: carried out, or with an exception that is swallowed, and then *)
(* it may have been carried out, or be later, or never.                      *)
Returns(who) ==
  \/ who \in swept /\ UNCHANGED raised
  \/ raised' = raised \cup {who}

(* Mutant: the teardown does not wait for the cancel-all.                    *)
BadClose ==
  /\ ~closing /\ stop.stage = "running" /\ window < LastWindow
  /\ CancelAll(window, window)
  /\ window' = window + 1
  /\ UNCHANGED <<known, seen, task, exchange, channel, swept, raised, closing, stop, cancels>>

(* The window has closed: no evaluation until the next one is current.       *)
Close ==
  /\ ~closing /\ stop.stage = "running"
  /\ closing' = TRUE
  /\ CancelAll(window, window)
  /\ UNCHANGED <<known, seen, task, exchange, channel, swept, raised, window, stop, cancels>>

Closed ==
  /\ closing /\ window < LastWindow
  /\ Returns(window)
  /\ window' = window + 1
  /\ closing' = FALSE
  /\ UNCHANGED <<manager, exchange, channel, sweeps, swept, stop, cancels>>

(* engine.stop: a cancel-all for the session that is current and one for the *)
(* next, if it has been prefetched; then the tasks are cancelled.  The feeds *)
(* are stopped after that (main.py:157) and evaluate until then; the process *)
(* ends somewhere later, so every behaviour that ends is the beginning of one*)
(* that goes on.                                                             *)
Stop ==
  /\ stop.stage = "running"
  /\ stop' = [stage |-> "first", window |-> window]
  /\ CancelAll(StopNow, window)
  /\ UNCHANGED <<known, seen, task, exchange, channel, swept, raised, window, closing, cancels>>

StopAgain ==
  /\ stop.stage = "first"
  /\ Returns(StopNow)
  /\ stop' = [stop EXCEPT !.stage = "second"]
  /\ CancelAll(StopNext, stop.window + 1)
  /\ UNCHANGED <<known, seen, task, exchange, channel, swept, window, closing, cancels>>

Cut == task' = [o \in Orders |-> IF task[o] = "none" THEN "none" ELSE "over"]

Stopped ==
  /\ \/ stop.stage = "first" /\ Returns(StopNow)
     \/ stop.stage = "second" /\ Returns(StopNext)
  /\ stop' = [stop EXCEPT !.stage = "draining"]
  /\ Cut
  /\ UNCHANGED <<om, known, seen, exchange, channel, sweeps, swept, window, closing, cancels>>

-----------------------------------------------------------------------------
(* A match of one lot, whose reports are now to come.                        *)
Match(o, n) ==
  /\ matched' = [matched EXCEPT ![o] = @ + n]
  /\ left' = [t \in Trades |->
       IF t[1] = o /\ t[2] \in matched[o] + 1 .. matched[o] + n THEN MaxReports ELSE left[t]]
  /\ UNCHANGED missed

(* The order arrives and is refused, or takes what it can; the rest stays,   *)
(* or is over if the order may not rest.                                     *)
Arrive(o) ==
  /\ ex[o] = "wire"
  /\ \/ ex' = [ex EXCEPT ![o] = "refused"] /\ UNCHANGED <<matched, channel>>
     \/ \E n \in 0 .. Size[o], rests \in BOOLEAN :
          /\ ex' = [ex EXCEPT ![o] = IF rests /\ n < Size[o] THEN "open" ELSE "ended"]
          /\ Match(o, n)
  /\ UNCHANGED <<manager, onWay, sweptBy, sweeping, engine, cancels>>

(* A resting order is matched.                                               *)
Matches(o) ==
  /\ ex[o] = "open"
  /\ Match(o, 1)
  /\ ex' = IF matched'[o] = Size[o] THEN [ex EXCEPT ![o] = "ended"] ELSE ex
  /\ UNCHANGED <<manager, onWay, sweptBy, sweeping, engine, cancels>>

(* A cancel arrives.                                                         *)
CancelArrives(o) ==
  /\ o \in cancels
  /\ cancels' = cancels \ {o}
  /\ ex' = [ex EXCEPT ![o] = IF @ = "open" THEN "ended" ELSE @]
  /\ UNCHANGED <<manager, matched, onWay, sweptBy, channel, sweeping, engine>>

(* The exchange cancels all orders of the account, whatever their window.    *)
Reached == {o \in Orders : ex[o] = "open"}

Sweep(who) ==
  /\ who \in sweeps
  /\ sweeps' = sweeps \ {who}
  /\ swept' = swept \cup {who}
  /\ ex' = [o \in Orders |-> IF o \in Reached THEN "ended" ELSE ex[o]]
  /\ sweptBy' = [o \in Orders |-> IF o \in Reached THEN who ELSE sweptBy[o]]
  /\ onWay' = onWay \cup {o \in Orders : WindowOf[o] = who
                                        /\ (task[o] = "signing" \/ ex[o] = "wire")}
  /\ UNCHANGED <<manager, matched, channel, raised, engine, cancels>>

(* Mutant: the trade id is remembered before the order is looked up.         *)
BadKept(t) == seen \cup {t}

(* Mutant: the order's id is remembered instead of the trade's.              *)
BadKeptId(t) == IF t[1] \in known THEN seen \cup {t[1]} ELSE seen

Kept(t) == IF t[1] \in known THEN seen \cup {t} ELSE seen

(* A trade event of the user channel: apply_fill.  An order that is not      *)
(* known is an incident, a trade that has been seen is left alone.           *)
Report(t) ==
  /\ left[t] > 0
  /\ left' = [left EXCEPT ![t] = @ - 1]
  /\ seen' = Kept(t)
  /\ IF t[1] \in known
     THEN /\ om' = IF t \in seen THEN om ELSE [om EXCEPT ![t[1]] = ApplyFill(@, 1, Size[t[1]])]
          /\ UNCHANGED missed
     ELSE /\ missed' = [missed EXCEPT ![t] = @ + 1]
          /\ UNCHANGED om
  /\ UNCHANGED <<known, task, exchange, sweeping, engine, cancels>>

Next ==
  \/ \E o \in Orders :
       \/ Draft(o) \/ Signed(o) \/ SignFails(o) \/ Acked(o) \/ Rejected(o)
       \/ RequestCancel(o) \/ Arrive(o) \/ Matches(o) \/ CancelArrives(o)
  \/ Close \/ Closed \/ Stop \/ StopAgain \/ Stopped
  \/ \E who \in Sweepers : Sweep(who)
  \/ \E t \in Trades : Report(t)

Spec == Init /\ [][Next]_vars

-----------------------------------------------------------------------------
(* A trade is in the ledger, once, if and only if one of its reports came    *)
(* after the order's id was known: reports that repeat it, precede the ack   *)
(* or concern another trade of the order change nothing, none raises, and    *)
(* what the manager holds as filled is what was booked.                      *)
BookedExactly ==
  /\ \A t \in Trades : t \in seen <=> t[2] <= matched[t[1]] /\ left[t] + missed[t] < MaxReports
  /\ \A o \in Orders :
       /\ om[o].booked = Cardinality(seen \cap Of(o))
       /\ om[o].filled = om[o].booked /\ ~om[o].raised

(* cancel_all is global at the exchange, and only the engine's sequence      *)
(* keeps it to one window: an order is canceled by the teardown of its own   *)
(* window; by an earlier one only if that one's request had raised and came  *)
(* late; by a later one only if its own window's missed it.                  *)
CanceledByOwn ==
  \A o \in Orders : sweptBy[o] \in Windows =>
    \/ sweptBy[o] = WindowOf[o]
    \/ sweptBy[o] < WindowOf[o] /\ sweptBy[o] \in raised
    \/ sweptBy[o] > WindowOf[o] /\ (o \in onWay \/ WindowOf[o] \in raised)

(* And what a window whose teardown is over leaves open at the exchange was  *)
(* on its way there then, or the teardown's request had raised.              *)
LeftByRace ==
  \A o \in Orders : ex[o] = "open" /\ WindowOf[o] < window => o \in onWay \/ WindowOf[o] \in raised

WindowsApart == CanceledByOwn /\ LeftByRace

(* The manager keeps the promise of OrderContract with this adapter too, but *)
(* with every order as one that may rest: expire_unfilled is called by the   *)
(* shadow exchange only (engine.py:112), so a FAK order that was filled in   *)
(* part stays open here.                                                     *)
Contract == INSTANCE OrderContract WITH
  Tif     <- [o \in Orders |-> "GTC"],
  promise <- [o \in Orders |-> [status |-> StatusOf(om[o]), filled |-> om[o].filled]]

KeepsContract == Contract!Spec
=============================================================================
