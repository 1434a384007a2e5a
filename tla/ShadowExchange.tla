--------------------------- MODULE ShadowExchange ---------------------------
(* sim/shadow_exchange.py driven by the engine: drafted orders are submitted *)
(* by a background task, wait one sampled round trip, and then take visible  *)
(* depth or rest behind the visible queue; cancels wait a round trip of      *)
(* their own; the trade tape fills resting orders; the end of a window       *)
(* cancels everything, and settlement stops tracking the window's books and  *)
(* drops its fee model.                                                      *)
(*                                                                           *)
(* Everything here runs on one event loop and neither sign, place nor cancel *)
(* of this adapter ever suspends, so each action is one uninterrupted        *)
(* handler.                                                                  *)
EXTENDS ShadowOrder

CONSTANTS
  Orders,    \* client ids
  Sessions,  \* window slugs
  Intent     \* what each order asks for: its window, time in force and size

ASSUME IntentAssumption ==
  Intent \in [Orders -> [session: Sessions, tif: Tifs, size: Nat \ {0}]]

VARIABLES
  orders,  \* order manager and exchange side of each order
  book,    \* what the mirrored book of a window shows
  market   \* "open", then "closed" at T-0, then "settled"

vars == <<orders, book, market>>

-----------------------------------------------------------------------------
(* Mutant: settlement keeps the books and the fee model.                     *)
BadTracked(s) == TRUE

(* A window is tracked, and its fee model known, until it is settled.        *)
Tracked(s) == market[s] # "settled"
View(s)    == IF Tracked(s) THEN book[s] ELSE Hidden
Of(o)      == Intent[o].session

TypeOK ==
  /\ orders \in [Orders -> OrderRecords]
  /\ book \in [Sessions -> BookViews]
  /\ market \in [Sessions -> {"open", "closed", "settled"}]

Init ==
  /\ orders = [o \in Orders |-> Unplaced]
  /\ book = [s \in Sessions |-> Hidden]
  /\ market = [s \in Sessions |-> "open"]

(* The engine drafts an allowed intent and spawns the task that submits it.  *)
Draft(o) ==
  /\ orders[o].om.state = "NONE"
  /\ market[Of(o)] = "open"
  /\ View(Of(o)).visible
  /\ orders' = [orders EXCEPT ![o].om = Drafted]
  /\ UNCHANGED <<book, market>>

(* The spawned task: sign, place and ack without a suspension.               *)
Submit(o) ==
  /\ orders[o].om.state = "DRAFT"
  /\ \E rtt \in Rtts :
       orders' = [orders EXCEPT ![o].om = Submitted(@),
                                ![o].place = "pending",
                                ![o].left = rtt]
  /\ UNCHANGED <<book, market>>

(* A strategy cancels one of its working orders.                             *)
RequestCancel(o) ==
  /\ orders[o].om.state \in Working
  /\ \E rtt \in Rtts :
       orders' = [orders EXCEPT ![o] = ScheduleCancel(Flagged(@), rtt)]
  /\ UNCHANGED <<book, market>>

(* T-0 of a window: no more drafts, and cancel-all.                          *)
CloseSession(s) ==
  /\ market[s] = "open"
  /\ market' = [market EXCEPT ![s] = "closed"]
  /\ \E rtt \in [Orders -> Rtts] :
       orders' = [o \in Orders |->
         IF Of(o) = s THEN CancelAll(orders[o], rtt[o]) ELSE orders[o]]
  /\ UNCHANGED book

(* Settlement untracks the books and drops the fee model.                    *)
Settle(s) ==
  /\ market[s] = "closed"
  /\ market' = [market EXCEPT ![s] = "settled"]
  /\ book' = [book EXCEPT ![s] = Hidden]
  /\ UNCHANGED orders

(* process_due for all orders against the views v.                           *)
Pumped(x, o, v) == ProcessDue(x, Intent[o], v, Tracked(Of(o)))

(* A feed event or the housekeeping tick that changes no book.               *)
Pump ==
  /\ orders' = [o \in Orders |-> Pumped(orders[o], o, View(Of(o)))]
  /\ UNCHANGED <<book, market>>

(* A book frame: the mirror is updated first, then everything due is run.    *)
BookFrame(s, b) ==
  /\ Tracked(s)
  /\ book' = [book EXCEPT ![s] = b]
  /\ orders' = [o \in Orders |->
       Pumped(orders[o], o, IF Of(o) = s THEN b ELSE View(Of(o)))]
  /\ UNCHANGED market

(* A reconnect or a bad frame dirties the book, a REST snapshot restores it; *)
(* neither runs what is due.                                                 *)
BookQuiet(s, b) ==
  /\ Tracked(s)
  /\ book' = [book EXCEPT ![s] = b]
  /\ UNCHANGED <<orders, market>>

(* A print of size n that goes through the price of the orders in through.   *)
Trade(s, n, through) ==
  /\ Tracked(s)
  /\ orders' = [o \in Orders |->
       Pumped(IF o \in through
              THEN AfterTrade(orders[o], Intent[o], n, Tracked(s))
              ELSE orders[o],
              o, View(Of(o)))]
  /\ UNCHANGED <<book, market>>

(* Time passes; nothing runs by itself.                                      *)
Advance ==
  /\ orders' = [o \in Orders |-> Tick(orders[o])]
  /\ UNCHANGED <<book, market>>

RestingIn(s) == {o \in Orders : Of(o) = s /\ orders[o].place = "resting"}

Next ==
  \/ \E o \in Orders : Draft(o) \/ Submit(o) \/ RequestCancel(o)
  \/ \E s \in Sessions : CloseSession(s) \/ Settle(s)
  \/ \E s \in Sessions, b \in BookViews : BookFrame(s, b) \/ BookQuiet(s, b)
  \/ \E s \in Sessions, n \in Depths \ {0} :
       \E through \in SUBSET RestingIn(s) : Trade(s, n, through)
  \/ Pump
  \/ Advance

Spec == Init /\ [][Next]_vars

(* The loop runs every spawned task, the clock advances, and the engine's    *)
(* housekeeping ticker pumps for as long as the engine runs.                 *)
Fairness == WF_vars(Advance) /\ WF_vars(Pump) /\ \A o \in Orders : WF_vars(Submit(o))
LiveSpec == Spec /\ Fairness

-----------------------------------------------------------------------------
(* No call of the exchange drives an order through a forbidden transition:   *)
(* an IllegalTransition out of process_due would also lose every other due   *)
(* order, already removed from the pending lists (shadow_exchange.py:141).   *)
NoIllegalTransition == \A o \in Orders : ~orders[o].om.raised

(* The order manager and the exchange agree: an order the exchange holds is  *)
(* open, a pending one untouched, a resting one short of exactly the size    *)
(* that still rests, and an acked order the exchange no longer holds is      *)
(* terminal.                                                                 *)
ExchangeAgrees ==
  \A o \in Orders : LET x == orders[o] IN
    /\ x.place = "pending" => x.om.state = "ACKED" /\ x.om.filled = 0
    /\ x.place = "resting" =>
         /\ x.om.state = (IF x.om.filled = 0 THEN "ACKED" ELSE "PARTIAL")
         /\ x.remaining = Intent[o].size - x.om.filled
         /\ x.remaining > 0
    /\ x.place = "none" => x.om.state \in {"NONE", "DRAFT"} \cup Terminal

(* Every fill the exchange emitted is booked once, never past the order's    *)
(* size, and FILLED means filled in full.                                    *)
FillsBooked ==
  \A o \in Orders : LET m == orders[o].om IN
    /\ m.booked = m.filled
    /\ m.filled <= Intent[o].size
    /\ m.state = "FILLED" <=> m.filled = Intent[o].size

(* Rule 1: a FOK order fills in full or not at all, and no taker stays open  *)
(* after a fill.                                                             *)
TakerFillsOnce ==
  \A o \in Orders : LET m == orders[o].om IN
    /\ Intent[o].tif = "FOK" => m.filled \in {0, Intent[o].size}
    /\ Intent[o].tif \in Takers /\ m.filled > 0 => IsTerminal(m)

(* Rule 3: a resting order is filled only once the queue that was visible    *)
(* ahead of it has traded.                                                   *)
LastInQueue ==
  \A o \in Orders : orders[o].place = "resting" /\ orders[o].om.filled > 0
                      => orders[o].ahead = 0

(* CANCELED only ever follows a request, and the exchange then holds nothing *)
(* of the order.                                                             *)
CanceledWasRequested ==
  \A o \in Orders : orders[o].om.state = "CANCELED" =>
    orders[o].om.cancelRequested /\ orders[o].place = "none"

(* No order is filled, canceled or expired before its round trip is over,    *)
(* unless a cancel overtakes it (rules 1 and 4).                             *)
NothingBeforeRtt ==
  [][\A o \in Orders : LET x == orders[o] IN
       x.place = "pending" /\ orders'[o].place # "pending" =>
         \/ x.left = 0
         \/ orders'[o].om.state = "CANCELED" /\ 0 \in x.cancels]_vars

(* A terminal order never changes again: no late fill in this exchange.      *)
TerminalIsFinal ==
  [][\A o \in Orders : IsTerminal(orders[o].om) => orders'[o].om = orders[o].om]_vars

(* The PnL realised at settlement is final: once a window is settled no      *)
(* order of it is filled, though orders may still be on their way.           *)
SettledIsFinal ==
  [][\A o \in Orders : market[Of(o)] = "settled" =>
       orders'[o].om.booked = orders[o].om.booked]_vars

(* Every drafted taker order ends, whatever happens to its window.           *)
TakerEnds ==
  \A o \in Orders :
    orders[o].om.state = "DRAFT" /\ Intent[o].tif \in Takers ~> IsTerminal(orders[o].om)

(* A cancel the exchange was sent always ends the order.                     *)
CancelLands ==
  \A o \in Orders : orders[o].cancels # {} ~> IsTerminal(orders[o].om)

(* The exchange keeps the promise of OrderContract for every order.          *)
Contract == INSTANCE OrderContract WITH
  Tif     <- [o \in Orders |-> Intent[o].tif],
  Size    <- [o \in Orders |-> Intent[o].size],
  promise <- [o \in Orders |-> [status |-> StatusOf(orders[o].om),
                                filled |-> orders[o].om.filled]]

KeepsContract == Contract!Spec
=============================================================================
