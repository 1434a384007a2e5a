------------------------------- MODULE Trading -------------------------------
(* The engine's decisions in one window, with the two strategies that trade: *)
(* every pump runs what is due at the shadow exchange, tells the scalper of  *)
(* its fills, evaluates sniper and scalper on one context, gates what they   *)
(* want and drafts it; a background task submits each order and, some        *)
(* database writes later, tells the scalper that its entry has ended.        *)
(*                                                                           *)
(* A context is what the strategies and the gates tell apart, chosen anew at *)
(* each pump.  Prices are 1, so a stake is a size, and fees in shares are    *)
(* left out.  No order of these strategies rests: see Exited.                *)
EXTENDS ShadowOrder, Sequences, Functions

CONSTANTS
  MaxOrders,  \* bound on the orders of the window
  MaxSize,    \* bound on the size of an entry
  MaxStake    \* sizing.max_stake_per_window

ASSUME TradingAssumption ==
  /\ MaxOrders \in Nat \ {0} /\ MaxSize \in Nat \ {0}
  /\ MaxStake \in Nat

VARIABLES
  phase,   \* of the window; evaluate only runs while it is not closed
  orders,  \* the orders of the window in the order they were drafted
  scalp,   \* ScalperStrategy: pending entry and open position
  fired,   \* SniperStrategy._fired_windows has this window
  stake    \* session.stake_used_usdc

vars == <<phase, orders, scalp, fired, stake>>

Tokens == {"UP", "DOWN"}
Phases == {"mid", "armed", "lockout", "closed"}

(* The body of an order's task is at submit, then at its database writes,    *)
(* then done.                                                                *)
Uses    == {"snipe", "entry", "exit"}
Intents == [use: Uses, token: Tokens, tif: {"FAK"}, size: 1 .. MaxSize]
Tasks   == {"queued", "recording", "done"}

(* _open and _pending_entry_client_id.                                       *)
Scalps == [pending: 0 .. MaxOrders, open: BOOLEAN, token: Tokens,
           shares: 0 .. MaxSize, hold: BOOLEAN]

Fresh == [pending |-> 0, open |-> FALSE, token |-> "UP", shares |-> 0, hold |-> FALSE]

(* Where the strategies look for a trade: one shot for the sniper, one entry *)
(* at a time for the scalper, and an exit unless it holds to resolution.     *)
SnipeWanted(f) == phase = "armed" /\ ~f
EntryWanted(s) == phase = "mid" /\ ~s.open /\ s.pending = 0
ExitWanted(s)  == s.open /\ ~s.hold

(* signal: where the sniper's confidence or the scalper's impulse points     *)
(* with enough edge.  exit: what the scalper reads of its position: nothing  *)
(* (no fair value, no fee model, no bid), P >= 0.9, or neither.  failed: the *)
(* worst gate that fails, by whether an exit may ignore it.  Only what can   *)
(* matter is chosen.  The position is read as one of UP whatever was bought, *)
(* since on_fill leaves it at that (scalper.py:233), so exit says nothing    *)
(* about its token.                                                          *)
Contexts(s) ==
  {p \in [signal: {"none"} \cup (IF SnipeWanted(fired) \/ EntryWanted(s) THEN Tokens ELSE {}),
          size: 1 .. MaxSize,
          exit: {"none"} \cup (IF ExitWanted(s) THEN {"sure", "bid"} ELSE {}),
          failed: {"none", "ignorable", "hard"}] :
     /\ p.signal = "none" => p.size = 1
     /\ p.exit = "none" => p.failed # "hard"
     /\ p.exit = "none" /\ p.signal = "none" => p.failed = "none"}

Entry(p, use) == [use |-> use, token |-> p.signal, tif |-> "FAK", size |-> p.size]
CrossOut(s)   == [use |-> "exit", token |-> s.token, tif |-> "FAK", size |-> s.shares]

IsBuy(i) == i.use # "exit"

IsEntry(k) == orders[k].i.use = "entry"
IsScalp(k) == orders[k].i.use # "snipe"

TypeOK ==
  /\ phase \in Phases
  /\ orders \in Seq([x: OrderRecords, i: Intents, task: Tasks])
  /\ Len(orders) <= MaxOrders
  /\ scalp \in Scalps
  /\ fired \in BOOLEAN
  /\ stake \in 0 .. MaxStake

Init ==
  /\ phase = "mid"
  /\ orders = <<>>
  /\ scalp = Fresh
  /\ fired = FALSE
  /\ stake = 0

-----------------------------------------------------------------------------
(* ScalperStrategy.on_fill: a purchase opens the position or adds to it, a   *)
(* sale that leaves nothing closes it.                                       *)
Opened(s, i) == IF s.open THEN s
                ELSE [Fresh EXCEPT !.pending = s.pending, !.open = TRUE, !.token = i.token]

(* Mutants: any sale closes the position; a sale never closes it; a purchase *)
(* opens the position that was asked for.                                    *)
BadOnFillForgets(s, i, n) ==
  IF IsBuy(i) THEN [Opened(s, i) EXCEPT !.shares = @ + n]
  ELSE [s EXCEPT !.shares = 0, !.open = FALSE]
BadOnFillLingers(s, i, n) ==
  IF IsBuy(i) THEN [Opened(s, i) EXCEPT !.shares = @ + n]
  ELSE IF ~s.open THEN s ELSE [s EXCEPT !.shares = @ - n]

BadOnFillAsked(s, i, n) ==
  IF IsBuy(i) THEN [Opened(s, i) EXCEPT !.shares = i.size]
  ELSE IF ~s.open THEN s
  ELSE IF s.shares <= n THEN [s EXCEPT !.shares = 0, !.open = FALSE]
  ELSE [s EXCEPT !.shares = @ - n]

OnFill(s, i, n) ==
  IF IsBuy(i) THEN [Opened(s, i) EXCEPT !.shares = @ + n]
  ELSE IF ~s.open THEN s
  ELSE IF s.shares <= n THEN [s EXCEPT !.shares = 0, !.open = FALSE]
  ELSE [s EXCEPT !.shares = @ - n]

(* process_due, with every fill passed on to the strategy of its order.      *)
Arrived(seen) ==
  [k \in DOMAIN orders |->
     IF k \in DOMAIN seen
     THEN [orders[k] EXCEPT !.x = ProcessDue(@, orders[k].i, seen[k], TRUE)]
     ELSE orders[k]]
FillsTold(after) ==
  LET told[k \in 0 .. Len(orders)] ==
        IF k = 0 THEN scalp
        ELSE LET n == after[k].x.om.booked - orders[k].x.om.booked
             IN IF n > 0 /\ IsScalp(k) THEN OnFill(told[k - 1], orders[k].i, n) ELSE told[k - 1]
  IN told[Len(orders)]

-----------------------------------------------------------------------------
(* Mutant: the stake cap is not tested.                                      *)
BadAllowed(st, i, p) ==
  IF ~IsBuy(i) THEN p.failed # "hard" ELSE p.failed = "none"

(* check_entry: an entry must pass every gate, an exit all but the ignorable *)
(* ones.                                                                     *)
Allowed(st, i, p) ==
  IF ~IsBuy(i) THEN p.failed # "hard"
  ELSE p.failed = "none" /\ st.stake + i.size <= MaxStake

(* register_entry_order.                                                     *)
Registered(s, i, id) ==
  IF i.use = "entry" THEN [s EXCEPT !.pending = id] ELSE s

(* _handle_intent: gate, draft, register, count the stake, spawn the task.   *)
Handled(st, i, p) ==
  IF ~Allowed(st, i, p) THEN st
  ELSE [st EXCEPT
          !.orders = Append(@, [x |-> [Unplaced EXCEPT !.om = Drafted],
                                i |-> i, task |-> "queued"]),
          !.scalp = Registered(@, i, Len(st.orders) + 1),
          !.stake = @ + IF IsBuy(i) THEN i.size ELSE 0]

(* SniperStrategy.evaluate: one shot per window, spent even if a gate then   *)
(* rejects it.                                                               *)
Sniped(st, p) ==
  IF SnipeWanted(st.fired) /\ p.signal # "none"
  THEN Handled([st EXCEPT !.fired = TRUE], Entry(p, "snipe"), p)
  ELSE st

(* _manage_exit: near the end a sure position is held; otherwise it is       *)
(* crossed out, again at every evaluation until the fills have closed it.    *)
(* The maker exit that should come first is never reached: held_for counts   *)
(* from the exchange time of the fill, which the shadow exchange leaves at 0 *)
(* (shadow_exchange.py:286), so every position is past its timeout.          *)
Exited(st, p) ==
  IF p.exit = "none" THEN st
  ELSE IF p.exit = "sure" /\ phase # "mid" THEN [st EXCEPT !.scalp.hold = TRUE]
  ELSE Handled(st, CrossOut(st.scalp), p)

(* ScalperStrategy.evaluate: exits first; then at most one entry at a time.  *)
Scalped(st, p) ==
  IF ExitWanted(st.scalp) THEN Exited(st, p)
  ELSE IF EntryWanted(st.scalp) /\ p.signal # "none"
  THEN Handled(st, Entry(p, "entry"), p)
  ELSE st

Due == {k \in DOMAIN orders : LET x == orders[k].x IN
          (x.place = "pending" /\ x.left = 0) \/ 0 \in x.cancels}
Views == {Hidden} \cup [visible: {TRUE}, opp: Depths \ {0}, own: {0}]

(* Engine._pump.                                                             *)
Pump ==
  \E seen \in [Due -> Views] :
    LET after == Arrived(seen)
        told  == FillsTold(after)
        st    == [orders |-> after, scalp |-> told, fired |-> fired, stake |-> stake]
    IN \E p \in Contexts(told) :
         LET next == IF phase = "closed" THEN st ELSE Scalped(Sniped(st, p), p)
         IN /\ Len(next.orders) <= MaxOrders
            /\ orders' = next.orders
            /\ scalp' = next.scalp
            /\ fired' = next.fired
            /\ stake' = next.stake
            /\ UNCHANGED phase

-----------------------------------------------------------------------------
(* _submit_and_record: submit runs through, its database writes suspend.     *)
SubmitTask(k) ==
  /\ orders[k].task = "queued"
  /\ \E rtt \in Rtts :
       orders' = [orders EXCEPT ![k].x.om = Submitted(@),
                                ![k].x.place = "pending",
                                ![k].x.left = rtt,
                                ![k].task = "recording"]
  /\ UNCHANGED <<phase, scalp, fired, stake>>

(* Mutant: the end of the task clears the entry, terminal or not.            *)
BadEntryEnded(k) == IsBuy(orders[k].i)

EntryEnded(k) == IsTerminal(orders[k].x.om) /\ IsBuy(orders[k].i)

RecordDone(k) ==
  /\ orders[k].task = "recording"
  /\ orders' = [orders EXCEPT ![k].task = "done"]
  /\ scalp' = IF EntryEnded(k) /\ scalp.pending = k
              THEN [scalp EXCEPT !.pending = 0] ELSE scalp
  /\ UNCHANGED <<phase, fired, stake>>

(* A round trip and the writes of a task are much shorter than any phase, so *)
(* an entry made in one is over before the next one ends.                    *)
Short(from) == from = "armed" => \A k \in DOMAIN orders : IsEntry(k) =>
                 orders[k].task = "done" /\ IsTerminal(orders[k].x.om)

NextPhase ==
  /\ phase \in {"mid", "armed"} /\ Short(phase)
  /\ phase' = IF phase = "mid" THEN "armed" ELSE "lockout"
  /\ UNCHANGED <<orders, scalp, fired, stake>>

(* T-0: cancel-all, then the strategies forget the window.                   *)
CloseWindow ==
  /\ phase = "lockout"
  /\ phase' = "closed"
  /\ \E rtt \in Rtts :
       orders' = [k \in DOMAIN orders |->
         IF IsOpen(orders[k].x.om)
         THEN [orders[k] EXCEPT !.x = CancelAll(@, rtt)] ELSE orders[k]]
  /\ scalp' = Fresh
  /\ UNCHANGED <<fired, stake>>

Advance ==
  /\ orders' = [k \in DOMAIN orders |-> [orders[k] EXCEPT !.x = Tick(@)]]
  /\ UNCHANGED <<phase, scalp, fired, stake>>

Next ==
  \/ Pump
  \/ \E k \in DOMAIN orders : SubmitTask(k) \/ RecordDone(k)
  \/ NextPhase
  \/ CloseWindow
  \/ Advance

Spec == Init /\ [][Next]_vars

-----------------------------------------------------------------------------
Booked(K) == SumFunctionOnSet([k \in DOMAIN orders |-> orders[k].x.om.booked], K)

(* What the scalper's own orders of token t have bought less what they sold. *)
Position(t) ==
  LET K == {k \in DOMAIN orders : IsScalp(k) /\ orders[k].i.token = t}
  IN Booked({k \in K : IsEntry(k)}) - Booked({k \in K : ~IsEntry(k)})

InFlight(k) == ~IsTerminal(orders[k].x.om)

(* One entry at a time: while an entry is on its way no second one is and    *)
(* no position is open, although evaluate runs on every feed event, submit   *)
(* in a task of its own and the fill in a later pump.                        *)
OneEntry ==
  \A k, l \in DOMAIN orders : IsEntry(k) /\ InFlight(k) =>
    /\ IsEntry(l) /\ InFlight(l) => k = l
    /\ ~scalp.open

(* The window never spends more than its cap, however entries, fills and     *)
(* round trips interleave.                                                   *)
WindowStakeCap == Booked({k \in DOMAIN orders : IsBuy(orders[k].i)}) <= MaxStake

(* The exits of an entry: those drafted after it and before the next one.    *)
ExitsOf(e) ==
  {k \in DOMAIN orders : orders[k].i.use = "exit" /\ e < k /\ ~\E l \in e + 1 .. k : IsEntry(l)}

Oversold == \E e \in DOMAIN orders : IsEntry(e) /\ Booked({e}) < Booked(ExitsOf(e))

(* Until the window closes the scalper knows what it holds: what its orders  *)
(* bought and did not sell is the position it manages, no share is forgotten *)
(* and none made up, unless its exits have sold an entry's shares twice: the *)
(* second sale is then taken off whatever position is open.                  *)
NoForgottenShares ==
  phase # "closed" /\ ~Oversold =>
    \A t \in Tokens :
      Position(t) = IF scalp.open /\ scalp.token = t THEN scalp.shares ELSE 0

(* accounting/pnl.py:56-58 calls a negative balance broken accounting: more  *)
(* is never sold than was bought.                                            *)
NeverShort == \A t \in Tokens : Position(t) >= 0

(* More is sold than was bought only where two exits of one entry both fill. *)
(* One alone never sells more than its entry has bought, although it is of   *)
(* the size of a position that sales of other entries may have changed, and  *)
(* although it may fill after the close, when the scalper has forgotten it.  *)
SoldTwice ==
  \E e \in DOMAIN orders : IsEntry(e) /\ \E k, l \in ExitsOf(e) :
    k # l /\ Booked({k}) > 0 /\ Booked({l}) > 0

OnlySoldTwice == Oversold \/ ~NeverShort => SoldTwice
=============================================================================
