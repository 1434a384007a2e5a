------------------------------ MODULE Rollover ------------------------------
(* The engine's window rollover (engine.py manage_sessions, _create_session, *)
(* _close_session, _settle_session, _on_k_capture) with the oracle's         *)
(* boundary prints (rtds_chainlink_ws.py), the session state machine         *)
(* (session.py), the realised PnL per day (pnl.py) and the loss limits       *)
(* (risk_manager.py).                                                        *)
(*                                                                           *)
(* Everything runs on one event loop: the housekeeping coroutine gives way   *)
(* only at an await, so a feed callback or a spawned task runs only while    *)
(* loop.at is one of Awaits.  Time is counted in half windows; the next      *)
(* window is prefetched in the second half.                                  *)
EXTENDS Integers, FiniteSetsExt

CONSTANTS
  LastWindow,    \* bound: windows are 0 .. LastWindow
  MaxTs,         \* bound: a print is stamped 0 .. MaxTs after its boundary
  DayLength,     \* windows per UTC day
  MaxLosses,     \* max_consecutive_losses
  Cooldown,      \* cooldown_windows
  MaxDailyLoss   \* max_daily_loss_usdc, in stakes

ASSUME WindowAssumption == LastWindow \in Nat /\ MaxTs \in Nat /\ DayLength \in Nat \ {0}
ASSUME LimitAssumption ==
  MaxLosses \in Nat \ {0} /\ Cooldown \in Nat /\ MaxDailyLoss \in Nat \ {0}

VARIABLES
  now,       \* the wall clock
  loop,      \* where manage_sessions is, the time it read, what it creates
  session,   \* the MarketSession of each window
  current, next, settling,   \* the engine's references to sessions
  kOf,       \* RtdsChainlinkFeed._k: stamp of the captured print of a window
  tracked,   \* windows whose books and fee models are kept
  pnl,       \* realized_pnl_usdc of each settled window
  daily,     \* Ledger._daily_realized
  risk,      \* losses in a row, cooldown, kill switch
  breach,    \* a spawned check_daily_loss that will find the limit broken
  stopping   \* Engine._stopping

engine == <<loop, session, current, next, settling, tracked>>
money  == <<pnl, daily, risk, breach, stopping>>
vars   == <<now, kOf, engine, money>>

Windows  == 0 .. LastWindow
Days     == 0 .. LastWindow \div DayLength
NoWindow == -1
None     == NoWindow
Stamps   == 0 .. MaxTs
NoK      == MaxTs + 1   \* later than every print, as a missing K is in set_k
Results  == {-1, 0, 1}

WindowAt(t)  == t \div 2
Prefetch(t)  == t % 2 = 1
CloseOf(w)   == 2 * (w + 1)
Day(w)       == w \div DayLength

States == {"ABSENT", "PENDING", "ACTIVE", "CLOSING", "SETTLING", "DONE"}
Absent == [state |-> "ABSENT", k |-> NoK, close |-> NoK]
SessionRecords ==
  [state: States, k: Stamps \cup {NoK}, close: Stamps \cup {NoK}]

(* Running places are left without giving way; the loop is idle between two  *)
(* ticks, and dead once an awaited call has raised.                          *)
Awaits  == {"idle", "cancelling", "snapshotting", "resolving", "connecting", "stopped", "dead"}
Running == {"roll", "promote", "prefetch"}
LoopRecords == [at: Awaits \cup Running, t: 0 .. 2 * LastWindow + 1,
                goal: {"current", "next"}]

TypeOK ==
  /\ now \in 0 .. 2 * LastWindow + 1
  /\ loop \in LoopRecords
  /\ session \in [Windows -> SessionRecords]
  /\ current \in Windows \cup {None} /\ next \in Windows \cup {None}
  /\ settling \in SUBSET Windows
  /\ kOf \in [Windows -> Stamps \cup {NoK}]
  /\ tracked \in SUBSET Windows
  /\ pnl \in [Windows -> Results]
  /\ daily \in [Days -> Int]
  /\ risk \in [losses: 0 .. MaxLosses - 1, cooldown: Nat, kill: {"off", "handling", "over"}]
  /\ breach \in BOOLEAN /\ stopping \in BOOLEAN

Init ==
  /\ now = 0
  /\ loop = [at |-> "idle", t |-> 0, goal |-> "current"]
  /\ session = [w \in Windows |-> Absent]
  /\ current = None /\ next = None /\ settling = {}
  /\ kOf = [w \in Windows |-> NoK]
  /\ tracked = {}
  /\ pnl = [w \in Windows |-> 0]
  /\ daily = [d \in Days |-> 0]
  /\ risk = [losses |-> 0, cooldown |-> 0, kill |-> "off"]
  /\ breach = FALSE /\ stopping = FALSE

-----------------------------------------------------------------------------
(* MarketSession.transition: a step that is not listed raises, which leaves  *)
(* no state of a session.                                                    *)
Transitions ==
  {<<"PENDING", "ACTIVE">>, <<"PENDING", "DONE">>, <<"ACTIVE", "CLOSING">>,
   <<"CLOSING", "SETTLING">>, <<"SETTLING", "DONE">>}

Transition(s, new) ==
  [s EXCEPT !.state = IF <<s.state, new>> \in Transitions THEN new ELSE "raised"]

(* MarketSession.set_k: the earliest print wins.                             *)
SetK(s, ts) == IF ts < s.k THEN [s EXCEPT !.k = ts] ELSE s

(* Mutant: the streak is not restarted by the cooldown.                      *)
BadAfterResult(r, w, p) ==
  CASE p < 0 /\ r.losses + 1 >= MaxLosses -> [r EXCEPT !.losses = @ + 1, !.cooldown = w + Cooldown]
    [] p < 0 /\ r.losses + 1 < MaxLosses -> [r EXCEPT !.losses = @ + 1]
    [] p > 0 -> [r EXCEPT !.losses = 0]
    [] OTHER -> r

(* record_window_result.                                                     *)
AfterResult(r, w, p) ==
  CASE p < 0 /\ r.losses + 1 >= MaxLosses ->
         [r EXCEPT !.losses = 0, !.cooldown = w + Cooldown]
    [] p < 0 /\ r.losses + 1 < MaxLosses -> [r EXCEPT !.losses = @ + 1]
    [] p > 0 -> [r EXCEPT !.losses = 0]
    [] OTHER -> r

(* Mutant: a session that is not SETTLING is settled again.                  *)
BadSettleable(s, w) == s[w].k # NoK

Settleable(s, w) == s[w].k # NoK /\ s[w].state = "SETTLING"

(* _settle_session for window w at the print ts, on sessions s.  The loss    *)
(* check is scheduled with the PnL of the day the clock shows.               *)
SettleNow(s, w, ts) ==
  /\ Settleable(s, w)
  /\ session' = [s EXCEPT ![w] = [Transition(@, "DONE") EXCEPT !.close = ts]]
  /\ settling' = settling \ {w}
  /\ tracked' = tracked \ {w}
  /\ \E p \in Results :
       /\ pnl' = [pnl EXCEPT ![w] = p]
       /\ daily' = [daily EXCEPT ![Day(w)] = @ + p]
       /\ risk' = AfterResult(risk, w, p)
  /\ breach' = (breach \/ daily'[Day(WindowAt(now))] <= -MaxDailyLoss)
  /\ UNCHANGED stopping

(* Not settled: a session without K is given up; one that is not SETTLING    *)
(* has been settled by another call.                                         *)
AlreadySettled(s, w) ==
  /\ s[w].k # NoK /\ ~Settleable(s, w)
  /\ session' = s
  /\ UNCHANGED <<settling, tracked, money>>

GiveUp(s, w) ==
  /\ s[w].k = NoK
  /\ session' = s
  /\ settling' = settling \ {w}
  /\ UNCHANGED <<tracked, money>>

SettleSession(s, w, ts) == SettleNow(s, w, ts) \/ AlreadySettled(s, w) \/ GiveUp(s, w)

-----------------------------------------------------------------------------
(* manage_sessions reads the clock at the top of the loop, once.             *)
Wake ==
  /\ loop.at = "idle"
  /\ ~stopping
  /\ loop' = [loop EXCEPT !.at = "roll", !.t = now]
  /\ UNCHANGED <<now, kOf, session, current, next, settling, tracked, money>>

Halt ==
  /\ loop.at = "idle"
  /\ stopping
  /\ loop' = [loop EXCEPT !.at = "stopped"]
  /\ UNCHANGED <<now, kOf, session, current, next, settling, tracked, money>>

(* Its window has closed: the current session cancels its orders.            *)
Roll ==
  /\ loop.at = "roll"
  /\ IF current # None /\ loop.t >= CloseOf(current)
     THEN /\ session' = [session EXCEPT ![current] = Transition(@, "CLOSING")]
          /\ loop' = [loop EXCEPT !.at = "cancelling"]
     ELSE /\ loop' = [loop EXCEPT !.at = "promote"]
          /\ UNCHANGED session
  /\ UNCHANGED <<now, kOf, current, next, settling, tracked, money>>

(* Mutant: the books go with the hand-over.                                  *)
BadHandOver ==
  /\ loop.at = "cancelling"
  /\ session' = [session EXCEPT ![current] = Transition(@, "SETTLING")]
  /\ settling' = settling \cup {current}
  /\ tracked' = tracked \ {current}
  /\ loop' = [loop EXCEPT !.at = "snapshotting"]
  /\ UNCHANGED <<now, kOf, current, next, money>>

(* Cancels are sent: the session is handed to settlement and its summary     *)
(* written.                                                                  *)
HandOver ==
  /\ loop.at = "cancelling"
  /\ session' = [session EXCEPT ![current] = Transition(@, "SETTLING")]
  /\ settling' = settling \cup {current}
  /\ loop' = [loop EXCEPT !.at = "snapshotting"]
  /\ UNCHANGED <<now, kOf, current, next, tracked, money>>

(* Mutant: the print that raced the teardown is not looked for.              *)
BadClosed ==
  /\ loop.at = "snapshotting"
  /\ current' = None
  /\ loop' = [loop EXCEPT !.at = "promote"]
  /\ UNCHANGED <<now, kOf, session, next, settling, tracked, money>>

(* The boundary print may have been captured meanwhile.                      *)
Closed ==
  /\ loop.at = "snapshotting"
  /\ IF current < LastWindow /\ kOf[current + 1] # NoK
     THEN SettleSession(session, current, kOf[current + 1])
     ELSE UNCHANGED <<session, settling, tracked, money>>
  /\ current' = None
  /\ loop' = [loop EXCEPT !.at = "promote"]
  /\ UNCHANGED <<now, kOf, next>>

Activated(s) == IF s.state = "PENDING" THEN Transition(s, "ACTIVE") ELSE s

(* Mutant: the promoted session stays the next one.                          *)
BadMakeCurrent(w, s) ==
  /\ session' = [session EXCEPT ![w] = SetK(Activated(s), kOf[w])]
  /\ current' = w
  /\ loop' = [loop EXCEPT !.at = "prefetch"]
  /\ UNCHANGED next

(* The session becomes current and takes the K captured so far.              *)
MakeCurrent(w, s) ==
  /\ session' = [session EXCEPT ![w] = SetK(Activated(s), kOf[w])]
  /\ current' = w
  /\ next' = None
  /\ loop' = [loop EXCEPT !.at = "prefetch"]

Promote ==
  LET ws == WindowAt(loop.t) IN
  /\ loop.at = "promote"
  /\ \/ /\ current = ws
        /\ loop' = [loop EXCEPT !.at = "prefetch"]
        /\ UNCHANGED <<session, current, next>>
     \/ /\ current # ws /\ next = ws
        /\ MakeCurrent(ws, session[ws])
     \/ /\ current # ws /\ next # ws
        /\ loop' = [loop EXCEPT !.at = "resolving", !.goal = "current"]
        /\ UNCHANGED <<session, current, next>>
  /\ UNCHANGED <<now, kOf, settling, tracked, money>>

PrefetchNext ==
  LET nxt == WindowAt(loop.t) + 1 IN
  /\ loop.at = "prefetch"
  /\ IF next # nxt /\ Prefetch(loop.t) /\ nxt <= LastWindow
     THEN loop' = [loop EXCEPT !.at = "resolving", !.goal = "next"]
     ELSE loop' = [loop EXCEPT !.at = "idle"]
  /\ UNCHANGED <<now, kOf, session, current, next, settling, tracked, money>>

(* _create_session for the window the loop is after: discovery may find no   *)
(* market; then the books are tracked and the market feed reconnects; then   *)
(* the K captured so far is read.                                            *)
Wanted == WindowAt(loop.t) + (IF loop.goal = "next" THEN 1 ELSE 0)

NotFound ==
  /\ loop.at = "resolving"
  /\ IF loop.goal = "current"
     THEN loop' = [loop EXCEPT !.at = "prefetch"] /\ UNCHANGED next
     ELSE loop' = [loop EXCEPT !.at = "idle"] /\ next' = None
  /\ UNCHANGED <<now, kOf, session, current, settling, tracked, money>>

Found ==
  /\ loop.at = "resolving"
  /\ tracked' = tracked \cup {Wanted}
  /\ loop' = [loop EXCEPT !.at = "connecting"]
  /\ UNCHANGED <<now, kOf, session, current, next, settling, money>>

(* Mutant: the K captured while the session was being created is missed.     *)
BadCreated(w) == [Absent EXCEPT !.state = "PENDING"]

Created(w) == SetK([Absent EXCEPT !.state = "PENDING"], kOf[w])

Connected ==
  /\ loop.at = "connecting"
  /\ IF loop.goal = "current"
     THEN MakeCurrent(Wanted, Created(Wanted))
     ELSE /\ session' = [session EXCEPT ![Wanted] = Created(Wanted)]
          /\ next' = Wanted
          /\ loop' = [loop EXCEPT !.at = "idle"]
          /\ UNCHANGED current
  /\ UNCHANGED <<now, kOf, settling, tracked, money>>

(* An awaited call raises: the live adapter's client or the incident of an   *)
(* order stuck in SENT while the teardown cancels, the write of the summary, *)
(* a request of the creation, or that incident again, in the reconciliation  *)
(* of the run loop.  Nothing catches it, the engine's task is over.  Feeds   *)
(* and callbacks go on.                                                      *)
Dies ==
  /\ loop.at \in {"cancelling", "snapshotting", "resolving", "idle"}
  /\ loop' = [loop EXCEPT !.at = "dead"]
  /\ UNCHANGED <<now, kOf, session, current, next, settling, tracked, money>>

LoopStep ==
  Wake \/ Halt \/ Roll \/ HandOver \/ Closed \/ Promote \/ PrefetchNext
    \/ NotFound \/ Found \/ Connected

-----------------------------------------------------------------------------
(* A print of window w, live or out of a backfill dump, stamped ts after the *)
(* boundary: _maybe_capture_k and _on_k_capture.  The oracle's clock may be  *)
(* ahead of ours.                                                            *)
Capturing(w) ==
  [v \in Windows |->
     IF v = w /\ v \in {current, next} THEN SetK(session[v], kOf'[w]) ELSE session[v]]

OraclePrint(w, ts) ==
  /\ loop.at \in Awaits
  /\ 2 * w <= now + 1
  /\ IF ts < kOf[w]
     THEN /\ kOf' = [kOf EXCEPT ![w] = ts]
          /\ IF w - 1 \in settling
             THEN SettleSession(Capturing(w), w - 1, ts)
             ELSE session' = Capturing(w) /\ UNCHANGED <<settling, tracked, money>>
     ELSE UNCHANGED <<kOf, session, settling, tracked, money>>
  /\ UNCHANGED <<now, loop, current, next>>

(* Mutant: the limit is found broken but the switch not thrown.              *)
BadKill ==
  /\ loop.at \in Awaits
  /\ breach
  /\ breach' = FALSE
  /\ UNCHANGED <<now, kOf, engine, pnl, daily, risk, stopping>>

(* The spawned check_daily_loss finds the limit broken and throws the switch *)
(* once; its handler then cancels orders and writes an incident,             *)
Kill ==
  /\ loop.at \in Awaits
  /\ breach
  /\ breach' = FALSE
  /\ risk' = [risk EXCEPT !.kill = IF @ = "off" THEN "handling" ELSE @]
  /\ UNCHANGED <<now, kOf, engine, pnl, daily, stopping>>

(* and only then stops the loop, unless the incident could not be written.   *)
OnKill ==
  /\ loop.at \in Awaits
  /\ risk.kill = "handling"
  /\ risk' = [risk EXCEPT !.kill = "over"]
  /\ stopping' \in BOOLEAN
  /\ UNCHANGED <<now, kOf, engine, pnl, daily, breach>>

Advance ==
  /\ loop.at \in Awaits
  /\ now < 2 * LastWindow + 1
  /\ now' = now + 1
  /\ UNCHANGED <<kOf, engine, money>>

Next ==
  \/ LoopStep
  \/ Dies
  \/ \E w \in Windows, ts \in Stamps : OraclePrint(w, ts)
  \/ Kill
  \/ OnKill
  \/ Advance

Spec == Init /\ [][Next]_vars

(* The loop keeps running: every await returns, and a spawned task runs      *)
(* whenever the housekeeping coroutine gives way often enough.               *)
LiveSpec == Spec /\ WF_vars(LoopStep) /\ SF_vars(Kill) /\ SF_vars(OnKill)

-----------------------------------------------------------------------------
(* Window isolation: only the current session is ever ACTIVE, the next one   *)
(* is untouched, and a session that cancels its orders (live cancel-all is   *)
(* global, live_exchange.py:130) does so while no other window trades.       *)
SessionsInOrder ==
  /\ \A w \in Windows : session[w].state = "ACTIVE" => w = current
  /\ next # None => session[next].state = "PENDING"
  /\ current # None =>
       session[current].state \in
         (CASE loop.at = "cancelling" -> {"CLOSING"}
            [] loop.at = "snapshotting" -> {"SETTLING", "DONE"}
            [] loop.at = "dead" -> {"ACTIVE", "CLOSING", "SETTLING", "DONE"}
            [] OTHER -> {"ACTIVE"})
  /\ \A w \in settling : session[w].state = "SETTLING" /\ w < WindowAt(now)

(* Every session in use has its books and its fee model, until it is DONE    *)
(* (engine.py:258).                                                          *)
TrackedWhileNeeded ==
  \A w \in Windows :
    /\ session[w].state \in {"PENDING", "ACTIVE", "CLOSING", "SETTLING"} => w \in tracked
    /\ session[w].state = "DONE" => w \notin tracked

(* The current and the next session hold the earliest print captured for     *)
(* their window, whatever the print raced with.                              *)
KAgrees == \A w \in {current, next} \ {None} : session[w].k = kOf[w]

Settled == [w \in Windows |-> IF session[w].state = "DONE" THEN pnl[w] ELSE 0]

(* The ledger's day is the sum of the windows of that day that have settled: *)
(* no window is booked twice or lost, though two callers settle.             *)
DailyIsSum ==
  \A d \in Days : daily[d] = SumFunctionOnSet(Settled, {w \in Windows : Day(w) = d})

(* What a window settled at is final: neither a late print nor the second    *)
(* caller of _settle_session settles it again.                               *)
SettledIsFinal ==
  [][\A w \in Windows : session[w].state = "DONE" =>
       /\ session'[w].state = "DONE"
       /\ session'[w].close = session[w].close
       /\ pnl'[w] = pnl[w]]_vars

(* The boundary print and the teardown race, and neither order loses the     *)
(* settlement: a closed session with a K ends once the print is captured,    *)
(* unless the engine's task died, perhaps between the two.                   *)
Settles ==
  \A w \in Windows \ {LastWindow} :
    session[w].state \in {"CLOSING", "SETTLING"} /\ session[w].k # NoK /\ kOf[w + 1] # NoK
      ~> session[w].state = "DONE" \/ loop.at = "dead"

(* A broken loss limit stops the loop, wherever in a rollover it is, if      *)
(* nothing killed it before, and unless the handler's own write has raised   *)
(* (engine.py:568), after which the loop goes on with the switch thrown.     *)
KillFailed  == risk.kill = "over" /\ ~stopping
BreachStops == breach ~> loop.at \in {"stopped", "dead"} \/ KillFailed

(* rtds_chainlink_ws.py:10: a reconnect's historical dump can backfill a      *)
(* boundary we were dark for: a session is given up only if no print of its  *)
(* window was ever captured.                                                 *)
BackfillIsUsed ==
  \A w \in Windows :
    session[w].state = "SETTLING" /\ w # current /\ w \notin settling => kOf[w] = NoK
=============================================================================
