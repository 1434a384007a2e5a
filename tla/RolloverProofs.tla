--------------------------- MODULE RolloverProofs ---------------------------
(* Proofs about Rollover for any number of windows, any spread of prints,    *)
(* any day length and any loss limits.                                       *)
(*                                                                           *)
(* SessionsInOrder, TrackedWhileNeeded and KAgrees are not inductive: that   *)
(* the window the loop creates or promotes has never traded follows from     *)
(* where the loop is and from the time it read when it woke, which the clock *)
(* may have left far behind.  IInv says both.                                *)
EXTENDS Rollover, FoldLemmas, TLAPS

Untouched == {"ABSENT", "PENDING"}

(* Where the loop is decides which window may be current, and a window that  *)
(* is being created has its books and has never traded.                      *)
LoopInv ==
  /\ loop.t <= now
  /\ current # None => current <= WindowAt(loop.t)
  /\ loop.at \in {"cancelling", "snapshotting"} =>
       current # None /\ current < WindowAt(loop.t)
  /\ loop.at \in {"promote", "prefetch", "resolving", "connecting"} =>
       current \in {None, WindowAt(loop.t)}
  /\ loop.at \in {"resolving", "connecting"} =>
       IF loop.goal = "current" THEN current = None ELSE Wanted <= LastWindow
  /\ loop.at = "connecting" => Wanted \in tracked

(* Only windows of the past, and the current one, have ever been current.    *)
Ahead ==
  \A w \in Windows :
    session[w].state \notin Untouched => w < WindowAt(loop.t) \/ w = current

(* SessionsInOrder without its cases.                                        *)
OneActive == \A w \in Windows : session[w].state = "ACTIVE" => w = current

NextPending == next # None => session[next].state = "PENDING"

CurrentState ==
  current # None =>
    /\ loop.at = "cancelling" => session[current].state = "CLOSING"
    /\ loop.at = "snapshotting" => session[current].state \in {"SETTLING", "DONE"}
    /\ loop.at = "dead" => session[current].state \in {"ACTIVE", "CLOSING", "SETTLING", "DONE"}
    /\ loop.at \notin {"cancelling", "snapshotting", "dead"} => session[current].state = "ACTIVE"

SettlingInv == \A w \in settling : session[w].state = "SETTLING" /\ w < WindowAt(now)

IInv ==
  /\ TypeOK
  /\ LoopInv
  /\ Ahead
  /\ OneActive
  /\ NextPending
  /\ CurrentState
  /\ SettlingInv
  /\ TrackedWhileNeeded
  /\ KAgrees

-----------------------------------------------------------------------------
(* What the session's own operations return.                                 *)
LEMMA TransitionIs ==
  ASSUME NEW s \in SessionRecords, NEW new \in States, <<s.state, new>> \in Transitions
  PROVE  /\ Transition(s, new) \in SessionRecords
         /\ Transition(s, new).state = new
         /\ Transition(s, new).k = s.k
         /\ Transition(s, new).close = s.close
BY DEF Transition, SessionRecords

LEMMA SetKIs ==
  ASSUME NEW s \in SessionRecords, NEW ts \in Stamps \cup {NoK}
  PROVE  /\ SetK(s, ts) \in SessionRecords
         /\ SetK(s, ts).state = s.state
         /\ SetK(s, ts).close = s.close
         /\ SetK(s, ts).k = IF ts < s.k THEN ts ELSE s.k
BY DEF SetK, SessionRecords

LEMMA CreatedIs ==
  ASSUME NEW w \in Windows, kOf \in [Windows -> Stamps \cup {NoK}]
  PROVE  /\ Created(w) \in SessionRecords
         /\ Created(w).state = "PENDING"
         /\ Created(w).k = kOf[w]
<1> DEFINE fresh == [Absent EXCEPT !.state = "PENDING"]
<1>1. fresh \in SessionRecords /\ fresh.state = "PENDING" /\ fresh.k = NoK
  BY DEF Absent, SessionRecords, States
<1>2. kOf[w] \in Stamps \cup {NoK} /\ (kOf[w] < NoK \/ kOf[w] = NoK)
  BY WindowAssumption DEF Stamps, NoK
<1>3. Created(w) = SetK(fresh, kOf[w])
  BY DEF Created
<1> HIDE DEF fresh
<1> QED
  BY <1>1, <1>2, <1>3, SetKIs

LEMMA ActivatedIs ==
  ASSUME NEW s \in SessionRecords, s.state = "PENDING"
  PROVE  /\ Activated(s) \in SessionRecords
         /\ Activated(s).state = "ACTIVE"
         /\ Activated(s).k = s.k
<1>1. "ACTIVE" \in States /\ <<s.state, "ACTIVE">> \in Transitions
  BY DEF States, Transitions
<1> QED
  BY <1>1, TransitionIs DEF Activated

LEMMA AddedIs ==
  ASSUME NEW S, NEW f \in [S -> Int], NEW x, NEW n \in Int
  PROVE  [f EXCEPT ![x] = @ + n] \in [S -> Int]
<1>1. ASSUME NEW y \in S
      PROVE  [f EXCEPT ![x] = @ + n][y] \in Int
  BY <1>1
<1> QED
  BY <1>1

LEMMA RiskIs ==
  ASSUME NEW r \in [losses: 0 .. MaxLosses - 1, cooldown: Nat, kill: {"off", "handling", "over"}],
         NEW w \in Windows, NEW p \in Results
  PROVE  AfterResult(r, w, p) \in
           [losses: 0 .. MaxLosses - 1, cooldown: Nat, kill: {"off", "handling", "over"}]
<1>1. w + Cooldown \in Nat /\ 0 \in 0 .. MaxLosses - 1
  BY WindowAssumption, LimitAssumption DEF Windows
<1>2. r.losses + 1 < MaxLosses => r.losses + 1 \in 0 .. MaxLosses - 1
  BY LimitAssumption
<1>3. r.losses + 1 >= MaxLosses <=> ~(r.losses + 1 < MaxLosses)
  BY LimitAssumption
<1>4. p < 0 \/ p = 0 \/ p > 0
  BY DEF Results
<1>5. CASE p < 0 /\ r.losses + 1 >= MaxLosses
  BY <1>1, <1>3, <1>5 DEF AfterResult, Results
<1>6. CASE p < 0 /\ r.losses + 1 < MaxLosses
  BY <1>2, <1>3, <1>6 DEF AfterResult, Results
<1>7. CASE p > 0
  BY <1>1, <1>7 DEF AfterResult, Results
<1>8. CASE p = 0
  BY <1>8 DEF AfterResult, Results
<1> QED
  BY <1>3, <1>4, <1>5, <1>6, <1>7, <1>8

-----------------------------------------------------------------------------
(* What _settle_session does to the engine, for a window that is SETTLING    *)
(* (or, after a teardown, already DONE), on sessions that hold its type.     *)
SettleStep(s, w) ==
  /\ session' \in [Windows -> SessionRecords]
  /\ \A v \in Windows \ {w} : session'[v] = s[v]
  /\ session'[w].k = s[w].k
  /\ \/ /\ session'[w] = s[w] /\ pnl' = pnl /\ daily' = daily
        /\ settling' \in SUBSET settling /\ tracked' = tracked
     \/ /\ s[w].state = "SETTLING" /\ session'[w].state = "DONE"
        /\ \A v \in Windows \ {w} : pnl'[v] = pnl[v]
        /\ daily' = [daily EXCEPT ![Day(w)] = @ + pnl'[w]]
        /\ settling' = settling \ {w} /\ tracked' = tracked \ {w}

MoneyOK ==
  /\ pnl \in [Windows -> Results]
  /\ daily \in [Days -> Int]
  /\ risk \in [losses: 0 .. MaxLosses - 1, cooldown: Nat, kill: {"off", "handling", "over"}]
  /\ breach \in BOOLEAN /\ stopping \in BOOLEAN

LEMMA SettleIs ==
  ASSUME NEW s \in [Windows -> SessionRecords], NEW w \in Windows, NEW ts \in Stamps \cup {NoK},
         MoneyOK, SettleSession(s, w, ts)
  PROVE  SettleStep(s, w) /\ MoneyOK'
<1>1. CASE SettleNow(s, w, ts)
  <2> DEFINE done == [Transition(s[w], "DONE") EXCEPT !.close = ts]
  <2>1. s[w] \in SessionRecords /\ s[w].state = "SETTLING"
    BY <1>1 DEF SettleNow, Settleable
  <2>2. "DONE" \in States /\ <<s[w].state, "DONE">> \in Transitions
    BY <2>1 DEF States, Transitions
  <2>3. done \in SessionRecords /\ done.state = "DONE" /\ done.k = s[w].k
    BY <2>1, <2>2, TransitionIs DEF SessionRecords
  <2>4. session' = [s EXCEPT ![w] = done]
    BY <1>1 DEF SettleNow
  <2> HIDE DEF done
  <2>6. PICK p \in Results :
          /\ pnl' = [pnl EXCEPT ![w] = p]
          /\ daily' = [daily EXCEPT ![Day(w)] = @ + p]
          /\ risk' = AfterResult(risk, w, p)
    BY <1>1 DEF SettleNow
  <2>5. SettleStep(s, w)
    <3>1. session' \in [Windows -> SessionRecords] /\ session'[w] = done
      BY <2>3, <2>4
    <3>2. /\ \A v \in Windows \ {w} : session'[v] = s[v] /\ pnl'[v] = pnl[v]
          /\ pnl'[w] = p
      BY <2>4, <2>6 DEF MoneyOK
    <3>3. settling' = settling \ {w} /\ tracked' = tracked \ {w}
      BY <1>1 DEF SettleNow
    <3> QED
      BY <2>1, <2>3, <2>6, <3>1, <3>2, <3>3 DEF SettleStep
  <2>7. pnl' \in [Windows -> Results]
    BY <2>6 DEF MoneyOK
  <2>10. daily' \in [Days -> Int]
    <3>1. p \in Int
      BY DEF Results
    <3>2. daily \in [Days -> Int]
      BY DEF MoneyOK
    <3> QED
      BY <2>6, <3>1, <3>2, AddedIs
  <2>8. risk' \in [losses: 0 .. MaxLosses - 1, cooldown: Nat, kill: {"off", "handling", "over"}]
    BY <2>6, RiskIs DEF MoneyOK
  <2>9. breach' \in BOOLEAN /\ stopping' \in BOOLEAN
    BY <1>1 DEF SettleNow, MoneyOK
  <2> QED
    BY <2>5, <2>7, <2>8, <2>9, <2>10 DEF MoneyOK
<1>2. CASE AlreadySettled(s, w)
  BY <1>2 DEF AlreadySettled, SettleStep, MoneyOK, money
<1>3. CASE GiveUp(s, w)
  BY <1>3 DEF GiveUp, SettleStep, MoneyOK, money
<1> QED
  BY <1>1, <1>2, <1>3 DEF SettleSession

-----------------------------------------------------------------------------
(* The parts of the type invariant that the loop and the clock move.         *)
EngineOK ==
  /\ now \in 0 .. 2 * LastWindow + 1
  /\ loop \in LoopRecords
  /\ session \in [Windows -> SessionRecords]
  /\ current \in Windows \cup {None} /\ next \in Windows \cup {None}
  /\ settling \in SUBSET Windows
  /\ kOf \in [Windows -> Stamps \cup {NoK}]
  /\ tracked \in SUBSET Windows

LEMMA TypeIs == (TypeOK <=> EngineOK /\ MoneyOK) /\ (TypeOK' <=> EngineOK' /\ MoneyOK')
BY DEF TypeOK, EngineOK, MoneyOK

LEMMA InitOK == Init => IInv
<1> SUFFICES ASSUME Init PROVE IInv
  OBVIOUS
<1>1. Absent \in SessionRecords /\ Absent.state = "ABSENT" /\ NoK \in Nat
  BY WindowAssumption DEF Absent, SessionRecords, States, NoK
<1>2. EngineOK
  BY <1>1, WindowAssumption
  DEF Init, EngineOK, LoopRecords, Awaits, Running
<1>3. MoneyOK
  <2>1. 0 \in Results /\ 0 \in Int /\ 0 \in Nat /\ 0 \in 0 .. MaxLosses - 1
    BY LimitAssumption DEF Results
  <2>2. pnl \in [Windows -> Results] /\ daily \in [Days -> Int]
    BY <2>1 DEF Init
  <2> QED
    BY <2>1, <2>2 DEF Init, MoneyOK
<1>4. LoopInv /\ Ahead /\ OneActive /\ NextPending /\ CurrentState /\ SettlingInv
  BY <1>1 DEF Init, LoopInv, Ahead, OneActive, NextPending, CurrentState, SettlingInv, Untouched
<1>5. TrackedWhileNeeded /\ KAgrees
  BY <1>1 DEF Init, TrackedWhileNeeded, KAgrees
<1> QED
  BY <1>2, <1>3, <1>4, <1>5, TypeIs DEF IInv

LEMMA WindowOrder ==
  ASSUME NEW a \in Int, NEW b \in Int, a <= b
  PROVE  WindowAt(a) \in Int /\ WindowAt(b) \in Int /\ WindowAt(a) <= WindowAt(b)
BY DEF WindowAt

(* A step that leaves every session as it is, whatever it does to the loop.  *)
LEMMA SessionsStay ==
  ASSUME IInv, EngineOK', UNCHANGED <<session, current, kOf, settling>>, next' \in {next, None},
         tracked \subseteq tracked', \A w \in tracked' \ tracked : session[w].state # "DONE",
         loop.t <= loop'.t, now <= now', CurrentState'
  PROVE  /\ Ahead' /\ OneActive' /\ NextPending' /\ SettlingInv'
         /\ TrackedWhileNeeded' /\ KAgrees'
<1>1. EngineOK
  BY TypeIs DEF IInv
<1>2. /\ WindowAt(loop.t) <= WindowAt(loop'.t) /\ WindowAt(now) <= WindowAt(now')
      /\ WindowAt(loop.t) \in Int /\ WindowAt(loop'.t) \in Int
      /\ WindowAt(now) \in Int /\ WindowAt(now') \in Int
  <2>1. loop.t \in Int /\ loop'.t \in Int /\ now \in Int /\ now' \in Int
    BY <1>1 DEF EngineOK, LoopRecords
  <2> QED
    BY <2>1, WindowOrder
<1>3. Ahead'
  BY <1>1, <1>2 DEF IInv, Ahead, Windows
<1>4. OneActive' /\ NextPending' /\ KAgrees'
  BY DEF IInv, OneActive, NextPending, KAgrees
<1>5. SettlingInv'
  BY <1>1, <1>2 DEF IInv, SettlingInv, EngineOK, Windows
<1>6. TrackedWhileNeeded'
  BY DEF IInv, TrackedWhileNeeded
<1> QED
  BY <1>3, <1>4, <1>5, <1>6

(* The steps of the loop that change no session.                             *)
LEMMA WakeOK == IInv /\ Wake => IInv'
<1> SUFFICES ASSUME IInv, Wake PROVE IInv'
  OBVIOUS
<1>1. EngineOK /\ MoneyOK /\ LoopInv
  BY TypeIs DEF IInv
<1>2. /\ loop' \in LoopRecords /\ loop'.at = "roll" /\ loop'.t = now /\ loop.at = "idle"
      /\ loop'.goal = loop.goal
  BY <1>1 DEF Wake, EngineOK, LoopRecords, Awaits, Running
<1>3. UNCHANGED <<now, kOf, session, current, next, settling, tracked, money>>
  BY DEF Wake
<1>4. EngineOK' /\ MoneyOK'
  BY <1>1, <1>2, <1>3 DEF EngineOK, MoneyOK, money
<1>5. LoopInv'
  BY <1>1, <1>2, <1>3 DEF LoopInv, EngineOK, LoopRecords, Windows, None, NoWindow, WindowAt
<1>6. CurrentState'
  BY <1>2, <1>3 DEF IInv, CurrentState
<1> QED
  BY <1>1, <1>2, <1>3, <1>4, <1>5, <1>6, SessionsStay, TypeIs DEF IInv, LoopInv, EngineOK

LEMMA HaltOK == IInv /\ Halt => IInv'
<1> SUFFICES ASSUME IInv, Halt PROVE IInv'
  OBVIOUS
<1>1. EngineOK /\ MoneyOK /\ LoopInv
  BY TypeIs DEF IInv
<1>2. /\ loop' \in LoopRecords /\ loop'.at = "stopped" /\ loop'.t = loop.t /\ loop.at = "idle"
      /\ loop'.goal = loop.goal
  BY <1>1 DEF Halt, EngineOK, LoopRecords, Awaits, Running
<1>3. UNCHANGED <<now, kOf, session, current, next, settling, tracked, money>>
  BY DEF Halt
<1>4. EngineOK' /\ MoneyOK'
  BY <1>1, <1>2, <1>3 DEF EngineOK, MoneyOK, money
<1>5. LoopInv'
  BY <1>1, <1>2, <1>3 DEF LoopInv, EngineOK
<1>6. CurrentState'
  BY <1>2, <1>3 DEF IInv, CurrentState
<1> QED
  BY <1>1, <1>2, <1>3, <1>4, <1>5, <1>6, SessionsStay, TypeIs DEF IInv, LoopInv, EngineOK, LoopRecords

LEMMA DiesOK == IInv /\ Dies => IInv'
<1> SUFFICES ASSUME IInv, Dies PROVE IInv'
  OBVIOUS
<1>1. EngineOK /\ MoneyOK /\ LoopInv
  BY TypeIs DEF IInv
<1>2. /\ loop' \in LoopRecords /\ loop'.at = "dead" /\ loop'.t = loop.t
      /\ loop.at \in {"cancelling", "snapshotting", "resolving", "idle"} /\ loop'.goal = loop.goal
  BY <1>1 DEF Dies, EngineOK, LoopRecords, Awaits, Running
<1>3. UNCHANGED <<now, kOf, session, current, next, settling, tracked, money>>
  BY DEF Dies
<1>4. EngineOK' /\ MoneyOK'
  BY <1>1, <1>2, <1>3 DEF EngineOK, MoneyOK, money
<1>5. LoopInv'
  BY <1>1, <1>2, <1>3 DEF LoopInv, EngineOK
<1>6. CurrentState'
  BY <1>2, <1>3 DEF IInv, CurrentState
<1> QED
  BY <1>1, <1>2, <1>3, <1>4, <1>5, <1>6, SessionsStay, TypeIs DEF IInv, LoopInv, EngineOK, LoopRecords

LEMMA PrefetchNextOK == IInv /\ PrefetchNext => IInv'
<1> SUFFICES ASSUME IInv, PrefetchNext PROVE IInv'
  OBVIOUS
<1>1. EngineOK /\ MoneyOK /\ LoopInv
  BY TypeIs DEF IInv
<1>2. /\ loop' \in LoopRecords /\ loop'.t = loop.t /\ loop.at = "prefetch"
      /\ \/ /\ loop'.at = "resolving" /\ loop'.goal = "next"
            /\ WindowAt(loop.t) + 1 <= LastWindow
         \/ loop'.at = "idle"
  BY <1>1 DEF PrefetchNext, EngineOK, LoopRecords, Awaits, Running
<1>3. UNCHANGED <<now, kOf, session, current, next, settling, tracked, money>>
  BY DEF PrefetchNext
<1>4. EngineOK' /\ MoneyOK'
  BY <1>1, <1>2, <1>3 DEF EngineOK, MoneyOK, money
<1>5. LoopInv'
  BY <1>1, <1>2, <1>3 DEF LoopInv, EngineOK, Wanted
<1>6. CurrentState'
  BY <1>2, <1>3 DEF IInv, CurrentState
<1> QED
  BY <1>1, <1>2, <1>3, <1>4, <1>5, <1>6, SessionsStay, TypeIs DEF IInv, LoopInv, EngineOK, LoopRecords

LEMMA NotFoundOK == IInv /\ NotFound => IInv'
<1> SUFFICES ASSUME IInv, NotFound PROVE IInv'
  OBVIOUS
<1>1. EngineOK /\ MoneyOK /\ LoopInv
  BY TypeIs DEF IInv
<1>2. /\ loop' \in LoopRecords /\ loop'.t = loop.t /\ loop.at = "resolving"
      /\ loop'.at \in {"prefetch", "idle"}
  BY <1>1 DEF NotFound, EngineOK, LoopRecords, Awaits, Running
<1>3. UNCHANGED <<now, kOf, session, current, settling, tracked, money>> /\ next' \in {next, None}
  BY DEF NotFound
<1>4. EngineOK' /\ MoneyOK'
  BY <1>1, <1>2, <1>3 DEF EngineOK, MoneyOK, money
<1>5. LoopInv'
  BY <1>1, <1>2, <1>3 DEF LoopInv, EngineOK
<1>6. CurrentState'
  BY <1>2, <1>3 DEF IInv, CurrentState
<1> QED
  BY <1>1, <1>2, <1>3, <1>4, <1>5, <1>6, SessionsStay, TypeIs DEF IInv, LoopInv, EngineOK, LoopRecords

(* The window that is being created lies ahead, and has never been current.  *)
LEMMA WantedIs ==
  ASSUME IInv, loop.at \in {"resolving", "connecting"}
  PROVE  /\ Wanted \in Windows
         /\ Wanted # current
         /\ Wanted >= WindowAt(loop.t)
         /\ session[Wanted].state \in Untouched
         /\ Wanted \notin settling
<1>1. EngineOK /\ LoopInv /\ Ahead /\ SettlingInv
  BY TypeIs DEF IInv
<1>2. /\ WindowAt(loop.t) \in Int /\ 0 <= WindowAt(loop.t) /\ WindowAt(loop.t) <= LastWindow
      /\ loop.goal = "current" => Wanted = WindowAt(loop.t)
      /\ loop.goal # "current" => Wanted = WindowAt(loop.t) + 1
  BY <1>1, WindowAssumption DEF EngineOK, LoopRecords, WindowAt, Wanted
<1>3. Wanted \in Windows
  BY <1>1, <1>2 DEF LoopInv, Windows
<1>4. Wanted # current
  BY <1>1, <1>2, <1>3 DEF LoopInv, Windows, None, NoWindow
<1>5. session[Wanted].state \in Untouched
  BY <1>1, <1>2, <1>3, <1>4 DEF Ahead, Windows
<1> QED
  BY <1>1, <1>2, <1>3, <1>4, <1>5 DEF SettlingInv, Untouched

LEMMA FoundOK == IInv /\ Found => IInv'
<1> SUFFICES ASSUME IInv, Found PROVE IInv'
  OBVIOUS
<1>1. EngineOK /\ MoneyOK /\ LoopInv
  BY TypeIs DEF IInv
<1>2. /\ loop' \in LoopRecords /\ loop'.t = loop.t /\ loop.at = "resolving"
      /\ loop'.at = "connecting" /\ loop'.goal = loop.goal
  BY <1>1 DEF Found, EngineOK, LoopRecords, Awaits, Running
<1>3. UNCHANGED <<now, kOf, session, current, next, settling, money>>
      /\ tracked' = tracked \cup {Wanted}
  BY DEF Found
<1>4. Wanted' = Wanted /\ Wanted \in Windows /\ session[Wanted].state # "DONE"
  BY <1>2, WantedIs DEF Wanted, Untouched
<1>5. EngineOK' /\ MoneyOK'
  BY <1>1, <1>2, <1>3, <1>4 DEF EngineOK, MoneyOK, money
<1>6. LoopInv'
  BY <1>1, <1>2, <1>3, <1>4 DEF LoopInv, EngineOK
<1>7. CurrentState'
  BY <1>2, <1>3 DEF IInv, CurrentState
<1> QED
  BY <1>1, <1>2, <1>3, <1>4, <1>5, <1>6, <1>7, SessionsStay, TypeIs
  DEF IInv, LoopInv, EngineOK, LoopRecords

(* The steps that move a session along.                                      *)
LEMMA RollOK == IInv /\ Roll => IInv'
<1> SUFFICES ASSUME IInv, Roll PROVE IInv'
  OBVIOUS
<1>1. EngineOK /\ MoneyOK /\ LoopInv
  BY TypeIs DEF IInv
<1>2. UNCHANGED <<now, kOf, current, next, settling, tracked, money>> /\ loop.at = "roll"
  BY DEF Roll
<1>3. CASE current # None /\ loop.t >= CloseOf(current)
  <2>1. /\ loop' \in LoopRecords /\ loop'.t = loop.t /\ loop'.goal = loop.goal
        /\ loop'.at = "cancelling"
    BY <1>1, <1>3 DEF Roll, EngineOK, LoopRecords, Awaits, Running
  <2>2. current \in Windows /\ session[current].state = "ACTIVE"
    BY <1>1, <1>2, <1>3 DEF EngineOK, IInv, CurrentState
  <2>3. PICK r \in SessionRecords : /\ session' = [session EXCEPT ![current] = r]
                                    /\ r.state = "CLOSING" /\ r.k = session[current].k
    <3>1. /\ session[current] \in SessionRecords /\ "CLOSING" \in States
          /\ <<session[current].state, "CLOSING">> \in Transitions
      BY <1>1, <2>2 DEF EngineOK, States, Transitions
    <3> QED
      BY <1>3, <3>1, TransitionIs DEF Roll
  <2>4. EngineOK' /\ MoneyOK'
    BY <1>1, <1>2, <2>1, <2>3 DEF EngineOK, MoneyOK, money
  <2>5. LoopInv'
    <3>1. current < WindowAt(loop.t)
      BY <1>1, <1>3, <2>2 DEF CloseOf, WindowAt, EngineOK, LoopRecords, Windows
    <3> QED
      BY <1>1, <1>2, <1>3, <2>1, <3>1 DEF LoopInv, EngineOK
  <2>6. Ahead' /\ OneActive'
    BY <1>1, <1>2, <2>1, <2>2, <2>3 DEF IInv, Ahead, OneActive, EngineOK
  <2>7. NextPending' /\ CurrentState' /\ SettlingInv'
    BY <1>1, <1>2, <2>1, <2>2, <2>3 DEF IInv, NextPending, CurrentState, SettlingInv, EngineOK
  <2>8. TrackedWhileNeeded' /\ KAgrees'
    BY <1>1, <1>2, <2>1, <2>2, <2>3 DEF IInv, TrackedWhileNeeded, KAgrees, EngineOK
  <2> QED
    BY <2>4, <2>5, <2>6, <2>7, <2>8, TypeIs DEF IInv
<1>4. CASE ~(current # None /\ loop.t >= CloseOf(current))
  <2>1. /\ loop' \in LoopRecords /\ loop'.t = loop.t /\ loop'.goal = loop.goal
        /\ loop'.at = "promote" /\ session' = session
    BY <1>1, <1>4 DEF Roll, EngineOK, LoopRecords, Awaits, Running
  <2>2. EngineOK' /\ MoneyOK'
    BY <1>1, <1>2, <2>1 DEF EngineOK, MoneyOK, money
  <2>3. current \in {None, WindowAt(loop.t)}
    BY <1>1, <1>4 DEF CloseOf, WindowAt, EngineOK, LoopRecords, Windows, LoopInv
  <2>4. LoopInv'
    BY <1>1, <1>2, <2>1, <2>3 DEF LoopInv, EngineOK
  <2>5. CurrentState'
    BY <1>2, <2>1 DEF IInv, CurrentState
  <2> QED
    BY <1>1, <1>2, <2>1, <2>2, <2>4, <2>5, SessionsStay, TypeIs
    DEF IInv, LoopInv, EngineOK, LoopRecords
<1> QED
  BY <1>3, <1>4

LEMMA HandOverOK == IInv /\ HandOver => IInv'
<1> SUFFICES ASSUME IInv, HandOver PROVE IInv'
  OBVIOUS
<1>1. EngineOK /\ MoneyOK /\ LoopInv
  BY TypeIs DEF IInv
<1>2. /\ UNCHANGED <<now, kOf, current, next, tracked, money>> /\ loop.at = "cancelling"
      /\ settling' = settling \cup {current}
  BY DEF HandOver
<1>3. /\ loop' \in LoopRecords /\ loop'.t = loop.t /\ loop'.goal = loop.goal
      /\ loop'.at = "snapshotting"
  BY <1>1 DEF HandOver, EngineOK, LoopRecords, Awaits, Running
<1>4. /\ current \in Windows /\ current # None
      /\ session[current].state = "CLOSING" /\ current < WindowAt(loop.t)
  BY <1>1, <1>2 DEF EngineOK, LoopInv, IInv, CurrentState
<1>5. PICK r \in SessionRecords : /\ session' = [session EXCEPT ![current] = r]
                                  /\ r.state = "SETTLING" /\ r.k = session[current].k
  <2>1. /\ session[current] \in SessionRecords /\ "SETTLING" \in States
        /\ <<session[current].state, "SETTLING">> \in Transitions
    BY <1>1, <1>4 DEF EngineOK, States, Transitions
  <2> QED
    BY <2>1, TransitionIs DEF HandOver
<1>6. EngineOK' /\ MoneyOK'
  BY <1>1, <1>2, <1>3, <1>4, <1>5 DEF EngineOK, MoneyOK, money
<1>7. LoopInv'
  BY <1>1, <1>2, <1>3, <1>4 DEF LoopInv, EngineOK
<1>8. Ahead' /\ OneActive' /\ NextPending' /\ CurrentState'
  BY <1>1, <1>2, <1>3, <1>4, <1>5
  DEF IInv, Ahead, OneActive, NextPending, CurrentState, EngineOK
<1>9. SettlingInv'
  <2>1. current < WindowAt(now)
    BY <1>1, <1>4 DEF EngineOK, LoopInv, LoopRecords, WindowAt, Windows
  <2> QED
    BY <1>1, <1>2, <1>4, <1>5, <2>1 DEF IInv, SettlingInv, EngineOK
<1>10. TrackedWhileNeeded' /\ KAgrees'
  BY <1>1, <1>2, <1>4, <1>5 DEF IInv, TrackedWhileNeeded, KAgrees, EngineOK
<1> QED
  BY <1>6, <1>7, <1>8, <1>9, <1>10, TypeIs DEF IInv

(* Settling a window that has left its teardown behind, on sessions that     *)
(* differ from those before at most in a K that was captured.                *)
SameButK(s) == \A v \in Windows : s[v].state = session[v].state

LEMMA SettledOK ==
  ASSUME IInv, NEW s \in [Windows -> SessionRecords], SameButK(s), NEW w \in Windows,
         session[w].state \in {"SETTLING", "DONE"}, SettleStep(s, w),
         UNCHANGED <<now, next>>, loop'.t = loop.t,
         \/ current' = current
         \/ session[current].state # "ACTIVE" /\ current < WindowAt(loop.t)
  PROVE  /\ Ahead' /\ OneActive' /\ NextPending' /\ SettlingInv' /\ TrackedWhileNeeded'
<1>1. EngineOK /\ LoopInv
  BY TypeIs DEF IInv
<1>2. \A v \in Windows : \/ session'[v].state = session[v].state
                         \/ /\ v = w /\ session[v].state = "SETTLING"
                            /\ session'[v].state = "DONE"
                            /\ settling' = settling \ {w} /\ tracked' = tracked \ {w}
  BY DEF SettleStep, SameButK
<1>3. settling' \in SUBSET settling /\ tracked' \in SUBSET tracked /\ tracked \ {w} \in SUBSET tracked'
  BY <1>1 DEF SettleStep, EngineOK
<1>4. Ahead'
  BY <1>1, <1>2 DEF IInv, Ahead, Untouched
<1>5. OneActive'
  BY <1>2 DEF IInv, OneActive
<1>6. NextPending'
  BY <1>1, <1>2 DEF IInv, NextPending, EngineOK
<1>7. SettlingInv'
  BY <1>1, <1>2, <1>3 DEF IInv, SettlingInv, EngineOK
<1>8. TrackedWhileNeeded'
  <2>1. \A v \in Windows \ {w} : v \in tracked' <=> v \in tracked
    BY DEF SettleStep
  <2>2. session'[w].state = session[w].state \/ session'[w].state = "DONE"
    BY <1>2
  <2> QED
    BY <1>2, <2>1, <2>2 DEF IInv, TrackedWhileNeeded, SettleStep, SameButK
<1> QED
  BY <1>4, <1>5, <1>6, <1>7, <1>8

LEMMA ClosedOK == IInv /\ Closed => IInv'
<1> SUFFICES ASSUME IInv, Closed PROVE IInv'
  OBVIOUS
<1>1. EngineOK /\ MoneyOK /\ LoopInv
  BY TypeIs DEF IInv
<1>2. /\ UNCHANGED <<now, kOf, next>> /\ loop.at = "snapshotting" /\ current' = None
  BY DEF Closed
<1>3. /\ loop' \in LoopRecords /\ loop'.t = loop.t /\ loop'.at = "promote"
  BY <1>1 DEF Closed, EngineOK, LoopRecords, Awaits, Running
<1>4. /\ current \in Windows /\ current # None
      /\ session[current].state \in {"SETTLING", "DONE"} /\ current < WindowAt(loop.t)
  BY <1>1, <1>2 DEF EngineOK, LoopInv, IInv, CurrentState
<1>5. SettleStep(session, current) /\ MoneyOK'
  <2>1. CASE current < LastWindow /\ kOf[current + 1] # NoK
    <3>1. kOf[current + 1] \in Stamps \cup {NoK}
      BY <1>1, <1>4, <2>1, WindowAssumption DEF EngineOK, Windows
    <3> QED
      BY <1>1, <1>4, <2>1, <3>1, SettleIs DEF Closed, EngineOK
  <2>2. CASE ~(current < LastWindow /\ kOf[current + 1] # NoK)
    BY <1>1, <2>2 DEF Closed, SettleStep, EngineOK, MoneyOK, money
  <2> QED
    BY <2>1, <2>2
<1>6. EngineOK' /\ tracked' \in SUBSET tracked
  BY <1>1, <1>2, <1>3, <1>5 DEF EngineOK, SettleStep
<1>7. LoopInv'
  BY <1>1, <1>2, <1>3 DEF LoopInv, EngineOK
<1>8. Ahead' /\ OneActive' /\ NextPending' /\ SettlingInv' /\ TrackedWhileNeeded'
  <2>1. session \in [Windows -> SessionRecords] /\ SameButK(session)
    BY <1>1 DEF EngineOK, SameButK
  <2>2. session[current].state # "ACTIVE"
    BY <1>4
  <2> QED
    BY <1>2, <1>3, <1>4, <1>5, <2>1, <2>2, SettledOK
<1>9. CurrentState' /\ KAgrees'
  <2>1. next # None => next \in Windows /\ next # current
    BY <1>1, <1>4 DEF EngineOK, IInv, NextPending
  <2> QED
    BY <1>2, <1>5, <2>1 DEF IInv, CurrentState, KAgrees, SettleStep
<1> QED
  BY <1>5, <1>6, <1>7, <1>8, <1>9, TypeIs DEF IInv

(* A session becomes current: it is new, or was the next one.                *)
LEMMA CurrentOK ==
  ASSUME IInv, NEW w \in Windows, NEW s \in SessionRecords, MakeCurrent(w, s),
         s.state = "PENDING", s.k = kOf[w], w = WindowAt(loop.t), current = None,
         session[w].state \in Untouched, w \in tracked,
         UNCHANGED <<now, kOf, settling, tracked, money>>
  PROVE  IInv'
<1>1. EngineOK /\ MoneyOK /\ LoopInv
  BY TypeIs DEF IInv
<1>2. /\ loop' \in LoopRecords /\ loop'.t = loop.t /\ loop'.at = "prefetch"
      /\ current' = w /\ next' = None
  BY <1>1 DEF MakeCurrent, EngineOK, LoopRecords, Running
<1>3. PICK r \in SessionRecords : /\ session' = [session EXCEPT ![w] = r]
                                  /\ r.state = "ACTIVE" /\ r.k = kOf[w]
  <2>1. /\ Activated(s) \in SessionRecords /\ Activated(s).state = "ACTIVE"
        /\ Activated(s).k = kOf[w] /\ kOf[w] \in Stamps \cup {NoK}
    BY <1>1, ActivatedIs DEF EngineOK
  <2>2. /\ SetK(Activated(s), kOf[w]) \in SessionRecords
        /\ SetK(Activated(s), kOf[w]).state = "ACTIVE"
        /\ SetK(Activated(s), kOf[w]).k = kOf[w]
    BY <2>1, SetKIs
  <2> QED
    BY <2>2 DEF MakeCurrent
<1>4. EngineOK' /\ MoneyOK'
  BY <1>1, <1>2, <1>3 DEF EngineOK, MoneyOK, money
<1>5. LoopInv'
  BY <1>1, <1>2 DEF LoopInv, EngineOK, LoopRecords, WindowAt
<1>6. Ahead' /\ OneActive'
  BY <1>1, <1>2, <1>3 DEF IInv, Ahead, OneActive, EngineOK, Windows, None, NoWindow
<1>7. NextPending' /\ CurrentState' /\ SettlingInv'
  BY <1>1, <1>2, <1>3 DEF IInv, NextPending, CurrentState, SettlingInv, EngineOK, Untouched
<1>8. TrackedWhileNeeded' /\ KAgrees'
  BY <1>1, <1>2, <1>3 DEF IInv, TrackedWhileNeeded, KAgrees, EngineOK
<1> QED
  BY <1>4, <1>5, <1>6, <1>7, <1>8, TypeIs DEF IInv

LEMMA PromoteOK == IInv /\ Promote => IInv'
<1> SUFFICES ASSUME IInv, Promote PROVE IInv'
  OBVIOUS
<1> DEFINE ws == WindowAt(loop.t)
<1>1. EngineOK /\ MoneyOK /\ LoopInv
  BY TypeIs DEF IInv
<1>2. UNCHANGED <<now, kOf, settling, tracked, money>> /\ loop.at = "promote"
  BY DEF Promote
<1>3. CASE current # ws /\ next = ws /\ MakeCurrent(ws, session[ws])
  <2>1. ws \in Int /\ 0 <= ws
    BY <1>1, WindowAssumption DEF EngineOK, LoopRecords, WindowAt
  <2>2. current = None /\ ws \in Windows
    BY <1>1, <1>2, <1>3, <2>1 DEF LoopInv, EngineOK, None, NoWindow
  <2>3. /\ session[ws] \in SessionRecords /\ session[ws].state = "PENDING"
        /\ session[ws].k = kOf[ws] /\ ws \in tracked
    BY <1>1, <1>3, <2>2
    DEF EngineOK, IInv, NextPending, KAgrees, TrackedWhileNeeded, Windows, None, NoWindow
  <2> QED
    BY <1>2, <1>3, <2>2, <2>3, CurrentOK DEF Untouched
<1>4. CASE ~(current # ws /\ next = ws /\ MakeCurrent(ws, session[ws]))
  <2>1. /\ loop' \in LoopRecords /\ loop'.t = loop.t
        /\ \/ loop'.at = "prefetch"
           \/ current # ws /\ loop'.at = "resolving" /\ loop'.goal = "current"
        /\ UNCHANGED <<session, current, next>>
    BY <1>1, <1>4 DEF Promote, EngineOK, LoopRecords, Awaits, Running
  <2>2. EngineOK' /\ MoneyOK'
    BY <1>1, <1>2, <2>1 DEF EngineOK, MoneyOK, money
  <2>3. LoopInv'
    BY <1>1, <1>2, <2>1 DEF LoopInv, EngineOK
  <2>4. CurrentState'
    BY <1>2, <2>1 DEF IInv, CurrentState
  <2> QED
    BY <1>1, <1>2, <2>1, <2>2, <2>3, <2>4, SessionsStay, TypeIs
    DEF IInv, LoopInv, EngineOK, LoopRecords
<1> QED
  BY <1>3, <1>4

LEMMA ConnectedOK == IInv /\ Connected => IInv'
<1> SUFFICES ASSUME IInv, Connected PROVE IInv'
  OBVIOUS
<1>1. EngineOK /\ MoneyOK /\ LoopInv
  BY TypeIs DEF IInv
<1>2. UNCHANGED <<now, kOf, settling, tracked, money>> /\ loop.at = "connecting"
  BY DEF Connected
<1>3. /\ Wanted \in Windows /\ Wanted # current /\ Wanted >= WindowAt(loop.t)
      /\ session[Wanted].state \in Untouched /\ Wanted \notin settling
  BY <1>2, WantedIs
<1>4. /\ Created(Wanted) \in SessionRecords
      /\ Created(Wanted).state = "PENDING" /\ Created(Wanted).k = kOf[Wanted]
  BY <1>1, <1>3, CreatedIs DEF EngineOK
<1>5. Wanted \in tracked
  BY <1>1, <1>2 DEF LoopInv
<1>6. CASE loop.goal = "current"
  <2>1. current = None /\ Wanted = WindowAt(loop.t)
    BY <1>1, <1>2, <1>6 DEF LoopInv, Wanted, EngineOK, LoopRecords, WindowAt
  <2>2. MakeCurrent(Wanted, Created(Wanted))
    BY <1>6 DEF Connected
  <2> QED
    BY <1>2, <1>3, <1>4, <1>5, <2>1, <2>2, CurrentOK
<1>7. CASE loop.goal # "current"
  <2>1. /\ loop' \in LoopRecords /\ loop'.t = loop.t /\ loop'.at = "idle"
        /\ session' = [session EXCEPT ![Wanted] = Created(Wanted)]
        /\ next' = Wanted /\ current' = current
    BY <1>1, <1>7 DEF Connected, EngineOK, LoopRecords, Awaits
  <2> DEFINE c == Created(Wanted)
             n == Wanted
  <2>2. /\ n \in Windows /\ n # current /\ session[n].state \in Untouched /\ n \notin settling
        /\ n \in tracked /\ c \in SessionRecords /\ c.state = "PENDING" /\ c.k = kOf[n]
        /\ session' = [session EXCEPT ![n] = c] /\ next' = n
    BY <1>3, <1>4, <1>5, <2>1
  <2> HIDE DEF c, n
  <2>3. EngineOK' /\ MoneyOK'
    BY <1>1, <1>2, <2>1, <2>2 DEF EngineOK, MoneyOK, money
  <2>4. LoopInv'
    BY <1>1, <1>2, <2>1 DEF LoopInv, EngineOK
  <2>5. Ahead' /\ OneActive'
    BY <1>1, <2>1, <2>2 DEF IInv, Ahead, OneActive, EngineOK, Untouched
  <2>6. NextPending' /\ CurrentState' /\ SettlingInv'
    BY <1>1, <1>2, <2>1, <2>2 DEF IInv, NextPending, CurrentState, SettlingInv, EngineOK
  <2>7. TrackedWhileNeeded' /\ KAgrees'
    BY <1>1, <1>2, <2>1, <2>2 DEF IInv, TrackedWhileNeeded, KAgrees, EngineOK
  <2> QED
    BY <2>3, <2>4, <2>5, <2>6, <2>7, TypeIs DEF IInv
<1> QED
  BY <1>6, <1>7

(* A print is captured wherever the loop gives way.                          *)
LEMMA CapturingIs ==
  ASSUME IInv, NEW w \in Windows, NEW ts \in Stamps, ts < kOf[w],
         kOf' = [kOf EXCEPT ![w] = ts]
  PROVE  /\ Capturing(w) \in [Windows -> SessionRecords]
         /\ \A v \in Windows : /\ Capturing(w)[v].state = session[v].state
                               /\ Capturing(w)[v].close = session[v].close
                               /\ v \in {current, next} => Capturing(w)[v].k = kOf'[v]
                               /\ v \notin {current, next} => Capturing(w)[v] = session[v]
<1>1. EngineOK
  BY TypeIs DEF IInv
<1>2. kOf'[w] = ts /\ \A v \in Windows \ {w} : kOf'[v] = kOf[v]
  BY <1>1 DEF EngineOK
<1>3. \A v \in Windows :
        /\ session[v] \in SessionRecords
        /\ v \in {current, next} => session[v].k = kOf[v]
  BY <1>1 DEF EngineOK, IInv, KAgrees, Windows, None, NoWindow
<1>4. /\ SetK(session[w], ts) \in SessionRecords
      /\ SetK(session[w], ts).state = session[w].state
      /\ SetK(session[w], ts).close = session[w].close
      /\ w \in {current, next} => SetK(session[w], ts).k = ts
  BY <1>3, SetKIs
<1> QED
  BY <1>2, <1>3, <1>4 DEF Capturing

LEMMA OraclePrintOK ==
  ASSUME IInv, NEW w \in Windows, NEW ts \in Stamps, OraclePrint(w, ts)
  PROVE  IInv'
<1>1. EngineOK /\ MoneyOK /\ LoopInv
  BY TypeIs DEF IInv
<1>2. UNCHANGED <<now, loop, current, next>> /\ loop.at \in Awaits
  BY DEF OraclePrint
<1>3. CASE ~(ts < kOf[w])
  <2>1. UNCHANGED <<kOf, session, settling, tracked, money>>
    BY <1>3 DEF OraclePrint
  <2>2. EngineOK' /\ MoneyOK' /\ LoopInv' /\ CurrentState'
    BY <1>1, <1>2, <2>1
    DEF EngineOK, MoneyOK, LoopInv, CurrentState, money, Wanted, IInv
  <2> QED
    BY <1>1, <1>2, <2>1, <2>2, SessionsStay, TypeIs DEF IInv, EngineOK, LoopRecords
<1>4. CASE ts < kOf[w]
  <2>1. kOf' = [kOf EXCEPT ![w] = ts] /\ kOf' \in [Windows -> Stamps \cup {NoK}]
    BY <1>1, <1>4 DEF OraclePrint, EngineOK
  <2> DEFINE s == Capturing(w)
  <2>2. /\ s \in [Windows -> SessionRecords]
        /\ \A v \in Windows : s[v].state = session[v].state /\ s[v].close = session[v].close
        /\ \A v \in Windows : v \in {current, next} => s[v].k = kOf'[v]
    BY <1>4, <2>1, CapturingIs
  <2> HIDE DEF s
  <2>3. PICK c \in Windows :
          /\ SettleStep(s, c) /\ MoneyOK'
          /\ \/ session[c].state \in {"SETTLING", "DONE"}
             \/ session' = s /\ UNCHANGED <<settling, tracked>>
    <3>1. CASE w - 1 \in settling
      <4>1. w - 1 \in Windows /\ session[w - 1].state = "SETTLING"
        BY <1>1, <3>1 DEF EngineOK, IInv, SettlingInv
      <4>2. SettleSession(s, w - 1, ts)
        BY <1>4, <3>1 DEF OraclePrint, s
      <4>3. SettleStep(s, w - 1) /\ MoneyOK'
        BY <1>1, <2>2, <4>1, <4>2, SettleIs
      <4> QED
        BY <4>1, <4>3
    <3>2. CASE w - 1 \notin settling
      <4>1. session' = s /\ UNCHANGED <<settling, tracked, money>>
        BY <1>4, <3>2 DEF OraclePrint, s
      <4> QED
        BY <1>1, <2>2, <4>1 DEF SettleStep, MoneyOK, money, EngineOK
    <3> QED
      BY <3>1, <3>2
  <2>4. settling' \in SUBSET settling /\ tracked' \in SUBSET tracked
    BY <1>1, <2>3 DEF SettleStep, EngineOK
  <2>5. EngineOK'
    BY <1>1, <1>2, <2>1, <2>3, <2>4 DEF EngineOK, SettleStep
  <2>6. Wanted' = Wanted /\ (loop.at = "connecting" => Wanted \in tracked')
    <3>1. loop.at = "connecting" =>
            Wanted \in tracked /\ Wanted \in Windows /\ session[Wanted].state \in Untouched
      BY <1>1, WantedIs DEF LoopInv
    <3>2. loop.at = "connecting" => Wanted # c \/ tracked' = tracked
      BY <2>2, <2>3, <3>1 DEF SettleStep, Untouched
    <3>3. \A v \in Windows \ {c} : v \in tracked => v \in tracked'
      BY <2>3 DEF SettleStep
    <3> QED
      BY <1>2, <3>1, <3>2, <3>3 DEF Wanted
  <2>7. LoopInv'
    BY <1>1, <1>2, <2>6 DEF LoopInv
  <2>8. Ahead' /\ OneActive' /\ NextPending' /\ SettlingInv' /\ TrackedWhileNeeded'
    <3>1. CASE session[c].state \in {"SETTLING", "DONE"}
      BY <1>2, <2>2, <2>3, <3>1, SettledOK DEF SameButK
    <3>2. CASE session' = s /\ UNCHANGED <<settling, tracked>>
      BY <1>1, <1>2, <2>2, <3>2
      DEF IInv, Ahead, OneActive, NextPending, SettlingInv, TrackedWhileNeeded, EngineOK
    <3> QED
      BY <2>3, <3>1, <3>2
  <2>9. CurrentState'
    <3>1. current # None => current \in Windows
      BY <1>1 DEF EngineOK
    <3>2. current # None =>
            \/ session'[current].state = session[current].state
            \/ session[current].state = "SETTLING" /\ session'[current].state = "DONE"
      BY <2>2, <2>3, <3>1 DEF SettleStep
    <3> QED
      BY <1>2, <3>2 DEF IInv, CurrentState
  <2>10. KAgrees'
    BY <1>1, <1>2, <2>2, <2>3 DEF KAgrees, SettleStep, EngineOK
  <2> QED
    BY <2>3, <2>5, <2>7, <2>8, <2>9, <2>10, TypeIs DEF IInv
<1> QED
  BY <1>3, <1>4

(* The steps of the other tasks and of the clock.                            *)
LEMMA OthersOK == IInv /\ (Kill \/ OnKill \/ Advance) => IInv'
<1> SUFFICES ASSUME IInv, Kill \/ OnKill \/ Advance PROVE IInv'
  OBVIOUS
<1>1. EngineOK /\ MoneyOK /\ LoopInv
  BY TypeIs DEF IInv
<1>2. UNCHANGED <<kOf, loop, session, current, next, settling, tracked, pnl, daily>>
  BY DEF Kill, OnKill, Advance, engine, money
<1>3. now' \in 0 .. 2 * LastWindow + 1 /\ now <= now'
  BY <1>1, WindowAssumption DEF Kill, OnKill, Advance, engine, EngineOK
<1>4. breach' \in BOOLEAN /\ stopping' \in BOOLEAN
  BY <1>1 DEF Kill, OnKill, Advance, money, MoneyOK
<1>5. risk' \in [losses: 0 .. MaxLosses - 1, cooldown: Nat, kill: {"off", "handling", "over"}]
  BY <1>1 DEF Kill, OnKill, Advance, money, MoneyOK
<1>6. EngineOK' /\ MoneyOK'
  BY <1>1, <1>2, <1>3, <1>4, <1>5 DEF EngineOK, MoneyOK
<1>7. LoopInv'
  BY <1>1, <1>2, <1>3 DEF LoopInv, EngineOK, LoopRecords, Wanted
<1>8. CurrentState'
  BY <1>2 DEF IInv, CurrentState
<1> QED
  BY <1>1, <1>2, <1>3, <1>6, <1>7, <1>8, SessionsStay, TypeIs
  DEF IInv, LoopInv, EngineOK, LoopRecords

-----------------------------------------------------------------------------
LEMMA NextOK == IInv /\ [Next]_vars => IInv'
<1> SUFFICES ASSUME IInv, [Next]_vars PROVE IInv'
  OBVIOUS
<1>1. CASE UNCHANGED vars
  <2>1. UNCHANGED <<now, kOf, loop, session, current, next, settling, tracked, money>>
    BY <1>1 DEF vars, engine
  <2>2. EngineOK /\ MoneyOK
    BY TypeIs DEF IInv
  <2>3. EngineOK' /\ MoneyOK' /\ LoopInv' /\ CurrentState'
    BY <2>1, <2>2
    DEF EngineOK, MoneyOK, LoopInv, CurrentState, money, Wanted, IInv
  <2> QED
    BY <2>1, <2>2, <2>3, SessionsStay, TypeIs DEF IInv, EngineOK, LoopRecords
<1>2. CASE LoopStep
  BY <1>2, WakeOK, HaltOK, RollOK, HandOverOK, ClosedOK, PromoteOK, PrefetchNextOK,
     NotFoundOK, FoundOK, ConnectedOK DEF LoopStep
<1>3. CASE \E w \in Windows, ts \in Stamps : OraclePrint(w, ts)
  BY <1>3, OraclePrintOK
<1> QED
  BY <1>1, <1>2, <1>3, DiesOK, OthersOK DEF Next

THEOREM Inductive == Spec => []IInv
BY InitOK, NextOK, PTL DEF Spec

(* Every session, reference and print is of its kind, and no session is      *)
(* taken through a transition session.py does not list.                      *)
THEOREM TypeCorrect == Spec => []TypeOK
<1>1. IInv => TypeOK
  BY DEF IInv
<1> QED
  BY <1>1, Inductive, PTL

(* Only the current session trades, the next one is untouched, and only a    *)
(* session whose orders have been cancelled waits for its settlement, at     *)
(* whatever points of a rollover prints come and requests fail.              *)
THEOREM WindowsIsolated == Spec => []SessionsInOrder
<1>1. IInv => SessionsInOrder
  <2> SUFFICES ASSUME IInv PROVE SessionsInOrder
    OBVIOUS
  <2>1. current # None =>
          session[current].state \in
            (CASE loop.at = "cancelling" -> {"CLOSING"}
               [] loop.at = "snapshotting" -> {"SETTLING", "DONE"}
               [] loop.at = "dead" -> {"ACTIVE", "CLOSING", "SETTLING", "DONE"}
               [] OTHER -> {"ACTIVE"})
    BY DEF IInv, CurrentState
  <2> QED
    BY <2>1 DEF IInv, SessionsInOrder, OneActive, NextPending, SettlingInv
<1> QED
  BY <1>1, Inductive, PTL

(* A session in use has its books and its fee model, and none outlives its   *)
(* settlement, though two callers settle and the loop may stop in between.   *)
THEOREM BooksAreThere == Spec => []TrackedWhileNeeded
<1>1. IInv => TrackedWhileNeeded
  BY DEF IInv
<1> QED
  BY <1>1, Inductive, PTL

(* The current and the next session hold the earliest print of their window, *)
(* whether it came before, during or after their creation.                   *)
THEOREM SessionsHaveK == Spec => []KAgrees
<1>1. IInv => KAgrees
  BY DEF IInv
<1> QED
  BY <1>1, Inductive, PTL

-----------------------------------------------------------------------------
(* What a step does to the windows that are settled and to the money: it     *)
(* settles no window, or one that was SETTLING, whose result is booked.      *)
Keeps(v) ==
  /\ session[v].state = "DONE" <=> session'[v].state = "DONE"
  /\ session[v].state = "DONE" => session'[v].close = session[v].close
  /\ pnl'[v] = pnl[v]

Books(w) ==
  /\ session[w].state # "DONE" /\ session'[w].state = "DONE"
  /\ daily' = [daily EXCEPT ![Day(w)] = @ + pnl'[w]]

MoneyStep ==
  \/ daily' = daily /\ \A v \in Windows : Keeps(v)
  \/ \E w \in Windows : Books(w) /\ \A v \in Windows \ {w} : Keeps(v)

(* Settling, on sessions that differ in a K at most.                         *)
LEMMA SettleBooks ==
  ASSUME NEW s, \A v \in Windows : s[v].state = session[v].state /\ s[v].close = session[v].close,
         NEW w \in Windows, SettleStep(s, w)
  PROVE  MoneyStep
<1>1. CASE session'[w] = s[w] /\ pnl' = pnl /\ daily' = daily
  BY <1>1 DEF SettleStep, MoneyStep, Keeps
<1>2. CASE ~(session'[w] = s[w] /\ pnl' = pnl /\ daily' = daily)
  <2>1. Books(w)
    BY <1>2 DEF SettleStep, Books
  <2>2. \A v \in Windows \ {w} : Keeps(v)
    BY <1>2 DEF SettleStep, Keeps
  <2> QED
    BY <2>1, <2>2 DEF MoneyStep
<1> QED
  BY <1>1, <1>2

LEMMA LoopBooks == IInv /\ LoopStep => MoneyStep
<1> SUFFICES ASSUME IInv, LoopStep PROVE MoneyStep
  OBVIOUS
<1>1. EngineOK /\ MoneyOK /\ LoopInv
  BY TypeIs DEF IInv
<1>2. CASE Wake \/ Halt \/ PrefetchNext \/ NotFound \/ Found
  BY <1>2 DEF Wake, Halt, PrefetchNext, NotFound, Found, money, MoneyStep, Keeps
<1>3. CASE Roll
  <2>1. UNCHANGED money
    BY <1>3 DEF Roll
  <2>2. CASE current # None /\ loop.t >= CloseOf(current)
    <3>1. current \in Windows /\ session[current].state = "ACTIVE"
      BY <1>1, <1>3, <2>2 DEF Roll, EngineOK, IInv, CurrentState
    <3>2. Transition(session[current], "CLOSING").state = "CLOSING"
      BY <1>1, <3>1, TransitionIs DEF EngineOK, States, Transitions
    <3>3. session' = [session EXCEPT ![current] = Transition(session[current], "CLOSING")]
      BY <1>3, <2>2 DEF Roll
    <3> QED
      BY <1>1, <2>1, <3>1, <3>2, <3>3 DEF MoneyStep, Keeps, money, EngineOK
  <2>3. CASE ~(current # None /\ loop.t >= CloseOf(current))
    BY <1>3, <2>1, <2>3 DEF Roll, MoneyStep, Keeps, money
  <2> QED
    BY <2>2, <2>3
<1>4. CASE HandOver
  <2>1. current \in Windows /\ session[current].state = "CLOSING"
    BY <1>1, <1>4 DEF HandOver, EngineOK, IInv, LoopInv, CurrentState
  <2>2. Transition(session[current], "SETTLING").state = "SETTLING"
    BY <1>1, <2>1, TransitionIs DEF EngineOK, States, Transitions
  <2>3. session' = [session EXCEPT ![current] = Transition(session[current], "SETTLING")]
    BY <1>4 DEF HandOver
  <2> QED
    BY <1>1, <1>4, <2>1, <2>2, <2>3 DEF HandOver, MoneyStep, Keeps, money, EngineOK
<1>5. CASE Closed
  <2>1. current \in Windows
    BY <1>1, <1>5 DEF Closed, EngineOK, LoopInv
  <2>2. CASE current < LastWindow /\ kOf[current + 1] # NoK
    <3>1. kOf[current + 1] \in Stamps \cup {NoK}
      BY <1>1, <2>1, <2>2, WindowAssumption DEF EngineOK, Windows
    <3>2. SettleStep(session, current)
      BY <1>1, <1>5, <2>1, <2>2, <3>1, SettleIs DEF Closed, EngineOK
    <3> QED
      BY <2>1, <3>2, SettleBooks
  <2>3. CASE ~(current < LastWindow /\ kOf[current + 1] # NoK)
    BY <1>5, <2>3 DEF Closed, money, MoneyStep, Keeps
  <2> QED
    BY <2>2, <2>3
<1>6. ASSUME NEW w \in Windows, NEW r \in SessionRecords,
             session' = [session EXCEPT ![w] = r],
             session[w].state \in Untouched, r.state # "DONE", UNCHANGED money
      PROVE  MoneyStep
  BY <1>1, <1>6 DEF MoneyStep, Keeps, money, EngineOK, Untouched
<1>7. ASSUME NEW w \in Windows, NEW s \in SessionRecords, MakeCurrent(w, s), s.state = "PENDING",
             session[w].state \in Untouched, UNCHANGED money
      PROVE  MoneyStep
  <2>1. Activated(s) \in SessionRecords /\ Activated(s).state = "ACTIVE"
        /\ kOf[w] \in Stamps \cup {NoK}
    BY <1>1, <1>7, ActivatedIs DEF EngineOK
  <2>2. SetK(Activated(s), kOf[w]) \in SessionRecords /\ SetK(Activated(s), kOf[w]).state = "ACTIVE"
    BY <2>1, SetKIs
  <2> QED
    BY <1>6, <1>7, <2>2 DEF MakeCurrent
<1>8. CASE Promote
  <2> DEFINE ws == WindowAt(loop.t)
  <2>1. UNCHANGED money
    BY <1>8 DEF Promote
  <2>2. CASE next = ws /\ MakeCurrent(ws, session[ws])
    <3>1. ws \in Windows /\ session[ws] \in SessionRecords /\ session[ws].state = "PENDING"
      <4>1. ws \in Int /\ 0 <= ws
        BY <1>1, WindowAssumption DEF EngineOK, LoopRecords, WindowAt
      <4> QED
        BY <1>1, <2>2, <4>1 DEF EngineOK, IInv, NextPending, None, NoWindow
    <3> QED
      BY <1>7, <2>1, <2>2, <3>1 DEF Untouched
  <2>3. CASE ~(next = ws /\ MakeCurrent(ws, session[ws]))
    BY <1>8, <2>1, <2>3 DEF Promote, MoneyStep, Keeps, money
  <2> QED
    BY <2>2, <2>3
<1>9. CASE Connected
  <2>1. /\ Wanted \in Windows /\ session[Wanted].state \in Untouched
        /\ Created(Wanted) \in SessionRecords /\ Created(Wanted).state = "PENDING"
    BY <1>1, <1>9, WantedIs, CreatedIs DEF Connected, EngineOK
  <2>2. UNCHANGED money
    BY <1>9 DEF Connected
  <2>3. CASE MakeCurrent(Wanted, Created(Wanted))
    BY <1>7, <2>1, <2>2, <2>3
  <2>4. CASE session' = [session EXCEPT ![Wanted] = Created(Wanted)]
    BY <1>6, <2>1, <2>2, <2>4
  <2> QED
    BY <1>9, <2>3, <2>4 DEF Connected
<1> QED
  BY <1>2, <1>3, <1>4, <1>5, <1>8, <1>9 DEF LoopStep

LEMMA StepBooks == IInv /\ [Next]_vars => MoneyStep
<1> SUFFICES ASSUME IInv, [Next]_vars PROVE MoneyStep
  OBVIOUS
<1>1. EngineOK /\ MoneyOK
  BY TypeIs DEF IInv
<1>2. CASE Dies \/ Kill \/ OnKill \/ Advance \/ UNCHANGED vars
  BY <1>2 DEF Dies, Kill, OnKill, Advance, vars, engine, money, MoneyStep, Keeps
<1>3. ASSUME NEW w \in Windows, NEW ts \in Stamps, OraclePrint(w, ts)
      PROVE  MoneyStep
  <2>1. CASE ~(ts < kOf[w])
    BY <1>3, <2>1 DEF OraclePrint, money, MoneyStep, Keeps
  <2>2. CASE ts < kOf[w]
    <3> DEFINE s == Capturing(w)
    <3>1. /\ s \in [Windows -> SessionRecords]
          /\ \A v \in Windows : s[v].state = session[v].state /\ s[v].close = session[v].close
      BY <1>1, <1>3, <2>2, CapturingIs DEF OraclePrint, EngineOK
    <3>2. CASE w - 1 \in settling
      <4>1. w - 1 \in Windows
        BY <1>1, <3>2 DEF EngineOK
      <4>2. SettleStep(s, w - 1)
        BY <1>1, <1>3, <2>2, <3>1, <3>2, <4>1, SettleIs DEF OraclePrint
      <4> HIDE DEF s
      <4> QED
        BY <3>1, <4>1, <4>2, SettleBooks
    <3>3. CASE w - 1 \notin settling
      <4>1. session' = s /\ UNCHANGED money
        BY <1>3, <2>2, <3>3 DEF OraclePrint
      <4> HIDE DEF s
      <4> QED
        BY <3>1, <4>1 DEF money, MoneyStep, Keeps
    <3> QED
      BY <3>2, <3>3
  <2> QED
    BY <2>1, <2>2
<1> QED
  BY <1>2, <1>3, LoopBooks DEF Next

(* What a window settled at is final, though a print may settle it while its *)
(* teardown is still about to (engine.py _settle_session has two callers).   *)
THEOREM SettledForGood == Spec => SettledIsFinal
<1>1. IInv /\ [Next]_vars =>
        [\A w \in Windows : session[w].state = "DONE" =>
           /\ session'[w].state = "DONE"
           /\ session'[w].close = session[w].close
           /\ pnl'[w] = pnl[w]]_vars
  BY StepBooks DEF MoneyStep, Keeps, Books
<1> QED
  BY <1>1, Inductive, PTL DEF Spec, SettledIsFinal

(* The sum over a day's windows, in the state before a step and after it.    *)
OfDay(d) == {w \in Windows : Day(w) = d}

LEMMA OfDayIs == \A d \in Days : IsFiniteSet(OfDay(d)) /\ OfDay(d) \subseteq Windows
<1>1. IsFiniteSet(Windows)
  BY WindowAssumption, FS_Interval DEF Windows
<1> QED
  BY <1>1, FS_Subset DEF OfDay

LEMMA InitialSum == Init => DailyIsSum
<1> SUFFICES ASSUME Init, NEW d \in Days
             PROVE  daily[d] = SumFunctionOnSet(Settled, OfDay(d))
  BY DEF DailyIsSum, OfDay
<1>1. Settled \in [Windows -> Int] /\ \A w \in OfDay(d) : Settled[w] = 0
  BY DEF Init, Settled, Absent, OfDay
<1> QED
  BY <1>1, OfDayIs, SumOfNothing DEF Init

LEMMA SumStays == IInv /\ IInv' /\ DailyIsSum /\ MoneyStep => DailyIsSum'
<1> SUFFICES ASSUME IInv, IInv', DailyIsSum, MoneyStep, NEW d \in Days
             PROVE  daily'[d] = SumFunctionOnSet(Settled', OfDay(d))
  BY DEF DailyIsSum, OfDay
<1>1. Settled \in [Windows -> Int] /\ Settled' \in [Windows -> Int]
  BY DEF IInv, TypeOK, Settled, Results
<1>2. /\ daily[d] = SumFunctionOnSet(Settled, OfDay(d)) /\ daily[d] \in Int
      /\ daily \in [Days -> Int]
  BY DEF DailyIsSum, OfDay, IInv, TypeOK
<1>3. ASSUME NEW v \in Windows, Keeps(v)
      PROVE  Settled'[v] = Settled[v]
  BY <1>3 DEF Keeps, Settled
<1>4. CASE daily' = daily /\ \A v \in Windows : Keeps(v)
  <2>1. \A v \in OfDay(d) : Settled'[v] = Settled[v]
    BY <1>3, <1>4 DEF OfDay
  <2>2. SumFunctionOnSet(Settled', OfDay(d)) = SumFunctionOnSet(Settled, OfDay(d))
    BY <1>1, <2>1, OfDayIs, SumAgrees
  <2> QED
    BY <1>2, <1>4, <2>2
<1>5. ASSUME NEW w \in Windows, Books(w), \A v \in Windows \ {w} : Keeps(v)
      PROVE  daily'[d] = SumFunctionOnSet(Settled', OfDay(d))
  <2> DEFINE p == pnl'[w]
  <2>1. p \in Int /\ Settled[w] = 0 /\ Settled'[w] = p
    BY <1>5 DEF IInv, TypeOK, Results, Books, Settled
  <2>2. daily' = [daily EXCEPT ![Day(w)] = @ + p]
    BY <1>5 DEF Books
  <2> HIDE DEF p
  <2>3. \A v \in OfDay(d) : Settled'[v] = Settled[v] + (IF v = w THEN p ELSE 0)
    BY <1>1, <1>3, <1>5, <2>1 DEF OfDay
  <2>4. SumFunctionOnSet(Settled', OfDay(d)) =
          SumFunctionOnSet(Settled, OfDay(d)) + (IF w \in OfDay(d) THEN p ELSE 0)
    BY <1>1, <2>1, <2>3, OfDayIs, SumFollows
  <2>5. daily'[d] = daily[d] + (IF w \in OfDay(d) THEN p ELSE 0)
    BY <1>2, <1>5, <2>1, <2>2 DEF OfDay
  <2> QED
    BY <1>2, <2>4, <2>5
<1> QED
  BY <1>4, <1>5 DEF MoneyStep

(* The ledger's day is the sum of what its windows settled at: over both     *)
(* callers of _settle_session, over prints that come late or improve on an   *)
(* earlier one, nothing is booked twice and nothing is lost.                 *)
THEOREM NothingLost == Spec => []DailyIsSum
BY InitialSum, SumStays, StepBooks, Inductive, PTL DEF Spec
=============================================================================
