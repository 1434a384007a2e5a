---------------------------- MODULE MissedSignals ----------------------------
(* One armed window from the discovery of its market (markets/discovery.py)  *)
(* through the sniper (strategy/sniper.py), the entry gates                  *)
(* (risk_manager.py) and the decision log (engine.py) to the edge report,    *)
(* which explains from the log why a window was not traded                   *)
(* (scripts/m2_edge_report.py).  The report works the sniper's filters out   *)
(* again on what was logged: rounded probabilities, sizes it rounds          *)
(* differently, and the last market_meta it finds.  Between the two is the   *)
(* recorder, which drops a line when its queue is full.                      *)
(*                                                                           *)
(* Units: probabilities in millionths, prices in cents, depths and sizes in  *)
(* hundredths of a share, fee rates in basis points.  A tick says how sure   *)
(* the model is of UP and what is asked for the side it favours; flag is a   *)
(* gate that fails whatever the order is.                                    *)
EXTENDS Integers, FiniteSets, SequencesExt

CONSTANTS
  Cfg,          \* the thresholds of config.yaml
  Ticks,        \* what evaluate may see
  Rates,        \* fee rates the exchange may answer
  MinSizes,     \* orderMinSize of the market, 0 if it is missing
  NoAsk,        \* no ask is quoted
  MaxTicks,     \* bound: ticks of the window
  MaxEngineRestarts   \* bound: restarts within the window

One     == 1000000
Unknown == -1          \* the exchange did not answer

\* Gates that the report works out again, and one that it cannot see.
Flags == {"none", "killed", "tie_band", "chainlink_stale", "book_dirty"}
Gates == (Flags \ {"none"}) \cup {"below_min_size", "thin_book"}

(* _validate of config.py: prices lie between 0 and 1, a share of the depth  *)
(* is taken, and a stake is positive and no larger than what a window may    *)
(* take.                                                                     *)
ASSUME SignalsAssumption ==
  /\ Cfg \in [pMin : Nat, maxPrice : 1 .. 99, minEdge : Int, buffer : Int,
               participation : 1 .. 100, stake : Nat \ {0}, windowStake : Nat,
               liquidity : Nat]
  /\ Cfg.stake <= Cfg.windowStake
  /\ Ticks \subseteq [p : 0 .. One, ask : 1 .. 99 \cup {NoAsk}, depth : Nat, flag : Flags]
  /\ NoAsk \notin 1 .. 99 /\ NoAsk \in Int
  /\ Rates \subseteq Nat /\ MinSizes \subseteq Nat /\ MaxEngineRestarts \in Nat

VARIABLES
  meta,      \* the MarketMeta this process trades the window with
  fired,     \* the window is in this process's _fired_windows
  log,       \* what was given to the recorder about the window
  unwritten, \* the numbers of what of it has no line in the file
  begun,     \* how much of log is of earlier processes
  torn,      \* the file ends in half a line
  row,       \* the order's row in the database
  restarts

signalsVars == <<meta, fired, log, unwritten, begun, torn, row, restarts>>

Metas  == [feesKnown : BOOLEAN, rate : Rates \cup {Unknown}, minSize : MinSizes]
NoMeta == [feesKnown |-> FALSE, rate |-> Unknown, minSize |-> Unknown]

(* A tick's document; meta is not written, it is what the process knew.      *)
TickDoc(t, shot, failed) ==
  [kind |-> "tick", tick |-> t, shot |-> shot, failed |-> failed, meta |-> meta]

(* The documents of a kind, and those of them that a reader of the file      *)
(* finds.                                                                    *)
Said(kind)    == {i \in DOMAIN log : log[i].kind = kind}
Numbers(kind) == Said(kind) \ unwritten

(* A rate that is used is one that the exchange gave; only a shot can fail.  *)
SignalsTypeOK ==
  /\ meta \in Metas \cup {NoMeta}
  /\ meta.feesKnown => meta.rate # Unknown
  /\ fired \in BOOLEAN /\ torn \in BOOLEAN
  /\ unwritten \subseteq DOMAIN log
  /\ \A i \in Said("market_meta") : log[i].meta \in Metas
  /\ \A i \in Said("tick") :
       /\ log[i].tick \in Ticks /\ log[i].failed \subseteq Gates
       /\ log[i].failed # {} => log[i].shot
  /\ begun \in 0 .. Len(log)
  /\ row \in {"none", "pending", "written", "lost"}
  /\ restarts \in 0 .. MaxEngineRestarts

SignalsInit ==
  /\ meta = NoMeta
  /\ fired = FALSE /\ log = <<>> /\ unwritten = {} /\ begun = 0 /\ torn = FALSE
  /\ row = "none" /\ restarts = 0

-----------------------------------------------------------------------------
(* Recorder.record drops a document if its queue is full, and its caller     *)
(* does not learn of it.  A first line after half a line is glued to it, and *)
(* the report skips both.                                                    *)
Record(doc) ==
  \E full \in BOOLEAN :
    /\ log' = Append(log, doc)
    /\ unwritten' = unwritten \cup {n \in {Len(log) + 1} : full \/ torn}
    /\ torn' = (torn /\ full)

(* _build_meta: both tokens must answer with the same rate, and a tick size  *)
(* must be known, from the exchange or from Gamma.                           *)
Built(up, down, tickKnown, min) ==
  [feesKnown |-> up # Unknown /\ up = down /\ tickKnown, rate |-> up, minSize |-> min]

(* resolve keeps what it built, fees or not, as long as the process lives.   *)
Resolve ==
  /\ meta = NoMeta
  /\ \E up, down \in Rates \cup {Unknown}, tickKnown \in BOOLEAN, min \in MinSizes :
       meta' = Built(up, down, tickKnown, min)
  /\ Record([kind |-> "market_meta", meta |-> meta'])
  /\ UNCHANGED <<fired, begun, row, restarts>>

(* FeeModel.fee_per_share; the report has a copy.                            *)
Fee(rate, ask) == (rate * ask * (100 - ask)) \div 100

Edge(sure, ask, rate) == sure - ask * 10000 - Fee(rate, ask) - Cfg.buffer

(* The side the model is sure of, if it is sure enough of one.               *)
Sureness(t) == IF t.p >= Cfg.pMin THEN t.p ELSE One - t.p
Sure(t)     == Sureness(t) >= Cfg.pMin

Rounded(n, d) == (2 * n + d) \div (2 * d)

(* Mutant: the whole depth is taken.                                         *)
BadSize(t) ==
  LET sizes == {t.depth, Rounded(Cfg.stake * 10000, t.ask), Rounded(Cfg.windowStake * 10000, t.ask)}
  IN CHOOSE s \in sizes : \A r \in sizes : s <= r

(* SniperStrategy._size: the smallest of three, rounded to hundredths.       *)
Size(t) ==
  LET sizes == {Rounded(t.depth * Cfg.participation, 100),
                Rounded(Cfg.stake * 10000, t.ask), Rounded(Cfg.windowStake * 10000, t.ask)}
  IN CHOOSE s \in sizes : \A r \in sizes : s <= r

(* SniperStrategy.evaluate after its one shot per window, in a market m.     *)
Wants(m, t) ==
  /\ m.feesKnown /\ Sure(t)
  /\ t.ask # NoAsk /\ t.depth > 0 /\ t.ask <= Cfg.maxPrice
  /\ Edge(Sureness(t), t.ask, m.rate) >= Cfg.minEdge
  /\ Size(t) > 0

(* check_entry.                                                              *)
Failed(m, t) ==
  ({t.flag} \ {"none"})
    \cup {g \in {"below_min_size"} : Size(t) < m.minSize * 100}
    \cup {g \in {"thin_book"} : t.depth * 10 < Size(t) * Cfg.liquidity}

Shoots(t) == ~fired /\ Wants(meta, t)

(* evaluate and _handle_intent on an armed tick: it is logged whether the    *)
(* sniper shoots or not, and a shot that a gate blocks is spent.             *)
Evaluate(t) ==
  /\ meta # NoMeta /\ Cardinality(Said("tick")) < MaxTicks
  /\ LET failed == IF Shoots(t) THEN Failed(meta, t) ELSE {}
     IN /\ Record(TickDoc(t, Shoots(t), failed))
        /\ row' = IF Shoots(t) /\ failed = {} THEN "pending" ELSE row
  /\ fired' = (fired \/ Shoots(t))
  /\ UNCHANGED <<meta, begun, restarts>>

(* Before the window is armed a gate blocks an entry of the scalper.         *)
ScalperBlocked ==
  /\ meta.feesKnown /\ Said("tick") = {} /\ Said("scalper") = {}
  /\ Record([kind |-> "scalper"])
  /\ UNCHANGED <<meta, fired, begun, row, restarts>>

RowWritten ==
  /\ row = "pending"
  /\ row' = "written"
  /\ UNCHANGED <<meta, fired, log, unwritten, begun, torn, restarts>>

(* The write fails or is cancelled, or a later process, which numbers its    *)
(* orders from one again, replaces the row by another window's (Tables).     *)
RowLost ==
  /\ row = "pending" \/ (row = "written" /\ restarts > 0)
  /\ row' = "lost"
  /\ UNCHANGED <<meta, fired, log, unwritten, begun, torn, restarts>>

(* The process is killed and started again: what its recorder still held is  *)
(* gone, perhaps from the middle of a line on.                               *)
RestartEngine ==
  /\ restarts < MaxEngineRestarts
  /\ restarts' = restarts + 1
  /\ \E kept \in begun .. Len(log) :
       /\ log' = SubSeq(log, 1, kept)
       /\ unwritten' = unwritten \cap 1 .. kept
       /\ begun' = kept
       /\ torn' \in {b \in BOOLEAN : b => torn \/ kept < Len(log)}
       /\ torn => torn'
  /\ meta' = NoMeta /\ fired' = FALSE
  /\ row' = IF row = "pending" THEN "lost" ELSE row

SignalsNext ==
  \/ Resolve \/ ScalperBlocked \/ RowWritten \/ RowLost \/ RestartEngine
  \/ \E t \in Ticks : Evaluate(t)

SignalsSpec == SignalsInit /\ [][SignalsNext]_signalsVars

-----------------------------------------------------------------------------
(* What the report reads of a logged tick: P_up has five digits.             *)
Logged(t) == [t EXCEPT !.p = Rounded(t.p, 10) * 10]

(* The market_meta documents of the window: a replay and the report both     *)
(* take the last one.  Without one the report assumes 1000 bps, five shares. *)
Recorded == Numbers("market_meta")

MetaDoc ==
  IF Recorded = {} THEN [feesKnown |-> TRUE, rate |-> 1000, minSize |-> 5]
                   ELSE log[Max(Recorded)].meta

(* The report's size is the smaller of two, and is not rounded.              *)
TooSmall(t) ==
  \/ t.depth * Cfg.participation < MetaDoc.minSize * 10000
  \/ Cfg.stake * 100 < MetaDoc.minSize * t.ask

ThinBook(t) ==
  /\ 1000 < Cfg.participation * Cfg.liquidity
  /\ t.depth * t.ask * 10 < Cfg.stake * 10000 * Cfg.liquidity

(* sniper_first_fail: the first filter or gate that would stop the sniper.   *)
Filters(t) ==
  << <<"no_ask_quoted", t.ask = NoAsk \/ t.depth = 0>>,
     <<"ask_above_price_cap", t.ask > Cfg.maxPrice>>,
     <<"edge_below_min_after_fees", Edge(Sureness(t), t.ask, MetaDoc.rate) < Cfg.minEdge>>,
     <<"below_min_size", TooSmall(t)>>,
     <<"tie_band", t.flag = "tie_band">>,
     <<"chainlink_stale", t.flag = "chainlink_stale">>,
     <<"book_dirty", t.flag = "book_dirty">>,
     <<"thin_book", ThinBook(t)>> >>

FirstFail(t) ==
  LET F    == Filters(t)
      fail == {i \in DOMAIN F : F[i][2]}
  IN IF fail = {} THEN "none" ELSE F[CHOOSE i \in fail : \A j \in fail : i <= j][1]

(* An intent in the log that a gate blocked, the sniper's or the scalper's.  *)
Blocked == Numbers("scalper") # {} \/ \E i \in Numbers("tick") : log[i].failed # {}

(* Why the tick did not trade: what blocked an intent explains every tick    *)
(* that no filter explains.                                                  *)
Reason(i) ==
  LET fail == FirstFail(Logged(log[i].tick))
  IN IF fail # "none" THEN fail
     ELSE IF Blocked THEN "blocked" ELSE "would_fire_unexplained"

Qualifying == {i \in Numbers("tick") : Sure(Logged(log[i].tick))}

(* The report looks only into windows that have no order row.                *)
Missed == row # "written" /\ Qualifying # {}

(* The sweep over other thresholds: the first tick that trades with them, as *)
(* far as they are at least as strict as the sniper's own.                   *)
SweepPMin     == {880000, 900000, 920000, 940000}
SweepMaxPrice == {95, 96}

Stricter == {s \in SweepPMin \X SweepMaxPrice : s[1] >= Cfg.pMin /\ s[2] <= Cfg.maxPrice}

SweepHits(t, pm, mp) ==
  /\ t.flag \in {"none", "killed"}
  /\ t.ask # NoAsk /\ t.depth > 0 /\ t.ask <= mp /\ Sureness(t) >= pm
  /\ Edge(Sureness(t), t.ask, MetaDoc.rate) >= Cfg.minEdge
  /\ \A size \in {Rounded(t.depth * Cfg.participation, 100), Rounded(Cfg.stake * 10000, t.ask)} :
       size >= MetaDoc.minSize * 100

Swept(pm, mp) ==
  LET hits == {i \in Numbers("tick") : SweepHits(Logged(log[i].tick), pm, mp)}
  IN {i \in hits : \A j \in hits : i <= j}

-----------------------------------------------------------------------------
(* Rounding P_up moves it over no threshold.                                 *)
SameSureness(t, rate) ==
  /\ t.p >= Cfg.pMin <=> Logged(t).p >= Cfg.pMin
  /\ Sure(t) <=> Sure(Logged(t))
  /\ t.ask # NoAsk =>
       (Edge(Sureness(t), t.ask, rate) >= Cfg.minEdge
          <=> Edge(Sureness(Logged(t)), t.ask, rate) >= Cfg.minEdge)

(* Nor does rounding the share of the depth move it over the smallest size   *)
(* of an order or of the market; where the book may be thin at all, neither  *)
(* that share nor what the stake buys is rounded.                            *)
SameSize(t, min) ==
  LET share == t.depth * Cfg.participation
  IN /\ share \notin 1 .. 49
     /\ share \notin min * 10000 - 50 .. min * 10000 - 1
     /\ t.ask # NoAsk /\ 1000 < Cfg.participation * Cfg.liquidity =>
          share % 100 = 0 /\ (Cfg.stake * 10000) % t.ask = 0

(* Where the report need not guess: what it reads rounded decides nothing,   *)
(* and the process that saw the tick knew the meta that is the last one in   *)
(* the file, with fees.                                                      *)
Exact(doc) ==
  /\ doc.meta = MetaDoc /\ doc.meta.feesKnown
  /\ SameSureness(doc.tick, MetaDoc.rate)
  /\ SameSize(doc.tick, MetaDoc.minSize)

(* The tick came after a shot that a gate blocked and whose line is not in   *)
(* the file.                                                                 *)
BlockedUnseen(i) == \E j \in Said("tick") \cap unwritten : j < i /\ log[j].failed # {}

(* The report's explanation of a missed window is the engine's own           *)
(* (m2_edge_report.py:141-142): a shot that a gate blocked is put down to    *)
(* that gate or to what was blocked, never to one of the sniper's filters; a *)
(* shot that passed is never explained away; and what it calls an anomaly is *)
(* one: an order was made and its row is missing, or the recorder dropped    *)
(* the line of a shot that was blocked before.                               *)
MissesExplained ==
  Missed =>
    \A i \in Qualifying :
      Exact(log[i]) =>
        /\ log[i].failed # {} => Reason(i) \in log[i].failed \cup {"blocked"}
        /\ log[i].shot /\ log[i].failed = {} => Reason(i) \in {"would_fire_unexplained", "blocked"}
        /\ Reason(i) = "would_fire_unexplained" => row \in {"pending", "lost"} \/ BlockedUnseen(i)

(* The sweep counts no trade with stricter thresholds that the sniper would  *)
(* not have tried: by that tick it has shot, whether the file says so or     *)
(* not.                                                                      *)
SweepIsPossible ==
  \A s \in Stricter :
    \A i \in Swept(s[1], s[2]) :
      Exact(log[i]) => \E j \in Said("tick") : j <= i /\ log[j].shot

(* The edge report says of a window only what the engine did in it, wherever *)
(* what it reads rounded decides nothing.                                    *)
ReportExplains == MissesExplained /\ SweepIsPossible
=============================================================================
