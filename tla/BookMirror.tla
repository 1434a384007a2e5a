----------------------------- MODULE BookMirror -----------------------------
(* The market feed (feeds/polymarket_clob_ws.py) on the reconnecting client  *)
(* of feeds/base.py: which books are tracked, the subscription of a          *)
(* connection, the REST resync that precedes the reading of frames, the      *)
(* snapshots, changes and malformed frames it reads, and the reconnects the  *)
(* engine forces because a connection takes one subscription only.           *)
(*                                                                           *)
(* A token stands for the two books of a window, which are tracked together. *)
(* A price level is there or not; a book is what matters of OrderBook: the   *)
(* levels of each side.  The exchange is external: it keeps the true books   *)
(* and sends, on one ordered connection, a snapshot of every book it was     *)
(* asked for and then its changes.                                           *)
EXTENDS Integers, FiniteSets, Sequences, SequencesExt

CONSTANTS
  Tokens,
  Prices,         \* price levels, as numbers
  MaxChanges,     \* bound on the changes of one frame
  MaxFrames,      \* bound on the frames in flight
  MaxReconnects,  \* bound on the connections that are lost
  Anomalies       \* the kinds of broken frames that may occur

ASSUME TokensAssumption == IsFiniteSet(Tokens)
ASSUME PriceAssumption == Prices \subseteq Nat
ASSUME BoundAssumption ==
  MaxChanges \in Nat \ {0} /\ MaxFrames \in Nat /\ MaxReconnects \in Nat
ASSUME AnomalyAssumption == Anomalies \subseteq {"malformed", "unreadable"}

VARIABLES
  server,      \* the exchange's books, and the tokens it streams
  link,        \* the connection
  mirror,      \* the OrderBook of each token
  reconnects   \* health.reconnects

vars == <<server, link, mirror, reconnects>>

Books   == [bids: SUBSET Prices, asks: SUBSET Prices]
Empty   == [bids |-> {}, asks |-> {}]
Crossed(b) == \E bid \in b.bids, ask \in b.asks : bid >= ask

Sides   == {"bids", "asks"}
Changes == UNION {[1 .. n -> [side: Sides, price: Prices, on: BOOLEAN]] : n \in 1 .. MaxChanges}

Unknown == [phase |-> "new", book |-> Empty, dirty |-> TRUE]
Mirrors == [phase: {"new", "tracked", "gone"}, book: Books, dirty: BOOLEAN]
Tracked == {t \in Tokens : mirror[t].phase = "tracked"}

(* asked is the subscription of this connection, todo the books rest_resync  *)
(* has not fetched yet, reply what REST answered for one of them.  Auxiliary *)
(* are fresh, the books that got a snapshot on this connection, and lost,    *)
(* the books of which an unreadable frame was sent after the last full one.  *)
Frames  == [kind: {"book"}, token: Tokens, book: Books]
           \cup [kind: {"change"}, token: Tokens, changes: Changes]
           \cup [kind: {"malformed", "unreadable"}, token: Tokens]
Replies == {<<>>} \cup (Tokens \X Books)
Down    == [at |-> "down", closed |-> FALSE, asked |-> {}, wire |-> <<>>,
            todo |-> {}, reply |-> <<>>, fresh |-> {}, lost |-> {}]

Links == [at: {"down", "resync", "reading", "dead"}, closed: BOOLEAN,
          asked: SUBSET Tokens, wire: Seq(Frames),
          todo: SUBSET Tokens, reply: Replies, fresh: SUBSET Tokens, lost: SUBSET Tokens]

TypeOK ==
  /\ server \in [books: [Tokens -> Books], streams: SUBSET Tokens]
  /\ link \in Links
  /\ mirror \in [Tokens -> Mirrors]
  /\ reconnects \in 0 .. MaxReconnects + Cardinality(Tokens)

Init ==
  /\ server = [books |-> [t \in Tokens |-> Empty], streams |-> {}]
  /\ link = Down
  /\ mirror = [t \in Tokens |-> Unknown]
  /\ reconnects = 0

-----------------------------------------------------------------------------
(* OrderBook.                                                                *)
ApplySnapshot(m, b) == [m EXCEPT !.book = b, !.dirty = Crossed(b)]

WithLevel(b, c) ==
  [b EXCEPT ![c.side] = IF c.on THEN @ \cup {c.price} ELSE @ \ {c.price}]

(* Mutant: a level whose size is now 0 stays.                                *)
BadApplyDelta(m, c) ==
  LET b == [m.book EXCEPT ![c.side] = @ \cup {c.price}]
  IN [m EXCEPT !.book = b, !.dirty = @ \/ Crossed(b)]

(* One change; a book that is crossed even for a moment becomes dirty.       *)
ApplyDelta(m, c) ==
  LET b == WithLevel(m.book, c)
  IN [m EXCEPT !.book = b, !.dirty = @ \/ Crossed(b)]

(* Mutant: a malformed price_change is dropped.                              *)
BadHandled(m, f) ==
  CASE f.kind = "book"   -> ApplySnapshot(m, f.book)
    [] f.kind = "change" -> FoldLeft(ApplyDelta, m, f.changes)
    [] OTHER             -> m

(* _handle_event for the book of the frame's token: a price_change that      *)
(* cannot be read dirties the book, a frame that cannot be read at all or is *)
(* of an unknown type does nothing.                                          *)
Handled(m, f) ==
  CASE f.kind = "book"      -> ApplySnapshot(m, f.book)
    [] f.kind = "change"    -> FoldLeft(ApplyDelta, m, f.changes)
    [] f.kind = "malformed" -> [m EXCEPT !.dirty = TRUE]
    [] OTHER                -> m

-----------------------------------------------------------------------------
(* Mutant: the new book is expected on the connection as it is.              *)
BadReopen(l) == l

(* WsFeed.reconnect: the connection, if there is one, is closed.             *)
Reopen(l) == IF l.at \in {"down", "dead"} THEN l ELSE [l EXCEPT !.closed = TRUE]

(* _create_session: the window's books are tracked and the feed reconnects.  *)
Track(t) ==
  /\ mirror[t].phase = "new"
  /\ mirror' = [mirror EXCEPT ![t].phase = "tracked"]
  /\ link' = Reopen(link)
  /\ UNCHANGED <<server, reconnects>>

Untrack(t) ==
  /\ mirror[t].phase = "tracked"
  /\ mirror' = [mirror EXCEPT ![t] = [Unknown EXCEPT !.phase = "gone"]]
  /\ UNCHANGED <<server, link, reconnects>>

(* Mutant: the subscription is not renewed.                                  *)
BadSubscription == {}

(* on_connected subscribes every tracked book.                               *)
Subscription == Tracked

(* Mutant: the books of the connection before are kept as they were.         *)
BadDirtied(m) == m

Dirtied(m) == [m EXCEPT !.dirty = TRUE]

Connect ==
  /\ link.at = "down"
  /\ mirror' = [t \in Tokens |-> IF t \in Tracked THEN Dirtied(mirror[t]) ELSE mirror[t]]
  /\ link' = [Down EXCEPT !.at = "resync", !.asked = Subscription, !.todo = Tracked]
  /\ UNCHANGED <<server, reconnects>>

(* rest_resync: one request after the other, each answered with the book of  *)
(* that moment or not at all.  Frames wait meanwhile.                        *)
RestAnswers(t) ==
  /\ link.at = "resync"
  /\ link.reply = <<>>
  /\ t \in link.todo
  /\ link' = [link EXCEPT !.reply = <<t, server.books[t]>>]
  /\ UNCHANGED <<server, mirror, reconnects>>

RestFails(t) ==
  /\ link.at = "resync"
  /\ link.reply = <<>>
  /\ t \in link.todo
  /\ link' = [link EXCEPT !.todo = @ \ {t}]
  /\ UNCHANGED <<server, mirror, reconnects>>

(* The answer goes to the book of the time of the request, which may have    *)
(* been untracked since.                                                     *)
RestApplied ==
  /\ link.reply # <<>>
  /\ LET t == link.reply[1] IN
       /\ link' = [link EXCEPT !.reply = <<>>, !.todo = @ \ {t}, !.fresh = @ \cup {t}]
       /\ IF t \in Tracked
          THEN mirror' = [mirror EXCEPT ![t] = ApplySnapshot(@, link.reply[2])]
          ELSE UNCHANGED mirror
  /\ UNCHANGED <<server, reconnects>>

StartReading ==
  /\ link.at = "resync"
  /\ link.todo = {}
  /\ link' = [link EXCEPT !.at = "reading"]
  /\ UNCHANGED <<server, mirror, reconnects>>

ReadFrame ==
  /\ link.at = "reading"
  /\ ~link.closed
  /\ link.wire # <<>>
  /\ LET f == Head(link.wire) IN
       /\ link' = [link EXCEPT !.wire = Tail(@),
                               !.fresh = IF f.kind = "book" THEN @ \cup {f.token} ELSE @]
       /\ IF f.token \in Tracked
          THEN mirror' = [mirror EXCEPT ![f.token] = Handled(@, f)]
          ELSE UNCHANGED mirror
  /\ UNCHANGED <<server, reconnects>>

(* Mutant: a reconnect is counted by the caller and by the loop.             *)
BadConnectionEnds ==
  /\ link.at = "reading"
  /\ link.closed
  /\ link' = Down
  /\ server' = [server EXCEPT !.streams = {}]
  /\ reconnects' = reconnects + 2
  /\ UNCHANGED mirror

(* The read loop finds the connection closed: an incident, and a new one     *)
(* after a pause.  The books keep the state they had.                        *)
ConnectionEnds ==
  /\ link.at = "reading"
  /\ link.closed
  /\ link' = Down
  /\ server' = [server EXCEPT !.streams = {}]
  /\ reconnects' = reconnects + 1
  /\ UNCHANGED mirror

(* Something other than a network error is raised in on_connected or in      *)
(* rest_resync, by an answer that cannot be read, or anything by the writing *)
(* of the incident: the feed's task is over.                                 *)
FeedDies ==
  /\ \/ link.at = "resync" /\ UNCHANGED reconnects
     \/ link.at = "reading" /\ link.closed /\ reconnects' = reconnects + 1
  /\ link' = [Down EXCEPT !.at = "dead", !.closed = TRUE]
  /\ server' = [server EXCEPT !.streams = {}]
  /\ UNCHANGED mirror

Feed ==
  \/ Connect \/ RestApplied \/ StartReading \/ ReadFrame \/ ConnectionEnds
  \/ \E t \in Tokens : RestAnswers(t) \/ RestFails(t)

-----------------------------------------------------------------------------
(* The exchange starts to stream what it was asked for.                      *)
Streams ==
  /\ link.at # "down"
  /\ ~link.closed
  /\ server.streams # link.asked
  /\ server' = [server EXCEPT !.streams = link.asked]
  /\ link' = [link EXCEPT !.wire = @ \o
       [i \in 1 .. Cardinality(link.asked) |->
          LET t == SetToSeq(link.asked)[i]
          IN [kind |-> "book", token |-> t, book |-> server.books[t]]]]
  /\ UNCHANGED <<mirror, reconnects>>

(* Changes of a book name a level once, and a level comes or goes.           *)
ChangesOf(b) ==
  {cs \in Changes :
     /\ \A i \in DOMAIN cs : (cs[i].price \in b[cs[i].side]) # cs[i].on
     /\ \A i, j \in DOMAIN cs : i # j => <<cs[i].side, cs[i].price>> # <<cs[j].side, cs[j].price>>
     /\ ~Crossed(FoldLeft(WithLevel, b, cs))}

(* A frame goes out.                                                         *)
Sent(f) ==
  [link EXCEPT !.wire = Append(@, f),
               !.lost = CASE f.kind = "unreadable" -> @ \cup {f.token}
                          [] f.kind = "book"       -> @ \ {f.token}
                          [] OTHER                 -> @]

(* A book changes, and its change is sent whole or broken.                   *)
ServerChanges(t, cs, frame) ==
  /\ server' = [server EXCEPT !.books[t] = FoldLeft(WithLevel, @, cs)]
  /\ IF t \in server.streams /\ ~link.closed
     THEN /\ Len(link.wire) < MaxFrames
          /\ link' = Sent(frame)
     ELSE frame.kind = "change" /\ UNCHANGED link
  /\ UNCHANGED <<mirror, reconnects>>

(* A snapshot of a book the connection streams.                              *)
ServerSnapshot(t) ==
  /\ t \in server.streams /\ ~link.closed
  /\ Len(link.wire) < MaxFrames
  /\ link' = Sent([kind |-> "book", token |-> t, book |-> server.books[t]])
  /\ UNCHANGED <<server, mirror, reconnects>>

LoseConnection ==
  /\ link.at # "down"
  /\ ~link.closed
  /\ reconnects < MaxReconnects
  /\ link' = [link EXCEPT !.closed = TRUE]
  /\ UNCHANGED <<server, mirror, reconnects>>

Exchange ==
  \/ Streams \/ LoseConnection
  \/ \E t \in Tokens :
       \/ ServerSnapshot(t)
       \/ \E cs \in ChangesOf(server.books[t]) :
            \/ ServerChanges(t, cs, [kind |-> "change", token |-> t, changes |-> cs])
            \/ \E k \in Anomalies : ServerChanges(t, cs, [kind |-> k, token |-> t])

Next ==
  \/ Feed
  \/ FeedDies
  \/ Exchange
  \/ \E t \in Tokens : Track(t) \/ Untrack(t)

Spec == Init /\ [][Next]_vars

(* The client keeps running, connections are made, requests end, and the     *)
(* exchange sends the full book on a subscription and, as FACTS.md 4.3 says, *)
(* on every trade-affecting event, of which a streamed book never runs out.  *)
LiveSpec ==
  /\ Spec /\ WF_vars(Feed) /\ WF_vars(Streams)
  /\ \A t \in Tokens : SF_vars(ServerSnapshot(t))

-----------------------------------------------------------------------------
(* A book that is tracked while a connection is being set up, resynced or    *)
(* read is part of its subscription, or the connection is being closed for   *)
(* it (engine.py:233): no window is traded blind.                            *)
NoBlindBook == link.at # "down" /\ ~link.closed => Tracked \subseteq link.asked

(* A clean book is the exchange's, once what is on the wire has been read,   *)
(* whatever the order of REST answers, snapshots and changes: an unreadable  *)
(* frame, which the feed skips (polymarket_clob_ws.py:189), makes no book    *)
(* wrong but its own, and that one only until a full book is sent.           *)
CleanIsTrue ==
  \A t \in (Tracked \cap server.streams) \ link.lost :
    link.at = "reading" /\ ~link.closed /\ ~mirror[t].dirty
      /\ (\A i \in DOMAIN link.wire : link.wire[i].token # t)
    => mirror[t].book = server.books[t]

(* What a connection left behind is not trusted on the next one: a book is   *)
(* clean only by a snapshot, REST's or the stream's, of this connection.     *)
CleanIsFresh ==
  link.at \in {"resync", "reading"} => \A t \in Tracked : ~mirror[t].dirty => t \in link.fresh

(* A book that is tracked becomes readable, through reconnects, failing REST *)
(* requests, malformed and crossing changes, as long as the feed's task      *)
(* lives.                                                                    *)
BecomesClean ==
  \A t \in Tokens :
    t \in Tracked /\ mirror[t].dirty
      ~> t \notin Tracked \/ ~mirror[t].dirty \/ link.at = "dead"
=============================================================================
