-------------------------- MODULE BookMirrorProofs --------------------------
(* Proofs about BookMirror: that a book the bot takes for clean is the       *)
(* exchange's book, on a connection that subscribed to it.                   *)
EXTENDS BookMirror, FoldLemmas, SequenceTheorems, TLAPS

-----------------------------------------------------------------------------
(* The folds of the model, as the functions they choose.                     *)
DeltaStep(m, cs, g) ==
  [s \in SUBSET DOMAIN cs |->
     IF s = {} THEN m ELSE LET x == Max(s) IN ApplyDelta(g[s \ {x}], cs[x])]

DeltaFold(m, cs) == CHOOSE g : g = DeltaStep(m, cs, g)

LevelStep(b, cs, g) ==
  [s \in SUBSET DOMAIN cs |->
     IF s = {} THEN b ELSE LET x == Max(s) IN WithLevel(g[s \ {x}], cs[x])]

LevelFold(b, cs) == CHOOSE g : g = LevelStep(b, cs, g)

LEMMA DeltaFoldIs ==
  ASSUME NEW m, NEW cs
  PROVE  FoldLeft(ApplyDelta, m, cs) = DeltaFold(m, cs)[DOMAIN cs]
BY Zenon DEF FoldLeft, MapThenFoldSet, DeltaStep, DeltaFold

LEMMA LevelFoldIs ==
  ASSUME NEW b, NEW cs
  PROVE  FoldLeft(WithLevel, b, cs) = LevelFold(b, cs)[DOMAIN cs]
BY Zenon DEF FoldLeft, MapThenFoldSet, LevelStep, LevelFold

(* One change.                                                               *)
LEMMA WithLevelIs ==
  ASSUME NEW b \in Books, NEW c \in [side: Sides, price: Prices, on: BOOLEAN]
  PROVE  WithLevel(b, c) \in Books
BY DEF WithLevel, Books, Sides

LEMMA ApplyDeltaIs ==
  ASSUME NEW m \in Mirrors, NEW c \in [side: Sides, price: Prices, on: BOOLEAN]
  PROVE  /\ ApplyDelta(m, c) \in Mirrors
         /\ ApplyDelta(m, c).phase = m.phase
         /\ m.dirty => ApplyDelta(m, c).dirty
         /\ ApplyDelta(m, c).book = WithLevel(m.book, c)
<1>1. m.book \in Books /\ WithLevel(m.book, c) \in Books
  BY WithLevelIs DEF Mirrors
<1>2. Crossed(WithLevel(m.book, c)) \in BOOLEAN
  BY DEF Crossed
<1> QED
  BY <1>1, <1>2 DEF ApplyDelta, Mirrors

LEMMA ChangesAre ==
  ASSUME NEW cs \in Changes
  PROVE  /\ IsFiniteSet(DOMAIN cs)
         /\ \A i \in DOMAIN cs : cs[i] \in [side: Sides, price: Prices, on: BOOLEAN]
         /\ \A s \in SUBSET DOMAIN cs : s # {} => Max(s) \in s
<1>1. PICK n \in 1 .. MaxChanges : cs \in [1 .. n -> [side: Sides, price: Prices, on: BOOLEAN]]
  BY DEF Changes
<1>2. n \in Nat /\ DOMAIN cs = 1 .. n
  BY <1>1, BoundAssumption
<1>3. IsFiniteSet(1 .. n)
  BY <1>2, FS_Interval
<1>4. \A s \in SUBSET (1 .. n) : s # {} => Max(s) \in s
  BY <1>2, MaxIs
<1> QED
  BY <1>1, <1>2, <1>3, <1>4

(* So a frame's changes make of a book what they make of the exchange's, and *)
(* what was dirty before them is dirty after them.                           *)
LEMMA LevelFoldStep ==
  ASSUME NEW b \in Books, NEW cs \in Changes
  PROVE  LevelFold(b, cs) = LevelStep(b, cs, LevelFold(b, cs))
<1> DEFINE S == DOMAIN cs
           step == [x \in S |-> [v \in Books |-> WithLevel(v, cs[x])]]
           pick == [s \in SUBSET S |-> Max(s)]
<1>1. step \in [S -> [Books -> Books]] /\ \A x \in S, v \in Books : step[x][v] = WithLevel(v, cs[x])
  BY ChangesAre, WithLevelIs
<1>2. Picks(pick, S) /\ \A s \in SUBSET S : pick[s] = Max(s) /\ (s # {} => Max(s) \in S)
  BY ChangesAre DEF Picks
<1> HIDE DEF step, pick
<1>3. PICK g \in [SUBSET S -> Books] : Folds(g, b, step, pick, SUBSET S)
  BY <1>1, <1>2, ChangesAre, FoldExists
<1>4. ASSUME NEW s \in SUBSET S
      PROVE  g[s] = IF s = {} THEN b ELSE LET x == Max(s) IN WithLevel(g[s \ {x}], cs[x])
  <2>1. g[s] = IF s = {} THEN b ELSE step[Max(s)][g[s \ {Max(s)}]]
    BY <1>2, <1>3 DEF Folds
  <2> QED
    BY <1>1, <1>2, <1>3, <2>1
<1>5. g = LevelStep(b, cs, g)
  BY <1>3, <1>4 DEF LevelStep
<1> QED
  BY <1>5, Zenon DEF LevelFold

LEMMA DeltaFoldStep ==
  ASSUME NEW m \in Mirrors, NEW cs \in Changes
  PROVE  DeltaFold(m, cs) = DeltaStep(m, cs, DeltaFold(m, cs))
<1> DEFINE S == DOMAIN cs
           step == [x \in S |-> [v \in Mirrors |-> ApplyDelta(v, cs[x])]]
           pick == [s \in SUBSET S |-> Max(s)]
<1>1. step \in [S -> [Mirrors -> Mirrors]]
      /\ \A x \in S, v \in Mirrors : step[x][v] = ApplyDelta(v, cs[x])
  BY ChangesAre, ApplyDeltaIs
<1>2. Picks(pick, S) /\ \A s \in SUBSET S : pick[s] = Max(s) /\ (s # {} => Max(s) \in S)
  BY ChangesAre DEF Picks
<1> HIDE DEF step, pick
<1>3. PICK g \in [SUBSET S -> Mirrors] : Folds(g, m, step, pick, SUBSET S)
  BY <1>1, <1>2, ChangesAre, FoldExists
<1>4. ASSUME NEW s \in SUBSET S
      PROVE  g[s] = IF s = {} THEN m ELSE LET x == Max(s) IN ApplyDelta(g[s \ {x}], cs[x])
  <2>1. g[s] = IF s = {} THEN m ELSE step[Max(s)][g[s \ {Max(s)}]]
    BY <1>2, <1>3 DEF Folds
  <2> QED
    BY <1>1, <1>2, <1>3, <2>1
<1>5. g = DeltaStep(m, cs, g)
  BY <1>3, <1>4 DEF DeltaStep
<1> QED
  BY <1>5, Zenon DEF DeltaFold

LEMMA ChangesApplied ==
  ASSUME NEW m \in Mirrors, NEW cs \in Changes
  PROVE  /\ FoldLeft(WithLevel, m.book, cs) \in Books
         /\ FoldLeft(ApplyDelta, m, cs) \in Mirrors
         /\ FoldLeft(ApplyDelta, m, cs).phase = m.phase
         /\ m.dirty => FoldLeft(ApplyDelta, m, cs).dirty
         /\ FoldLeft(ApplyDelta, m, cs).book = FoldLeft(WithLevel, m.book, cs)
<1> DEFINE F == DeltaFold(m, cs)
           G == LevelFold(m.book, cs)
           Good(s) == /\ G[s] \in Books /\ F[s] \in Mirrors /\ F[s].phase = m.phase
                      /\ m.dirty => F[s].dirty
                      /\ F[s].book = G[s]
           T == {s \in SUBSET DOMAIN cs : ~ Good(s)}
<1>1. m.book \in Books
  BY DEF Mirrors
<1>2. \A s \in SUBSET DOMAIN cs :
        F[s] = IF s = {} THEN m ELSE ApplyDelta(F[s \ {Max(s)}], cs[Max(s)])
  BY DeltaFoldStep DEF DeltaStep
<1>3. \A s \in SUBSET DOMAIN cs :
        G[s] = IF s = {} THEN m.book ELSE WithLevel(G[s \ {Max(s)}], cs[Max(s)])
  BY <1>1, LevelFoldStep DEF LevelStep
<1> HIDE DEF F, G
<1>4. T = {}
  <2>1. SUFFICES ASSUME T # {} PROVE FALSE
    OBVIOUS
  <2>2. PICK s \in T : \A x \in s : s \ {x} \notin T
    BY <2>1, ChangesAre, SmallestSubset
  <2>3. s # {}
    BY <1>1, <1>2, <1>3, <2>2
  <2>4. Max(s) \in s /\ s \ {Max(s)} \in SUBSET DOMAIN cs
    BY <2>2, <2>3, ChangesAre
  <2>5. Good(s \ {Max(s)}) /\ cs[Max(s)] \in [side: Sides, price: Prices, on: BOOLEAN]
    BY <2>2, <2>4, ChangesAre
  <2>6. /\ F[s] = ApplyDelta(F[s \ {Max(s)}], cs[Max(s)])
        /\ G[s] = WithLevel(G[s \ {Max(s)}], cs[Max(s)])
    BY <1>2, <1>3, <2>2, <2>3
  <2>7. Good(s)
    BY <2>5, <2>6, ApplyDeltaIs, WithLevelIs
  <2> QED
    BY <2>2, <2>7
<1>5. Good(DOMAIN cs)
  BY <1>4
<1> QED
  BY <1>5, DeltaFoldIs, LevelFoldIs DEF F, G

-----------------------------------------------------------------------------
(* What the handlers make of a book.                                         *)
LEMMA SnapshotIs ==
  ASSUME NEW m \in Mirrors, NEW b \in Books
  PROVE  /\ ApplySnapshot(m, b) \in Mirrors
         /\ ApplySnapshot(m, b) = [phase |-> m.phase, book |-> b, dirty |-> Crossed(b)]
<1>1. Crossed(b) \in BOOLEAN
  BY DEF Crossed
<1>2. m = [phase |-> m.phase, book |-> m.book, dirty |-> m.dirty]
  BY DEF Mirrors
<1>3. ApplySnapshot(m, b) = [phase |-> m.phase, book |-> b, dirty |-> Crossed(b)]
  <2>1. ApplySnapshot(m, b) = [[m EXCEPT !.book = b] EXCEPT !.dirty = Crossed(b)]
    BY DEF ApplySnapshot
  <2>2. [m EXCEPT !.book = b] = [phase |-> m.phase, book |-> b, dirty |-> m.dirty]
    BY <1>2
  <2> QED
    BY <2>1, <2>2
<1> QED
  BY <1>1, <1>3 DEF Mirrors

LEMMA FrameIs == \A f \in Frames : f.token \in Tokens
BY DEF Frames

LEMMA HandledIs ==
  ASSUME NEW m \in Mirrors, NEW f \in Frames
  PROVE  /\ Handled(m, f) \in Mirrors
         /\ Handled(m, f).phase = m.phase
         /\ f.kind # "book" /\ m.dirty => Handled(m, f).dirty
<1>1. CASE f \in [kind: {"book"}, token: Tokens, book: Books]
  BY <1>1, SnapshotIs DEF Handled
<1>2. CASE f \in [kind: {"change"}, token: Tokens, changes: Changes]
  BY <1>2, ChangesApplied DEF Handled
<1>3. CASE f \in [kind: {"malformed", "unreadable"}, token: Tokens]
  BY <1>3 DEF Handled, Mirrors
<1> QED
  BY <1>1, <1>2, <1>3 DEF Frames

LEMMA CrossingIs ==
  ASSUME NEW b \in Books, NEW cs \in Changes
  PROVE  FoldLeft(WithLevel, b, cs) \in Books
<1>1. [phase |-> "new", book |-> b, dirty |-> TRUE] \in Mirrors
  BY DEF Mirrors
<1>2. [phase |-> "new", book |-> b, dirty |-> TRUE].book = b
  OBVIOUS
<1> QED
  BY <1>1, <1>2, ChangesApplied

-----------------------------------------------------------------------------
(* What the actions keep of the connection: one that has ended streams       *)
(* nothing, the exchange streams what it was asked for or nothing yet, and a *)
(* REST answer that is on its way is one that the resync waits for.          *)
LinkInv ==
  /\ link.at = "dead" => link.closed
  /\ link.at \in {"down", "dead"} => server.streams = {}
  /\ server.streams \in {{}, link.asked}
  /\ server.streams = {} => link.wire = <<>>
  /\ link.reply # <<>> => link.at = "resync" /\ link.reply[1] \in link.todo

(* A book that is not known yet counts as dirty.                             *)
NewIsDirty == \A t \in Tokens : mirror[t].phase = "new" => mirror[t].dirty

(* A connection is closed because it was lost or because a window was        *)
(* created: one that waits to be counted is the incident of one of those.    *)
Known   == {t \in Tokens : mirror[t].phase # "new"}
Pending == IF link.closed /\ link.at # "dead" THEN 1 ELSE 0
Counted == reconnects + Pending <= MaxReconnects + Cardinality(Known)

Shapes == LinkInv /\ NewIsDirty /\ NoBlindBook /\ CleanIsFresh

(* The state but for the bound on reconnects.                                *)
Typed ==
  /\ server \in [books: [Tokens -> Books], streams: SUBSET Tokens]
  /\ link \in Links
  /\ mirror \in [Tokens -> Mirrors]
  /\ reconnects \in Nat

IInv == Typed /\ Shapes /\ Counted

LEMMA TypedIs == TypeOK => Typed
<1>1. Cardinality(Tokens) \in Nat
  BY TokensAssumption, FS_CardinalityType
<1> QED
  BY <1>1, BoundAssumption DEF TypeOK, Typed

LEMMA CountedBounds == Typed /\ Counted => TypeOK
<1> SUFFICES ASSUME Typed, Counted PROVE TypeOK
  OBVIOUS
<1>1. Cardinality(Tokens) \in Nat /\ Cardinality(Known) \in Nat /\ Cardinality(Known) <= Cardinality(Tokens)
  <2>1. Known \in SUBSET Tokens
    BY DEF Known
  <2> QED
    BY <2>1, TokensAssumption, FS_CardinalityType, FS_Subset
<1>2. Pending \in Nat
  BY DEF Pending
<1>3. reconnects <= MaxReconnects + Cardinality(Tokens)
  BY <1>1, <1>2, BoundAssumption DEF Counted, Typed
<1> QED
  BY <1>1, <1>3, BoundAssumption DEF Typed, TypeOK

-----------------------------------------------------------------------------
LEMMA InitialState == Init => IInv
<1> SUFFICES ASSUME Init PROVE IInv
  OBVIOUS
<1>1. Empty \in Books
  BY DEF Empty, Books
<1>2. Typed
  BY <1>1, EmptySeq DEF Init, Typed, Links, Down, Replies, Mirrors, Unknown
<1>3. Shapes
  BY DEF Init, Shapes, LinkInv, NewIsDirty, NoBlindBook, CleanIsFresh, Tracked, Down, Unknown
<1>4. Counted
  <2>1. Known = {} /\ Pending = 0
    BY DEF Init, Known, Pending, Unknown, Down
  <2> QED
    BY <2>1, FS_EmptySet, BoundAssumption DEF Init, Counted
<1> QED
  BY <1>2, <1>3, <1>4 DEF IInv

-----------------------------------------------------------------------------
(* The actions, to name them in the proofs below.                            *)
Changing(t, cs) ==
  \/ ServerChanges(t, cs, [kind |-> "change", token |-> t, changes |-> cs])
  \/ \E k \in Anomalies : ServerChanges(t, cs, [kind |-> k, token |-> t])

LEMMA NextCases ==
  ASSUME Next
  PROVE  \/ Connect \/ RestApplied \/ StartReading \/ ReadFrame \/ ConnectionEnds \/ FeedDies
         \/ Streams \/ LoseConnection
         \/ \E t \in Tokens : \/ RestAnswers(t) \/ RestFails(t) \/ ServerSnapshot(t)
                            \/ Track(t) \/ Untrack(t)
                            \/ \E cs \in ChangesOf(server.books[t]) : Changing(t, cs)
BY DEF Next, Feed, Exchange, Changing

(* What the exchange sends.                                                  *)
LEMMA FramesSent ==
  ASSUME Typed, NEW t \in Tokens
  PROVE  /\ server.books[t] \in Books
         /\ [kind |-> "book", token |-> t, book |-> server.books[t]] \in Frames
         /\ \A cs \in ChangesOf(server.books[t]) :
              /\ cs \in Changes
              /\ [kind |-> "change", token |-> t, changes |-> cs] \in Frames
              /\ \A k \in Anomalies : [kind |-> k, token |-> t] \in Frames
<1>1. server.books[t] \in Books
  BY DEF Typed
<1>2. \A cs \in ChangesOf(server.books[t]) : cs \in Changes
  BY DEF ChangesOf
<1> QED
  BY <1>1, <1>2, AnomalyAssumption DEF Frames

(* Sending a frame moves nothing but the wire and what is lost.              *)
LEMMA SentIs ==
  ASSUME link \in Links, NEW f \in Frames
  PROVE  /\ Sent(f) \in Links /\ Sent(f).wire = Append(link.wire, f)
         /\ Sent(f).at = link.at /\ Sent(f).closed = link.closed /\ Sent(f).asked = link.asked
         /\ Sent(f).todo = link.todo /\ Sent(f).reply = link.reply /\ Sent(f).fresh = link.fresh
         /\ \A t : t \notin Sent(f).lost =>
              /\ t \in link.lost => f.kind = "book" /\ f.token = t
              /\ ~ (f.kind = "unreadable" /\ f.token = t)
<1> DEFINE w == Append(link.wire, f)
           l == CASE f.kind = "unreadable" -> link.lost \cup {f.token}
                  [] f.kind = "book"       -> link.lost \ {f.token}
                  [] OTHER                 -> link.lost
<1>1. w \in Seq(Frames)
  BY AppendProperties DEF Links
<1>2. l \in SUBSET Tokens
  BY FrameIs DEF Links
<1>3. \A t : t \notin l =>
        /\ t \in link.lost => f.kind = "book" /\ f.token = t
        /\ ~ (f.kind = "unreadable" /\ f.token = t)
  OBVIOUS
<1>4. Sent(f) = [link EXCEPT !.wire = w, !.lost = l]
  BY DEF Sent
<1> HIDE DEF w, l
<1>5. /\ Sent(f) \in Links /\ Sent(f).wire = w /\ Sent(f).lost = l
      /\ Sent(f).at = link.at /\ Sent(f).closed = link.closed /\ Sent(f).asked = link.asked
      /\ Sent(f).todo = link.todo /\ Sent(f).reply = link.reply /\ Sent(f).fresh = link.fresh
  BY <1>1, <1>2, <1>4 DEF Links
<1> QED
  BY <1>3, <1>5 DEF w

(* The snapshots of a subscription.                                          *)
Snapshots(asked, books) ==
  [i \in 1 .. Cardinality(asked) |->
     LET t == SetToSeq(asked)[i] IN [kind |-> "book", token |-> t, book |-> books[t]]]

LEMMA SubscriptionIs ==
  ASSUME NEW asked \in SUBSET Tokens
  PROVE  /\ Cardinality(asked) \in Nat
         /\ SetToSeq(asked) \in [1 .. Cardinality(asked) -> asked]
         /\ \A i, j \in 1 .. Cardinality(asked) :
              SetToSeq(asked)[i] = SetToSeq(asked)[j] => i = j
         /\ \A t \in asked : \E i \in 1 .. Cardinality(asked) : SetToSeq(asked)[i] = t
<1> DEFINE n == Cardinality(asked)
<1>1. IsFiniteSet(asked) /\ n \in Nat /\ ExistsBijection(1 .. n, asked)
  BY TokensAssumption, FS_Subset, FS_CardinalityType
<1>2. IsFiniteSet(1 .. n) /\ Cardinality(1 .. n) = n
  BY <1>1, FS_Interval
<1> DEFINE q == SetToSeq(asked)
<1>3. \E f \in [1 .. n -> asked] : IsInjective(f)
  BY <1>1 DEF ExistsBijection, Bijection, Injection, IsInjective
<1>4. q \in [1 .. n -> asked] /\ IsInjective(q)
  BY <1>3, Zenon DEF SetToSeq
<1> HIDE DEF q
<1>5. q \in Injection(1 .. n, asked)
  BY <1>4 DEF Injection, IsInjective
<1>6. q \in Surjection(1 .. n, asked)
  BY <1>1, <1>2, <1>5, FS_Injection
<1>7. /\ \A i, j \in 1 .. n : q[i] = q[j] => i = j
      /\ \A t \in asked : \E i \in 1 .. n : q[i] = t
  BY <1>4, <1>6 DEF IsInjective, Surjection
<1> QED
  BY <1>1, <1>4, <1>7 DEF q

LEMMA SnapshotsAre ==
  ASSUME NEW asked \in SUBSET Tokens, NEW books \in [Tokens -> Books]
  PROVE  /\ Snapshots(asked, books) \in Seq(Frames)
         /\ Len(Snapshots(asked, books)) = Cardinality(asked)
         /\ asked = {} => Snapshots(asked, books) = <<>>
<1> DEFINE n == Cardinality(asked)
           w == Snapshots(asked, books)
<1>1. n \in Nat /\ \A i \in 1 .. n : SetToSeq(asked)[i] \in Tokens
  BY SubscriptionIs
<1>2. w \in [1 .. n -> Frames]
  BY <1>1 DEF Snapshots, Frames
<1> HIDE DEF w
<1>3. w \in Seq(Frames) /\ Len(w) = n
  BY <1>1, <1>2
<1>4. asked = {} => n = 0
  BY FS_EmptySet
<1>5. asked = {} => w = <<>>
  BY <1>3, <1>4, EmptySeq
<1> QED
  BY <1>3, <1>5 DEF w

LEMMA TypedStep == Typed /\ Next => Typed'
<1> SUFFICES ASSUME Typed, Next PROVE Typed'
  OBVIOUS
<1>0. link \in Links /\ Down \in Links
  BY EmptySeq DEF Typed, Links, Down, Replies
<1>1. CASE Connect
  BY <1>0, <1>1 DEF Connect, Typed, Links, Tracked, Subscription, Dirtied, Mirrors, Down
<1>2. CASE RestApplied
  <2> DEFINE t == link.reply[1]
             b == link.reply[2]
  <2>1. t \in Tokens /\ b \in Books
    BY <1>0, <1>2 DEF RestApplied, Links, Replies
  <2>2. link' = [link EXCEPT !.reply = <<>>, !.todo = @ \ {t}, !.fresh = @ \cup {t}]
    BY <1>2 DEF RestApplied
  <2>3. mirror' = mirror \/ mirror' = [mirror EXCEPT ![t] = ApplySnapshot(@, b)]
    BY <1>2 DEF RestApplied
  <2>4. UNCHANGED <<server, reconnects>>
    BY <1>2 DEF RestApplied
  <2> HIDE DEF t, b
  <2>5. link' \in Links
    <3> DEFINE l == [link EXCEPT !.reply = <<>>]
    <3>1. l \in Links
      BY <1>0 DEF Links, Replies
    <3>2. link' = [l EXCEPT !.todo = @ \ {t}, !.fresh = @ \cup {t}]
      BY <2>2
    <3> HIDE DEF l
    <3> QED
      BY <2>1, <3>1, <3>2 DEF Links
  <2>6. mirror' \in [Tokens -> Mirrors]
    <3>1. mirror[t] \in Mirrors /\ mirror \in [Tokens -> Mirrors]
      BY <2>1 DEF Typed
    <3>2. ApplySnapshot(mirror[t], b) \in Mirrors
      BY <2>1, <3>1, SnapshotIs
    <3> QED
      BY <2>1, <2>3, <3>1, <3>2
  <2> QED
    BY <2>4, <2>5, <2>6 DEF Typed
<1>3. CASE StartReading
  BY <1>0, <1>3 DEF StartReading, Typed, Links
<1>4. CASE ReadFrame
  <2> DEFINE f == Head(link.wire)
  <2>1. link.wire \in Seq(Frames) /\ link.wire # <<>>
    BY <1>0, <1>4 DEF ReadFrame, Links
  <2>2. f \in Frames /\ Tail(link.wire) \in Seq(Frames) /\ f.token \in Tokens
    BY <2>1, HeadTailProperties, FrameIs
  <2>3. link' = [link EXCEPT !.wire = Tail(@),
                             !.fresh = IF f.kind = "book" THEN @ \cup {f.token} ELSE @]
    BY <1>4 DEF ReadFrame
  <2>4. mirror' = mirror \/ mirror' = [mirror EXCEPT ![f.token] = Handled(@, f)]
    BY <1>4 DEF ReadFrame
  <2>5. UNCHANGED <<server, reconnects>>
    BY <1>4 DEF ReadFrame
  <2> HIDE DEF f
  <2>6. link' \in Links
    <3> DEFINE fresh == IF f.kind = "book" THEN link.fresh \cup {f.token} ELSE link.fresh
               l == [link EXCEPT !.wire = Tail(@)]
    <3>1. l \in Links /\ l.fresh = link.fresh
      BY <1>0, <2>2 DEF Links
    <3>2. fresh \in SUBSET Tokens
      BY <1>0, <2>2 DEF Links
    <3>3. link' = [l EXCEPT !.fresh = fresh]
      BY <2>3, <3>1
    <3> HIDE DEF l, fresh
    <3> QED
      BY <3>1, <3>2, <3>3 DEF Links
  <2>7. mirror' \in [Tokens -> Mirrors]
    <3>1. mirror[f.token] \in Mirrors /\ mirror \in [Tokens -> Mirrors]
      BY <2>2 DEF Typed
    <3>2. Handled(mirror[f.token], f) \in Mirrors
      BY <2>2, <3>1, HandledIs
    <3> QED
      BY <2>2, <2>4, <3>1, <3>2
  <2> QED
    BY <2>5, <2>6, <2>7 DEF Typed
<1>5. CASE ConnectionEnds
  BY <1>0, <1>5 DEF ConnectionEnds, Typed
<1>6. CASE FeedDies
  <2>1. link' = [Down EXCEPT !.at = "dead", !.closed = TRUE]
    BY <1>6 DEF FeedDies
  <2>2. link' \in Links
    BY <1>0, <2>1 DEF Links
  <2>3. reconnects' \in Nat
    BY <1>6 DEF FeedDies, Typed
  <2> QED
    BY <1>6, <2>2, <2>3 DEF FeedDies, Typed
<1>7. CASE Streams
  <2> DEFINE w == Snapshots(link.asked, server.books)
  <2>1. link' = [link EXCEPT !.wire = @ \o w]
    BY <1>7 DEF Streams, Snapshots
  <2>2. w \in Seq(Frames)
    BY <1>0, SnapshotsAre DEF Typed, Links
  <2> HIDE DEF w
  <2>3. link' \in Links
    BY <1>0, <2>1, <2>2, ConcatProperties DEF Links
  <2> QED
    BY <1>0, <1>7, <2>3 DEF Streams, Typed, Links
<1>8. CASE LoseConnection
  BY <1>0, <1>8 DEF LoseConnection, Typed, Links
<1>9. ASSUME NEW t \in Tokens, RestAnswers(t)
      PROVE  Typed'
  BY <1>0, <1>9, FramesSent DEF RestAnswers, Typed, Links, Replies
<1>10. ASSUME NEW t \in Tokens, RestFails(t)
       PROVE  Typed'
  BY <1>0, <1>10 DEF RestFails, Typed, Links
<1>11. ASSUME NEW t \in Tokens, ServerSnapshot(t)
       PROVE  Typed'
  <2> DEFINE f == [kind |-> "book", token |-> t, book |-> server.books[t]]
  <2>1. f \in Frames
    BY FramesSent
  <2>2. link' = Sent(f) /\ UNCHANGED <<server, mirror, reconnects>>
    BY <1>11 DEF ServerSnapshot
  <2> HIDE DEF f
  <2> QED
    BY <1>0, <2>1, <2>2, SentIs DEF Typed
<1>12. ASSUME NEW t \in Tokens, Track(t)
       PROVE  Typed'
  BY <1>0, <1>12 DEF Track, Reopen, Typed, Links, Mirrors
<1>13. ASSUME NEW t \in Tokens, Untrack(t)
       PROVE  Typed'
  BY <1>0, <1>13 DEF Untrack, Typed, Unknown, Empty, Books, Mirrors
<1>14. ASSUME NEW t \in Tokens, NEW cs \in ChangesOf(server.books[t]), Changing(t, cs)
       PROVE  Typed'
  <2>1. PICK frame \in Frames : ServerChanges(t, cs, frame)
    BY <1>14, FramesSent DEF Changing
  <2>2. FoldLeft(WithLevel, server.books[t], cs) \in Books
    BY FramesSent, CrossingIs
  <2> DEFINE b == FoldLeft(WithLevel, server.books[t], cs)
  <2>3. server' = [server EXCEPT !.books[t] = b]
    BY <2>1 DEF ServerChanges
  <2> HIDE DEF b
  <2>4. server' \in [books: [Tokens -> Books], streams: SUBSET Tokens]
    BY <2>2, <2>3 DEF b, Typed
  <2>5. link' \in Links
    <3>1. link' = link \/ link' = Sent(frame)
      BY <2>1 DEF ServerChanges
    <3> QED
      BY <1>0, <2>1, <3>1, SentIs
  <2> QED
    BY <2>1, <2>4, <2>5 DEF ServerChanges, Typed
<1> QED
  BY <1>1, <1>2, <1>3, <1>4, <1>5, <1>6, <1>7, <1>8, <1>9, <1>10, <1>11, <1>12, <1>13, <1>14, NextCases

-----------------------------------------------------------------------------
(* What a step makes of the books but for their levels: a tracked book was   *)
(* tracked before or is dirty, and it becomes clean only by a snapshot.      *)
Snapshotted(t) ==
  \/ link.reply # <<>> /\ link.reply[1] = t /\ link'.fresh = link.fresh \cup {t}
  \/ link.wire # <<>> /\ Head(link.wire).token = t /\ link'.fresh = link.fresh \cup {t}

BooksStep ==
  \A t \in Tokens :
    /\ mirror'[t].phase = "new" => mirror[t].phase = "new" /\ mirror'[t] = mirror[t]
    /\ mirror'[t].phase = "tracked" =>
         \/ mirror[t].phase \in {"new", "tracked"} /\ (mirror[t].dirty => mirror'[t].dirty)
         \/ mirror[t].phase = "tracked" /\ Snapshotted(t)
    /\ mirror'[t].phase = "tracked" /\ mirror[t].phase # "tracked" => link' = Reopen(link)

LEMMA BooksStepped == Typed /\ Next => BooksStep
<1> SUFFICES ASSUME Typed, Next PROVE BooksStep
  OBVIOUS
<1>0. link \in Links /\ mirror \in [Tokens -> Mirrors]
  BY DEF Typed
<1>1. CASE UNCHANGED mirror
  BY <1>1 DEF BooksStep
<1>2. CASE Connect
  BY <1>0, <1>2 DEF Connect, BooksStep, Tracked, Dirtied, Mirrors
<1>3. CASE RestApplied
  <2> DEFINE t == link.reply[1]
             b == link.reply[2]
  <2>1. t \in Tokens /\ b \in Books /\ link.reply # <<>>
    BY <1>0, <1>3 DEF RestApplied, Links, Replies
  <2>2. link'.fresh = link.fresh \cup {t}
    BY <1>0, <1>3 DEF RestApplied, Links
  <2>3. \/ mirror' = mirror
        \/ mirror[t].phase = "tracked" /\ mirror' = [mirror EXCEPT ![t] = ApplySnapshot(@, b)]
    BY <1>3 DEF RestApplied, Tracked
  <2>4. Snapshotted(t)
    BY <2>1, <2>2 DEF Snapshotted
  <2> HIDE DEF t, b
  <2>5. ApplySnapshot(mirror[t], b).phase = mirror[t].phase
    BY <1>0, <2>1, SnapshotIs
  <2> QED
    BY <1>0, <2>1, <2>3, <2>4, <2>5 DEF BooksStep
<1>4. CASE ReadFrame
  <2> DEFINE f == Head(link.wire)
             t == f.token
  <2>1. link.wire # <<>> /\ f \in Frames /\ t \in Tokens
    BY <1>0, <1>4, HeadTailProperties, FrameIs DEF ReadFrame, Links
  <2>2. f.kind = "book" => link'.fresh = link.fresh \cup {t}
    BY <1>0, <1>4 DEF ReadFrame, Links
  <2>3. \/ mirror' = mirror
        \/ mirror[t].phase = "tracked" /\ mirror' = [mirror EXCEPT ![t] = Handled(@, f)]
    BY <1>4 DEF ReadFrame, Tracked
  <2>4. f.kind = "book" => Snapshotted(t)
    BY <2>1, <2>2 DEF Snapshotted
  <2> HIDE DEF t, f
  <2>5. /\ Handled(mirror[t], f).phase = mirror[t].phase
        /\ f.kind # "book" /\ mirror[t].dirty => Handled(mirror[t], f).dirty
    BY <1>0, <2>1, HandledIs
  <2> QED
    BY <1>0, <2>1, <2>3, <2>4, <2>5 DEF BooksStep
<1>5. ASSUME NEW t \in Tokens, Track(t)
      PROVE  BooksStep
  BY <1>0, <1>5 DEF Track, BooksStep, Mirrors
<1>6. ASSUME NEW t \in Tokens, Untrack(t)
      PROVE  BooksStep
  BY <1>0, <1>6 DEF Untrack, BooksStep, Mirrors, Unknown
<1>7. \/ Connect \/ RestApplied \/ ReadFrame \/ UNCHANGED mirror
      \/ \E t \in Tokens : Track(t) \/ Untrack(t)
  BY NextCases DEF StartReading, ConnectionEnds, FeedDies, Streams, LoseConnection,
       RestAnswers, RestFails, ServerSnapshot, Changing, ServerChanges
<1> QED
  BY <1>1, <1>2, <1>3, <1>4, <1>5, <1>6, <1>7

(* What a step makes of the connection.                                      *)
LinkStep ==
  \/ link' = link
  \/ link.at = "down" /\ link'.asked = Tracked /\ \A t \in Tracked : mirror'[t].dirty
  \/ link'.at = "down"
  \/ link'.at = "dead" /\ link'.closed
  \/ link.at # "down" /\ link' = [link EXCEPT !.closed = TRUE]
  \/ /\ link'.asked = link.asked /\ link'.closed = link.closed
     /\ link.fresh \subseteq link'.fresh
     /\ \/ link'.at = link.at
        \/ link.at = "resync" /\ link'.at = "reading"

LEMMA EndedIs ==
  /\ Down.at = "down" /\ Down.closed = FALSE
  /\ [Down EXCEPT !.at = "dead", !.closed = TRUE].at = "dead"
  /\ [Down EXCEPT !.at = "dead", !.closed = TRUE].closed = TRUE
BY DEF Down

LEMMA LinkStepped == Typed /\ Next => LinkStep
<1> SUFFICES ASSUME Typed, Next PROVE LinkStep
  OBVIOUS
<1>0. link \in Links /\ mirror \in [Tokens -> Mirrors]
  BY DEF Typed
<1>1. CASE Connect
  <2>1. \A t \in Tracked : mirror'[t].dirty
    BY <1>0, <1>1 DEF Connect, Tracked, Dirtied, Mirrors
  <2> QED
    BY <1>1, <2>1 DEF Connect, LinkStep, Subscription, Down
<1>2. CASE RestApplied
  <2>1. /\ link'.asked = link.asked /\ link'.closed = link.closed /\ link'.at = link.at
        /\ link'.fresh = link.fresh \cup {link.reply[1]}
    BY <1>0, <1>2 DEF RestApplied, Links
  <2> QED
    BY <2>1 DEF LinkStep
<1>3. CASE StartReading
  BY <1>0, <1>3 DEF StartReading, LinkStep, Links
<1>4. CASE ReadFrame
  <2>1. /\ link'.asked = link.asked /\ link'.closed = link.closed /\ link'.at = link.at
        /\ link.fresh \subseteq link'.fresh
    BY <1>0, <1>4 DEF ReadFrame, Links
  <2> QED
    BY <2>1 DEF LinkStep
<1>5. CASE ConnectionEnds \/ FeedDies
  BY <1>5, EndedIs DEF ConnectionEnds, FeedDies, LinkStep
<1>6. CASE Streams
  BY <1>0, <1>6 DEF Streams, LinkStep, Links
<1>7. CASE LoseConnection
  BY <1>7 DEF LoseConnection, LinkStep
<1>8. ASSUME NEW t \in Tokens,
             RestAnswers(t) \/ RestFails(t) \/ Track(t) \/ Untrack(t)
      PROVE  LinkStep
  BY <1>0, <1>8 DEF RestAnswers, RestFails, Track, Untrack, Reopen, LinkStep, Links
<1>9. ASSUME NEW t \in Tokens,
             \/ ServerSnapshot(t)
             \/ \E cs \in ChangesOf(server.books[t]) : Changing(t, cs)
      PROVE  LinkStep
  <2>1. link' = link \/ \E frame \in Frames : link' = Sent(frame)
    BY <1>9, FramesSent DEF Changing, ServerChanges, ServerSnapshot
  <2>2. /\ link'.at = link.at /\ link'.closed = link.closed
        /\ link'.asked = link.asked /\ link'.fresh = link.fresh
    BY <1>0, <2>1, SentIs
  <2> QED
    BY <2>2 DEF LinkStep
<1> QED
  BY <1>1, <1>2, <1>3, <1>4, <1>5, <1>6, <1>7, <1>8, <1>9, NextCases

LEMMA LinkInvStep == Typed /\ LinkInv /\ Next => LinkInv'
<1> SUFFICES ASSUME Typed, LinkInv, Next PROVE LinkInv'
  OBVIOUS
<1>0. link \in Links /\ server.streams \in SUBSET Tokens
  BY DEF Typed
<1>1. CASE Connect
  BY <1>1 DEF Connect, LinkInv, Down
<1>2. CASE RestApplied
  <2>1. /\ link'.asked = link.asked /\ link'.closed = link.closed /\ link'.at = link.at
        /\ link'.wire = link.wire /\ link'.reply = <<>> /\ server' = server
    BY <1>0, <1>2 DEF RestApplied, Links
  <2> QED
    BY <2>1 DEF LinkInv
<1>3. CASE StartReading
  BY <1>0, <1>3 DEF StartReading, LinkInv, Links
<1>4. CASE ReadFrame
  <2>1. /\ link'.asked = link.asked /\ link'.closed = link.closed /\ link'.at = link.at
        /\ link.wire # <<>> /\ link'.reply = link.reply /\ link'.todo = link.todo
        /\ server' = server
    BY <1>0, <1>4 DEF ReadFrame, Links
  <2> QED
    BY <2>1 DEF LinkInv
<1>5. CASE ConnectionEnds
  BY <1>0, <1>5 DEF ConnectionEnds, LinkInv, Down, Typed
<1>6. CASE FeedDies
  <2>1. link'.at = "dead" /\ link'.closed /\ link'.wire = <<>> /\ link'.reply = <<>>
    BY <1>6 DEF FeedDies, Down
  <2>2. server'.streams = {}
    BY <1>6 DEF FeedDies, Typed
  <2> QED
    BY <2>1, <2>2 DEF LinkInv
<1>7. CASE Streams
  <2>1. /\ link'.asked = link.asked /\ link'.closed = link.closed /\ link'.at = link.at
        /\ link'.reply = link.reply /\ link'.todo = link.todo
    BY <1>0, <1>7 DEF Streams, Links
  <2>2. server'.streams = link.asked /\ link.asked # {}
    BY <1>7 DEF Streams, Typed, LinkInv
  <2>3. link.at \notin {"down", "dead"}
    BY <1>7 DEF Streams, LinkInv
  <2> QED
    BY <2>1, <2>2, <2>3 DEF LinkInv
<1>8. CASE LoseConnection
  BY <1>0, <1>8 DEF LoseConnection, LinkInv, Links
<1>9. ASSUME NEW t \in Tokens, RestAnswers(t) \/ RestFails(t)
      PROVE  LinkInv'
  BY <1>0, <1>9 DEF RestAnswers, RestFails, LinkInv, Links
<1>10. ASSUME NEW t \in Tokens, ServerSnapshot(t)
       PROVE  LinkInv'
  <2> DEFINE f == [kind |-> "book", token |-> t, book |-> server.books[t]]
  <2>1. f \in Frames
    BY FramesSent
  <2>2. link' = Sent(f) /\ server' = server /\ t \in server.streams
    BY <1>10 DEF ServerSnapshot
  <2> HIDE DEF f
  <2> QED
    BY <1>0, <2>1, <2>2, SentIs DEF LinkInv
<1>11. ASSUME NEW t \in Tokens, Track(t) \/ Untrack(t)
       PROVE  LinkInv'
  BY <1>0, <1>11 DEF Track, Untrack, Reopen, LinkInv, Links
<1>12. ASSUME NEW t \in Tokens, NEW cs \in ChangesOf(server.books[t]), Changing(t, cs)
       PROVE  LinkInv'
  <2>1. \/ link' = link
        \/ t \in server.streams /\ \E frame \in Frames : link' = Sent(frame)
    BY <1>12, FramesSent DEF Changing, ServerChanges
  <2>2. server'.streams = server.streams
    BY <1>12 DEF Changing, ServerChanges, Typed
  <2> QED
    BY <1>0, <2>1, <2>2, SentIs DEF LinkInv
<1> QED
  BY <1>1, <1>2, <1>3, <1>4, <1>5, <1>6, <1>7, <1>8, <1>9, <1>10, <1>11, <1>12, NextCases

LEMMA ShapesStep == Typed /\ Shapes /\ Next => Shapes'
<1> SUFFICES ASSUME Typed, Shapes, Next PROVE Shapes'
  OBVIOUS
<1>0. link \in Links /\ LinkStep /\ BooksStep /\ LinkInv /\ LinkInv' /\ Typed'
  BY BooksStepped, LinkStepped, LinkInvStep, TypedStep DEF Typed, Shapes
<1>1. NewIsDirty'
  BY <1>0 DEF BooksStep, NewIsDirty, Shapes
<1>2. Tracked' \subseteq Tracked \/ link' = Reopen(link)
  BY <1>0 DEF BooksStep, Tracked
<1>3. NoBlindBook'
  <2>1. CASE link.at = "down" /\ link'.asked = Tracked
    BY <1>2, <2>1 DEF NoBlindBook, Reopen
  <2>2. CASE link' = Reopen(link)
    BY <1>0, <2>2 DEF Reopen, NoBlindBook, LinkInv, Links
  <2>3. CASE link'.at = "down" \/ link'.closed
    BY <2>3 DEF NoBlindBook
  <2>4. CASE /\ link'.asked = link.asked /\ link'.closed = link.closed
             /\ \/ link'.at = link.at
                \/ link.at = "resync" /\ link'.at = "reading"
             /\ link' # Reopen(link)
    BY <1>2, <2>4 DEF NoBlindBook, Shapes
  <2>5. link' = [link EXCEPT !.closed = TRUE] => link'.closed
    BY <1>0 DEF Links
  <2> QED
    BY <1>0, <2>1, <2>2, <2>3, <2>4, <2>5 DEF LinkStep
<1>4. CleanIsFresh'
  <2>1. CASE link'.at \notin {"resync", "reading"}
    BY <2>1 DEF CleanIsFresh
  <2>2. CASE link.at \in {"resync", "reading"} /\ link.fresh \subseteq link'.fresh
    BY <1>0, <2>2 DEF BooksStep, Snapshotted, CleanIsFresh, NewIsDirty, Tracked, Shapes
  <2>3. CASE link.at = "down" /\ \A t \in Tracked : mirror'[t].dirty
    BY <1>0, <2>3 DEF BooksStep, CleanIsFresh, NewIsDirty, Tracked, Shapes
  <2>4. \/ link'.at \notin {"resync", "reading"}
        \/ link.at \in {"resync", "reading"} /\ link.fresh \subseteq link'.fresh
        \/ link.at = "down" /\ \A t \in Tracked : mirror'[t].dirty
    BY <1>0 DEF LinkStep, Links
  <2> QED
    BY <2>1, <2>2, <2>3, <2>4
<1> QED
  BY <1>0, <1>1, <1>3, <1>4 DEF Shapes

-----------------------------------------------------------------------------
(* The incidents are no more than the connections that were lost and the     *)
(* windows that were created.                                                *)
LEMMA KnownIs == Typed => IsFiniteSet(Known) /\ Cardinality(Known) \in Nat
<1>1. Known \in SUBSET Tokens
  BY DEF Known
<1> QED
  BY <1>1, TokensAssumption, FS_Subset, FS_CardinalityType

LEMMA CountedStep == Typed /\ LinkInv /\ Counted /\ Next => Counted'
<1> SUFFICES ASSUME Typed, LinkInv, Counted, Next PROVE Counted'
  OBVIOUS
<1> DEFINE n == Cardinality(Known)
<1>0. /\ link \in Links /\ mirror \in [Tokens -> Mirrors] /\ n \in Nat /\ IsFiniteSet(Known)
      /\ reconnects \in Nat /\ MaxReconnects \in Nat
      /\ reconnects + Pending <= MaxReconnects + n
  BY KnownIs, BoundAssumption DEF Typed, Counted
<1>1. Pending \in {0, 1} /\ Pending' \in {0, 1}
  BY DEF Pending
<1>2. ASSUME Known' = Known, reconnects' + Pending' <= MaxReconnects + n
      PROVE  Counted'
  BY <1>2 DEF Counted
<1>3. ASSUME NEW t \in Tokens, Track(t)
      PROVE  Counted'
  <2>1. t \notin Known /\ Known' = Known \cup {t}
    BY <1>0, <1>3 DEF Track, Known, Mirrors
  <2>2. Cardinality(Known') = n + 1
    BY <1>0, <2>1, FS_AddElement
  <2>3. reconnects' = reconnects
    BY <1>3 DEF Track
  <2> QED
    BY <1>0, <1>1, <2>2, <2>3 DEF Counted
<1>4. (\A t \in Tokens : ~ Track(t)) => Known' = Known
  <2>1. CASE UNCHANGED mirror
    BY <2>1 DEF Known
  <2>2. CASE Connect
    BY <1>0, <2>2 DEF Connect, Known, Dirtied, Mirrors
  <2>3. CASE RestApplied
    <3> DEFINE t == link.reply[1]
               b == link.reply[2]
    <3>1. t \in Tokens /\ b \in Books
      BY <1>0, <2>3 DEF RestApplied, Links, Replies
    <3>2. mirror' = mirror \/ mirror' = [mirror EXCEPT ![t] = ApplySnapshot(@, b)]
      BY <2>3 DEF RestApplied
    <3> HIDE DEF t, b
    <3>3. ApplySnapshot(mirror[t], b).phase = mirror[t].phase
      BY <1>0, <3>1, SnapshotIs
    <3> QED
      BY <1>0, <3>1, <3>2, <3>3 DEF Known
  <2>4. CASE ReadFrame
    <3> DEFINE f == Head(link.wire)
    <3>1. f \in Frames /\ f.token \in Tokens
      BY <1>0, <2>4, HeadTailProperties, FrameIs DEF ReadFrame, Links
    <3>2. mirror' = mirror \/ mirror' = [mirror EXCEPT ![f.token] = Handled(@, f)]
      BY <2>4 DEF ReadFrame
    <3> HIDE DEF f
    <3>3. Handled(mirror[f.token], f).phase = mirror[f.token].phase
      BY <1>0, <3>1, HandledIs
    <3> QED
      BY <1>0, <3>1, <3>2, <3>3 DEF Known
  <2>5. ASSUME NEW t \in Tokens, Untrack(t)
        PROVE  Known' = Known
    BY <1>0, <2>5 DEF Untrack, Known, Mirrors, Unknown
  <2>6. \/ Connect \/ RestApplied \/ ReadFrame \/ UNCHANGED mirror
        \/ \E t \in Tokens : Track(t) \/ Untrack(t)
    BY NextCases DEF StartReading, ConnectionEnds, FeedDies, Streams, LoseConnection,
         RestAnswers, RestFails, ServerSnapshot, Changing, ServerChanges
  <2> QED
    BY <2>1, <2>2, <2>3, <2>4, <2>5, <2>6
<1>5. CASE \A t \in Tokens : ~ Track(t)
  <2>1. reconnects' + Pending' <= MaxReconnects + n
    <3>1. CASE ConnectionEnds \/ FeedDies
      <4>1. Pending' = 0
        BY <3>1, EndedIs DEF ConnectionEnds, FeedDies, Pending
      <4>2. reconnects' = reconnects \/ (reconnects' = reconnects + 1 /\ Pending = 1)
        BY <3>1 DEF ConnectionEnds, FeedDies, Pending
      <4> QED
        BY <1>0, <1>1, <4>1, <4>2
    <3>2. CASE LoseConnection
      BY <1>0, <1>1, <3>2 DEF LoseConnection
    <3>3. CASE ~ (ConnectionEnds \/ FeedDies \/ LoseConnection)
      <4>1. reconnects' = reconnects
        BY <1>5, <3>3, NextCases DEF Connect, RestApplied, StartReading, ReadFrame, Streams,
             RestAnswers, RestFails, ServerSnapshot, Untrack, Changing, ServerChanges
      <4>2. \/ ~ link'.closed
            \/ link'.closed = link.closed /\ link'.at = link.at
            \/ link'.closed = link.closed /\ link.at = "resync"
        <5>1. CASE Connect
          BY <5>1 DEF Connect, Down
        <5>2. CASE RestApplied \/ StartReading \/ Streams
          BY <1>0, <5>2 DEF RestApplied, StartReading, Streams, Links
        <5>3. CASE ReadFrame
          BY <1>0, <5>3 DEF ReadFrame, Links
        <5>4. ASSUME NEW t \in Tokens, RestAnswers(t) \/ RestFails(t) \/ Untrack(t)
              PROVE  link'.closed = link.closed /\ link'.at = link.at
          BY <1>0, <5>4 DEF RestAnswers, RestFails, Untrack, Links
        <5>5. ASSUME NEW t \in Tokens,
                     \/ ServerSnapshot(t)
                     \/ \E cs \in ChangesOf(server.books[t]) : Changing(t, cs)
              PROVE  link'.closed = link.closed /\ link'.at = link.at
          <6>1. link' = link \/ \E frame \in Frames : link' = Sent(frame)
            BY <5>5, <1>0, FramesSent DEF Changing, ServerChanges, ServerSnapshot
          <6> QED
            BY <1>0, <6>1, SentIs
        <5> QED
          BY <1>5, <3>3, <5>1, <5>2, <5>3, <5>4, <5>5, NextCases
      <4>3. Pending' = Pending \/ Pending' = 0
        BY <4>2 DEF Pending
      <4> QED
        BY <1>0, <1>1, <4>1, <4>3
    <3> QED
      BY <3>1, <3>2, <3>3
  <2> QED
    BY <1>2, <1>4, <1>5, <2>1
<1> QED
  BY <1>3, <1>5

-----------------------------------------------------------------------------
LEMMA NextKeeps == IInv /\ [Next]_vars => IInv'
<1>1. IInv /\ Next => IInv'
  BY TypedStep, ShapesStep, CountedStep DEF IInv, Shapes
<1>2. IInv /\ UNCHANGED vars => IInv'
  BY DEF IInv, Typed, Shapes, LinkInv, NewIsDirty, NoBlindBook, CleanIsFresh, Counted, Known,
       Pending, Tracked, vars
<1> QED
  BY <1>1, <1>2

THEOREM Inductive == Spec => []IInv
BY InitialState, NextKeeps, PTL DEF Spec

(* The feed's state has its type, and the incidents are bounded by what can  *)
(* end a connection: one is counted once, whether the exchange dropped it,   *)
(* the engine closed it or both did.                                         *)
THEOREM TypeCorrect == Spec => []TypeOK
<1>1. IInv => TypeOK
  BY CountedBounds DEF IInv
<1> QED
  BY <1>1, Inductive, PTL

(* Every window's books are part of the subscription of the connection that  *)
(* is up, or that connection is being replaced.                              *)
THEOREM NoBlindWindow == Spec => []NoBlindBook
<1>1. IInv => NoBlindBook
  BY DEF IInv, Shapes
<1> QED
  BY <1>1, Inductive, PTL

(* A book that is clean got a snapshot on the connection that is up.         *)
THEOREM CleanByThisLink == Spec => []CleanIsFresh
<1>1. IInv => CleanIsFresh
  BY DEF IInv, Shapes
<1> QED
  BY <1>1, Inductive, PTL

-----------------------------------------------------------------------------
(* That a clean book is the exchange's.  What reading the wire will make of  *)
(* the book of t is a run h of the frames, h[i] after frame i, that begins   *)
(* at the book as it is, if frames are being read, or at a snapshot on the   *)
(* wire: at its end the book is the exchange's, b, or known to be dirty.     *)
Reading(t, f, m) == IF f.token = t THEN Handled(m, f) ELSE m

Agrees(m, b) == m.dirty \/ m.book = b

Begins(t, reading, m, w, s, x) ==
  IF s = 0 THEN reading /\ x = m
  ELSE /\ w[s].kind = "book" /\ w[s].token = t
       /\ x = [phase |-> "tracked", book |-> w[s].book, dirty |-> Crossed(w[s].book)]

Leads(t, reading, m, w, b) ==
  \E s \in 0 .. Len(w) : \E h \in [0 .. Len(w) -> Mirrors] :
    /\ Begins(t, reading, m, w, s, h[s])
    /\ \A i \in s + 1 .. Len(w) : h[i] = Reading(t, w[i], h[i - 1])
    /\ h[Len(w)].phase = "tracked" /\ Agrees(h[Len(w)], b)

Synced ==
  \A t \in (Tracked \cap server.streams) \ link.lost :
    ~link.closed => Leads(t, link.at = "reading", mirror[t], link.wire, server.books[t])

(* Until frames are read, the run does not depend on the book as it is.      *)
LEMMA LeadsWaits ==
  ASSUME NEW t, NEW m, NEW n, NEW w \in Seq(Frames), NEW b, NEW reading,
         Leads(t, FALSE, m, w, b)
  PROVE  Leads(t, reading, n, w, b)
BY LenProperties DEF Leads, Begins

(* A frame is read.                                                          *)
LEMMA LeadsOn ==
  ASSUME NEW t \in Tokens, NEW m \in Mirrors, m.phase = "tracked",
         NEW w \in Seq(Frames), w # <<>>, NEW b, Leads(t, TRUE, m, w, b)
  PROVE  Leads(t, TRUE, Reading(t, Head(w), m), Tail(w), b)
<1> DEFINE n == Len(w)
           f == Head(w)
           v == Tail(w)
<1>1. /\ n \in Nat \ {0} /\ f = w[1] /\ f \in Frames /\ v \in Seq(Frames) /\ Len(v) = n - 1
      /\ \A i \in 1 .. n - 1 : v[i] = w[i + 1]
  BY HeadTailProperties, EmptySeq
<1>2. PICK s \in 0 .. n, h \in [0 .. n -> Mirrors] :
        /\ Begins(t, TRUE, m, w, s, h[s])
        /\ \A i \in s + 1 .. n : h[i] = Reading(t, w[i], h[i - 1])
        /\ h[n].phase = "tracked" /\ Agrees(h[n], b)
  BY DEF Leads
<1> HIDE DEF n, f, v
<1> DEFINE g == [i \in 0 .. n - 1 |-> h[i + 1]]
           r == IF s = 0 THEN 0 ELSE s - 1
<1>3. g \in [0 .. n - 1 -> Mirrors] /\ r \in 0 .. n - 1 /\ \A i \in 0 .. n - 1 : g[i] = h[i + 1]
  BY <1>1, <1>2
<1> HIDE DEF g
<1>4. Begins(t, TRUE, Reading(t, f, m), v, r, g[r])
  <2>1. CASE s = 0
    <3>1. h[0] = m /\ h[1] = Reading(t, w[1], h[0])
      BY <1>1, <1>2, <2>1 DEF Begins
    <3> QED
      BY <1>1, <1>3, <2>1, <3>1 DEF Begins
  <2>2. CASE s = 1
    <3>1. /\ f.kind = "book" /\ f.token = t
          /\ h[1] = [phase |-> "tracked", book |-> f.book, dirty |-> Crossed(f.book)]
      BY <1>1, <1>2, <2>2 DEF Begins
    <3>2. f.book \in Books
      BY <1>1, <3>1 DEF Frames
    <3>3. Reading(t, f, m) = h[1]
      BY <3>1, <3>2, SnapshotIs DEF Reading, Handled
    <3> QED
      BY <1>1, <1>3, <2>2, <3>3 DEF Begins
  <2>3. CASE s > 1
    <3>1. r = s - 1 /\ r \in 1 .. n - 1 /\ v[r] = w[s] /\ g[r] = h[s]
      BY <1>1, <1>2, <1>3, <2>3
    <3> QED
      BY <1>2, <2>3, <3>1 DEF Begins
  <2>4. s = 0 \/ s = 1 \/ s > 1
    BY <1>1, <1>2
  <2> HIDE DEF r
  <2> QED
    BY <2>1, <2>2, <2>3, <2>4
<1>5. \A i \in r + 1 .. n - 1 : g[i] = Reading(t, v[i], g[i - 1])
  <2>1. SUFFICES ASSUME NEW i \in r + 1 .. n - 1 PROVE g[i] = Reading(t, v[i], g[i - 1])
    OBVIOUS
  <2>2. i + 1 \in s + 1 .. n /\ i \in 1 .. n - 1 /\ i - 1 \in 0 .. n - 1
    BY <1>1, <1>2, <1>3, <2>1
  <2>3. h[i + 1] = Reading(t, w[i + 1], h[i])
    BY <1>2, <2>2
  <2> QED
    BY <1>1, <1>3, <2>2, <2>3
<1>6. g[n - 1] = h[n]
  BY <1>1, <1>3
<1> HIDE DEF r
<1>7. Leads(t, TRUE, Reading(t, f, m), v, b)
  <2>1. g[n - 1].phase = "tracked" /\ Agrees(g[n - 1], b)
    BY <1>2, <1>6
  <2> QED
    BY <1>1, <1>3, <1>4, <1>5, <2>1 DEF Leads
<1> QED
  BY <1>7 DEF f, v

(* The exchange appends a frame: what it makes of a book that agreed with b  *)
(* agrees with c.                                                            *)
LEMMA LeadsFurther ==
  ASSUME NEW t, NEW m, NEW w \in Seq(Frames), NEW b, NEW c, NEW reading \in BOOLEAN, NEW f \in Frames,
         Leads(t, reading, m, w, b),
         \A x \in Mirrors : Agrees(x, b) => Agrees(Reading(t, f, x), c)
  PROVE  Leads(t, reading, m, Append(w, f), c)
<1> DEFINE n == Len(w)
           v == Append(w, f)
<1>1. n \in Nat /\ v \in Seq(Frames) /\ Len(v) = n + 1 /\ v[n + 1] = f /\ \A i \in 1 .. n : v[i] = w[i]
  BY AppendProperties, LenProperties
<1>2. PICK s \in 0 .. n, h \in [0 .. n -> Mirrors] :
        /\ Begins(t, reading, m, w, s, h[s])
        /\ \A i \in s + 1 .. n : h[i] = Reading(t, w[i], h[i - 1])
        /\ h[n].phase = "tracked" /\ Agrees(h[n], b)
  BY DEF Leads
<1> HIDE DEF n, v
<1> DEFINE g == [i \in 0 .. n + 1 |-> IF i <= n THEN h[i] ELSE Reading(t, f, h[n])]
<1>3. h[n] \in Mirrors /\ Reading(t, f, h[n]) \in Mirrors /\ Reading(t, f, h[n]).phase = "tracked"
  BY <1>1, <1>2, HandledIs DEF Reading
<1>4. /\ g \in [0 .. n + 1 -> Mirrors] /\ g[n + 1] = Reading(t, f, h[n])
      /\ \A i \in 0 .. n : g[i] = h[i]
  BY <1>1, <1>2, <1>3
<1> HIDE DEF g
<1>5. Begins(t, reading, m, v, s, g[s])
  BY <1>1, <1>2, <1>4 DEF Begins
<1>6. \A i \in s + 1 .. n + 1 : g[i] = Reading(t, v[i], g[i - 1])
  <2>1. SUFFICES ASSUME NEW i \in s + 1 .. n + 1 PROVE g[i] = Reading(t, v[i], g[i - 1])
    OBVIOUS
  <2>2. CASE i = n + 1
    BY <1>1, <1>4, <2>2
  <2>3. CASE i # n + 1
    BY <1>1, <1>2, <1>4, <2>3
  <2> QED
    BY <2>2, <2>3
<1>7. Agrees(g[n + 1], c)
  BY <1>2, <1>3, <1>4
<1>8. s \in 0 .. n + 1
  BY <1>1, <1>2
<1> QED
  BY <1>1, <1>3, <1>4, <1>5, <1>6, <1>7, <1>8 DEF Leads, v

(* A full book ends what was lost.                                           *)
LEMMA LeadsAnew ==
  ASSUME NEW t, NEW m, NEW w \in Seq(Frames), NEW reading, NEW f \in Frames, NEW b \in Books,
         f.kind = "book", f.token = t, f.book = b
  PROVE  Leads(t, reading, m, Append(w, f), b)
<1> DEFINE n == Len(w)
           v == Append(w, f)
           x == [phase |-> "tracked", book |-> b, dirty |-> Crossed(b)]
           h == [i \in 0 .. n + 1 |-> x]
<1>1. n \in Nat /\ Len(v) = n + 1 /\ v[n + 1] = f
  BY AppendProperties, LenProperties
<1>2. x \in Mirrors
  BY DEF Mirrors, Crossed
<1> HIDE DEF n, v
<1>3. h \in [0 .. n + 1 -> Mirrors] /\ h[n + 1] = x /\ n + 1 \in 0 .. n + 1
  BY <1>1, <1>2
<1> HIDE DEF h
<1>4. Begins(t, reading, m, v, n + 1, h[n + 1])
  BY <1>1, <1>3 DEF Begins
<1>5. h[n + 1].phase = "tracked" /\ Agrees(h[n + 1], b)
  BY <1>3 DEF Agrees
<1>6. \A i \in (n + 1) + 1 .. n + 1 : h[i] = Reading(t, v[i], h[i - 1])
  BY <1>1
<1> QED
  BY <1>1, <1>3, <1>4, <1>5, <1>6 DEF Leads, v

(* The snapshots of a subscription.                                          *)
LEMMA LeadsFromStart ==
  ASSUME NEW asked \in SUBSET Tokens, NEW books \in [Tokens -> Books], NEW t \in asked,
         NEW m, NEW reading \in BOOLEAN
  PROVE  Leads(t, reading, m, Snapshots(asked, books), books[t])
<1> DEFINE n == Cardinality(asked)
           w == Snapshots(asked, books)
           q == SetToSeq(asked)
           x == [phase |-> "tracked", book |-> books[t], dirty |-> Crossed(books[t])]
<1>1. /\ n \in Nat /\ Len(w) = n
      /\ \A i \in 1 .. n : w[i] = [kind |-> "book", token |-> q[i], book |-> books[q[i]]]
  BY SubscriptionIs, SnapshotsAre DEF Snapshots
<1>2. PICK s \in 1 .. n : q[s] = t
  BY SubscriptionIs
<1>3. \A i \in 1 .. n : q[i] = t => i = s
  BY <1>2, SubscriptionIs
<1>4. x \in Mirrors
  BY DEF Mirrors, Crossed
<1> HIDE DEF w, q, x, n
<1> DEFINE h == [i \in 0 .. n |-> x]
<1>5. h \in [0 .. n -> Mirrors] /\ \A i \in 0 .. n : h[i] = x
  BY <1>4
<1> HIDE DEF h
<1>6. w[s].kind = "book" /\ w[s].token = t /\ w[s].book = books[t]
  BY <1>1, <1>2
<1>7. Begins(t, reading, m, w, s, h[s])
  BY <1>1, <1>2, <1>5, <1>6 DEF Begins, x
<1>8. \A i \in s + 1 .. n : h[i] = Reading(t, w[i], h[i - 1])
  <2>1. SUFFICES ASSUME NEW i \in s + 1 .. n PROVE h[i] = Reading(t, w[i], h[i - 1])
    OBVIOUS
  <2>2. i \in 1 .. n /\ i # s /\ i - 1 \in 0 .. n /\ i \in 0 .. n
    BY <1>1, <1>2
  <2>3. w[i].token # t
    BY <1>1, <1>3, <2>2
  <2> QED
    BY <1>5, <2>2, <2>3 DEF Reading
<1>9. h[n].phase = "tracked" /\ Agrees(h[n], books[t])
  BY <1>1, <1>5 DEF Agrees, x
<1> QED
  BY <1>1, <1>2, <1>5, <1>7, <1>8, <1>9 DEF Leads, w

(* With no frame for it on the wire, the book is the run's end.              *)
LEMMA LeadsHere ==
  ASSUME NEW t, NEW m, NEW w \in Seq(Frames), NEW b, NEW reading \in BOOLEAN,
         Leads(t, reading, m, w, b), \A i \in DOMAIN w : w[i].token # t
  PROVE  Agrees(m, b)
<1> DEFINE n == Len(w)
<1>1. n \in Nat /\ DOMAIN w = 1 .. n
  BY LenProperties
<1>2. PICK s \in 0 .. n, h \in [0 .. n -> Mirrors] :
        /\ Begins(t, reading, m, w, s, h[s])
        /\ \A i \in s + 1 .. n : h[i] = Reading(t, w[i], h[i - 1])
        /\ h[n].phase = "tracked" /\ Agrees(h[n], b)
  BY DEF Leads
<1> HIDE DEF n
<1>3. s = 0 /\ h[0] = m
  BY <1>1, <1>2 DEF Begins
<1>4. \A i \in 1 .. n : h[i] = h[i - 1]
  BY <1>1, <1>2, <1>3 DEF Reading
<1> DEFINE T == {i \in 0 .. n : h[i] # m}
<1>5. T = {}
  <2>1. SUFFICES ASSUME T # {} PROVE FALSE
    OBVIOUS
  <2>2. PICK i \in T : \A j \in T : i <= j
    <3>1. T \in SUBSET Nat
      BY <1>1
    <3> HIDE DEF T
    <3> QED
      BY <2>1, <3>1, SmallestNumber
  <2>3. i - 1 \in 0 .. n /\ i \in 1 .. n
    BY <1>1, <1>3, <2>2
  <2>4. h[i - 1] = m
    BY <2>2, <2>3
  <2> QED
    BY <1>4, <2>2, <2>3, <2>4
<1> QED
  BY <1>1, <1>2, <1>5

-----------------------------------------------------------------------------
(* A step that leaves the wire, the exchange and the tracked books as they   *)
(* are, and reads no less than before.                                       *)
LEMMA SyncedStays ==
  ASSUME Synced, server' = server, link'.wire = link.wire, link'.closed = link.closed,
         link'.lost = link.lost,
         \/ link'.at = link.at /\ \A t \in Tracked' : t \in Tracked /\ mirror'[t] = mirror[t]
         \/ link.at = "resync" /\ Tracked' \subseteq Tracked,
         Typed, Typed'
  PROVE  Synced'
<1> SUFFICES ASSUME NEW t \in (Tracked' \cap server'.streams) \ link'.lost, ~link'.closed
             PROVE  Leads(t, link'.at = "reading", mirror'[t], link'.wire, server'.books[t])
  BY DEF Synced
<1>1. t \in Tracked /\ t \in server.streams /\ t \notin link.lost /\ ~link.closed
  OBVIOUS
<1>2. Leads(t, link.at = "reading", mirror[t], link.wire, server.books[t])
  BY <1>1 DEF Synced
<1>3. CASE link'.at = link.at /\ mirror'[t] = mirror[t]
  BY <1>2, <1>3
<1>4. CASE link.at = "resync"
  <2>1. (link.at = "reading") = FALSE /\ link.wire \in Seq(Frames)
    BY <1>4 DEF Typed, Links
  <2>2. Leads(t, FALSE, mirror[t], link.wire, server.books[t])
    BY <1>2, <2>1
  <2> QED
    BY <2>1, <2>2, LeadsWaits
<1> QED
  BY <1>3, <1>4

(* A step that sends a frame: a full book is the exchange's, and any frame   *)
(* that can be read leads from its book before to its book after.            *)
LEMMA SyncedSent ==
  ASSUME Typed, Synced, NEW f \in Frames, mirror' = mirror,
         link' = Sent(f), server'.streams = server.streams,
         f.kind = "book" => f.book \in Books /\ f.book = server'.books[f.token],
         \A t \in Tokens : \A x \in Mirrors :
           Agrees(x, server.books[t]) /\ ~ (f.kind = "unreadable" /\ f.token = t)
             => Agrees(Reading(t, f, x), server'.books[t])
  PROVE  Synced'
<1> SUFFICES ASSUME NEW t \in (Tracked' \cap server'.streams) \ link'.lost, ~link'.closed
             PROVE  Leads(t, link'.at = "reading", mirror'[t], link'.wire, server'.books[t])
  BY DEF Synced
<1>1. link \in Links /\ link.wire \in Seq(Frames)
  BY DEF Typed, Links
<1>2. link'.at = link.at /\ link'.closed = link.closed /\ link'.wire = Append(link.wire, f)
  BY <1>1, SentIs
<1>3. t \in Tokens /\ t \in Tracked /\ t \in server.streams
  BY DEF Tracked
<1>4. /\ t \in link.lost => f.kind = "book" /\ f.token = t
      /\ ~ (f.kind = "unreadable" /\ f.token = t)
  BY <1>1, SentIs
<1>5. PICK r \in BOOLEAN : r = (link.at = "reading")
  OBVIOUS
<1>6. CASE t \notin link.lost
  <2>1. Leads(t, link.at = "reading", mirror[t], link.wire, server.books[t])
    BY <1>2, <1>3, <1>6 DEF Synced
  <2>2. \A x \in Mirrors : Agrees(x, server.books[t]) => Agrees(Reading(t, f, x), server'.books[t])
    BY <1>3, <1>4
  <2>3. Leads(t, r, mirror[t], link.wire, server.books[t])
    BY <1>5, <2>1
  <2>4. Leads(t, r, mirror[t], Append(link.wire, f), server'.books[t])
    BY <1>1, <2>2, <2>3, LeadsFurther
  <2> QED
    BY <1>2, <1>5, <2>4
<1>7. CASE t \in link.lost
  <2>1. f.kind = "book" /\ f.token = t /\ f.book \in Books /\ f.book = server'.books[t]
    BY <1>4, <1>7
  <2>2. Leads(t, r, mirror[t], Append(link.wire, f), server'.books[t])
    BY <1>1, <2>1, LeadsAnew
  <2> QED
    BY <1>2, <1>5, <2>2
<1> QED
  BY <1>6, <1>7

(* What the frame of a change makes of a book that agreed.                   *)
LEMMA ChangeAgrees ==
  ASSUME NEW x \in Mirrors, NEW b, Agrees(x, b), NEW t \in Tokens, NEW cs \in Changes
  PROVE  /\ Agrees(Handled(x, [kind |-> "change", token |-> t, changes |-> cs]), FoldLeft(WithLevel, b, cs))
         /\ Handled(x, [kind |-> "malformed", token |-> t]).dirty
<1>1. Handled(x, [kind |-> "change", token |-> t, changes |-> cs]) = FoldLeft(ApplyDelta, x, cs)
  BY DEF Handled
<1>2. Handled(x, [kind |-> "malformed", token |-> t]) = [x EXCEPT !.dirty = TRUE]
  BY DEF Handled
<1>3. [x EXCEPT !.dirty = TRUE].dirty
  BY DEF Mirrors
<1> QED
  BY <1>1, <1>2, <1>3, ChangesApplied DEF Agrees

LEMMA SyncedStep ==
  ASSUME Typed, LinkInv, Synced, Next
  PROVE  Synced'
<1>0. link \in Links /\ mirror \in [Tokens -> Mirrors] /\ Typed' /\ link.wire \in Seq(Frames)
  BY TypedStep DEF Typed, Links
<1>1. ASSUME server'.streams = {} \/ link'.closed
      PROVE  Synced'
  BY <1>1 DEF Synced
<1>2. CASE Connect
  BY <1>1, <1>2 DEF Connect, LinkInv
<1>3. CASE RestApplied
  <2>1. /\ link'.wire = link.wire /\ link'.closed = link.closed /\ link'.lost = link.lost
        /\ link.at = "resync" /\ server' = server
    BY <1>0, <1>3 DEF RestApplied, Links, LinkInv
  <2>2. Tracked' \subseteq Tracked
    <3> DEFINE t == link.reply[1]
               b == link.reply[2]
    <3>1. \/ mirror' = mirror
          \/ t \in Tracked /\ mirror' = [mirror EXCEPT ![t] = ApplySnapshot(@, b)]
      BY <1>3 DEF RestApplied
    <3> HIDE DEF t, b
    <3> QED
      BY <1>0, <3>1 DEF Tracked
  <2> QED
    BY <1>0, <2>1, <2>2, SyncedStays
<1>4. CASE StartReading
  <2>1. /\ link'.wire = link.wire /\ link'.closed = link.closed /\ link'.lost = link.lost
        /\ link.at = "resync" /\ server' = server /\ Tracked' = Tracked
    BY <1>0, <1>4 DEF StartReading, Links, Tracked
  <2> QED
    BY <1>0, <2>1, SyncedStays
<1>5. CASE ReadFrame
  <2> DEFINE f == Head(link.wire)
  <2>1. /\ link'.wire = Tail(link.wire) /\ link'.closed = link.closed /\ link'.lost = link.lost
        /\ link'.at = "reading"
        /\ link.at = "reading" /\ link.wire # <<>> /\ server' = server
    BY <1>0, <1>5 DEF ReadFrame, Links
  <2>2. f \in Frames /\ f.token \in Tokens
    BY <1>0, <2>1, HeadTailProperties, FrameIs
  <2>3. IF f.token \in Tracked THEN mirror' = [mirror EXCEPT ![f.token] = Handled(@, f)]
        ELSE mirror' = mirror
    BY <1>5 DEF ReadFrame
  <2> HIDE DEF f
  <2>4. SUFFICES ASSUME NEW t \in (Tracked' \cap server'.streams) \ link'.lost, ~link'.closed
                 PROVE  Leads(t, TRUE, mirror'[t], link'.wire, server'.books[t])
    BY <2>1 DEF Synced
  <2>5. t \in Tokens /\ t \in Tracked /\ mirror'[t] = Reading(t, f, mirror[t])
    <3>1. t \in Tokens /\ mirror'[t].phase = "tracked"
      BY <2>4 DEF Tracked
    <3>2. f.token \in Tokens => Handled(mirror[f.token], f).phase = mirror[f.token].phase
      BY <1>0, <2>2, HandledIs
    <3> QED
      BY <1>0, <2>2, <2>3, <3>1, <3>2 DEF Tracked, Reading
  <2>6. mirror[t] \in Mirrors /\ mirror[t].phase = "tracked"
    BY <1>0, <2>5 DEF Tracked
  <2>7. Leads(t, TRUE, mirror[t], link.wire, server.books[t])
    BY <2>1, <2>4, <2>5 DEF Synced
  <2>8. Leads(t, TRUE, Reading(t, f, mirror[t]), Tail(link.wire), server.books[t])
    BY <1>0, <2>1, <2>5, <2>6, <2>7, LeadsOn DEF f
  <2> QED
    BY <2>1, <2>5, <2>8
<1>6. CASE ConnectionEnds \/ FeedDies
  BY <1>1, <1>6 DEF ConnectionEnds, FeedDies, Typed
<1>7. CASE Streams
  <2> DEFINE w == Snapshots(link.asked, server.books)
  <2>1. /\ server'.streams = link.asked /\ server'.books = server.books
        /\ link.asked \in SUBSET Tokens /\ server.books \in [Tokens -> Books]
    BY <1>0, <1>7 DEF Streams, Typed, Links
  <2>2. link.wire = <<>>
    BY <1>7 DEF Streams, LinkInv
  <2>3. link' = [link EXCEPT !.wire = @ \o w]
    BY <1>7 DEF Streams, Snapshots
  <2>4. w \in Seq(Frames)
    BY <2>1, SnapshotsAre
  <2> HIDE DEF w
  <2>5. link'.wire = w
    BY <1>0, <2>2, <2>3, <2>4, ConcatEmptySeq DEF Links
  <2>6. ASSUME NEW t \in link.asked
        PROVE  Leads(t, link'.at = "reading", mirror'[t], w, server.books[t])
    BY <2>1, LeadsFromStart DEF w
  <2> QED
    BY <2>1, <2>5, <2>6 DEF Synced
<1>8. CASE LoseConnection
  BY <1>0, <1>1, <1>8 DEF LoseConnection, Links
<1>9. ASSUME NEW t \in Tokens, RestAnswers(t) \/ RestFails(t)
      PROVE  Synced'
  <2>1. /\ link'.wire = link.wire /\ link'.closed = link.closed /\ link'.lost = link.lost
        /\ link'.at = link.at /\ server' = server /\ mirror' = mirror /\ Tracked' = Tracked
    BY <1>0, <1>9 DEF RestAnswers, RestFails, Links, Tracked
  <2> QED
    BY <1>0, <2>1, SyncedStays
<1>10. ASSUME NEW u \in Tokens, ServerSnapshot(u)
       PROVE  Synced'
  <2> DEFINE f == [kind |-> "book", token |-> u, book |-> server.books[u]]
  <2>1. f \in Frames /\ f.token = u /\ f.kind = "book" /\ f.book = server.books[u] /\ server.books[u] \in Books
    BY FramesSent
  <2>2. link' = Sent(f) /\ server' = server /\ mirror' = mirror
    BY <1>10 DEF ServerSnapshot
  <2> HIDE DEF f
  <2>3. ASSUME NEW t \in Tokens, NEW x \in Mirrors, Agrees(x, server.books[t])
        PROVE  Agrees(Reading(t, f, x), server.books[t])
    <3>1. Handled(x, f) = ApplySnapshot(x, server.books[u])
      BY <2>1 DEF Handled
    <3>2. ApplySnapshot(x, server.books[u]).book = server.books[u]
      BY <2>1, SnapshotIs
    <3> QED
      BY <2>1, <2>3, <3>1, <3>2 DEF Reading, Agrees
  <2> QED
    BY <2>1, <2>2, <2>3, SyncedSent
<1>11. ASSUME NEW t \in Tokens, Track(t)
       PROVE  Synced'
  BY <1>0, <1>1, <1>11 DEF Track, Reopen, LinkInv, Links
<1>12. ASSUME NEW u \in Tokens, Untrack(u)
       PROVE  Synced'
  <2>1. server' = server /\ link' = link /\ \A t \in Tracked' : t \in Tracked /\ mirror'[t] = mirror[t]
    BY <1>0, <1>12 DEF Untrack, Tracked, Unknown, Mirrors
  <2> QED
    BY <1>0, <2>1, SyncedStays
<1>13. ASSUME NEW u \in Tokens, NEW cs \in ChangesOf(server.books[u]), Changing(u, cs)
       PROVE  Synced'
  <2>1. PICK f \in Frames :
          /\ \/ f = [kind |-> "change", token |-> u, changes |-> cs]
             \/ f = [kind |-> "malformed", token |-> u]
             \/ f = [kind |-> "unreadable", token |-> u]
          /\ ServerChanges(u, cs, f)
    BY <1>13, FramesSent, AnomalyAssumption DEF Changing
  <2> DEFINE b == FoldLeft(WithLevel, server.books[u], cs)
  <2>2. server' = [server EXCEPT !.books[u] = b] /\ mirror' = mirror
    BY <2>1 DEF ServerChanges
  <2>3. \A t \in Tokens, x \in Mirrors :
          Agrees(x, server.books[t]) /\ ~ (f.kind = "unreadable" /\ f.token = t)
            => Agrees(Reading(t, f, x), IF t = u THEN b ELSE server.books[t])
    <3>1. cs \in Changes
      BY FramesSent
    <3>2. ASSUME NEW x \in Mirrors, Agrees(x, server.books[u]), f.kind # "unreadable"
          PROVE  Agrees(Handled(x, f), b)
      <4>1. /\ Agrees(Handled(x, [kind |-> "change", token |-> u, changes |-> cs]), b)
            /\ Handled(x, [kind |-> "malformed", token |-> u]).dirty
        BY <3>1, <3>2, ChangeAgrees
      <4> QED
        BY <2>1, <3>2, <4>1 DEF Agrees
    <3>3. f.token = u
      BY <2>1
    <3> HIDE DEF b
    <3> QED
      BY <3>2, <3>3 DEF Reading
  <2> HIDE DEF b
  <2>4. /\ server'.streams = server.streams
        /\ \A t \in Tokens : server'.books[t] = IF t = u THEN b ELSE server.books[t]
    BY <2>2 DEF Typed
  <2>5. CASE u \in server.streams /\ ~link.closed
    <3>1. link' = Sent(f) /\ f.kind # "book"
      BY <2>1, <2>5 DEF ServerChanges
    <3>2. \A t \in Tokens : \A x \in Mirrors :
            Agrees(x, server.books[t]) /\ ~ (f.kind = "unreadable" /\ f.token = t)
              => Agrees(Reading(t, f, x), server'.books[t])
      BY <2>3, <2>4
    <3> QED
      BY <2>2, <2>4, <3>1, <3>2, SyncedSent
  <2>6. CASE ~ (u \in server.streams /\ ~link.closed)
    <3>1. link' = link
      BY <2>1, <2>6 DEF ServerChanges
    <3>2. Tracked' = Tracked
      BY <2>2 DEF Tracked
    <3>3. ASSUME NEW t \in Tracked \cap server.streams, ~link.closed
          PROVE  server'.books[t] = server.books[t]
      BY <2>4, <2>6, <3>3 DEF Tracked
    <3> QED
      BY <2>2, <2>4, <3>1, <3>2, <3>3 DEF Synced
  <2> QED
    BY <2>5, <2>6
<1> QED
  BY <1>2, <1>3, <1>4, <1>5, <1>6, <1>7, <1>8, <1>9, <1>10, <1>11, <1>12, <1>13, NextCases

(* A clean book is the exchange's once what is on the wire has been read:    *)
(* whatever order REST answers, snapshots and changes come in, over          *)
(* reconnects and broken changes, for every number of books, levels and      *)
(* frames.  An unreadable frame harms its own book only, and that one until  *)
(* the next full book.                                                       *)
THEOREM CleanBooks == Spec => []CleanIsTrue
<1>1. Init => Synced
  BY DEF Init, Synced
<1>2. IInv /\ Synced /\ [Next]_vars => Synced'
  <2>1. Synced /\ UNCHANGED vars => Synced'
    BY DEF Synced, vars, Tracked
  <2> QED
    BY <2>1, SyncedStep DEF IInv, Shapes
<1>3. IInv /\ Synced => CleanIsTrue
  <2> SUFFICES ASSUME IInv, Synced, NEW t \in (Tracked \cap server.streams) \ link.lost, link.at = "reading",
                      ~link.closed, ~mirror[t].dirty,
                      \A i \in DOMAIN link.wire : link.wire[i].token # t
               PROVE  mirror[t].book = server.books[t]
    BY DEF CleanIsTrue
  <2>1. link.wire \in Seq(Frames)
    BY DEF IInv, Typed, Links
  <2>2. Leads(t, TRUE, mirror[t], link.wire, server.books[t])
    BY DEF Synced
  <2>3. \A i \in DOMAIN link.wire : link.wire[i].token # t
    OBVIOUS
  <2> DEFINE m == mirror[t]
             w == link.wire
             b == server.books[t]
  <2>4. Agrees(m, b)
    <3>1. w \in Seq(Frames) /\ Leads(t, TRUE, m, w, b) /\ \A i \in DOMAIN w : w[i].token # t
      BY <2>1, <2>2, <2>3
    <3> HIDE DEF m, w, b
    <3> QED
      BY <3>1, LeadsHere
  <2> QED
    BY <2>4 DEF Agrees
<1>4. Spec /\ []IInv => []Synced
  BY <1>1, <1>2, PTL DEF Spec
<1> QED
  BY <1>3, <1>4, Inductive, PTL
=============================================================================
