---------------------------- MODULE ArchiveProofs ----------------------------
(* Proofs about Recorder and Archive: what the replayer is fed is in order,  *)
(* what a process accepted is kept, and the table's K of a window is the one *)
(* that the archive has.                                                     *)
EXTENDS Archive, FoldLemmas

-----------------------------------------------------------------------------
(* Sequences of record numbers, one after the other.                         *)
Rising(s)   == \A i, j \in DOMAIN s : i < j => s[i] < s[j]
Below(s, t) == \A i \in DOMAIN s, j \in DOMAIN t : s[i] < t[j]

LEMMA CatIs ==
  ASSUME NEW S, NEW s \in Seq(S), NEW t \in Seq(S)
  PROVE  /\ s \o t \in Seq(S) /\ Len(s \o t) = Len(s) + Len(t)
         /\ \A i \in DOMAIN s : i \in DOMAIN (s \o t) /\ (s \o t)[i] = s[i]
         /\ \A i \in DOMAIN t : Len(s) + i \in DOMAIN (s \o t) /\ (s \o t)[Len(s) + i] = t[i]
         /\ \A n \in DOMAIN (s \o t) : \/ n \in DOMAIN s
                                       \/ n - Len(s) \in DOMAIN t /\ (s \o t)[n] = t[n - Len(s)]
OBVIOUS

LEMMA CatAppend ==
  ASSUME NEW S, NEW s \in Seq(S), NEW t \in Seq(S), NEW n \in S
  PROVE  s \o Append(t, n) = Append(s \o t, n)
OBVIOUS

LEMMA RisingCat ==
  ASSUME NEW s \in Seq(Nat), NEW t \in Seq(Nat)
  PROVE  Rising(s \o t) <=> Rising(s) /\ Rising(t) /\ Below(s, t)
<1>0. /\ \A i \in DOMAIN s : i \in DOMAIN (s \o t) /\ (s \o t)[i] = s[i]
      /\ \A i \in DOMAIN t : Len(s) + i \in DOMAIN (s \o t) /\ (s \o t)[Len(s) + i] = t[i]
  BY CatIs
<1>1. ASSUME Rising(s \o t)
      PROVE  Rising(s) /\ Rising(t) /\ Below(s, t)
  <2>0. \A i, j \in DOMAIN (s \o t) : i < j => (s \o t)[i] < (s \o t)[j]
    BY <1>1 DEF Rising
  <2>1. Rising(s)
    BY <1>0, <2>0 DEF Rising
  <2>2. ASSUME NEW i \in DOMAIN t, NEW j \in DOMAIN t, i < j
        PROVE  t[i] < t[j]
    <3>1. Len(s) + i \in DOMAIN (s \o t) /\ (s \o t)[Len(s) + i] = t[i]
      BY <1>0
    <3>2. Len(s) + j \in DOMAIN (s \o t) /\ (s \o t)[Len(s) + j] = t[j]
      BY <1>0
    <3>3. Len(s) + i < Len(s) + j
      BY <2>2
    <3> QED
      BY <2>0, <3>1, <3>2, <3>3
  <2>3. ASSUME NEW i \in DOMAIN s, NEW j \in DOMAIN t
        PROVE  s[i] < t[j]
    <3>1. i \in DOMAIN (s \o t) /\ (s \o t)[i] = s[i]
      BY <1>0
    <3>2. Len(s) + j \in DOMAIN (s \o t) /\ (s \o t)[Len(s) + j] = t[j]
      BY <1>0
    <3>3. i < Len(s) + j
      OBVIOUS
    <3> QED
      BY <2>0, <3>1, <3>2, <3>3
  <2> QED
    BY <2>1, <2>2, <2>3 DEF Rising, Below
<1>2. ASSUME Rising(s), Rising(t), Below(s, t)
      PROVE  Rising(s \o t)
  <2> SUFFICES ASSUME NEW i \in DOMAIN (s \o t), NEW j \in DOMAIN (s \o t), i < j
               PROVE  (s \o t)[i] < (s \o t)[j]
    BY DEF Rising
  <2>1. /\ \/ i \in DOMAIN s /\ (s \o t)[i] = s[i]
           \/ i - Len(s) \in DOMAIN t /\ (s \o t)[i] = t[i - Len(s)]
        /\ \/ j \in DOMAIN s /\ (s \o t)[j] = s[j]
           \/ j - Len(s) \in DOMAIN t /\ (s \o t)[j] = t[j - Len(s)]
    BY CatIs
  <2>2. i \in Nat /\ j \in Nat /\ Len(s) \in Nat
    BY CatIs
  <2>3. i - Len(s) \in DOMAIN t => j - Len(s) \in DOMAIN t /\ (s \o t)[j] = t[j - Len(s)] /\ i - Len(s) < j - Len(s)
    BY <2>1, <2>2
  <2> QED
    BY <1>2, <2>1, <2>3 DEF Rising, Below
<1> QED
  BY <1>1, <1>2

LEMMA ContainsCat ==
  ASSUME NEW S, NEW s \in Seq(S), NEW t \in Seq(S), NEW x
  PROVE  Contains(s \o t, x) <=> Contains(s, x) \/ Contains(t, x)
<1>1. \A r \in Seq(S) : Contains(r, x) <=> \E i \in DOMAIN r : r[i] = x
  BY DEF Contains
<1>2. ASSUME NEW i \in DOMAIN (s \o t), (s \o t)[i] = x
      PROVE  (\E j \in DOMAIN s : s[j] = x) \/ (\E j \in DOMAIN t : t[j] = x)
  <2>1. \/ i \in DOMAIN s /\ (s \o t)[i] = s[i]
        \/ i - Len(s) \in DOMAIN t /\ (s \o t)[i] = t[i - Len(s)]
    BY CatIs
  <2> QED
    BY <1>2, <2>1
<1>3. ASSUME NEW i \in DOMAIN s, s[i] = x
      PROVE  \E j \in DOMAIN (s \o t) : (s \o t)[j] = x
  BY <1>3, CatIs
<1>4. ASSUME NEW i \in DOMAIN t, t[i] = x
      PROVE  \E j \in DOMAIN (s \o t) : (s \o t)[j] = x
  <2>1. Len(s) + i \in DOMAIN (s \o t) /\ (s \o t)[Len(s) + i] = t[i]
    BY CatIs
  <2> QED
    BY <1>4, <2>1
<1>5. s \o t \in Seq(S)
  OBVIOUS
<1>6. Contains(s \o t, x) <=> \E i \in DOMAIN (s \o t) : (s \o t)[i] = x
  BY <1>1, <1>5
<1>7. /\ Contains(s, x) <=> \E i \in DOMAIN s : s[i] = x
      /\ Contains(t, x) <=> \E i \in DOMAIN t : t[i] = x
  BY <1>1
<1> QED
  BY <1>2, <1>3, <1>4, <1>6, <1>7

(* A part of what is to come is written: the rest is still to come.          *)
Part(p, b) == \E d \in Nat : Len(p) + d <= Len(b) /\ \A i \in DOMAIN p : p[i] = b[i + d]
AtMost(s, n) == \A i \in DOMAIN s : s[i] <= n

LEMMA PartIs ==
  ASSUME NEW S, NEW b \in Seq(S), NEW n \in 0 .. Len(b)
  PROVE  /\ SubSeq(b, 1, n) \in Seq(S) /\ Part(SubSeq(b, 1, n), b)
         /\ SubSeq(b, 1, n) # <<>> => /\ Tail(SubSeq(b, 1, n)) \in Seq(S)
                                      /\ Part(Tail(SubSeq(b, 1, n)), b)
         /\ SubSeq(b, 1, Len(b)) = b
<1> DEFINE p == SubSeq(b, 1, n)
<1>1. p \in Seq(S) /\ Len(p) = n /\ n <= Len(b) /\ \A i \in 1 .. n : p[i] = b[i]
  OBVIOUS
<1>2. SubSeq(b, 1, Len(b)) = b
  OBVIOUS
<1> HIDE DEF p
<1>3. Part(p, b)
  <2>1. Len(p) + 0 <= Len(b) /\ \A i \in DOMAIN p : p[i] = b[i + 0]
    BY <1>1
  <2> QED
    BY <2>1 DEF Part
<1>4. ASSUME p # <<>>
      PROVE  Tail(p) \in Seq(S) /\ Part(Tail(p), b)
  <2>1. Tail(p) \in Seq(S) /\ Len(Tail(p)) = n - 1 /\ \A i \in 1 .. n - 1 : Tail(p)[i] = p[i + 1]
    BY <1>1, <1>4
  <2>2. Len(Tail(p)) + 1 <= Len(b) /\ \A i \in DOMAIN Tail(p) : Tail(p)[i] = b[i + 1]
    BY <1>1, <2>1
  <2> QED
    BY <2>1, <2>2 DEF Part
<1> QED
  BY <1>1, <1>2, <1>3, <1>4 DEF p

LEMMA WrittenIs ==
  ASSUME NEW f \in Seq(Nat), NEW b \in Seq(Nat), NEW t \in Seq(Nat), NEW n \in Nat,
         Rising(f), Rising(b \o t), Below(f, b \o t), AtMost(f, n), AtMost(b \o t, n),
         NEW p \in Seq(Nat), Part(p, b)
  PROVE  Rising(f \o p) /\ Rising(t) /\ Below(f \o p, t) /\ AtMost(f \o p, n) /\ AtMost(t, n)
<1>1. Rising(b) /\ Rising(t) /\ Below(b, t)
  BY RisingCat
<1>2. /\ \A i \in DOMAIN b : i \in DOMAIN (b \o t) /\ (b \o t)[i] = b[i]
      /\ \A i \in DOMAIN t : Len(b) + i \in DOMAIN (b \o t) /\ (b \o t)[Len(b) + i] = t[i]
  BY CatIs
<1>3. Below(f, b) /\ Below(f, t) /\ AtMost(b, n) /\ AtMost(t, n)
  BY <1>2 DEF Below, AtMost
<1>4. PICK d \in Nat : Len(p) + d <= Len(b) /\ \A i \in DOMAIN p : p[i] = b[i + d]
  BY DEF Part
<1>5. \A i \in DOMAIN p : i + d \in DOMAIN b /\ p[i] = b[i + d]
  <2>1. DOMAIN p = 1 .. Len(p) /\ DOMAIN b = 1 .. Len(b) /\ Len(p) \in Nat /\ Len(b) \in Nat
    OBVIOUS
  <2>2. ASSUME NEW i \in 1 .. Len(p)
        PROVE  i + d \in 1 .. Len(b)
    BY <1>4, <2>1
  <2> QED
    BY <1>4, <2>1, <2>2
<1>6. Rising(p)
  <2> SUFFICES ASSUME NEW i \in DOMAIN p, NEW j \in DOMAIN p, i < j
               PROVE  p[i] < p[j]
    BY DEF Rising
  <2>1. i + d < j + d
    OBVIOUS
  <2> QED
    BY <1>1, <1>5, <2>1 DEF Rising
<1>7. Below(p, t) /\ Below(f, p) /\ AtMost(p, n)
  BY <1>1, <1>3, <1>5 DEF Below, AtMost
<1>8. Rising(f \o p)
  BY <1>6, <1>7, RisingCat
<1>9. \A i \in DOMAIN (f \o p) : \/ i \in DOMAIN f /\ (f \o p)[i] = f[i]
                                 \/ i - Len(f) \in DOMAIN p /\ (f \o p)[i] = p[i - Len(f)]
  BY CatIs
<1>10. Below(f \o p, t)
  BY <1>3, <1>7, <1>9 DEF Below
<1>11. AtMost(f \o p, n)
  BY <1>7, <1>9 DEF AtMost
<1> QED
  BY <1>1, <1>3, <1>8, <1>10, <1>11

-----------------------------------------------------------------------------
(* The recorder.  The pill is the last thing in the queue; the writer has a  *)
(* batch while it writes one, and nothing is left when it is over.           *)
Control ==
  /\ writer = "waiting" => batch = <<>> /\ ~last
  /\ writer \in {"writing", "dead"} => batch # <<>>
  /\ writer = "ended" => batch = <<>> /\ queue = <<>> /\ stopper \notin {"running", "putting"}
  /\ last => queue = <<>> /\ stopper \notin {"running", "putting"}
  /\ stopper \in {"running", "putting"} => ~Contains(queue, Pill)
  /\ \A i \in DOMAIN queue : queue[i] = Pill => i = Len(queue)
  /\ stopper = "stopped" => writer = "ended"

(* The records on disk and then those in memory, each as it was numbered.    *)
Ordered ==
  /\ Rising(file) /\ Rising(InMemory) /\ Below(file, InMemory)
  /\ AtMost(file, count) /\ AtMost(InMemory, count)

(* While the file ends in half a line the process has written none, so the   *)
(* line that is glued is its first.                                          *)
Kept ==
  /\ \A i \in DOMAIN accepted : \/ Contains(file, accepted[i])
                                \/ Contains(InMemory, accepted[i])
                                \/ i = 1 /\ restarts \in glued
  /\ torn => accepted = InMemory

RInv == TypeOK /\ Control /\ Ordered /\ Kept

-----------------------------------------------------------------------------
(* The archive.                                                              *)
FramesOK ==
  /\ Len(frames) = count
  /\ frames \in Seq([frame : Prints \cup {Pong}, process : 0 .. MaxRestarts])
  /\ \A r \in 1 .. count : frames[r].process <= restarts

CapturesOK ==
  /\ k \in [Windows -> Stamps \cup {Never}]
  /\ writes \in Seq(Windows \X Stamps)
  /\ table \in [Windows -> Stamps \cup {Never}]
  /\ cut \subseteq Windows

(* What the running process heard of a window.                               *)
Heard(w) == {r \in OfWindow(w) : frames[r].process = restarts}

StampsOf(rs) == {FrameOf(r).stamp : r \in rs}

Least(e, S) == IF S = {} THEN e = Never ELSE e \in S /\ \A s \in S : e <= s

MemoryHasK == \A w \in Windows : Least(k[w], StampsOf(Heard(w)))

(* What the table's row of a window will be when the calls that wait have    *)
(* been carried out: the last of them decides, if there is one.              *)
Waits(w)   == {i \in DOMAIN writes : writes[i][1] = w}
IsLast(i)  == \A j \in DOMAIN writes : j > i => writes[j][1] # writes[i][1]
WillBe(w, e) ==
  /\ Waits(w) = {} => table[w] = e
  /\ \A i \in Waits(w) : IsLast(i) => writes[i][2] = e

TableWillHaveK ==
  \A w \in Windows \ cut : TwoHeard(w) \/ \A e \in Stamps \cup {Never} :
    Least(e, StampsOf(OfWindow(w))) => WillBe(w, e)

IInv == RInv /\ FramesOK /\ CapturesOK /\ MemoryHasK /\ TableWillHaveK

-----------------------------------------------------------------------------
LEMMA LinesIs ==
  ASSUME NEW q \in Seq(Records \cup {Pill}), \A i \in DOMAIN q : q[i] = Pill => i = Len(q)
  PROVE  /\ Lines(q) \in Seq(Records)
         /\ ~Contains(q, Pill) => Lines(q) = q
         /\ Lines(q) = <<>> /\ q # <<>> => Contains(q, Pill)
<1>1. \A i \in DOMAIN q : q[i] \in Records \/ q[i] = Pill
  OBVIOUS
<1>2. CASE Contains(q, Pill)
  <2>1. PICK i \in DOMAIN q : q[i] = Pill
    BY <1>2 DEF Contains
  <2>2. i = Len(q) /\ Len(q) \in Nat \ {0}
    BY <2>1
  <2>3. \A j \in 1 .. Len(q) - 1 : q[j] \in Records
    BY <1>1, <2>2
  <2>4. Front(q) \in Seq(Records)
    BY <2>2, <2>3 DEF Front
  <2> QED
    BY <1>2, <2>4 DEF Lines
<1>3. CASE ~Contains(q, Pill)
  <2>1. \A i \in DOMAIN q : q[i] \in Records
    BY <1>1, <1>3 DEF Contains
  <2> QED
    BY <1>3, <2>1 DEF Lines
<1> QED
  BY <1>2, <1>3

LEMMA RecordsAre ==
  /\ Records \subseteq Nat /\ Pill \notin Records /\ MaxRecords \in Nat /\ MaxRestarts \in Nat
  /\ QueueMax \in Nat \ {0}
BY RecorderAssumption DEF Records, Pill

LEMMA MemoryIs ==
  ASSUME TypeOK, Control
  PROVE  /\ Lines(queue) \in Seq(Records) /\ Lines(queue) \in Seq(Nat)
         /\ batch \in Seq(Records) /\ batch \in Seq(Nat)
         /\ InMemory \in Seq(Records) /\ InMemory \in Seq(Nat)
         /\ file \in Seq(Records) /\ file \in Seq(Nat)
         /\ accepted \in Seq(Records)
<1>1. Lines(queue) \in Seq(Records)
  BY LinesIs DEF TypeOK, Control
<1>2. batch \in Seq(Records) /\ file \in Seq(Records) /\ accepted \in Seq(Records)
  BY DEF TypeOK
<1>3. InMemory \in Seq(Records)
  BY <1>1, <1>2 DEF InMemory
<1>4. ASSUME NEW s \in Seq(Records)
      PROVE  s \in Seq(Nat)
  <2>1. \A i \in DOMAIN s : s[i] \in Records
    OBVIOUS
  <2>2. \A i \in DOMAIN s : s[i] \in Nat
    BY <2>1 DEF Records
  <2> QED
    BY <2>2
<1> QED
  BY <1>1, <1>2, <1>3, <1>4

LEMMA RecorderInit == Init => RInv
<1> SUFFICES ASSUME Init PROVE RInv
  OBVIOUS
<1>1. TypeOK
  <2>1. queue \in Seq(Records \cup {Pill}) /\ batch \in Seq(Records) /\ file \in Seq(Records)
        /\ accepted \in Seq(Records) /\ Len(queue) = 0
    BY DEF Init
  <2> QED
    <3>1. Len(queue) <= QueueMax
      BY <2>1, RecordsAre
    <3>2. 0 \in 0 .. MaxRecords /\ 0 \in 0 .. MaxRestarts
      BY RecordsAre
    <3> QED
      BY <2>1, <3>1, <3>2 DEF Init, TypeOK
<1>2. Control
  BY DEF Init, Control, Contains
<1>3. InMemory = <<>>
  BY DEF Init, InMemory, Lines, Contains
<1>4. Ordered
  BY <1>3 DEF Init, Ordered, Rising, Below, AtMost
<1>5. Kept
  BY <1>3 DEF Init, Kept
<1> QED
  BY <1>1, <1>2, <1>4, <1>5 DEF RInv

(* What is recorded joins the memory; when the queue is full, nothing does.  *)
LEMMA RecordStep ==
  ASSUME RInv, Record
  PROVE  RInv'
<1>0. /\ TypeOK /\ Control /\ Ordered /\ Kept
      /\ queue \in Seq(Records \cup {Pill}) /\ count \in 0 .. MaxRecords
      /\ stopper = "running" /\ count < MaxRecords /\ count' = count + 1
      /\ UNCHANGED <<batch, last, writer, stopper, file, glued, torn, restarts>>
      /\ count \in Nat /\ count' \in Records
  BY RecordsAre DEF RInv, Record, TypeOK, Records
<1>1. CASE Full
  <2>1. UNCHANGED <<queue, accepted>>
    BY <1>1 DEF Record
  <2>2. TypeOK'
    BY <1>0, <2>1 DEF TypeOK, Records
  <2>3. Control'
    BY <1>0, <2>1 DEF Control
  <2>4. InMemory' = InMemory
    BY <1>0, <2>1 DEF InMemory
  <2>5. \A i \in DOMAIN file : file[i] \in Nat
    BY <1>0, MemoryIs
  <2>6. \A i \in DOMAIN InMemory : InMemory[i] \in Nat
    BY <1>0, MemoryIs
  <2>7. Ordered'
    BY <1>0, <2>4, <2>5, <2>6 DEF Ordered, AtMost
  <2>8. Kept'
    BY <1>0, <2>1, <2>4 DEF Kept
  <2> QED
    BY <2>2, <2>3, <2>7, <2>8 DEF RInv
<1>2. CASE ~Full
  <2>1. queue' = Append(queue, count') /\ accepted' = Append(accepted, count')
    BY <1>2 DEF Record
  <2> DEFINE n == count'
  <2>2. ~Contains(queue, Pill) /\ n \in Records /\ n # Pill
    BY <1>0, RecordsAre DEF Control
  <2> HIDE DEF n
  <2>3. queue' \in Seq(Records \cup {Pill}) /\ Len(queue') = Len(queue) + 1
        /\ \A i \in DOMAIN queue' : (i \in DOMAIN queue /\ queue'[i] = queue[i]) \/ queue'[i] = n
    BY <1>0, <2>1, <2>2 DEF n
  <2>4. ~Contains(queue', Pill)
    BY <1>0, <2>2, <2>3 DEF Contains
  <2>5. Lines(queue') = Append(queue, n) /\ Lines(queue) = queue /\ queue \in Seq(Records)
    BY <1>0, <2>1, <2>2, <2>4, MemoryIs DEF Lines, n
  <2>6. InMemory' = Append(InMemory, n)
    <3>1. batch \in Seq(Records) /\ batch' = batch
      BY <1>0, MemoryIs
    <3>2. batch \o Append(queue, n) = Append(batch \o queue, n)
      BY <2>2, <2>5, <3>1, CatAppend
    <3> QED
      BY <2>5, <3>1, <3>2 DEF InMemory
  <2>7. Len(queue') <= QueueMax
    BY <1>0, <1>2, <2>3, RecordsAre DEF Full
  <2>8. TypeOK'
    <3>1. accepted' \in Seq(Records)
      BY <1>0, <2>1, <2>2, MemoryIs DEF n
    <3> QED
      BY <1>0, <2>3, <2>7, <3>1 DEF TypeOK, Records
  <2>9. Control'
    <3>1. \A i \in DOMAIN queue' : queue'[i] # Pill
      BY <2>3, <2>4 DEF Contains
    <3> QED
      BY <1>0, <2>4, <3>1 DEF Control
  <2>10. Ordered'
    <3> DEFINE m == InMemory
    <3>1. m \in Seq(Nat) /\ file \in Seq(Nat) /\ n \in Nat
      BY <1>0, <2>2, MemoryIs, RecordsAre
    <3>2. /\ Rising(m) /\ Below(file, m) /\ Rising(file)
          /\ (\A i \in DOMAIN file : file[i] <= count) /\ \A i \in DOMAIN m : m[i] <= count
      BY <1>0 DEF Ordered, AtMost
    <3> HIDE DEF m
    <3>3. n = count + 1
      BY <1>0 DEF n
    <3>4. Rising(Append(m, n)) /\ Below(file, Append(m, n))
      <4>1. /\ \A i \in DOMAIN m : m[i] \in Nat /\ m[i] < n
            /\ \A i \in DOMAIN file : file[i] \in Nat /\ file[i] < n
        BY <1>0, <3>1, <3>2, <3>3
      <4>2. /\ DOMAIN Append(m, n) = 1 .. Len(m) + 1 /\ DOMAIN m = 1 .. Len(m) /\ Len(m) \in Nat
            /\ \A i \in 1 .. Len(m) : Append(m, n)[i] = m[i]
            /\ Append(m, n)[Len(m) + 1] = n
        BY <3>1
      <4>3. Rising(Append(m, n))
        BY <3>2, <4>1, <4>2 DEF Rising
      <4>4. Below(file, Append(m, n))
        BY <3>2, <4>1, <4>2 DEF Below
      <4> QED
        BY <4>3, <4>4
    <3>5. (\A i \in DOMAIN file : file[i] <= n) /\ \A i \in DOMAIN Append(m, n) : Append(m, n)[i] <= n
      BY <1>0, <3>1, <3>2, <3>3
    <3> QED
      BY <1>0, <2>6, <3>2, <3>4, <3>5 DEF Ordered, AtMost, m, n
  <2>11. Kept'
    <3> DEFINE m == InMemory
    <3>1. m \in Seq(Records) /\ accepted \in Seq(Records)
      BY <1>0, MemoryIs
    <3> HIDE DEF m
    <3>2. \A x : Contains(m, x) \/ x = n => Contains(Append(m, n), x)
      BY <2>2, <3>1 DEF Contains
    <3>3. \A i \in DOMAIN accepted' : (i \in DOMAIN accepted /\ accepted'[i] = accepted[i]) \/ accepted'[i] = n
      BY <2>1, <2>2, <3>1 DEF n
    <3>4. InMemory' = Append(m, n)
      BY <2>6 DEF m
    <3> QED
      BY <1>0, <2>1, <3>2, <3>3, <3>4 DEF Kept, m, n
  <2> QED
    BY <2>8, <2>9, <2>10, <2>11 DEF RInv
<1> QED
  BY <1>1, <1>2

LEMMA EmptyIs ==
  /\ Lines(<<>>) = <<>>
  /\ \A s \in Seq(Nat) : <<>> \o s = s /\ s \o <<>> = s
BY DEF Lines, Contains

(* What the writer takes stays in memory, in the same order.                 *)
LEMMA TakeBatchStep ==
  ASSUME RInv, TakeBatch
  PROVE  RInv'
<1>0. /\ TypeOK /\ Control /\ Ordered /\ Kept
      /\ writer = "waiting" /\ queue # <<>> /\ batch = <<>> /\ ~last
      /\ last' = Contains(queue, Pill) /\ queue' = <<>>
      /\ UNCHANGED <<stopper, file, glued, torn, count, accepted, restarts>>
      /\ batch' = InMemory
      /\ writer' = IF batch' # <<>> THEN "writing" ELSE "ended"
  BY DEF RInv, TakeBatch, Control, SeesPill, InMemory
<1>1. /\ InMemory \in Seq(Records) /\ InMemory \in Seq(Nat)
      /\ Lines(queue) \in Seq(Nat) /\ InMemory = Lines(queue)
  <2>1. <<>> \o Lines(queue) = Lines(queue)
    BY <1>0, EmptyIs, MemoryIs
  <2> QED
    BY <1>0, <2>1, MemoryIs DEF InMemory
<1>2. InMemory' = InMemory
  <2>1. InMemory' = InMemory \o <<>>
    BY <1>0, EmptyIs DEF InMemory
  <2> QED
    BY <1>1, <2>1, EmptyIs
<1>3. Lines(queue) = <<>> => Contains(queue, Pill)
  BY <1>0, LinesIs DEF TypeOK, Control
<1>4. TypeOK'
  <2>1. queue' \in Seq(Records \cup {Pill}) /\ Len(queue') = 0
    BY <1>0
  <2>2. Len(queue') <= QueueMax
    BY <2>1, RecordsAre
  <2>3. last' \in BOOLEAN
    BY <1>0 DEF Contains
  <2> QED
    BY <1>0, <1>1, <2>1, <2>2, <2>3 DEF TypeOK
<1>5. Control'
  BY <1>0, <1>1, <1>3 DEF Control, Contains
<1>6. Ordered'
  BY <1>0, <1>2 DEF Ordered
<1>7. Kept'
  BY <1>0, <1>2 DEF Kept
<1> QED
  BY <1>4, <1>5, <1>6, <1>7 DEF RInv

(* A part of the batch comes to disk, or all but a line that is glued.       *)
LEMMA WriteLinesIs ==
  ASSUME TypeOK, Control, Ordered, NEW n \in 0 .. Len(batch), NEW newHour \in BOOLEAN,
         WriteLines(SubSeq(batch, 1, n), newHour)
  PROVE  /\ file' \in Seq(Records) /\ glued' \in SUBSET (0 .. MaxRestarts)
         /\ Rising(file') /\ AtMost(file', count) /\ Below(file', Lines(queue))
         /\ Rising(Lines(queue)) /\ AtMost(Lines(queue), count)
<1> DEFINE b == SubSeq(batch, 1, n)
           p == IF Glues(b, newHour) THEN Tail(b) ELSE b
<1>1. file' = file \o p /\ glued' = IF Glues(b, newHour) THEN glued \cup {restarts} ELSE glued
  BY DEF WriteLines, Appended
<1>2. p \in Seq(Records) /\ Part(p, batch)
  <2>1. batch \in Seq(Records)
    BY MemoryIs
  <2>2. /\ b \in Seq(Records) /\ Part(b, batch)
        /\ b # <<>> => Tail(b) \in Seq(Records) /\ Part(Tail(b), batch)
    BY <2>1, PartIs
  <2> QED
    BY <2>2 DEF Glues
<1>3. p \in Seq(Nat)
  <2>1. p \in Seq(Records)
    BY <1>2
  <2> HIDE DEF p
  <2>2. \A i \in DOMAIN p : p[i] \in Records
    BY <2>1
  <2>3. \A i \in DOMAIN p : p[i] \in Nat
    BY <2>2 DEF Records
  <2> QED
    BY <2>1, <2>3
<1> HIDE DEF p
<1>4. file' \in Seq(Records)
  BY <1>1, <1>2, MemoryIs
<1>5. glued' \in SUBSET (0 .. MaxRestarts)
  BY <1>1 DEF TypeOK
<1>6. count \in Nat
  BY RecordsAre DEF TypeOK
<1>7. /\ Rising(file) /\ Rising(batch \o Lines(queue)) /\ Below(file, batch \o Lines(queue))
      /\ AtMost(file, count) /\ AtMost(batch \o Lines(queue), count)
  BY DEF Ordered, InMemory
<1>8. /\ Rising(file \o p) /\ Rising(Lines(queue)) /\ Below(file \o p, Lines(queue))
      /\ AtMost(file \o p, count) /\ AtMost(Lines(queue), count)
  BY <1>2, <1>3, <1>6, <1>7, MemoryIs, WrittenIs
<1> QED
  BY <1>1, <1>4, <1>5, <1>8

LEMMA WriteBatchStep ==
  ASSUME RInv, WriteBatch
  PROVE  RInv'
<1>0. /\ TypeOK /\ Control /\ Ordered /\ Kept
      /\ writer = "writing" /\ batch # <<>> /\ torn' = FALSE /\ batch' = <<>>
      /\ writer' = IF last THEN "ended" ELSE "waiting"
      /\ UNCHANGED <<queue, last, stopper, count, accepted, restarts>>
  BY DEF RInv, WriteBatch, Control, Cleared
<1>1. PICK newHour \in BOOLEAN : WriteLines(batch, newHour)
  BY DEF WriteBatch
<1>2. batch \in Seq(Records) /\ Lines(queue) \in Seq(Records) /\ Lines(queue) \in Seq(Nat)
      /\ file \in Seq(Records) /\ accepted \in Seq(Records)
  BY <1>0, MemoryIs
<1>3. /\ file' \in Seq(Records) /\ glued' \in SUBSET (0 .. MaxRestarts)
      /\ Rising(file') /\ AtMost(file', count) /\ Below(file', Lines(queue))
      /\ Rising(Lines(queue)) /\ AtMost(Lines(queue), count)
  <2>1. SubSeq(batch, 1, Len(batch)) = batch /\ Len(batch) \in 0 .. Len(batch)
    BY <1>2
  <2> QED
    BY <1>0, <1>1, <2>1, WriteLinesIs
<1>4. InMemory' = Lines(queue)
  <2>1. InMemory' = <<>> \o Lines(queue)
    BY <1>0 DEF InMemory
  <2> QED
    BY <1>2, <2>1, EmptyIs
<1>5. TypeOK'
  <2>1. batch' \in Seq(Records)
    BY <1>0
  <2> QED
    BY <1>0, <1>3, <2>1 DEF TypeOK
<1>6. Control'
  BY <1>0 DEF Control
<1>7. Ordered'
  BY <1>0, <1>3, <1>4 DEF Ordered
<1>8. Kept'
  <2>1. CASE Glues(batch, newHour)
    <3>1. file' = file \o Tail(batch) /\ glued' = glued \cup {restarts} /\ accepted = batch \o Lines(queue)
      BY <1>0, <1>1, <2>1 DEF WriteLines, Appended, Glues, Kept, InMemory
    <3> SUFFICES ASSUME NEW i \in DOMAIN accepted', i # 1
                 PROVE  Contains(file', accepted[i]) \/ Contains(Lines(queue), accepted[i])
      BY <1>0, <1>4, <3>1 DEF Kept
    <3>2. \/ i \in DOMAIN batch /\ accepted[i] = batch[i]
          \/ i - Len(batch) \in DOMAIN Lines(queue) /\ accepted[i] = Lines(queue)[i - Len(batch)]
      BY <1>0, <1>2, <3>1, CatIs
    <3>3. CASE i \in DOMAIN batch /\ accepted[i] = batch[i]
      <4>1. i - 1 \in 1 .. Len(batch) - 1 /\ Tail(batch) \in Seq(Records)
            /\ Len(Tail(batch)) = Len(batch) - 1 /\ Tail(batch)[i - 1] = batch[i]
        BY <1>0, <1>2, <3>3
      <4>2. Contains(Tail(batch), accepted[i])
        BY <3>3, <4>1 DEF Contains
      <4> QED
        BY <1>2, <3>1, <4>1, <4>2, ContainsCat
    <3>4. CASE i - Len(batch) \in DOMAIN Lines(queue) /\ accepted[i] = Lines(queue)[i - Len(batch)]
      <4>1. i - Len(batch) \in 1 .. Len(Lines(queue))
        BY <1>2, <3>4
      <4> QED
        BY <3>4, <4>1 DEF Contains
    <3> QED
      BY <3>2, <3>3, <3>4
  <2>2. CASE ~Glues(batch, newHour)
    <3>1. file' = file \o batch /\ glued' = glued
      BY <1>1, <2>2 DEF WriteLines, Appended
    <3>2. \A x : Contains(file', x) <=> Contains(file, x) \/ Contains(batch, x)
      BY <1>2, <3>1, ContainsCat
    <3>3. \A x : Contains(InMemory, x) <=> Contains(batch, x) \/ Contains(Lines(queue), x)
      BY <1>2, ContainsCat DEF InMemory
    <3> QED
      BY <1>0, <1>4, <3>1, <3>2, <3>3 DEF Kept
  <2> QED
    BY <2>1, <2>2
<1> QED
  BY <1>5, <1>6, <1>7, <1>8 DEF RInv

LEMMA PutPillStep ==
  ASSUME RInv, PutPill
  PROVE  RInv'
<1>0. /\ TypeOK /\ Control /\ Ordered /\ Kept
      /\ stopper = "putting" /\ ~Full /\ queue' = Append(queue, Pill) /\ stopper' = "joining"
      /\ UNCHANGED <<batch, last, writer, file, glued, torn, count, accepted, restarts>>
      /\ queue \in Seq(Records \cup {Pill})
  BY DEF RInv, PutPill, TypeOK
<1>1. ~Contains(queue, Pill) /\ \A i \in DOMAIN queue : queue[i] # Pill
  BY <1>0 DEF Control, Contains
<1>2. /\ queue' \in Seq(Records \cup {Pill}) /\ Len(queue') = Len(queue) + 1
      /\ \A i \in 1 .. Len(queue) : queue'[i] = queue[i]
      /\ queue'[Len(queue) + 1] = Pill /\ Len(queue) \in Nat
  BY <1>0
<1>3. Lines(queue') = Lines(queue)
  <2>1. Contains(queue', Pill)
    BY <1>2 DEF Contains
  <2>2. Front(queue') = queue
    BY <1>0, <1>2 DEF Front
  <2> QED
    BY <1>1, <2>1, <2>2 DEF Lines
<1>4. InMemory' = InMemory
  BY <1>0, <1>3 DEF InMemory
<1>5. TypeOK'
  <2>1. Len(queue') <= QueueMax
    BY <1>0, <1>2, RecordsAre DEF Full
  <2> QED
    BY <1>0, <1>2, <2>1 DEF TypeOK
<1>6. Control'
  <2>1. \A i \in DOMAIN queue' : queue'[i] = Pill => i = Len(queue')
    BY <1>1, <1>2
  <2> QED
    BY <1>0, <2>1 DEF Control
<1>7. Ordered' /\ Kept'
  BY <1>0, <1>4 DEF Ordered, Kept
<1> QED
  BY <1>5, <1>6, <1>7 DEF RInv

(* A process ends: what it still had in memory is nobody's any more.         *)
LEMMA RestartStep ==
  ASSUME RInv, Restart
  PROVE  RInv'
<1>0. /\ TypeOK /\ Control /\ Ordered /\ Kept
      /\ restarts < MaxRestarts /\ restarts' = restarts + 1
      /\ queue' = <<>> /\ batch' = <<>> /\ last' = FALSE
      /\ writer' = "waiting" /\ stopper' = "running" /\ accepted' = <<>> /\ count' = count
  BY DEF RInv, Restart
<1>1. /\ file' \in Seq(Records) /\ glued' \in SUBSET (0 .. MaxRestarts) /\ torn' \in BOOLEAN
      /\ Rising(file') /\ AtMost(file', count)
  <2>1. CASE writer \in {"writing", "dead"}
    <3>1. PICK n \in 0 .. Len(batch), newHour \in BOOLEAN :
            /\ WriteLines(SubSeq(batch, 1, n), newHour)
            /\ torn' \in IF n = Len(batch) THEN {FALSE}
                         ELSE IF n = 0 THEN {torn, TRUE} ELSE BOOLEAN
      BY <2>1 DEF Restart
    <3>2. torn' \in BOOLEAN
      BY <1>0, <3>1 DEF TypeOK
    <3> QED
      BY <1>0, <3>1, <3>2, WriteLinesIs
  <2>2. CASE writer \notin {"writing", "dead"}
    <3>1. UNCHANGED <<file, glued, torn>>
      BY <2>2 DEF Restart
    <3> QED
      BY <1>0, <3>1 DEF TypeOK, Ordered
  <2> QED
    BY <2>1, <2>2
<1>2. InMemory' = <<>>
  BY <1>0, EmptyIs DEF InMemory
<1>3. TypeOK'
  <2>1. queue' \in Seq(Records \cup {Pill}) /\ batch' \in Seq(Records) /\ accepted' \in Seq(Records)
        /\ Len(queue') = 0
    BY <1>0
  <2>2. restarts' \in 0 .. MaxRestarts /\ 0 <= QueueMax
    BY <1>0, RecordsAre DEF TypeOK
  <2> QED
    BY <1>0, <1>1, <2>1, <2>2 DEF TypeOK
<1>4. Control'
  BY <1>0 DEF Control, Contains
<1>5. Ordered'
  BY <1>0, <1>1, <1>2 DEF Ordered, Rising, Below, AtMost
<1>6. Kept'
  BY <1>0, <1>2 DEF Kept
<1> QED
  BY <1>3, <1>4, <1>5, <1>6 DEF RInv

LEMMA RecorderStep == RInv /\ [Next]_vars => RInv'
<1> SUFFICES ASSUME RInv, [Next]_vars
             PROVE  RInv'
  OBVIOUS
<1>1. CASE WriteFails \/ Stop \/ Join \/ UNCHANGED vars
  <2>1. /\ TypeOK /\ Control /\ Ordered /\ Kept
        /\ UNCHANGED <<queue, batch, last, file, glued, torn, count, accepted, restarts>>
    BY <1>1 DEF RInv, WriteFails, Stop, Join, vars
  <2>2. TypeOK'
    BY <1>1, <2>1 DEF TypeOK, WriteFails, Stop, Join, vars
  <2>3. Control'
    BY <1>1, <2>1 DEF TypeOK, Control, WriteFails, Stop, Join, Over, vars
  <2>4. Ordered' /\ Kept'
    BY <2>1 DEF Ordered, Kept, InMemory
  <2> QED
    BY <2>2, <2>3, <2>4 DEF RInv
<1> QED
  BY <1>1, RecordStep, TakeBatchStep, WriteBatchStep, PutPillStep, RestartStep
  DEF Next, Writer

(* What the two properties of the recorder say.                              *)
LEMMA RecorderKeeps ==
  ASSUME RInv
  PROVE  ReplayInOrder /\ AcceptedIsKept
<1>1. ReplayInOrder
  BY DEF RInv, Ordered, Rising, ReplayInOrder
<1>2. stopper = "stopped" => \A x : ~Contains(InMemory, x)
  <2>1. stopper = "stopped" => InMemory = <<>>
    BY EmptyIs DEF RInv, Control, InMemory
  <2> QED
    BY <2>1 DEF Contains
<1>3. AcceptedIsKept
  BY <1>2 DEF RInv, Kept, AcceptedIsKept
<1> QED
  BY <1>1, <1>3

-----------------------------------------------------------------------------
LEMMA LeastAdds ==
  ASSUME NEW S \in SUBSET Stamps, NEW s \in Stamps, NEW e \in Stamps \cup {Never}, Least(e, S)
  PROVE  Least(IF s < e THEN s ELSE e, S \cup {s})
<1>1. Stamps \subseteq Nat /\ Never \in Nat /\ s < Never /\ s \in Nat /\ e \in Nat
  BY ArchiveAssumption
<1>2. \A x \in S : x \in Nat
  BY <1>1
<1> QED
  BY <1>1, <1>2 DEF Least

LEMMA LeastUnique ==
  ASSUME NEW S \in SUBSET Stamps, NEW e, NEW d, Least(e, S), Least(d, S)
  PROVE  e = d
<1>1. \A x \in S : x \in Nat
  BY ArchiveAssumption
<1> QED
  BY <1>1 DEF Least

LEMMA LeastIs ==
  ASSUME NEW S \in SUBSET Stamps, NEW e, Least(e, S)
  PROVE  e = (IF S = {} THEN Never ELSE Min(S)) /\ e \in Stamps \cup {Never}
<1>1. CASE S = {}
  BY <1>1 DEF Least
<1>2. CASE S # {}
  <2>1. e \in S /\ \A s \in S : e <= s
    BY <1>2 DEF Least
  <2>2. Min(S) \in S /\ \A s \in S : Min(S) <= s
    BY <2>1 DEF Min
  <2>3. e \in Stamps /\ e \in Nat /\ Min(S) \in Nat /\ e <= Min(S) /\ Min(S) <= e
    BY <2>1, <2>2, ArchiveAssumption
  <2>4. e = Min(S)
    BY <2>3
  <2> QED
    BY <1>2, <2>3, <2>4
<1> QED
  BY <1>1, <1>2

LEMMA PrintsAre ==
  /\ \A f \in Prints : f # Pong /\ f.window \in Windows /\ f.stamp \in Stamps
  /\ Stamps \subseteq Nat /\ Never \in Nat /\ \A s \in Stamps : s < Never
BY ArchiveAssumption DEF Prints, Pong

LEMMA FramesAre ==
  ASSUME FramesOK
  PROVE  /\ \A r \in 1 .. count : /\ FrameOf(r) \in Prints \cup {Pong}
                                  /\ frames[r].process \in Nat /\ frames[r].process <= restarts
         /\ \A w \in Windows : /\ OfWindow(w) \subseteq 1 .. count
                               /\ StampsOf(OfWindow(w)) \subseteq Stamps
                               /\ StampsOf(Heard(w)) \subseteq Stamps
<1>1. \A r \in 1 .. count : frames[r] \in [frame : Prints \cup {Pong}, process : 0 .. MaxRestarts]
  <2> DEFINE F == [frame : Prints \cup {Pong}, process : 0 .. MaxRestarts]
  <2>1. frames \in Seq(F) /\ Len(frames) = count
    BY DEF FramesOK
  <2> HIDE DEF F
  <2>2. \A r \in 1 .. count : frames[r] \in F
    BY <2>1
  <2> QED
    BY <2>2 DEF F
<1>2. \A r \in 1 .. count : /\ FrameOf(r) \in Prints \cup {Pong}
                            /\ frames[r].process \in Nat /\ frames[r].process <= restarts
  BY <1>1 DEF FrameOf, FramesOK
<1>3. \A r \in 1 .. count : FrameOf(r) # Pong => FrameOf(r).stamp \in Stamps
  BY <1>2, PrintsAre
<1> QED
  BY <1>2, <1>3 DEF OfWindow, Heard, StampsOf

LEMMA CapturesAre ==
  ASSUME CapturesOK
  PROVE  /\ \A i \in DOMAIN writes : writes[i] = <<writes[i][1], writes[i][2]>>
                                     /\ writes[i][1] \in Windows /\ writes[i][2] \in Stamps
         /\ \A w \in Windows : k[w] \in Stamps \cup {Never}
BY DEF CapturesOK

LEMMA ArchiveInitial == ArchiveInit => IInv
<1> SUFFICES ASSUME ArchiveInit PROVE IInv
  OBVIOUS
<1>1. RInv
  BY RecorderInit DEF ArchiveInit
<1>2. count = 0 /\ frames = <<>> /\ writes = <<>> /\ restarts = 0 /\ k = NoCapture /\ table = NoCapture
      /\ cut = {}
  BY DEF ArchiveInit, Init
<1>3. FramesOK
  BY <1>2 DEF FramesOK
<1>4. CapturesOK
  <2>1. NoCapture \in [Windows -> Stamps \cup {Never}]
    BY DEF NoCapture
  <2>2. writes \in Seq(Windows \X Stamps)
    BY <1>2
  <2> QED
    BY <1>2, <2>1, <2>2 DEF CapturesOK
<1>5. \A w \in Windows : OfWindow(w) = {} /\ Heard(w) = {} /\ Waits(w) = {}
  BY <1>2 DEF OfWindow, Heard, Waits
<1>6. MemoryHasK
  BY <1>2, <1>5 DEF MemoryHasK, Least, StampsOf, NoCapture
<1>7. TableWillHaveK
  BY <1>2, <1>5 DEF TableWillHaveK, Least, StampsOf, NoCapture, WillBe
<1> QED
  BY <1>1, <1>3, <1>4, <1>6, <1>7 DEF IInv

(* Receiving is the only step that adds a frame.                             *)
LEMMA HistoryIs ==
  ASSUME FramesOK, NEW f \in Prints \cup {Pong}, Receive(f), RInv
  PROVE  /\ count' = count + 1 /\ restarts' = restarts /\ count \in Nat
         /\ \A r \in 1 .. count : frames'[r] = frames[r]
         /\ frames'[count + 1] = [frame |-> f, process |-> restarts]
         /\ frames' \in Seq([frame : Prints \cup {Pong}, process : 0 .. MaxRestarts])
         /\ Len(frames') = count + 1 /\ FramesOK'
         /\ \A w \in Windows : OfWindow(w)' = IF f # Pong /\ f.window = w
                                              THEN OfWindow(w) \cup {count + 1} ELSE OfWindow(w)
<1>1. count' = count + 1 /\ restarts' = restarts /\ frames' = Append(frames, [frame |-> f, process |-> restarts])
  BY DEF Receive, Record
<1>2. count \in Nat /\ restarts \in 0 .. MaxRestarts
  BY RecordsAre DEF RInv, TypeOK
<1>3. [frame |-> f, process |-> restarts] \in [frame : Prints \cup {Pong}, process : 0 .. MaxRestarts]
  BY <1>2
<1>4. /\ \A r \in 1 .. count : frames'[r] = frames[r]
      /\ frames'[count + 1] = [frame |-> f, process |-> restarts]
      /\ frames' \in Seq([frame : Prints \cup {Pong}, process : 0 .. MaxRestarts])
      /\ Len(frames') = count + 1
  BY <1>1, <1>2, <1>3 DEF FramesOK
<1>5. FramesOK'
  <2>1. \A r \in 1 .. count + 1 : r \in 1 .. count \/ r = count + 1
    BY <1>2
  <2>2. \A r \in 1 .. count + 1 : frames'[r].process <= restarts
    BY <1>2, <1>4, <2>1 DEF FramesOK
  <2> QED
    BY <1>1, <1>4, <2>2 DEF FramesOK
<1>6. ASSUME NEW w \in Windows
      PROVE  OfWindow(w)' = IF f # Pong /\ f.window = w THEN OfWindow(w) \cup {count + 1} ELSE OfWindow(w)
  <2>1. \A r : r \in 1 .. count + 1 <=> r \in 1 .. count \/ r = count + 1
    BY <1>2
  <2>2. \A r \in 1 .. count + 1 : frames'[r].frame = IF r = count + 1 THEN f ELSE FrameOf(r)
    BY <1>2, <1>4, <2>1 DEF FrameOf
  <2>3. OfWindow(w)' = {r \in 1 .. count + 1 : frames'[r].frame # Pong /\ frames'[r].frame.window = w}
    BY <1>1 DEF OfWindow, FrameOf
  <2>4. ASSUME NEW r
        PROVE  r \in OfWindow(w)' <=> r \in OfWindow(w) \/ (f # Pong /\ f.window = w /\ r = count + 1)
    <3>1. CASE r \in 1 .. count
      BY <1>2, <2>1, <2>2, <2>3, <3>1 DEF OfWindow
    <3>2. CASE r = count + 1
      BY <1>2, <2>1, <2>2, <2>3, <3>2 DEF OfWindow
    <3>3. CASE r \notin 1 .. count /\ r # count + 1
      BY <2>1, <2>3, <3>3 DEF OfWindow
    <3> QED
      BY <3>1, <3>2, <3>3
  <2> QED
    BY <2>4
<1> QED
  BY <1>1, <1>2, <1>4, <1>5, <1>6

LEMMA StampsAre ==
  ASSUME FramesOK, NEW f \in Prints \cup {Pong}, Receive(f), RInv, NEW w \in Windows
  PROVE  /\ StampsOf(OfWindow(w))' = IF f # Pong /\ f.window = w
                                     THEN StampsOf(OfWindow(w)) \cup {f.stamp} ELSE StampsOf(OfWindow(w))
         /\ StampsOf(Heard(w))' = IF f # Pong /\ f.window = w
                                  THEN StampsOf(Heard(w)) \cup {f.stamp} ELSE StampsOf(Heard(w))
<1> DEFINE W == OfWindow(w)
           H == Heard(w)
           new == f # Pong /\ f.window = w
<1>1. /\ W \subseteq 1 .. count /\ H \subseteq W /\ count \in Nat
      /\ \A r \in H : frames[r].process = restarts
      /\ \A r \in W : frames[r].process = restarts => r \in H
  BY FramesAre, HistoryIs DEF Heard
<1>2. OfWindow(w)' = IF new THEN W \cup {count + 1} ELSE W
  <2>1. \A v \in Windows : OfWindow(v)' = IF f # Pong /\ f.window = v
                                          THEN OfWindow(v) \cup {count + 1} ELSE OfWindow(v)
    BY HistoryIs
  <2> QED
    BY <2>1, Zenon
<1>3. \A r \in W : frames'[r] = frames[r]
  BY <1>1, HistoryIs
<1>4. frames'[count + 1].frame = f /\ frames'[count + 1].process = restarts /\ restarts' = restarts
  <2>1. frames'[count + 1] = [frame |-> f, process |-> restarts] /\ restarts' = restarts
    BY HistoryIs
  <2> QED
    BY <2>1
<1>5. Heard(w)' = {r \in OfWindow(w)' : frames'[r].process = restarts'}
  BY DEF Heard
<1> HIDE DEF W, H, new
<1>6. Heard(w)' = IF new THEN H \cup {count + 1} ELSE H
  BY <1>1, <1>2, <1>3, <1>4, <1>5
<1>7. /\ StampsOf(OfWindow(w))' = {frames'[r].frame.stamp : r \in OfWindow(w)'}
      /\ StampsOf(Heard(w))' = {frames'[r].frame.stamp : r \in Heard(w)'}
      /\ StampsOf(W) = {frames[r].frame.stamp : r \in W}
      /\ StampsOf(H) = {frames[r].frame.stamp : r \in H}
  BY DEF StampsOf, FrameOf
<1>8. StampsOf(OfWindow(w))' = IF new THEN StampsOf(W) \cup {f.stamp} ELSE StampsOf(W)
  <2>1. \A r \in W : frames'[r].frame.stamp = frames[r].frame.stamp
    BY <1>3
  <2>2. frames'[count + 1].frame.stamp = f.stamp
    BY <1>4
  <2>3. CASE new
    <3> DEFINE c == count + 1
               now(r) == frames'[r].frame.stamp
               was(r) == frames[r].frame.stamp
    <3>1. (\A r \in W : now(r) = was(r)) /\ now(c) = f.stamp
      BY <2>1, <2>2
    <3>2. /\ StampsOf(OfWindow(w))' = {now(r) : r \in W \cup {c}}
          /\ StampsOf(W) = {was(r) : r \in W}
      BY <1>2, <1>7, <2>3
    <3> HIDE DEF c, now, was
    <3> QED
      BY <2>3, <3>1, <3>2
  <2>4. CASE ~new
    BY <1>2, <1>7, <2>1, <2>4
  <2> QED
    BY <2>3, <2>4
<1>9. StampsOf(Heard(w))' = IF new THEN StampsOf(H) \cup {f.stamp} ELSE StampsOf(H)
  <2>1. \A r \in H : frames'[r] = frames[r]
    BY <1>1, <1>3
  <2>2. CASE new
    BY <2>1, <1>4, <1>6, <1>7, <2>2
  <2>3. CASE ~new
    BY <2>1, <1>6, <1>7, <2>3
  <2> QED
    BY <2>2, <2>3
<1> QED
  BY <1>8, <1>9 DEF W, H, new

(* A print that is heard: the memory has the better of it and the one before,*)
(* and the call that waits is the last of its window.                        *)
LEMMA ReceiveStep ==
  ASSUME IInv, NEW f \in Prints \cup {Pong}, Receive(f)
  PROVE  IInv'
<1>0. /\ RInv /\ FramesOK /\ CapturesOK /\ MemoryHasK /\ TableWillHaveK
      /\ FramesOK' /\ UNCHANGED <<table, cut>>
      /\ k \in [Windows -> Stamps \cup {Never}] /\ writes \in Seq(Windows \X Stamps)
  BY HistoryIs DEF IInv, Receive, CapturesOK
<1>1. RInv'
  BY <1>0, RecorderStep DEF Receive, Next
<1> DEFINE w == f.window
           s == f.stamp
           heard == f # Pong
           better == heard /\ s < k[w]
<1>2. heard => w \in Windows /\ s \in Stamps /\ k[w] \in Stamps \cup {Never}
  BY <1>0, PrintsAre
<1>3. /\ better => k' = [k EXCEPT ![w] = s] /\ writes' = Append(writes, <<w, s>>)
      /\ ~better => UNCHANGED <<k, writes>>
  BY DEF Receive, Captures
<1>4. CapturesOK'
  <2>1. CASE better
    <3>1. w \in Windows /\ s \in Stamps /\ k' = [k EXCEPT ![w] = s] /\ writes' = Append(writes, <<w, s>>)
      BY <1>2, <1>3, <2>1
    <3> HIDE DEF w, s
    <3>2. k' \in [Windows -> Stamps \cup {Never}] /\ writes' \in Seq(Windows \X Stamps)
      BY <1>0, <3>1
    <3> QED
      BY <1>0, <3>2 DEF CapturesOK
  <2>2. CASE ~better
    BY <1>0, <1>3, <2>2 DEF CapturesOK
  <2> QED
    BY <2>1, <2>2
<1>5. ASSUME NEW v \in Windows
      PROVE  k'[v] = (IF heard /\ v = w /\ s < k[v] THEN s ELSE k[v])
  BY <1>0, <1>2, <1>3
<1>6. MemoryHasK'
  <2> SUFFICES ASSUME NEW v \in Windows
               PROVE  Least(k'[v], StampsOf(Heard(v))')
    BY DEF MemoryHasK
  <2>1. Least(k[v], StampsOf(Heard(v))) /\ StampsOf(Heard(v)) \in SUBSET Stamps /\ k[v] \in Stamps \cup {Never}
    BY <1>0, FramesAre DEF MemoryHasK
  <2>2. StampsOf(Heard(v))' = IF heard /\ w = v THEN StampsOf(Heard(v)) \cup {s} ELSE StampsOf(Heard(v))
    BY <1>0, StampsAre
  <2> DEFINE H == StampsOf(Heard(v))
  <2> HIDE DEF H, heard, s, w
  <2>3. CASE heard /\ w = v
    <3>1. Least(IF s < k[v] THEN s ELSE k[v], H \cup {s})
      BY <1>2, <2>1, <2>3, LeastAdds DEF H
    <3> QED
      BY <1>5, <2>2, <2>3, <3>1 DEF H
  <2>4. CASE ~ (heard /\ w = v)
    BY <1>5, <2>1, <2>2, <2>4 DEF H
  <2> QED
    BY <2>3, <2>4
<1>7. TableWillHaveK'
  <2> SUFFICES ASSUME NEW v \in Windows \ cut, ~ TwoHeard(v)', NEW e \in Stamps \cup {Never},
                      Least(e, StampsOf(OfWindow(v))')
               PROVE  WillBe(v, e)'
    BY <1>0 DEF TableWillHaveK
  <2>1. /\ OfWindow(v)' = IF heard /\ w = v THEN OfWindow(v) \cup {count + 1} ELSE OfWindow(v)
        /\ StampsOf(OfWindow(v))' = IF heard /\ w = v THEN StampsOf(OfWindow(v)) \cup {s}
                                                      ELSE StampsOf(OfWindow(v))
        /\ StampsOf(OfWindow(v)) \in SUBSET Stamps
        /\ OfWindow(v) \subseteq 1 .. count
        /\ \A r \in 1 .. count : frames'[r] = frames[r]
        /\ frames'[count + 1].process = restarts
    <3>1. \A u \in Windows : OfWindow(u)' = IF f # Pong /\ f.window = u
                                            THEN OfWindow(u) \cup {count + 1} ELSE OfWindow(u)
      BY <1>0, HistoryIs
    <3>2. OfWindow(v)' = IF heard /\ w = v THEN OfWindow(v) \cup {count + 1} ELSE OfWindow(v)
      BY <3>1, Zenon
    <3>3. StampsOf(OfWindow(v))' = IF heard /\ w = v THEN StampsOf(OfWindow(v)) \cup {s}
                                                   ELSE StampsOf(OfWindow(v))
      BY <1>0, StampsAre
    <3>4. StampsOf(OfWindow(v)) \in SUBSET Stamps /\ OfWindow(v) \subseteq 1 .. count
      BY <1>0, FramesAre
    <3>5. /\ \A r \in 1 .. count : frames'[r] = frames[r]
          /\ frames'[count + 1] = [frame |-> f, process |-> restarts]
      BY <1>0, HistoryIs
    <3>6. frames'[count + 1].process = restarts
      BY <3>5
    <3> QED
      BY <3>2, <3>3, <3>4, <3>5, <3>6
  <2>2. \A r, q \in OfWindow(v)' : frames'[r].process = frames'[q].process
    BY DEF TwoHeard
  <2>3. ~ TwoHeard(v)
    <3>1. \A r \in OfWindow(v) : r \in OfWindow(v)' /\ frames'[r] = frames[r]
      BY <2>1
    <3> QED
      BY <2>2, <3>1 DEF TwoHeard
  <2>4. CASE heard /\ w = v
    <3>1. OfWindow(v) = Heard(v)
      BY <2>1, <2>2, <2>4 DEF Heard
    <3>2. k[v] \in Stamps \cup {Never} /\ Least(k[v], StampsOf(OfWindow(v)))
      BY <1>0, <3>1 DEF MemoryHasK
    <3>3. WillBe(v, k[v])
      BY <1>0, <2>3, <3>2 DEF TableWillHaveK
    <3>4. s \in Stamps
      BY <1>2, <2>4
    <3> DEFINE O == StampsOf(OfWindow(v))
    <3>5. e = IF s < k[v] THEN s ELSE k[v]
      <4>1. O \cup {s} \in SUBSET Stamps /\ Least(e, O \cup {s})
        BY <2>1, <2>4, <3>4
      <4>2. Least(IF s < k[v] THEN s ELSE k[v], O \cup {s})
        <5> HIDE DEF O, s
        <5>1. O \in SUBSET Stamps /\ Least(k[v], O)
          BY <2>1, <3>2 DEF O
        <5> QED
          BY <3>2, <3>4, <5>1, LeastAdds
      <4> HIDE DEF O, s
      <4> QED
        BY <4>1, <4>2, LeastUnique
    <3>6. CASE better
      <4>1. writes' = Append(writes, <<v, s>>) /\ e = s
        BY <1>3, <2>4, <3>5, <3>6
      <4>2. /\ Len(writes') = Len(writes) + 1 /\ writes'[Len(writes) + 1] = <<v, s>>
            /\ Len(writes) \in Nat /\ DOMAIN writes' = 1 .. Len(writes) + 1
        BY <1>0, <4>1
      <4>3. Len(writes) + 1 \in Waits(v)'
        BY <4>2 DEF Waits
      <4>4. \A i \in Waits(v)' : IsLast(i)' => i = Len(writes) + 1
        BY <4>2 DEF Waits, IsLast
      <4> QED
        BY <4>1, <4>2, <4>3, <4>4 DEF WillBe
    <3>7. CASE ~better
      <4>1. UNCHANGED <<writes, table>> /\ e = k[v]
        BY <1>0, <1>3, <2>4, <3>5, <3>7
      <4> QED
        BY <3>3, <4>1 DEF WillBe, Waits, IsLast
    <3> QED
      BY <3>6, <3>7
  <2>5. CASE ~ (heard /\ w = v)
    <3>1. WillBe(v, e)
      BY <1>0, <2>1, <2>3, <2>5 DEF TableWillHaveK
    <3>2. CASE better
      <4>1. writes' = Append(writes, <<w, s>>) /\ w # v
        BY <1>3, <2>5, <3>2
      <4>2. /\ DOMAIN writes' = 1 .. Len(writes) + 1 /\ DOMAIN writes = 1 .. Len(writes)
            /\ Len(writes) \in Nat /\ writes'[Len(writes) + 1][1] = w
            /\ \A i \in DOMAIN writes : writes'[i] = writes[i]
        BY <1>0, <4>1
      <4>3. \A i : i \in Waits(v)' <=> i \in Waits(v)
        BY <4>1, <4>2 DEF Waits
      <4>4. \A i \in Waits(v) : i \in DOMAIN writes /\ (IsLast(i)' => IsLast(i)) /\ writes'[i] = writes[i]
        BY <4>2 DEF Waits, IsLast
      <4>5. Waits(v)' = Waits(v)
        BY <4>3
      <4> QED
        BY <1>0, <3>1, <4>4, <4>5 DEF WillBe
    <3>3. CASE ~better
      <4>1. UNCHANGED <<writes, table>>
        BY <1>0, <1>3, <3>3
      <4> QED
        BY <3>1, <4>1 DEF WillBe, Waits, IsLast
    <3> QED
      BY <3>2, <3>3
  <2> QED
    BY <2>4, <2>5
<1> QED
  BY <1>0, <1>1, <1>4, <1>6, <1>7 DEF IInv

(* The other steps leave what was heard.                                     *)
LEMMA HistoryStays ==
  ASSUME FramesOK, RInv, UNCHANGED frames, count' = count, restarts' \in Nat, restarts <= restarts'
  PROVE  /\ FramesOK'
         /\ \A w \in Windows : /\ OfWindow(w)' = OfWindow(w) /\ TwoHeard(w)' = TwoHeard(w)
                               /\ StampsOf(OfWindow(w))' = StampsOf(OfWindow(w))
<1>1. FramesOK'
  <2>1. \A r \in 1 .. count : frames[r].process \in Nat /\ frames[r].process <= restarts
    BY FramesAre
  <2>2. restarts \in Nat
    BY RecordsAre DEF RInv, TypeOK
  <2>3. \A r \in 1 .. count : frames[r].process <= restarts'
    BY <2>1, <2>2
  <2> QED
    BY <2>3 DEF FramesOK
<1>2. \A w \in Windows : OfWindow(w)' = OfWindow(w)
  BY DEF OfWindow, FrameOf
<1>3. \A w \in Windows : TwoHeard(w)' = TwoHeard(w)
  BY DEF OfWindow, FrameOf, TwoHeard
<1>4. \A w \in Windows : StampsOf(OfWindow(w))' = StampsOf(OfWindow(w))
  BY DEF OfWindow, FrameOf, StampsOf
<1> QED
  BY <1>1, <1>2, <1>3, <1>4

(* The first call that waits is carried out.                                 *)
LEMMA WriteRowStep ==
  ASSUME IInv, WriteRow
  PROVE  IInv'
<1>0. /\ RInv /\ FramesOK /\ CapturesOK /\ MemoryHasK /\ TableWillHaveK
      /\ UNCHANGED vars /\ UNCHANGED <<frames, k, cut, count, restarts>>
      /\ writes # <<>> /\ writes' = Tail(writes)
      /\ table' = [table EXCEPT ![Head(writes)[1]] = Head(writes)[2]]
      /\ writes \in Seq(Windows \X Stamps) /\ table \in [Windows -> Stamps \cup {Never}]
  BY DEF IInv, WriteRow, vars, CapturesOK
<1>1. RInv'
  BY <1>0, RecorderStep
<1>2. FramesOK' /\ \A w \in Windows : /\ TwoHeard(w)' = TwoHeard(w)
                                      /\ StampsOf(OfWindow(w))' = StampsOf(OfWindow(w))
  <2>1. restarts \in Nat
    BY <1>0, RecordsAre DEF RInv, TypeOK
  <2> QED
    BY <1>0, <2>1, HistoryStays
<1>3. MemoryHasK'
  BY <1>0 DEF MemoryHasK, Heard, StampsOf, OfWindow, FrameOf
<1> DEFINE h == Head(writes)
<1>4. /\ h = writes[1] /\ h[1] \in Windows /\ h[2] \in Stamps
      /\ DOMAIN writes = 1 .. Len(writes) /\ Len(writes) \in Nat \ {0}
      /\ writes' \in Seq(Windows \X Stamps)
      /\ DOMAIN writes' = 1 .. Len(writes) - 1
      /\ \A i \in 1 .. Len(writes) - 1 : writes'[i] = writes[i + 1]
  BY <1>0
<1> HIDE DEF h
<1>5. table' \in [Windows -> Stamps \cup {Never}] /\ \A w \in Windows : table'[w] = IF w = h[1] THEN h[2] ELSE table[w]
  BY <1>0, <1>4 DEF h
<1>6. CapturesOK'
  BY <1>0, <1>4, <1>5 DEF CapturesOK
<1>7. ASSUME NEW w \in Windows, NEW e, WillBe(w, e)
      PROVE  WillBe(w, e)'
  <2>1. ASSUME NEW i \in Waits(w)'
        PROVE  i + 1 \in Waits(w) /\ (IsLast(i)' => IsLast(i + 1)) /\ writes'[i] = writes[i + 1]
    <3>1. i \in 1 .. Len(writes) - 1 /\ writes[i + 1][1] = w
      BY <1>4, <2>1 DEF Waits
    <3>2. i + 1 \in Waits(w)
      BY <1>4, <3>1 DEF Waits
    <3>3. ASSUME IsLast(i)', NEW j \in DOMAIN writes, j > i + 1
          PROVE  writes[j][1] # writes[i + 1][1]
      <4>1. j - 1 \in 1 .. Len(writes) - 1 /\ j - 1 > i /\ writes'[j - 1] = writes[j]
        <5>1. j - 1 \in 1 .. Len(writes) - 1 /\ j - 1 > i /\ (j - 1) + 1 = j
          BY <1>4, <3>1, <3>3
        <5> QED
          BY <1>4, <5>1
      <4>2. writes'[j - 1][1] # writes'[i][1]
        BY <1>4, <3>3, <4>1 DEF IsLast
      <4> QED
        BY <1>4, <3>1, <4>1, <4>2
    <3> QED
      BY <1>4, <3>1, <3>2, <3>3 DEF IsLast
  <2>2. ASSUME Waits(w)' = {}
        PROVE  table'[w] = e
    <3>1. CASE h[1] = w
      <4>1. ASSUME NEW j \in DOMAIN writes, j > 1
            PROVE  writes[j][1] # w
        <5>1. j - 1 \in 1 .. Len(writes) - 1 /\ (j - 1) + 1 = j
          BY <1>4, <4>1
        <5>2. writes'[j - 1] = writes[j] /\ j - 1 \in DOMAIN writes'
          BY <1>4, <5>1
        <5> QED
          BY <2>2, <5>2 DEF Waits
      <4>2. 1 \in Waits(w) /\ IsLast(1)
        BY <1>4, <3>1, <4>1 DEF Waits, IsLast
      <4> QED
        BY <1>4, <1>5, <1>7, <3>1, <4>2 DEF WillBe
    <3>2. CASE h[1] # w
      <4>1. ASSUME NEW j \in Waits(w)
            PROVE  FALSE
        <5>1. j \in 1 .. Len(writes) /\ writes[j][1] = w /\ j # 1
          BY <1>4, <3>2, <4>1 DEF Waits
        <5>2. j - 1 \in 1 .. Len(writes) - 1 /\ (j - 1) + 1 = j
          BY <1>4, <5>1
        <5>3. writes'[j - 1] = writes[j] /\ j - 1 \in DOMAIN writes'
          BY <1>4, <5>2
        <5> QED
          BY <2>2, <5>1, <5>3 DEF Waits
      <4> QED
        BY <1>5, <1>7, <3>2, <4>1 DEF WillBe
    <3> QED
      BY <3>1, <3>2
  <2> QED
    BY <1>7, <2>1, <2>2 DEF WillBe
<1>8. TableWillHaveK'
  BY <1>0, <1>2, <1>7 DEF TableWillHaveK
<1> QED
  BY <1>1, <1>2, <1>3, <1>6, <1>8 DEF IInv

(* The calls that wait are cut: what the table has of their windows is no    *)
(* longer claimed.                                                           *)
LEMMA CutStep ==
  ASSUME IInv, CutTasks, UNCHANGED <<frames, count, table>>, restarts' \in Nat, restarts <= restarts'
  PROVE  /\ FramesOK' /\ TableWillHaveK'
         /\ writes' \in Seq(Windows \X Stamps) /\ cut' \subseteq Windows
<1>0. /\ RInv /\ FramesOK /\ CapturesOK /\ TableWillHaveK /\ writes' = <<>>
      /\ cut' = cut \cup {writes[i][1] : i \in DOMAIN writes} /\ cut \subseteq Windows
  BY DEF IInv, CutTasks, CapturesOK
<1>1. FramesOK' /\ \A w \in Windows : /\ TwoHeard(w)' = TwoHeard(w)
                                      /\ StampsOf(OfWindow(w))' = StampsOf(OfWindow(w))
  BY <1>0, HistoryStays
<1>2. cut' \subseteq Windows
  BY <1>0, CapturesAre
<1>3. ASSUME NEW w \in Windows \ cut'
      PROVE  w \notin cut /\ Waits(w) = {}
  BY <1>0, <1>3 DEF Waits
<1>4. ASSUME NEW w \in Windows, Waits(w) = {}, NEW e, WillBe(w, e)
      PROVE  WillBe(w, e)'
  <2>1. table[w] = e
    BY <1>4 DEF WillBe
  <2>2. Waits(w)' = {}
    BY <1>0 DEF Waits
  <2> QED
    BY <2>1, <2>2 DEF WillBe
<1>5. TableWillHaveK'
  BY <1>0, <1>1, <1>2, <1>3, <1>4 DEF TableWillHaveK
<1> QED
  BY <1>0, <1>1, <1>2, <1>5

LEMMA StopAllStep ==
  ASSUME IInv, StopAll
  PROVE  IInv'
<1>0. /\ RInv /\ FramesOK /\ CapturesOK /\ MemoryHasK /\ Stop
      /\ CutTasks /\ UNCHANGED <<frames, k, table, count, restarts>>
  BY DEF IInv, StopAll, Stop
<1>1. RInv'
  BY <1>0, RecorderStep DEF Next
<1>2. restarts \in Nat
  BY <1>0, RecordsAre DEF RInv, TypeOK
<1>3. /\ FramesOK' /\ TableWillHaveK'
      /\ writes' \in Seq(Windows \X Stamps) /\ cut' \subseteq Windows
  BY <1>0, <1>2, CutStep
<1>4. CapturesOK'
  BY <1>0, <1>3 DEF CapturesOK
<1>5. MemoryHasK'
  BY <1>0 DEF MemoryHasK, Heard, StampsOf, OfWindow, FrameOf
<1> QED
  BY <1>1, <1>3, <1>4, <1>5 DEF IInv

LEMMA RestartAllStep ==
  ASSUME IInv, RestartAll
  PROVE  IInv'
<1>0. /\ RInv /\ FramesOK /\ CapturesOK /\ Restart
      /\ CutTasks /\ UNCHANGED <<frames, table, count>> /\ k' = NoCapture /\ restarts' = restarts + 1
  BY DEF IInv, RestartAll, Restart
<1>1. RInv'
  BY <1>0, RecorderStep DEF Next
<1>2. restarts \in Nat
  BY <1>0, RecordsAre DEF RInv, TypeOK
<1>3. /\ FramesOK' /\ TableWillHaveK'
      /\ writes' \in Seq(Windows \X Stamps) /\ cut' \subseteq Windows
  BY <1>0, <1>2, CutStep
<1>4. CapturesOK'
  <2>1. NoCapture \in [Windows -> Stamps \cup {Never}]
    BY DEF NoCapture
  <2> QED
    BY <1>0, <1>3, <2>1 DEF CapturesOK
<1>5. MemoryHasK'
  <2> SUFFICES ASSUME NEW w \in Windows
               PROVE  Least(NoCapture[w], StampsOf(Heard(w))')
    BY <1>0 DEF MemoryHasK
  <2>1. \A r \in OfWindow(w) : frames[r].process \in Nat /\ frames[r].process <= restarts
    BY <1>0, FramesAre
  <2>2. Heard(w)' = {r \in OfWindow(w) : frames[r].process = restarts + 1}
    BY <1>0 DEF Heard, OfWindow, FrameOf
  <2>3. Heard(w)' = {}
    BY <1>2, <2>1, <2>2
  <2>4. StampsOf(Heard(w))' = {}
    BY <2>3 DEF StampsOf
  <2> QED
    BY <2>4 DEF Least, NoCapture
<1> QED
  BY <1>1, <1>3, <1>4, <1>5 DEF IInv

LEMMA OtherStep ==
  ASSUME IInv, [Next]_vars, UNCHANGED archive, UNCHANGED <<count, restarts>>
  PROVE  IInv'
<1>0. /\ RInv /\ FramesOK /\ CapturesOK /\ MemoryHasK /\ TableWillHaveK
      /\ UNCHANGED <<frames, k, writes, table, cut, count, restarts>>
  BY DEF IInv, archive
<1>1. RInv'
  BY <1>0, RecorderStep
<1>2. FramesOK' /\ CapturesOK'
  BY <1>0 DEF FramesOK, CapturesOK
<1>3. MemoryHasK'
  BY <1>0 DEF MemoryHasK, Heard, StampsOf, OfWindow, FrameOf
<1>4. TableWillHaveK'
  BY <1>0 DEF TableWillHaveK, TwoHeard, StampsOf, OfWindow, FrameOf, WillBe, Waits, IsLast
<1> QED
  BY <1>1, <1>2, <1>3, <1>4 DEF IInv

(* The invariant that all of this rests on: what is on disk, what is in      *)
(* memory, what the running process has heard of each window, and what the   *)
(* table will have when the calls that wait are carried out.                 *)
THEOREM Inductive == ArchiveSpec => []IInv
<1>1. IInv /\ [ArchiveNext]_ArchiveVars => IInv'
  <2> SUFFICES ASSUME IInv, [ArchiveNext]_ArchiveVars
               PROVE  IInv'
    OBVIOUS
  <2>1. CASE UNCHANGED ArchiveVars
    BY <2>1, OtherStep DEF ArchiveVars, vars
  <2>2. CASE (Writer \/ WriteFails \/ PutPill \/ Join) /\ UNCHANGED archive
    <3>1. UNCHANGED <<count, restarts>>
      BY <2>2 DEF Writer, TakeBatch, WriteBatch, WriteFails, PutPill, Join
    <3> QED
      BY <2>2, <3>1, OtherStep DEF Next
  <2> QED
    BY <2>1, <2>2, ReceiveStep, WriteRowStep, StopAllStep, RestartAllStep DEF ArchiveNext
<1> QED
  BY <1>1, ArchiveInitial, PTL DEF ArchiveSpec

(* Every variable has its type: the queue never holds more than it may, and  *)
(* the pill never gets into a batch or a file.                               *)
THEOREM TypeCorrect == ArchiveSpec => []ArchiveTypeOK
<1>1. IInv => ArchiveTypeOK
  BY DEF IInv, RInv, FramesOK, CapturesOK, ArchiveTypeOK
<1> QED
  BY <1>1, Inductive, PTL

(* The replayer yields each record at most once, in the order in which they  *)
(* were recorded, whatever was killed, restarted or torn in between.         *)
THEOREM ReplayedInOrder == ArchiveSpec => []ReplayInOrder
<1>1. IInv => ReplayInOrder
  BY RecorderKeeps DEF IInv
<1> QED
  BY <1>1, Inductive, PTL

(* While the writer lives, what record has enqueued is on disk or in memory, *)
(* except for a first line that was glued to half a line, and after stop     *)
(* nothing is left in memory.                                                *)
THEOREM NothingAcceptedIsLost == ArchiveSpec => []AcceptedIsKept
<1>1. IInv => AcceptedIsKept
  BY RecorderKeeps DEF IInv
<1> QED
  BY <1>1, Inductive, PTL

-----------------------------------------------------------------------------
LEMMA MinIs ==
  ASSUME NEW S \in SUBSET Nat, S # {}
  PROVE  Min(S) \in S /\ \A s \in S : Min(S) <= s
<1>1. \E x \in S : \A y \in S : x <= y
  BY SmallestNumber
<1> QED
  BY <1>1, Zenon DEF Min

(* The least stamp that a reader finds, when every frame of the window can   *)
(* be read.                                                                  *)
LEMMA EarliestIs ==
  ASSUME IInv, NEW w \in Windows, ~Missing(w)
  PROVE  LET e == Earliest(PrintsIn(Readable), w)
         IN  e \in Stamps \cup {Never} /\ Least(e, StampsOf(OfWindow(w)))
<1> DEFINE ps == {q \in PrintsIn(Readable) : q.window = w}
           stamps == {p.stamp : p \in ps}
<1>1. \A r \in Readable : r \in 1 .. count
  <2>1. file \in Seq(Records) /\ count \in Nat /\ \A i \in DOMAIN file : file[i] <= count
    BY DEF IInv, RInv, TypeOK, Ordered, AtMost
  <2>2. \A i \in DOMAIN file : file[i] \in Records
    BY <2>1
  <2>3. \A i \in DOMAIN file : file[i] \in 1 .. count
    BY <2>1, <2>2 DEF Records
  <2> QED
    BY <2>3 DEF Readable, ToSet
<1>2. \A r \in OfWindow(w) : r \in Readable
  BY DEF Missing
<1>3. \A p : p \in ps <=> \E r \in OfWindow(w) : p = FrameOf(r)
  BY <1>1, <1>2 DEF PrintsIn, OfWindow
<1> HIDE DEF ps
<1>4. stamps = StampsOf(OfWindow(w))
  BY <1>3 DEF StampsOf
<1>5. StampsOf(OfWindow(w)) \subseteq Stamps
  <2> SUFFICES ASSUME NEW r \in OfWindow(w)
               PROVE  FrameOf(r).stamp \in Stamps
    BY DEF StampsOf
  <2>1. r \in 1 .. Len(frames) /\ FrameOf(r) # Pong
    BY DEF IInv, FramesOK, OfWindow
  <2> DEFINE F == [frame : Prints \cup {Pong}, process : 0 .. MaxRestarts]
  <2>2. frames[r] \in F
    <3>1. frames \in Seq(F)
      BY DEF IInv, FramesOK
    <3> HIDE DEF F
    <3> QED
      BY <2>1, <3>1
  <2>3. FrameOf(r) \in Prints
    BY <2>1, <2>2 DEF FrameOf
  <2> QED
    BY <2>3 DEF Prints
<1>6. Stamps \subseteq Nat
  BY ArchiveAssumption
<1> DEFINE S == StampsOf(OfWindow(w))
<1>7. Earliest(PrintsIn(Readable), w) = IF S = {} THEN Never ELSE Min(S)
  BY <1>4 DEF Earliest, ps
<1> HIDE DEF S
<1>8. S # {} => Min(S) \in S /\ \A s \in S : Min(S) <= s
  BY <1>5, <1>6, MinIs DEF S
<1> QED
  BY <1>5, <1>7, <1>8 DEF Least, S

(* The cross-check of the data-quality report: when nothing is on its way to *)
(* either, the row of a window has the archive's K, unless a frame of the    *)
(* window cannot be read, a call for it was cut, or two processes heard it.  *)
THEOREM TableHasArchiveK == ArchiveSpec => []TableIsArchive
<1>1. ASSUME IInv
      PROVE  TableIsArchive
  <2> SUFFICES ASSUME writes = <<>>, NEW w \in Windows,
                      ~Missing(w), ~TwoHeard(w), w \notin cut
               PROVE  /\ table[w] = Earliest(PrintsIn(Readable), w)
                      /\ RawValid(w) => RawK(w) = table[w]
    BY DEF TableIsArchive
  <2> DEFINE e == Earliest(PrintsIn(Readable), w)
  <2>1. e \in Stamps \cup {Never} /\ Least(e, StampsOf(OfWindow(w)))
    BY <1>1, EarliestIs
  <2>2. RawK(w) = IF e <= CloseLimit THEN e ELSE Never
    BY DEF RawK
  <2> HIDE DEF e
  <2>3. WillBe(w, e)
    BY <1>1, <2>1 DEF IInv, TableWillHaveK
  <2>4. table[w] = e
    BY <2>3 DEF WillBe, Waits
  <2>5. ASSUME RawValid(w)
        PROVE  RawK(w) = e
    <3>1. RawK(w) <= KRawValid
      BY <2>5 DEF RawValid
    <3>2. e \in Nat /\ Never \in Nat /\ e <= Never
      BY <2>1, ArchiveAssumption
    <3> QED
      BY <2>2, <3>1, <3>2, ArchiveAssumption
  <2> QED
    BY <2>4, <2>5 DEF e
<1> QED
  BY <1>1, Inductive, PTL
=============================================================================
