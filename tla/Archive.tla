------------------------------- MODULE Archive -------------------------------
(* One oracle feed from the socket to the three places that keep a window's  *)
(* opening price K: the feed's memory (feeds/rtds_chainlink_ws.py), the      *)
(* table k_captures (storage/database.py) and the recorded frames, as the    *)
(* replayer (sim/replayer.py) and the data-quality scripts (m1_common,       *)
(* m1_extract, m1_k_accuracy) read them.                                     *)
(*                                                                           *)
(* A frame is recorded before it is looked at, dropped or not.  A price is   *)
(* known by its stamp, so K is the stamp of the print it was taken from.  A  *)
(* backfill dump is its prints one after the other, in any order.            *)
EXTENDS Recorder

CONSTANTS
  Windows,     \* windows of the recording
  Stamps,      \* a print's distance from the start of its window
  Never,       \* no print
  KRawValid,   \* K_RAW_VALID_MS
  CloseLimit   \* CLOSE_SEARCH_LIMIT_MS

ASSUME ArchiveAssumption ==
  /\ Stamps \subseteq Nat /\ Never \in Nat /\ \A s \in Stamps : s < Never
  /\ KRawValid \in Nat /\ CloseLimit \in Nat /\ KRawValid <= CloseLimit

VARIABLES
  frames,  \* every frame the feed got, by record number, and in which process
  k,       \* _k: the stamp of the capture of each window
  writes,  \* calls of Database.k_capture waiting for the lock
  table,   \* k_captures
  cut      \* windows of which a call was cancelled or killed

archive == <<frames, k, writes, table, cut>>

Pong   == [kind |-> "pong"]
Prints == [kind : {"print"}, window : Windows, stamp : Stamps]

NoCapture == [w \in Windows |-> Never]

ArchiveTypeOK ==
  /\ TypeOK
  /\ Len(frames) = count
  /\ frames \in Seq([frame : Prints \cup {Pong}, process : 0 .. MaxRestarts])
  /\ k \in [Windows -> Stamps \cup {Never}]
  /\ writes \in Seq(Windows \X Stamps)
  /\ table \in [Windows -> Stamps \cup {Never}]
  /\ cut \subseteq Windows

ArchiveInit ==
  /\ Init
  /\ frames = <<>> /\ k = NoCapture
  /\ writes = <<>> /\ table = NoCapture /\ cut = {}

-----------------------------------------------------------------------------
(* Mutant: the print that came first is kept.                                *)
BadCaptures(w, s) == k[w] = Never

(* _maybe_capture_k: the earliest stamp wins, whenever it comes.             *)
Captures(w, s) == s < k[w]

(* A text frame: recorded, then parsed.  A capture goes to the database by   *)
(* a task of its own.                                                        *)
Receive(f) ==
  /\ Record
  /\ frames' = Append(frames, [frame |-> f, process |-> restarts])
  /\ IF f # Pong /\ Captures(f.window, f.stamp)
     THEN /\ k' = [k EXCEPT ![f.window] = f.stamp]
          /\ writes' = Append(writes, <<f.window, f.stamp>>)
     ELSE UNCHANGED <<k, writes>>
  /\ UNCHANGED <<table, cut>>

(* INSERT OR REPLACE, one call after the other: the lock is fair.            *)
WriteRow ==
  /\ writes # <<>>
  /\ table' = [table EXCEPT ![Head(writes)[1]] = Head(writes)[2]]
  /\ writes' = Tail(writes)
  /\ UNCHANGED <<vars, frames, k, cut>>

(* engine.stop cancels the tasks that have not written yet; so does a kill.  *)
CutTasks ==
  /\ writes' = <<>>
  /\ cut' = cut \cup {writes[i][1] : i \in DOMAIN writes}

StopAll    == Stop /\ CutTasks /\ UNCHANGED <<frames, k, table>>
RestartAll == Restart /\ CutTasks /\ k' = NoCapture /\ UNCHANGED <<frames, table>>

ArchiveNext ==
  \/ \E f \in Prints \cup {Pong} : Receive(f)
  \/ WriteRow \/ StopAll \/ RestartAll
  \/ (Writer \/ WriteFails \/ PutPill \/ Join) /\ UNCHANGED archive

ArchiveVars == <<vars, archive>>

ArchiveSpec == ArchiveInit /\ [][ArchiveNext]_ArchiveVars

(* The event loop runs the writer and the caller of stop.                    *)
ArchiveLiveSpec ==
  /\ ArchiveSpec
  /\ WF_ArchiveVars(Writer /\ UNCHANGED archive)
  /\ WF_ArchiveVars(PutPill /\ UNCHANGED archive)
  /\ WF_ArchiveVars(Join /\ UNCHANGED archive)

-----------------------------------------------------------------------------
(* What a reader finds in the files, in order.                               *)
FrameOf(r)   == frames[r].frame
PrintsIn(rs) == {FrameOf(r) : r \in {q \in rs : FrameOf(q) # Pong}}
OfWindow(w)  == {r \in 1 .. count : FrameOf(r) # Pong /\ FrameOf(r).window = w}
Readable     == ToSet(file)

Earliest(ps, w) ==
  LET stamps == {p.stamp : p \in {q \in ps : q.window = w}}
  IN IF stamps = {} THEN Never ELSE Min(stamps)

(* The replayer applies one frame after the other through the live parser,   *)
(* without the live reader's look for PONG and its catch of what the parser  *)
(* raises.                                                                   *)
Raises(r) == FrameOf(r) = Pong

Applied ==
  {file[i] : i \in {j \in DOMAIN file : \A h \in 1 .. j : ~Raises(file[h])}}

(* K as m1_extract and m1_k_accuracy have it: the first print of the archive *)
(* at or after the boundary, valid if it is close.                           *)
RawK(w) ==
  LET first == Earliest(PrintsIn(Readable), w) IN IF first <= CloseLimit THEN first ELSE Never

RawValid(w) == RawK(w) <= KRawValid

-----------------------------------------------------------------------------
(* The cross-check of the data-quality report (m1_k_accuracy.py:186): when   *)
(* nothing is on its way to either, the table's K of a window is the         *)
(* archive's, unless a frame of the window was dropped or torn, a row of it  *)
(* was cut, or two processes heard its prints and the later one's row        *)
(* replaced the better one.                                                  *)
Missing(w)  == \E r \in OfWindow(w) : r \notin Readable
TwoHeard(w) == \E r, q \in OfWindow(w) : frames[r].process # frames[q].process

TableIsArchive ==
  writes = <<>> /\ InMemory = <<>> =>
    \A w \in Windows :
      \/ Missing(w) \/ TwoHeard(w) \/ w \in cut
      \/ table[w] = Earliest(PrintsIn(Readable), w) /\ (RawValid(w) => RawK(w) = table[w])

(* replayer.py:3-4 says that frames are fed through the same parsers the     *)
(* live engine uses: a recording that the live engine lived through is       *)
(* replayed to its end.                                                      *)
ReplayReachesEnd == Applied = Readable
=============================================================================
