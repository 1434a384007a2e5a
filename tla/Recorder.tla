------------------------------ MODULE Recorder ------------------------------
(* storage/recorder.py and what sim/replayer.py later reads of its files:    *)
(* the hot path enqueues without blocking, one writer task takes everything  *)
(* that is queued as a batch and writes it in an executor thread, stop sends *)
(* a poison pill and waits for the writer.  The process may be killed at any *)
(* moment, also in the middle of a line, and the next one appends to the     *)
(* file of the same hour.                                                    *)
(*                                                                           *)
(* A record is its number, a file the sequence of the lines that can be read *)
(* (the replayer skips the others); the hourly files are one                 *)
(* sequence, since they are read in turn.                                    *)
EXTENDS Naturals, Sequences, SequencesExt

CONSTANTS
  QueueMax,    \* QUEUE_MAX
  MaxRecords,  \* bound on the records of all processes
  MaxRestarts  \* bound on the processes that end

ASSUME RecorderAssumption ==
  QueueMax \in Nat \ {0} /\ MaxRecords \in Nat /\ MaxRestarts \in Nat

VARIABLES
  queue,     \* _q: records and at most one poison pill
  batch,     \* the lines handed to the executor
  last,      \* stop: the batch in the executor is the last one
  writer,    \* the writer task waits for a record, for the executor, or is over
  stopper,   \* where the caller of stop is
  file,      \* the complete lines on disk
  glued,     \* processes whose first line was glued to half a line
  torn,      \* the file ends in the middle of a line
  count,     \* records so far, dropped or not
  accepted,  \* what this process has enqueued
  restarts

vars == <<queue, batch, last, writer, stopper, file, glued, torn, count, accepted, restarts>>

Records == 1 .. MaxRecords
Pill    == 0  \* None in the queue

TypeOK ==
  /\ queue \in Seq(Records \cup {Pill}) /\ Len(queue) <= QueueMax
  /\ batch \in Seq(Records)
  /\ last \in BOOLEAN
  /\ writer \in {"waiting", "writing", "ended", "dead"}
  /\ stopper \in {"running", "putting", "joining", "stopped", "failed"}
  /\ file \in Seq(Records)
  /\ glued \in SUBSET (0 .. MaxRestarts)
  /\ torn \in BOOLEAN
  /\ count \in 0 .. MaxRecords
  /\ accepted \in Seq(Records)
  /\ restarts \in 0 .. MaxRestarts

Init ==
  /\ queue = <<>> /\ batch = <<>> /\ last = FALSE
  /\ writer = "waiting" /\ stopper = "running"
  /\ file = <<>> /\ glued = {} /\ torn = FALSE
  /\ count = 0 /\ accepted = <<>> /\ restarts = 0

-----------------------------------------------------------------------------
(* Mutant: the queue takes one record more than it should.                   *)
BadFull == Len(queue) > QueueMax

Full == Len(queue) >= QueueMax

(* record: put_nowait, or drop.  The callers are stopped before the recorder *)
(* is (main.py:156-163).                                                     *)
Record ==
  /\ stopper = "running" /\ count < MaxRecords
  /\ count' = count + 1
  /\ IF ~Full
     THEN /\ queue' = Append(queue, count')
          /\ accepted' = Append(accepted, count')
     ELSE UNCHANGED <<queue, accepted>>
  /\ UNCHANGED <<batch, last, writer, stopper, file, glued, torn, restarts>>

(* Mutant: the pill ends the batch but not the writer.                       *)
BadSeesPill(q) == q = <<Pill>>

SeesPill(q) == Contains(q, Pill)

(* get, then get_nowait until the queue is empty or the pill is met, which   *)
(* is the last that is put.                                                  *)
Lines(q) == IF Contains(q, Pill) THEN Front(q) ELSE q

(* A batch without lines is not written.                                     *)
TakeBatch ==
  /\ writer = "waiting" /\ queue # <<>>
  /\ batch' = batch \o Lines(queue)
  /\ last' = SeesPill(queue)
  /\ queue' = <<>>
  /\ writer' = IF batch' # <<>> THEN "writing" ELSE "ended"
  /\ UNCHANGED <<stopper, file, glued, torn, count, accepted, restarts>>

(* A line after a torn one is glued to it, and can no longer be read, unless *)
(* the hour has changed, which starts a file of its own.                     *)
Glues(lines, newHour) == torn /\ ~newHour /\ lines # <<>>

(* Mutant: the file is opened anew instead of appended to.                   *)
BadAppended(lines, newHour) == lines

Appended(lines, newHour) == file \o IF Glues(lines, newHour) THEN Tail(lines) ELSE lines

WriteLines(lines, newHour) ==
  /\ file' = Appended(lines, newHour)
  /\ glued' = IF Glues(lines, newHour) THEN glued \cup {restarts} ELSE glued

(* Mutant: the buffer is not cleared.                                        *)
BadCleared == batch

Cleared == <<>>

(* The executor has written and flushed the batch.                           *)
WriteBatch ==
  /\ writer = "writing"
  /\ \E newHour \in BOOLEAN : WriteLines(batch, newHour)
  /\ torn' = FALSE
  /\ batch' = Cleared
  /\ writer' = IF last THEN "ended" ELSE "waiting"
  /\ UNCHANGED <<queue, last, stopper, count, accepted, restarts>>

(* The disk refuses the batch: the exception ends the writer task.           *)
WriteFails ==
  /\ writer = "writing"
  /\ writer' = "dead"
  /\ UNCHANGED <<queue, batch, last, stopper, file, glued, torn, count, accepted, restarts>>

(* stop: await put, then await the writer, whose exception it raises.        *)
Stop ==
  /\ stopper = "running"
  /\ stopper' = "putting"
  /\ UNCHANGED <<queue, batch, last, writer, file, glued, torn, count, accepted, restarts>>

PutPill ==
  /\ stopper = "putting" /\ ~Full
  /\ queue' = Append(queue, Pill)
  /\ stopper' = "joining"
  /\ UNCHANGED <<batch, last, writer, file, glued, torn, count, accepted, restarts>>

Over == writer \in {"ended", "dead"}

Join ==
  /\ stopper = "joining" /\ Over
  /\ stopper' = IF writer = "dead" THEN "failed" ELSE "stopped"
  /\ UNCHANGED <<queue, batch, last, writer, file, glued, torn, count, accepted, restarts>>

(* The process ends, killed or stopped, and a new one starts.  Of a batch on *)
(* its way to disk any part may be there, down to a part of a line.          *)
Restart ==
  /\ restarts < MaxRestarts
  /\ restarts' = restarts + 1
  /\ IF writer \in {"writing", "dead"}
     THEN \E n \in 0 .. Len(batch), newHour \in BOOLEAN :
            /\ WriteLines(SubSeq(batch, 1, n), newHour)
            /\ torn' \in IF n = Len(batch) THEN {FALSE}
                         ELSE IF n = 0 THEN {torn, TRUE} ELSE BOOLEAN
     ELSE UNCHANGED <<file, glued, torn>>
  /\ queue' = <<>> /\ batch' = <<>> /\ last' = FALSE
  /\ writer' = "waiting" /\ stopper' = "running" /\ accepted' = <<>>
  /\ UNCHANGED count

Writer == TakeBatch \/ WriteBatch

Next == Record \/ Writer \/ WriteFails \/ Stop \/ PutPill \/ Join \/ Restart

Spec == Init /\ [][Next]_vars

(* The event loop runs the writer and the caller of stop.                    *)
LiveSpec == Spec /\ WF_vars(Writer) /\ WF_vars(PutPill) /\ WF_vars(Join)

-----------------------------------------------------------------------------
InMemory == batch \o Lines(queue)

(* The replayer is fed every record at most once and in the order in which   *)
(* the processes recorded them, over kills, restarts and torn lines.         *)
ReplayInOrder == \A i, j \in DOMAIN file : i < j => file[i] < file[j]

(* While its writer lives, a process loses nothing it accepted, except that  *)
(* the first line it writes may be glued to a line its predecessor tore; and *)
(* when stop returns nothing is left in memory.                              *)
AcceptedIsKept ==
  writer # "dead" =>
    \A i \in DOMAIN accepted :
      \/ Contains(file, accepted[i])
      \/ Contains(InMemory, accepted[i]) /\ stopper # "stopped"
      \/ i = 1 /\ restarts \in glued

(* stop returns, or raises, unless the writer has died.                      *)
StopEnds == stopper = "putting" ~> stopper \notin {"putting", "joining"} \/ writer = "dead"
=============================================================================
