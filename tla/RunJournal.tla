----------------------------- MODULE RunJournal -----------------------------
(***************************************************************************)
(* The journal of one run: a buffer of events that callbacks fill, from the *)
(* event loop or from worker threads, one background flush at a time, a      *)
(* throttled snapshot of the token counts, and the flush in the worker's     *)
(* finally block.  Events are numbered in the order they are put.            *)
(***************************************************************************)
EXTENDS Naturals, Sequences

CONSTANTS FlushAt,     \* flush_threshold
          MaxPuts,     \* bound: events
          MaxStoreFaults  \* bound: failed put_batch calls

ASSUME JournalAssumption == FlushAt \in Nat \ {0} /\ MaxPuts \in Nat /\ MaxStoreFaults \in Nat

VARIABLES
    puts,      \* events so far
    buffer,    \* _buffer
    copied,    \* _flush_sync between copy() and clear()
    flight,    \* the batches put_batch is writing, by task
    stored,    \* the run's events in the store, by seq
    repeats,   \* a put_batch that failed had committed
    snapshot,  \* the progress task
    dirty,     \* _progress_dirty
    ending,    \* the worker: running, in flush(), past it
    storeFaults

journalVars == <<puts, buffer, copied, flight, stored, repeats, snapshot, dirty,
                 ending, storeFaults>>
events == <<puts, buffer, copied, flight, stored, repeats, storeFaults>>
progress == <<snapshot, dirty>>

Empty == <<>>
In(s) == {s[i] : i \in DOMAIN s}

JournalTypeOK ==
    /\ puts \in 0 .. MaxPuts
    /\ buffer \in Seq(1 .. MaxPuts)
    /\ copied \in Seq(1 .. MaxPuts)
    /\ flight \in [{"task", "flush"} -> Seq(1 .. MaxPuts)]
    /\ stored \in Seq(1 .. MaxPuts)
    /\ repeats \in BOOLEAN
    /\ snapshot \in {"none", "delayed", "writing", "behind"}
    /\ dirty \in BOOLEAN
    /\ ending \in {"running", "tasks", "progress", "rest", "flushed"}
    /\ storeFaults \in 0 .. MaxStoreFaults

JournalInit ==
    /\ puts = 0
    /\ buffer = Empty /\ copied = Empty
    /\ flight = [w \in {"task", "flush"} |-> Empty]
    /\ stored = Empty
    /\ repeats = FALSE
    /\ snapshot = "none" /\ dirty = FALSE
    /\ ending = "running"
    /\ storeFaults = 0

(* _put.  On the event loop a full buffer, or the end of the root chain, starts a   *)
(* flush unless one is in flight; a callback in a worker thread finds no running     *)
(* loop and leaves the buffer alone.                                                 *)
PutOnLoop(last) ==
    LET b == Append(buffer, puts + 1) IN
    /\ ending = "running" /\ copied = Empty /\ puts < MaxPuts
    /\ puts' = puts + 1
    /\ buffer' = b
    /\ copied' = IF (last \/ Len(b) >= FlushAt) /\ flight["task"] = Empty THEN b ELSE Empty
    /\ UNCHANGED <<flight, stored, repeats, storeFaults, progress, ending>>

PutInThread ==
    /\ ending # "flushed" /\ puts < MaxPuts
    /\ puts' = puts + 1
    /\ buffer' = Append(buffer, puts + 1)
    /\ UNCHANGED <<copied, flight, stored, repeats, storeFaults, progress, ending>>

(* _flush_sync, its second half: the buffer is cleared and the task created. *)
ClearBuffer ==
    /\ copied # Empty
    /\ flight' = [flight EXCEPT !["task"] = copied]
    /\ buffer' = Empty
    /\ copied' = Empty
    /\ UNCHANGED <<puts, stored, repeats, storeFaults, progress, ending>>

\* A bug: the events of a failed batch go to the end of the buffer.
ReturnedLast(batch) == buffer \o batch

(* A failed batch goes back to the front of the buffer. *)
Returned(batch) == batch \o buffer

(* put_batch in a task or in flush(): one transaction, whose failure may be that of *)
(* the answer only.                                                                 *)
Written(w) ==
    /\ flight[w] # Empty
    /\ flight' = [flight EXCEPT ![w] = Empty]
    /\ stored' = stored \o flight[w]
    /\ UNCHANGED <<puts, buffer, copied, repeats, storeFaults, progress, ending>>

PutFails(w, committed) ==
    /\ flight[w] # Empty /\ storeFaults < MaxStoreFaults
    /\ storeFaults' = storeFaults + 1
    /\ flight' = [flight EXCEPT ![w] = Empty]
    /\ buffer' = Returned(flight[w])
    /\ stored' = IF committed THEN stored \o flight[w] ELSE stored
    /\ repeats' = (repeats \/ committed)
    /\ ending' = IF w = "flush" THEN "flushed" ELSE ending
    /\ UNCHANGED <<puts, copied, progress>>

(***************************************************************************)
(* Progress snapshots.                                                     *)
(***************************************************************************)
(* _schedule_progress_flush, within the interval and after it. *)
ScheduleProgress(soon) ==
    /\ ending = "running"
    /\ IF soon \/ snapshot # "none"
       THEN dirty' = TRUE /\ snapshot' = IF snapshot = "none" THEN "delayed" ELSE snapshot
       ELSE dirty' = FALSE /\ snapshot' = "writing"
    /\ UNCHANGED <<events, ending>>

(* _flush_progress_async: the delay is over, ... *)
WakeProgress ==
    /\ snapshot = "delayed"
    /\ snapshot' = IF dirty THEN "behind" ELSE "writing"
    /\ dirty' = FALSE
    /\ UNCHANGED <<events, ending>>

(* ... the snapshot is written, or failed to be, and another one is due. *)
EndProgress ==
    /\ snapshot \in {"writing", "behind"}
    /\ snapshot' = IF snapshot = "behind" \/ dirty THEN "delayed" ELSE "none"
    /\ dirty' = FALSE
    /\ UNCHANGED <<events, ending>>

(***************************************************************************)
(* flush, in the worker's finally block.                                   *)
(***************************************************************************)
BeginFlush ==
    /\ ending = "running" /\ copied = Empty
    /\ ending' = "tasks"
    /\ UNCHANGED <<events, progress>>

AwaitTasks ==
    /\ ending = "tasks" /\ flight["task"] = Empty
    /\ ending' = "progress"
    /\ UNCHANGED <<events, progress>>

(* A delayed snapshot is cancelled, one that is being written awaited. *)
AwaitProgress ==
    /\ ending = "progress" /\ snapshot \in {"none", "delayed"}
    /\ ending' = "rest"
    /\ IF snapshot = "delayed" THEN snapshot' = "none" /\ dirty' = FALSE ELSE UNCHANGED progress
    /\ UNCHANGED events

FlushRest ==
    /\ ending = "rest" /\ flight["flush"] = Empty
    /\ LET n == IF Len(buffer) < FlushAt THEN Len(buffer) ELSE FlushAt IN
       /\ flight' = [flight EXCEPT !["flush"] = SubSeq(buffer, 1, n)]
       /\ buffer' = SubSeq(buffer, n + 1, Len(buffer))
       /\ ending' = IF n = 0 THEN "flushed" ELSE "rest"
    /\ UNCHANGED <<puts, copied, stored, repeats, storeFaults, progress>>

JournalNext ==
    \/ \E last \in BOOLEAN : PutOnLoop(last)
    \/ PutInThread \/ ClearBuffer
    \/ \E w \in {"task", "flush"} : Written(w) \/ \E c \in BOOLEAN : PutFails(w, c)
    \/ \E soon \in BOOLEAN : ScheduleProgress(soon)
    \/ WakeProgress \/ EndProgress
    \/ BeginFlush \/ AwaitTasks \/ AwaitProgress \/ FlushRest

JournalSpec == JournalInit /\ [][JournalNext]_journalVars

(***************************************************************************)
(* Properties.                                                             *)
(***************************************************************************)
(* The store has the events of the run in the order the journal recorded them,    *)
(* whatever batches failed and came back: only a batch whose commit was not        *)
(* acknowledged is there twice.                                                    *)
StoredInOrder ==
    \A i, j \in DOMAIN stored :
        i < j /\ stored[j] <= stored[i] => repeats /\ stored[j] \in In(SubSeq(stored, 1, i))

(* When flush() comes to the last events no progress snapshot is under way, and    *)
(* none is scheduled that would be written after the run's completion data.        *)
QuietAfterFlush == ending \in {"rest", "flushed"} => snapshot = "none"

=============================================================================
