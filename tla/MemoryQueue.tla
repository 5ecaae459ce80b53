----------------------------- MODULE MemoryQueue -----------------------------
(***************************************************************************)
(* The debounced queue between agent runs and the memory updater.  A turn  *)
(* that ends queues the thread's messages with a timer; summarization      *)
(* queues the messages it is about to drop with a timer of zero seconds;   *)
(* a timer thread takes the whole queue and hands each conversation to the *)
(* updater.  Timers that fired already cannot be cancelled any more.       *)
(***************************************************************************)
EXTENDS Filters, FiniteSets

CONSTANTS Threads,   \* debounce keys: thread, user and agent
          Recent,    \* exchanges that detect_correction looks at: the last six messages
          MaxTurns   \* bound: exchanges of a thread

ASSUME MemoryQueueBounds == IsFiniteSet(Threads) /\ Recent \in Nat \ {0} /\ MaxTurns \in Nat

VARIABLES
    turns,       \* exchanges each thread has had: 1 .. turns[k]
    corrections, \* those in which the user corrects the agent
    kept,        \* exchanges in the thread's state
    queue,       \* self._queue
    timer,       \* self._timer is armed
    loose,       \* armed timers self._timer no longer names
    fired,       \* timer threads about to enter _process_queue
    processing,  \* self._processing
    batch,       \* contexts_to_process, for each worker in the loop
    told,        \* corrections given to update_memory in a flagged context
    displaced    \* exchanges a newer context pushed out of the queue (history)

memVars == <<turns, corrections, kept, queue, timer, loose, fired, processing, batch,
             told, displaced>>

Message == 1 .. MaxTurns
Context == [key : Threads, msgs : SUBSET Message, correction : BOOLEAN]

MemTypeOK ==
    /\ turns \in [Threads -> 0 .. MaxTurns]
    /\ corrections \in [Threads -> SUBSET Message]
    /\ kept \in [Threads -> SUBSET Message]
    /\ queue \in Seq(Context)
    /\ timer \in BOOLEAN
    /\ loose \in Nat
    /\ fired \in Nat
    /\ processing \in BOOLEAN
    /\ batch \in Seq(Seq(Context))
    /\ told \in [Threads -> SUBSET Message]
    /\ displaced \in [Threads -> SUBSET Message]

MemInit ==
    /\ turns = [k \in Threads |-> 0]
    /\ corrections = [k \in Threads |-> {}]
    /\ kept = [k \in Threads |-> {}]
    /\ queue = <<>>
    /\ timer = FALSE
    /\ loose = 0
    /\ fired = 0
    /\ processing = FALSE
    /\ batch = <<>>
    /\ told = [k \in Threads |-> {}]
    /\ displaced = [k \in Threads |-> {}]

----------------------------------------------------------------------------

\* detect_correction: one of the last exchanges of the context holds one
Detected(msgs, wrong) ==
    \E m \in msgs \cap wrong : Cardinality({n \in msgs : n > m}) < Recent

\* The flag of the new context, merged with the queued one it replaces.
Merged(k, correction) ==
    correction \/ \E i \in DOMAIN queue : queue[i].key = k /\ queue[i].correction

\* _enqueue_locked: one context per key, the latest, at the end.
Enqueue(k, msgs, correction) ==
    /\ queue' = Append(Kept(queue, {c \in Context : c.key # k}),
                       [key |-> k, msgs |-> msgs, correction |-> Merged(k, correction)])
    /\ displaced' = [displaced EXCEPT ![k] =
         (@ \cup UNION {queue[i].msgs : i \in {j \in DOMAIN queue : queue[j].key = k}}) \ msgs]

\* MemoryMiddleware.after_agent: the turn's exchange, a correction or not, joins
\* the state, and all of it is queued under a new debounce timer.
EndTurn(k, wrong) ==
    /\ turns[k] < MaxTurns
    /\ turns' = [turns EXCEPT ![k] = @ + 1]
    /\ corrections' = [corrections EXCEPT ![k] = IF wrong THEN @ \cup {turns[k] + 1} ELSE @]
    /\ kept' = [kept EXCEPT ![k] = @ \cup {turns[k] + 1}]
    /\ Enqueue(k, kept'[k], Detected(kept'[k], corrections'[k]))
    /\ timer' = TRUE
    /\ UNCHANGED <<loose, fired, processing, batch, told>>

\* memory_flush_hook: the oldest exchanges leave the state through add_nowait.
Summarize(k) ==
    \E cut \in kept[k] :
        LET dropped == {m \in kept[k] : m <= cut} IN
        /\ dropped # kept[k]
        /\ kept' = [kept EXCEPT ![k] = @ \ dropped]
        /\ Enqueue(k, dropped, Detected(dropped, corrections[k]))
        /\ timer' = TRUE
        /\ UNCHANGED <<turns, corrections, loose, fired, processing, batch, told>>

\* The timer's thread starts: _schedule_timer can no longer cancel it.
Fire ==
    /\ \/ timer /\ timer' = FALSE /\ UNCHANGED loose
       \/ loose > 0 /\ loose' = loose - 1 /\ UNCHANGED timer
    /\ fired' = fired + 1
    /\ UNCHANGED <<turns, corrections, kept, queue, processing, batch, told, displaced>>

\* A bug: the thread that meets an active worker leaves without a new timer.
ProcessBusyReturns ==
    /\ fired > 0 /\ processing
    /\ fired' = fired - 1
    /\ UNCHANGED <<turns, corrections, kept, queue, timer, loose, processing, batch, told,
                   displaced>>

\* _process_queue while another worker is active: come back at once.
ProcessBusy ==
    /\ fired > 0 /\ processing
    /\ fired' = fired - 1
    /\ timer' = TRUE
    /\ UNCHANGED <<turns, corrections, kept, queue, loose, processing, batch, told, displaced>>

\* _process_queue with nothing queued.
ProcessNothing ==
    /\ fired > 0 /\ ~processing /\ queue = <<>>
    /\ fired' = fired - 1
    /\ UNCHANGED <<turns, corrections, kept, queue, timer, loose, processing, batch, told,
                   displaced>>

\* A bug: the worker takes the queue without looking at _processing.
TakeQueueAlways ==
    /\ fired > 0 /\ queue # <<>>
    /\ fired' = fired - 1
    /\ processing' = TRUE
    /\ batch' = Append(batch, queue)
    /\ queue' = <<>>
    /\ UNCHANGED <<turns, corrections, kept, timer, loose, told, displaced>>

\* _process_queue takes all of the queue.  self._timer = None forgets a timer
\* armed since this thread fired; it will fire all the same.
TakeQueue ==
    /\ fired > 0 /\ ~processing /\ queue # <<>>
    /\ fired' = fired - 1
    /\ processing' = TRUE
    /\ batch' = Append(batch, queue)
    /\ queue' = <<>>
    /\ timer' = FALSE
    /\ loose' = IF timer THEN loose + 1 ELSE loose
    /\ UNCHANGED <<turns, corrections, kept, told, displaced>>

\* update_memory of the next conversation; failing is logged and forgotten.
UpdateOne ==
    \E w \in DOMAIN batch :
        /\ batch[w] # <<>>
        /\ LET c == Head(batch[w]) IN
           told' = IF c.correction THEN [told EXCEPT ![c.key] = @ \cup (c.msgs \cap corrections[c.key])]
                   ELSE told
        /\ batch' = [batch EXCEPT ![w] = Tail(@)]
        /\ UNCHANGED <<turns, corrections, kept, queue, timer, loose, fired, processing, displaced>>

\* The finally: the worker is gone.
EndBatch ==
    \E w \in DOMAIN batch :
        /\ batch[w] = <<>>
        /\ batch' = [i \in 1 .. Len(batch) - 1 |-> batch[IF i < w THEN i ELSE i + 1]]
        /\ processing' = FALSE
        /\ UNCHANGED <<turns, corrections, kept, queue, timer, loose, fired, told, displaced>>

\* _process_queue
Process == ProcessBusy \/ ProcessNothing \/ TakeQueue

MemNext ==
    \/ \E k \in Threads : Summarize(k) \/ \E wrong \in BOOLEAN : EndTurn(k, wrong)
    \/ Fire \/ Process \/ UpdateOne \/ EndBatch

\* Timer threads run, and the loop of a worker ends: the model call has a
\* timeout of its own.
MemFairness ==
    /\ WF_memVars(Fire)
    /\ WF_memVars(Process)
    /\ WF_memVars(UpdateOne)
    /\ WF_memVars(EndBatch)

MemSpec == MemInit /\ [][MemNext]_memVars /\ MemFairness

----------------------------------------------------------------------------
(* Properties                                                              *)

\* _processing keeps timers, loose ones too, from running two updaters over
\* the same memory file at once.
OneUpdater == Len(batch) <= 1

\* The exchange in which the user corrects the agent reaches the updater, in a
\* context flagged as holding a correction, however often its conversation is
\* debounced and whatever worker is busy; unless a newer context of the same key,
\* a flush's or the next turn's, pushed it out of the queue first.
CorrectionReaches ==
    \A k \in Threads, m \in Message :
        m \in corrections[k] ~> m \in told[k] \cup displaced[k]

============================================================================
