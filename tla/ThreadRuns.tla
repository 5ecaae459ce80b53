----------------------------- MODULE ThreadRuns -----------------------------
(***************************************************************************)
(* The runs of one thread: admission by RunManager.create_or_reject, the   *)
(* window in which start_run has a record and no task yet, the life of the *)
(* background task run_agent between two awaits, cancellation, rollback to *)
(* the pre-run checkpoint and the cleanup.  What becomes of the run's row  *)
(* in the store is in RunRows.                                             *)
(*                                                                         *)
(* One lock (RunManager._lock) guards the records.  Only create_or_reject  *)
(* keeps it across an await, so only it shows in lock; every other section *)
(* under the lock is one step that needs lock = 0.  The two sections of an *)
(* abort handler (set_finalizing, set_status) are one step.                *)
(***************************************************************************)
EXTENDS Naturals, Sequences, FiniteSets

CONSTANTS
    MaxRun,      \* runs 1 .. MaxRun, in the order in which they are admitted
    MaxWrites    \* bound: checkpoints on the thread

ASSUME RunBounds == MaxRun \in Nat /\ MaxWrites \in Nat

VARIABLES
    run,         \* record and task of each run
    lock,        \* the run whose admission holds the lock, or 0
    admission,   \* strategy and in-flight runs that admission found
    checkpoint,  \* the thread's checkpoint: who wrote each message
    untasked     \* runs aborted while they had no task (history)

runVars == <<run, lock, admission, checkpoint, untasked>>

Runs == 1 .. MaxRun
Strategies == {"reject", "interrupt", "rollback"}
Terminal == {"success", "error", "interrupted"}
Try == {"waiting", "snapshotting", "streaming", "settling"}
Phases == {"none", "admitting", "refused", "launching", "stranded", "created",
           "killed", "rollingback", "titling", "titled",
           "closing", "done"} \cup Try

NoRun == [phase |-> "none", status |-> "pending", aborted |-> FALSE,
          action |-> "interrupt", finalizing |-> FALSE, kill |-> FALSE,
          snapshot |-> <<>>, snapped |-> "none", ended |-> FALSE]

RunInit ==
    /\ run = [r \in Runs |-> NoRun]
    /\ lock = 0
    /\ admission = [strategy |-> "reject", inflight |-> {}]
    /\ checkpoint = <<>>
    /\ untasked = {}

-----------------------------------------------------------------------------
\* What the manager reads of its records

InMemory(r) == run[r].phase \notin {"none", "refused"}
Active(r) == run[r].status \in {"pending", "running"}
Inflight(r) == InMemory(r) /\ (Active(r) \/ run[r].finalizing)
TaskActive(r) == run[r].phase \notin {"none", "admitting", "refused", "launching",
                                      "stranded", "killed", "done"}
PriorFinalizing(r) == \E q \in Runs : q < r /\ InMemory(q) /\ run[q].finalizing
LaterStarted(r) ==
    \E q \in Runs : q > r /\ InMemory(q) /\ (run[q].status # "pending" \/ run[q].finalizing)

\* abort_event.set(), task.cancel() and the record's new status
Aborted(r, how) ==
    [run[r] EXCEPT !.aborted = TRUE, !.action = how, !.finalizing = TaskActive(r),
                   !.kill = TaskActive(r), !.status = "interrupted"]

-----------------------------------------------------------------------------
\* start_run

\* create_or_reject up to its await: the record is in _runs, the lock is held
Admit(r, strategy) ==
    /\ lock = 0
    /\ run[r].phase = "none" /\ \A q \in Runs : q < r => run[q].phase # "none"
    /\ strategy = "reject" => \A q \in Runs : ~Inflight(q)
    /\ run' = [run EXCEPT ![r].phase = "admitting"]
    /\ lock' = r
    /\ admission' = [strategy |-> strategy, inflight |-> {q \in Runs : Inflight(q)}]
    /\ UNCHANGED <<checkpoint, untasked>>

\* The row is stored; the runs found in flight are aborted before the unlock
Admitted(r) ==
    LET victims == IF admission.strategy = "reject" THEN {}
                   ELSE {q \in admission.inflight : ~run[q].finalizing}
    IN  /\ lock = r
        /\ run' = [q \in Runs |->
                     IF q = r THEN [run[r] EXCEPT !.phase = "launching"]
                     ELSE IF q \in victims THEN Aborted(q, admission.strategy)
                     ELSE run[q]]
        /\ lock' = 0
        /\ untasked' = untasked \cup {q \in victims : ~TaskActive(q)}
        /\ admission' = [strategy |-> "reject", inflight |-> {}]
        /\ UNCHANGED checkpoint

\* The row could not be stored: the record is taken out again, nobody is aborted
AdmitFails(r) ==
    /\ lock = r
    /\ run' = [run EXCEPT ![r].phase = "refused"]
    /\ lock' = 0
    /\ admission' = [strategy |-> "reject", inflight |-> {}]
    /\ UNCHANGED <<checkpoint, untasked>>

\* asyncio.create_task: the task exists and has not run its first step
Launch(r) ==
    /\ run[r].phase = "launching"
    /\ run' = [run EXCEPT ![r].phase = "created"]
    /\ UNCHANGED <<lock, admission, checkpoint, untasked>>

\* The request ends in an error after the record was made (an unknown checkpoint)
LaunchFails(r) ==
    /\ run[r].phase = "launching"
    /\ run' = [run EXCEPT ![r].phase = "stranded"]
    /\ UNCHANGED <<lock, admission, checkpoint, untasked>>

-----------------------------------------------------------------------------
\* run_agent

\* A task cancelled before its first step ends there: neither try nor finally
FirstStep(r) ==
    /\ run[r].phase = "created"
    /\ run' = [run EXCEPT ![r].phase = IF run[r].kill THEN "killed" ELSE "waiting"]
    /\ UNCHANGED <<lock, admission, checkpoint, untasked>>

\* A bug: the run does not wait for the one it replaces.
StartRunningUnchecked(r) ==
    /\ run[r].phase = "waiting" /\ ~run[r].kill /\ lock = 0
    /\ run' = [run EXCEPT ![r].phase = "snapshotting", ![r].status = "running"]
    /\ UNCHANGED <<lock, admission, checkpoint, untasked>>

\* wait_for_prior_finalizing returns, the run is marked running
StartRunning(r) ==
    /\ run[r].phase = "waiting" /\ ~run[r].kill /\ lock = 0
    /\ ~PriorFinalizing(r)
    /\ run' = [run EXCEPT ![r].phase = "snapshotting", ![r].status = "running"]
    /\ UNCHANGED <<lock, admission, checkpoint, untasked>>

\* The pre-run checkpoint is kept for a rollback, or its capture fails
TakeSnapshot(r) ==
    /\ run[r].phase = "snapshotting" /\ ~run[r].kill
    /\ \E snapped \in {IF checkpoint = <<>> THEN "none" ELSE "taken", "failed"} :
         run' = [run EXCEPT ![r].phase = "streaming", ![r].snapped = snapped,
                            ![r].snapshot = IF snapped = "taken" THEN checkpoint ELSE <<>>]
    /\ UNCHANGED <<lock, admission, checkpoint, untasked>>

\* The graph checkpoints a step and yields a chunk; an abort is seen at the chunk
StreamChunk(r) ==
    /\ run[r].phase = "streaming" /\ ~run[r].kill
    /\ Len(checkpoint) < MaxWrites
    /\ checkpoint' = Append(checkpoint, r)
    /\ run' = [run EXCEPT ![r].phase = IF run[r].aborted THEN "settling" ELSE "streaming"]
    /\ UNCHANGED <<lock, admission, untasked>>

\* The abort branch: set_finalizing(True), then the status the action asks for
Unwind(r) ==
    LET final == IF run[r].action = "rollback" THEN "error" ELSE "interrupted" IN
    run' = [run EXCEPT ![r].kill = FALSE, ![r].finalizing = TRUE, ![r].status = final,
                       ![r].phase = IF final = "error" THEN "rollingback" ELSE "titling"]

\* Final status: aborted, or success, or error after a provider fallback message
Settle(r) ==
    /\ run[r].phase \in {"streaming", "settling"} /\ ~run[r].kill /\ lock = 0
    /\ \/ run[r].aborted /\ Unwind(r)
       \/ /\ ~run[r].aborted
          /\ \E final \in {"success", "error"} :
               run' = [run EXCEPT ![r].status = final, ![r].phase = "titling"]
    /\ UNCHANGED <<lock, admission, checkpoint, untasked>>

\* task.cancel() is delivered at the await the body stands at
Cancelled(r) ==
    /\ run[r].kill /\ run[r].phase \in Try /\ lock = 0
    /\ Unwind(r)
    /\ UNCHANGED <<lock, admission, checkpoint, untasked>>

\* Any other exception of the body: error status, an error event
Fail(r) ==
    /\ run[r].phase \in Try \ {"settling"} /\ ~run[r].kill /\ lock = 0
    /\ run' = [run EXCEPT ![r].status = "error", ![r].phase = "titling"]
    /\ UNCHANGED <<lock, admission, checkpoint, untasked>>

\* _rollback_to_pre_run_checkpoint: restores the snapshot; without one, because
\* the thread was empty or the run had not come that far, deletes the thread;
\* after a failed capture, or when the restore fails, does nothing
RollBack(r) ==
    /\ run[r].phase = "rollingback"
    /\ run' = [run EXCEPT ![r].phase = "titling"]
    /\ \/ run[r].snapped # "failed" /\ checkpoint' = run[r].snapshot
       \/ UNCHANGED checkpoint
    /\ UNCHANGED <<lock, admission, untasked>>

\* _ensure_interrupted_title: only after older cleanups, only if no later run began
TitleRead(r) ==
    /\ run[r].phase = "titling" /\ lock = 0
    /\ run[r].status = "interrupted" /\ ~PriorFinalizing(r) /\ ~LaterStarted(r)
    /\ run' = [run EXCEPT ![r].phase = "titled", ![r].snapshot = checkpoint]
    /\ UNCHANGED <<lock, admission, checkpoint, untasked>>

\* The checkpoint that was read goes back with a title
TitleWrite(r) ==
    /\ run[r].phase = "titled"
    /\ checkpoint' = run[r].snapshot
    /\ run' = [run EXCEPT ![r].phase = "closing"]
    /\ UNCHANGED <<lock, admission, untasked>>

\* A bug: set_finalizing(False) is left out of the finally block.
CloseFinalizing(r) ==
    /\ \/ run[r].phase = "closing"
       \/ /\ run[r].phase = "titling"
          /\ run[r].status = "interrupted" => ~PriorFinalizing(r)
    /\ lock = 0
    /\ run' = [run EXCEPT ![r].phase = "done", ![r].ended = TRUE,
                          ![r].snapshot = <<>>, ![r].snapped = "none",
                          ![r].aborted = FALSE, ![r].action = "interrupt"]
    /\ UNCHANGED <<lock, admission, checkpoint, untasked>>

\* Completion hook, set_finalizing(False), publish_end.  What nobody reads once
\* the task is done goes back to its first value.
Close(r) ==
    /\ \/ run[r].phase = "closing"
       \/ /\ run[r].phase = "titling"
          /\ run[r].status = "interrupted" => ~PriorFinalizing(r)
    /\ lock = 0
    /\ run' = [run EXCEPT ![r].phase = "done", ![r].finalizing = FALSE, ![r].ended = TRUE,
                          ![r].snapshot = <<>>, ![r].snapped = "none",
                          ![r].aborted = FALSE, ![r].action = "interrupt"]
    /\ UNCHANGED <<lock, admission, checkpoint, untasked>>

-----------------------------------------------------------------------------
\* Cancellation

\* cancel(), from the cancel endpoint or when a streaming client disconnects
Cancel(r, how) ==
    /\ lock = 0 /\ InMemory(r) /\ Active(r)
    /\ run' = [run EXCEPT ![r] = Aborted(r, how)]
    /\ untasked' = IF TaskActive(r) THEN untasked ELSE untasked \cup {r}
    /\ UNCHANGED <<lock, admission, checkpoint>>

\* The steps the event loop owes a run
Step(r) ==
    \/ Admitted(r) \/ AdmitFails(r) \/ Launch(r) \/ LaunchFails(r) \/ FirstStep(r)
    \/ StartRunning(r) \/ TakeSnapshot(r) \/ StreamChunk(r)
    \/ Settle(r) \/ Cancelled(r) \/ Fail(r)
    \/ RollBack(r) \/ TitleRead(r) \/ TitleWrite(r)
    \/ Close(r)

RunNext ==
    \/ \E r \in Runs : Step(r)
    \/ \E r \in Runs, strategy \in Strategies : Admit(r, strategy)
    \/ \E r \in Runs, how \in {"interrupt", "rollback"} : Cancel(r, how)

\* The event loop resumes every task that is ready.
RunFairness ==
    \A r \in Runs : WF_runVars(Step(r))

RunSpec == RunInit /\ [][RunNext]_runVars /\ RunFairness

-----------------------------------------------------------------------------
RunsTypeOK ==
    /\ run \in [Runs -> [phase : Phases, status : {"pending", "running"} \cup Terminal,
                         aborted : BOOLEAN, action : {"interrupt", "rollback"},
                         finalizing : BOOLEAN, kill : BOOLEAN,
                         snapshot : Seq(Runs), snapped : {"none", "taken", "failed"}, ended : BOOLEAN]]
    /\ lock \in 0 .. MaxRun
    /\ admission \in [strategy : Strategies, inflight : SUBSET Runs]
    /\ checkpoint \in Seq(Runs)
    /\ untasked \subseteq Runs

InGraph(r) == run[r].phase \in {"snapshotting", "streaming", "settling"}
InCleanup(r) == run[r].phase \in {"rollingback", "titled"}

\* A replacement run does not enter the graph while an older run of the thread
\* is in the graph or in its cleanup, unless the older one was aborted in the
\* window in which start_run had given it no task.
Serialised ==
    \A q, r \in Runs : q < r /\ q \notin untasked /\ InGraph(r) => ~InGraph(q) /\ ~InCleanup(q)

CountOf(s, q) == Cardinality({i \in DOMAIN s : s[i] = q})

\* Run q's messages leave the thread
Loses(q) == CountOf(checkpoint', q) < CountOf(checkpoint, q)

\* The rollback of a run that was cancelled before it had its snapshot
BlindRollback(r) == run[r].phase = "rollingback" /\ run[r].snapped = "none"

\* Cleanup takes from the thread only what its own run wrote: a restored snapshot
\* and a written title never drop what another run has checkpointed.  Excepted
\* are a thread with a run aborted without a task, and a rollback without snapshot.
OwnMessagesOnly ==
    [][\A q \in Runs : Loses(q) =>
         \E u \in Runs : /\ InCleanup(u) /\ run'[u].phase # run[u].phase
                         /\ u = q \/ untasked # {} \/ BlindRollback(u)]_runVars

\* action=rollback "reverts to pre-run checkpoint state": only the messages of
\* the run that is rolled back leave the thread.
RollbackReverts ==
    [][\A q \in Runs : Loses(q) => run[q].phase = "rollingback"]_runVars

Killed == \E r \in Runs : run[r].phase = "killed"

\* A run that has its task ends its stream, unless some task of the thread was
\* cancelled before its first step.
StreamEnds ==
    \A r \in Runs : run[r].phase = "created" ~> (run[r].ended \/ Killed)

=============================================================================
