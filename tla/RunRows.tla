------------------------------ MODULE RunRows -------------------------------
(***************************************************************************)
(* The stored row of one run: the status writes of its worker, of a        *)
(* canceller and of the shutdown drain reach the run store on their own,   *)
(* each with bounded retries (_call_store_with_retry), and a restarted     *)
(* gateway turns the rows nobody owns into errors.                         *)
(*                                                                         *)
(* A write is the status it carries.  It may land and lose its             *)
(* acknowledgement, so that the retry lands it again, or be given up.      *)
(***************************************************************************)
EXTENDS Naturals

CONSTANTS
    MaxDrops,    \* bound: writes given up after the last attempt
    MaxCrashes   \* bound: ends of the process

ASSUME RowBounds == MaxDrops \in Nat /\ MaxCrashes \in Nat

VARIABLES
    record,      \* status in RunManager._runs, "none" without a record
    worker,      \* where the background task stands
    abort,       \* action of a cancel, "none" before
    row,         \* status in the store
    writes,      \* the write in flight of each writer, "none" for none
    life,        \* the gateway process
    drops, crashes

rowVars == <<record, worker, abort, row, writes, life, drops, crashes>>

Inflights == {"pending", "running"}
Finals == {"success", "error", "interrupted"}
Writers == {"worker", "canceller", "drain", "reconciler"}

RowInit ==
    /\ record = "none" /\ worker = "none" /\ abort = "none" /\ row = "missing"
    /\ writes = [w \in Writers |-> "none"]
    /\ life = "serving" /\ drops = 0 /\ crashes = 0

Write(w, status) == writes' = [writes EXCEPT ![w] = status]

-----------------------------------------------------------------------------
\* The store

\* update_status; a row that is missing is put again from the record's snapshot
Lands(w) ==
    /\ writes[w] # "none"
    /\ row' = writes[w]
    /\ writes' = [writes EXCEPT ![w] = "none"]
    /\ UNCHANGED <<record, worker, abort, life, drops, crashes>>

\* The commit went through and its acknowledgement did not: the write is retried
LandsUnacknowledged(w) ==
    /\ writes[w] # "none" /\ row # writes[w]
    /\ row' = writes[w]
    /\ UNCHANGED <<record, worker, abort, writes, life, drops, crashes>>

\* The last attempt failed.  Only a new run's first write matters to its caller.
GivesUp(w) ==
    /\ writes[w] # "none" /\ drops < MaxDrops
    /\ drops' = drops + 1
    /\ writes' = [writes EXCEPT ![w] = "none"]
    /\ IF worker = "creating" /\ w = "worker"
         THEN worker' = "refused" /\ record' = "none"
         ELSE UNCHANGED <<worker, record>>
    /\ UNCHANGED <<abort, row, life, crashes>>

-----------------------------------------------------------------------------
\* The run

\* create: the record is registered, its row is being put
Create ==
    /\ life = "serving" /\ worker = "none"
    /\ record' = "pending" /\ worker' = "creating" /\ Write("worker", "pending")
    /\ UNCHANGED <<abort, row, life, drops, crashes>>

\* The worker goes on when its own write is over
Ready(at) == worker = at /\ writes["worker"] = "none" /\ life # "down"

MarkRunning ==
    /\ Ready("creating")
    /\ record' = "running" /\ worker' = "running" /\ Write("worker", "running")
    /\ UNCHANGED <<abort, row, life, drops, crashes>>

\* The status the task ends with: its own, or what the abort asks for
Finish ==
    /\ Ready("running")
    /\ \E final \in IF abort = "none" THEN {"success", "error"}
                    ELSE {IF abort = "rollback" THEN "error" ELSE "interrupted"} :
         record' = final /\ Write("worker", final)
    /\ worker' = "settling"
    /\ UNCHANGED <<abort, row, life, drops, crashes>>

\* A bug: the totals are written without the status.
CompleteWithoutStatus ==
    /\ Ready("settling")
    /\ worker' = "completing" /\ UNCHANGED writes
    /\ UNCHANGED <<record, abort, row, life, drops, crashes>>

\* update_run_completion writes the totals and the status once more
Complete ==
    /\ Ready("settling")
    /\ worker' = "completing" /\ Write("worker", record)
    /\ UNCHANGED <<record, abort, row, life, drops, crashes>>

Done ==
    /\ Ready("completing")
    /\ worker' = "done"
    /\ UNCHANGED <<record, abort, row, writes, life, drops, crashes>>

\* cancel: the record changes under the lock, the write follows outside it
CancelRun(how) ==
    /\ life = "serving" /\ record \in Inflights
    /\ worker = "creating" => writes["worker"] = "none"    \* the put holds the lock
    /\ record' = "interrupted" /\ abort' = how /\ Write("canceller", "interrupted")
    /\ UNCHANGED <<worker, row, life, drops, crashes>>

-----------------------------------------------------------------------------
\* The process

\* shutdown cancels the tasks in flight and waits for them
Drain ==
    /\ life = "serving" /\ crashes < MaxCrashes
    /\ life' = "draining"
    /\ abort' = IF worker = "running" /\ record \in Inflights THEN "interrupt" ELSE abort
    /\ UNCHANGED <<record, worker, row, writes, drops, crashes>>

\* The wait times out: a run that has not settled is marked and written
DrainMarks ==
    /\ life = "draining" /\ worker \in {"running", "settling", "completing"}
    /\ life' = "marked"
    /\ record' = IF record \in Inflights THEN "interrupted" ELSE record
    /\ Write("drain", "interrupted")
    /\ UNCHANGED <<worker, abort, row, drops, crashes>>

\* The process ends, in order or not: records, tasks and writes are gone
ProcessEnds ==
    /\ life # "down" /\ crashes < MaxCrashes
    /\ life' = "down" /\ crashes' = crashes + 1
    /\ record' = "none" /\ abort' = "none"
    /\ worker' = IF worker = "none" THEN "none" ELSE "gone"
    /\ writes' = [w \in Writers |-> "none"]
    /\ UNCHANGED <<row, drops>>

\* A bug: a restart leaves the rows of the runs it killed alone.
ReconcileNothing ==
    /\ life = "down"
    /\ life' = "serving" /\ UNCHANGED writes
    /\ UNCHANGED <<record, worker, abort, row, drops, crashes>>

\* Startup with the sqlite backend: reconcile_orphaned_inflight_runs
Reconcile ==
    /\ life = "down"
    /\ life' = "serving"
    /\ writes' = [writes EXCEPT !["reconciler"] = IF row \in Inflights THEN "error" ELSE "none"]
    /\ UNCHANGED <<record, worker, abort, row, drops, crashes>>

RowStep ==
    \/ \E w \in Writers : Lands(w) \/ GivesUp(w)
    \/ MarkRunning \/ Finish \/ Complete \/ Done \/ Reconcile

RowNext ==
    \/ RowStep
    \/ \E w \in Writers : LandsUnacknowledged(w)
    \/ Create \/ \E how \in {"interrupt", "rollback"} : CancelRun(how)
    \/ Drain \/ DrainMarks \/ ProcessEnds

RowFairness == WF_rowVars(RowStep)

RowSpec == RowInit /\ [][RowNext]_rowVars /\ RowFairness

-----------------------------------------------------------------------------
RowTypeOK ==
    /\ record \in {"none"} \cup Inflights \cup Finals
    /\ worker \in {"none", "creating", "refused", "running", "settling", "completing",
                   "done", "gone"}
    /\ abort \in {"none", "interrupt", "rollback"}
    /\ row \in {"missing"} \cup Inflights \cup Finals
    /\ writes \in [Writers -> {"none"} \cup Inflights \cup Finals]
    /\ life \in {"serving", "draining", "marked", "down"}
    /\ drops \in 0 .. MaxDrops /\ crashes \in 0 .. MaxCrashes

\* A run whose task is done has a final status in the store, whichever write of
\* its worker, canceller or drain landed last and even if one of them was given
\* up: the completion write repeats the status.
RowSettles == worker = "done" /\ drops <= 1 => row \in Finals

\* A row left pending or running by a process that ended becomes final after the
\* restart: the writes still in flight, a put whose request had failed included.
OrphansRecovered == (life = "down" /\ drops = MaxDrops) ~> row \notin Inflights
=============================================================================
