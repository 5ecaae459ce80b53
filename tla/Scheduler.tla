----------------------------- MODULE Scheduler ------------------------------
(***************************************************************************)
(* One scheduled task: the poller claims it under a lease and dispatches   *)
(* it, the user triggers it by hand, pauses and resumes it, runs complete  *)
(* through handle_run_completion, and the process crashes and restarts.    *)
(* Every repository call is a commit of its own and may raise: out of a    *)
(* dispatch to the poller or the route, out of a completion to the worker, *)
(* which swallows it, out of a sweep at startup to start(), which goes on. *)
(* The clock shows only as whether next_run_at has come and whether the    *)
(* lease has expired.                                                      *)
(***************************************************************************)
EXTENDS Naturals, FiniteSets

CONSTANTS
    Budget,       \* max_concurrent_runs (the other tasks' rows leave it free)
    MaxRows,      \* bound: rows of scheduled_task_runs that still matter
    MaxUpsets     \* bound: requests of the user, calls that raise and crashes, together

ASSUME SchedulerBounds ==
    Budget \in Nat \ {0} /\ MaxRows \in Nat /\ MaxUpsets \in Nat

VARIABLES
    task,         \* the scheduled_tasks row
    rows,         \* its scheduled_task_runs; a settled row's place is used again
    dispatch,     \* dispatch_task in progress: the poller's and the user's
    editing,      \* the status a pause or resume has checked and not yet written
    process,      \* "down", "tasks" (before the second sweep of start) or "up"
    upsets,
    raced,        \* the last check that passed did so beside another one that had
                  \* passed and had not created its row (history)
    echoed,       \* a stale status was written over a newer one (history)
    swallowed     \* a once task's completion or its sweep raised (history)

schedVars == <<task, rows, dispatch, editing, process, upsets, raced, echoed, swallowed>>

Triggers == {"scheduled", "manual"}
TaskOver == {"completed", "failed", "cancelled"}
FinalRow == {"success", "failed", "skipped", "interrupted"}
NoRow == [status |-> "skipped", run |-> "over"]
NoDispatch == [at |-> "idle", status |-> "enabled", row |-> 0]

SchedInit ==
    /\ task \in {[type |-> t, status |-> "enabled", next |-> "future", lease |-> "none"] :
                   t \in {"once", "cron"}}
    /\ rows = [i \in 1 .. MaxRows |-> NoRow]
    /\ dispatch = [t \in Triggers |-> NoDispatch]
    /\ editing = "none" /\ process = "up" /\ upsets = 0
    /\ raced = FALSE /\ echoed = FALSE /\ swallowed = FALSE

ActiveRow(i) == rows[i].status \in {"queued", "running"}
HasActiveRuns == \E i \in DOMAIN rows : ActiveRow(i)
Alive(i) == rows[i].run = "alive"
Sighted(i) == Alive(i) /\ ActiveRow(i)      \* a live run that the check sees
ActiveRows == {i \in DOMAIN rows : ActiveRow(i)}
up == process = "up"

\* The rows, with the places of those that nothing reads or writes any more free
Tidy(rs, held) ==
    [i \in DOMAIN rs |->
       IF rs[i].status \in FinalRow /\ rs[i].run \in {"none", "over"} /\ i \notin held
       THEN NoRow ELSE rs[i]]

Held(t) == {dispatch[u].row : u \in Triggers \ {t}}

\* next_run_at: the once task's date, if still ahead, or the next cron date
NextRunAt == IF task.type = "once" THEN (IF task.next = "future" THEN "future" ELSE "none")
             ELSE "future"

At(t, where) ==
    dispatch' = [dispatch EXCEPT ![t] = IF where = "idle" THEN NoDispatch
                                        ELSE [@ EXCEPT !.at = where]]

-----------------------------------------------------------------------------
\* Time

Tick ==
    /\ up /\ task.next = "future" /\ task' = [task EXCEPT !.next = "due"]
    /\ UNCHANGED <<rows, dispatch, editing, process, upsets, raced, echoed, swallowed>>

LeaseExpires ==
    /\ task.lease = "held" /\ task' = [task EXCEPT !.lease = "expired"]
    /\ UNCHANGED <<rows, dispatch, editing, process, upsets, raced, echoed, swallowed>>

-----------------------------------------------------------------------------
\* dispatch_task

\* run_once: claim_due_tasks, if the active rows leave a budget
Claim ==
    /\ up /\ dispatch["scheduled"].at = "idle" /\ Cardinality(ActiveRows) < Budget
    /\ task.next = "due"
    /\ \/ task.status = "enabled" /\ task.lease # "held"
       \/ task.status = "running" /\ task.lease = "expired"
    /\ task' = [task EXCEPT !.status = "running", !.lease = "held"]
    /\ dispatch' = [dispatch EXCEPT !["scheduled"] =
                      [at |-> "check", status |-> "running", row |-> 0]]
    /\ UNCHANGED <<rows, editing, process, upsets, raced, echoed, swallowed>>

\* trigger_scheduled_task reads the task and dispatches it, whatever its status
Trigger ==
    /\ up /\ dispatch["manual"].at = "idle" /\ upsets < MaxUpsets
    /\ upsets' = upsets + 1
    /\ dispatch' = [dispatch EXCEPT !["manual"] =
                      [at |-> "check", status |-> task.status, row |-> 0]]
    /\ UNCHANGED <<task, rows, editing, process, raced, echoed, swallowed>>

\* A bug: the overlap policy is not looked at.
CheckNothing(t) ==
    /\ dispatch[t].at = "check" /\ At(t, "create")
    /\ raced' = IF HasActiveRuns THEN raced
                ELSE \E u \in Triggers \ {t} : dispatch[u].at = "create"
    /\ UNCHANGED <<task, rows, editing, process, upsets, echoed, swallowed>>

\* overlap_policy "skip": a manual trigger is refused, an occurrence is skipped
CheckOverlap(t) ==
    /\ dispatch[t].at = "check"
    /\ At(t, CASE ~HasActiveRuns -> "create"
               [] HasActiveRuns /\ t = "manual" -> "idle"
               [] OTHER -> "createSkipped")
    /\ raced' = IF HasActiveRuns THEN raced
                ELSE \E u \in Triggers \ {t} : dispatch[u].at = "create"
    /\ UNCHANGED <<task, rows, editing, process, upsets, echoed, swallowed>>

CreateRow(t) ==
    /\ dispatch[t].at \in {"create", "createSkipped"}
    /\ \E i \in DOMAIN rows :
         /\ rows[i] = NoRow /\ \A j \in DOMAIN rows : rows[j] = NoRow => i <= j
         /\ rows' = [rows EXCEPT ![i] = [status |-> "queued", run |-> "none"]]
         /\ dispatch' = [dispatch EXCEPT ![t].row = i,
                           ![t].at = IF @ = "create" THEN "launch" ELSE "skip"]
    /\ UNCHANGED <<task, editing, process, upsets, raced, echoed, swallowed>>

SettleTask(status) == task' = [task EXCEPT !.status = status, !.next = NextRunAt, !.lease = "none"]

\* _finalize_skip: the row, then the task
SkipRow(t) ==
    /\ dispatch[t].at = "skip" /\ At(t, "skipTask")
    /\ rows' = [rows EXCEPT ![dispatch[t].row].status = "skipped"]
    /\ UNCHANGED <<task, editing, process, upsets, raced, echoed, swallowed>>

SkipTask(t) ==
    /\ dispatch[t].at = "skipTask" /\ At(t, "idle")
    /\ SettleTask(IF task.type = "once" THEN "failed" ELSE "enabled")
    /\ rows' = Tidy(rows, Held(t))
    /\ UNCHANGED <<editing, process, upsets, raced, echoed, swallowed>>

\* The thread is busy: an occurrence is skipped, a manual trigger has failed
LaunchConflicts(t) ==
    /\ dispatch[t].at = "launch" /\ At(t, IF t = "scheduled" THEN "skip" ELSE "failRow")
    /\ UNCHANGED <<task, rows, editing, process, upsets, raced, echoed, swallowed>>

LaunchRun(t) ==
    /\ dispatch[t].at = "launch"
    /\ rows' = [rows EXCEPT ![dispatch[t].row].run = "alive"]
    /\ At(t, "markRow")
    /\ UNCHANGED <<task, editing, process, upsets, raced, echoed, swallowed>>

\* update_status with protect_terminal: the run may have completed already
MarkRow(t) ==
    /\ dispatch[t].at = "markRow"
    /\ rows' = [rows EXCEPT ![dispatch[t].row].status = IF @ \in FinalRow THEN @ ELSE "running"]
    /\ At(t, "markTask")
    /\ UNCHANGED <<task, editing, process, upsets, raced, echoed, swallowed>>

\* update_after_launch with protect_terminal
MarkTask(t) ==
    /\ dispatch[t].at = "markTask"
    /\ SettleTask(CASE task.status \in TaskOver -> task.status
                [] task.status \notin TaskOver /\ task.type = "once" -> "running"
                [] task.status \notin TaskOver /\ task.type = "cron" ->
                     IF t = "manual" /\ dispatch[t].status = "paused" THEN "paused" ELSE "enabled")
    /\ rows' = Tidy(rows, Held(t)) /\ At(t, "idle")
    /\ UNCHANGED <<editing, process, upsets, raced, echoed, swallowed>>

\* The launch or one of the two writes after it raises: row and task are written off
LaunchRaises(t) ==
    /\ dispatch[t].at \in {"launch", "markRow", "markTask"} /\ At(t, "failRow")
    /\ upsets < MaxUpsets /\ upsets' = upsets + 1
    /\ UNCHANGED <<task, rows, editing, process, raced, echoed, swallowed>>

FailRow(t) ==
    /\ dispatch[t].at = "failRow" /\ At(t, "failTask")
    /\ rows' = [rows EXCEPT ![dispatch[t].row].status = "failed"]
    /\ UNCHANGED <<task, editing, process, upsets, raced, echoed, swallowed>>

\* A manual trigger writes the status back that it read at its start.
FailTask(t) ==
    /\ dispatch[t].at = "failTask" /\ At(t, "idle")
    /\ SettleTask(CASE t = "manual" -> dispatch[t].status
                [] t = "scheduled" /\ task.type = "once" -> "failed"
                [] OTHER -> "enabled")
    /\ echoed' = (echoed \/ (t = "manual" /\ dispatch[t].status = "running")
                       \/ (t = "manual" /\ dispatch[t].status # task.status))
    /\ rows' = Tidy(rows, Held(t))
    /\ UNCHANGED <<editing, process, upsets, raced, swallowed>>

\* Any other call of dispatch_task raises: _run_loop or the route gets the error,
\* row and task stay as they are.
DispatchRaises(t) ==
    /\ dispatch[t].at \in {"check", "create", "createSkipped", "skip", "skipTask",
                           "failRow", "failTask"}
    /\ upsets < MaxUpsets /\ upsets' = upsets + 1
    /\ At(t, "idle") /\ rows' = Tidy(rows, Held(t))
    /\ UNCHANGED <<task, editing, process, raced, echoed, swallowed>>

-----------------------------------------------------------------------------
\* handle_run_completion: the row first, then the once task

\* How a run ends; for a cron task the three make no difference
Outcome == {"success", "failed", "interrupted"}
Outcomes == IF task.type = "once" THEN Outcome ELSE {"success"}

CompleteRow(i) ==
    /\ rows[i].run = "alive"
    /\ \E final \in Outcomes :
         rows' = [rows EXCEPT ![i] = [status |-> final, run |-> final]]
    /\ UNCHANGED <<task, dispatch, editing, process, upsets, raced, echoed, swallowed>>

CompleteTask(i) ==
    /\ rows[i].run \in Outcome
    /\ rows' = Tidy([rows EXCEPT ![i].run = "over"], {dispatch[t].row : t \in Triggers})
    /\ task' = IF task.type = "cron" THEN task
               ELSE [task EXCEPT !.status = CASE rows[i].run = "success" -> "completed"
                                              [] rows[i].run = "interrupted" -> "cancelled"
                                              [] OTHER -> "failed"]
    /\ UNCHANGED <<dispatch, editing, process, upsets, raced, echoed, swallowed>>

\* A call of the completion hook raises: the run ends, the worker logs and goes on
CompletionRaises(i) ==
    /\ rows[i].run \in {"alive"} \cup Outcome /\ upsets < MaxUpsets /\ upsets' = upsets + 1
    /\ rows' = Tidy([rows EXCEPT ![i].run = "over"], {dispatch[t].row : t \in Triggers})
    /\ swallowed' = (swallowed \/ task.type = "once")
    /\ UNCHANGED <<task, dispatch, editing, process, raced, echoed>>

-----------------------------------------------------------------------------
\* The user's other requests.  A running task is not mutable.

Edit(status) ==
    /\ up /\ editing = "none" /\ task.status \notin {"running", status}
    /\ upsets < MaxUpsets /\ upsets' = upsets + 1
    /\ editing' = status
    /\ UNCHANGED <<task, rows, dispatch, process, raced, echoed, swallowed>>

EditWrites ==
    /\ editing # "none" /\ editing' = "none"
    /\ task' = [task EXCEPT !.status = editing]
    /\ echoed' = (echoed \/ task.status = "running"
                          \/ \E t \in Triggers : dispatch[t].at # "idle")
    /\ UNCHANGED <<rows, dispatch, process, upsets, raced, swallowed>>

-----------------------------------------------------------------------------
\* The process

Crash ==
    /\ process # "down" /\ upsets < MaxUpsets /\ process' = "down" /\ upsets' = upsets + 1
    /\ dispatch' = [t \in Triggers |-> NoDispatch] /\ editing' = "none"
    /\ rows' = Tidy([i \in DOMAIN rows |-> [rows[i] EXCEPT !.run = "over"]], {})
    /\ UNCHANGED <<task, raced, echoed, swallowed>>

\* start: mark_stale_active_runs, then cancel_stuck_once_tasks, then the poller
SweepRows ==
    /\ process = "down" /\ process' = "tasks"
    /\ rows' = Tidy([i \in DOMAIN rows |->
                  [rows[i] EXCEPT !.status = IF ActiveRow(i) THEN "interrupted" ELSE @]], {})
    /\ UNCHANGED <<task, dispatch, editing, upsets, raced, echoed, swallowed>>

\* A bug: start() leaves the tasks that were running as they are.
SweepNoTasks ==
    /\ process = "tasks" /\ process' = "up" /\ swallowed' = FALSE
    /\ UNCHANGED <<task, rows, dispatch, editing, upsets, raced, echoed>>

SweepTasks ==
    /\ process = "tasks" /\ process' = "up" /\ swallowed' = FALSE
    /\ task' = IF task.type = "once" /\ task.status = "running" /\ task.lease = "none"
               THEN [task EXCEPT !.status = "cancelled"] ELSE task
    /\ UNCHANGED <<rows, dispatch, editing, upsets, raced, echoed>>

\* A sweep raises: start() logs it and goes on
SweepRaises ==
    /\ process # "up" /\ upsets < MaxUpsets /\ upsets' = upsets + 1
    /\ process' = IF process = "down" THEN "tasks" ELSE "up"
    /\ swallowed' = (swallowed \/ (process = "tasks" /\ task.type = "once"))
    /\ UNCHANGED <<task, rows, dispatch, editing, raced, echoed>>

DispatchStep(t) ==
    \/ CheckOverlap(t) \/ CreateRow(t) \/ SkipRow(t) \/ SkipTask(t) \/ LaunchRun(t)
    \/ LaunchConflicts(t) \/ MarkRow(t) \/ MarkTask(t)
    \/ LaunchRaises(t) \/ FailRow(t) \/ FailTask(t) \/ DispatchRaises(t)

CompletionStep(i) == CompleteRow(i) \/ CompleteTask(i) \/ CompletionRaises(i)

StartStep == SweepRows \/ SweepTasks \/ SweepRaises

SchedNext ==
    \/ \E t \in Triggers : DispatchStep(t)
    \/ \E i \in 1 .. MaxRows : CompletionStep(i)
    \/ Tick \/ LeaseExpires \/ Claim \/ Trigger
    \/ \E status \in {"paused", "enabled"} : Edit(status)
    \/ EditWrites \/ Crash \/ StartStep

\* The poller claims what is due, leases run out, runs end, the process comes back
SchedFairness ==
    /\ \A t \in Triggers : WF_schedVars(DispatchStep(t))
    /\ \A i \in 1 .. MaxRows : WF_schedVars(CompletionStep(i))
    /\ WF_schedVars(EditWrites) /\ WF_schedVars(StartStep)
    /\ WF_schedVars(LeaseExpires) /\ WF_schedVars(Claim)

SchedSpec == SchedInit /\ [][SchedNext]_schedVars /\ SchedFairness

-----------------------------------------------------------------------------
SchedTypeOK ==
    /\ task \in [type : {"once", "cron"},
                 status : {"enabled", "running", "paused"} \cup TaskOver,
                 next : {"none", "future", "due"}, lease : {"none", "held", "expired"}]
    /\ \A i \in DOMAIN rows : rows[i].status \in {"queued", "running"} \cup FinalRow
                              /\ rows[i].run \in {"none", "alive", "over"} \cup Outcome
    /\ dispatch \in [Triggers -> [at : {"idle", "check", "create", "createSkipped", "launch",
                                        "skip", "skipTask", "markRow", "markTask",
                                        "failRow", "failTask"},
                                  status : {"enabled", "running", "paused"} \cup TaskOver,
                                  row : 0 .. MaxRows]]
    /\ process \in {"down", "tasks", "up"} /\ upsets \in 0 .. MaxUpsets

\* "skip" holds for fresh threads too: at most one run of the task is alive with
\* an active row, whatever raises or crashes, unless the two dispatches had both
\* passed the overlap check before either had its row.  (A live run whose row was written
\* off, because a write after its launch raised, is beyond the check's sight.)
NoOverlap ==
    \A i, j \in DOMAIN rows : i # j /\ Sighted(i) /\ Sighted(j) => raced

\* An active row that no dispatch and no run will ever settle
Abandoned(i) ==
    /\ ActiveRow(i) /\ rows[i].run \in {"none", "over"}
    /\ i \notin {dispatch[t].row : t \in Triggers}

\* A claimed or launched task does not stay "running", although any call may raise
\* and the process may crash at any point: its dispatch, its run's completion, the
\* expired lease or the next start moves it on.  Excepted are a once task whose
\* completion hook or whose sweep at startup raised (the worker and start() swallow
\* that, so it stays running until the next start), a task over whose status a
\* failed manual trigger, a pause or a resume wrote a stale one, and a poller whose
\* whole budget is taken by abandoned rows.
LeavesRunning ==
    task.status = "running" ~>
        \/ task.status # "running"
        \/ swallowed \/ echoed
        \/ Cardinality({i \in DOMAIN rows : Abandoned(i)}) >= Budget

=============================================================================
