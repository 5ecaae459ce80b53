------------------------------ MODULE Subagents ------------------------------
(***************************************************************************)
(* Background subagents: the process-wide registry _background_tasks, the  *)
(* scheduler pool whose workers wait for the subagent's coroutine with a   *)
(* timeout, the coroutine on the isolated loop, and the task tool of the   *)
(* parent run, which polls the registry, reports the tokens used to the    *)
(* parent's journal and removes the entry.  Coroutine, pool worker and     *)
(* poller are three threads that share one SubagentResult without a common *)
(* lock: only try_set_terminal takes the result's own.                     *)
(***************************************************************************)
EXTENDS Naturals, Sequences, FiniteSets

CONSTANTS Tasks,      \* task tool calls, named by their tool_call_id
          Workers,    \* max_workers of _scheduler_pool
          MaxPolls    \* max_poll_count: polls before the tool gives up

ASSUME SubagentAssumption ==
    /\ IsFiniteSet(Tasks)
    /\ Workers \in Nat \ {0}
    /\ MaxPolls \in Nat

VARIABLES
    registry,  \* the ids in _background_tasks
    status,    \* SubagentResult.status
    final,     \* the fields try_set_terminal writes before the status
    stop,      \* cancel_event is set
    pool,      \* the queue of _scheduler_pool
    runner,    \* run_task, on a pool worker
    body,      \* _aexecute, on the isolated loop
    tool,      \* the task tool call
    polls,     \* polls of the call, then of its deferred cleanup; 0 when over
    journal,   \* usage reached the parent's journal
    answer     \* what the tool call returned

subVars == <<registry, status, final, stop, pool, runner, body, tool, polls,
             journal, answer>>

Ended == {"completed", "failed", "cancelled", "timed_out"}

\* SubagentResult: nothing written yet, or the terminal status being written
\* with whether token usage records came with it.
Unwritten == [to |-> "none", usage |-> FALSE]

SubTypeOK ==
    /\ registry \subseteq Tasks
    /\ status \in [Tasks -> {"none", "pending", "running"} \cup Ended]
    /\ final \in [Tasks -> [to : {"none"} \cup Ended, usage : BOOLEAN]]
    /\ stop \in [Tasks -> BOOLEAN]
    /\ pool \in Seq(Tasks)
    /\ runner \in [Tasks -> {"none", "queued", "waiting", "timeout", "kill",
                              "done"}]
    /\ body \in [Tasks -> {"none", "ready", "streaming", "done"}]
    /\ tool \in [Tasks -> {"none", "polling", "draining", "deferred", "over"}]
    /\ polls \in [Tasks -> 0 .. MaxPolls + 1]
    /\ journal \in [Tasks -> BOOLEAN]
    /\ answer \in [Tasks -> {"none", "raised", "polling_timed_out"} \cup Ended]

SubInit ==
    /\ registry = {}
    /\ status = [t \in Tasks |-> "none"]
    /\ final = [t \in Tasks |-> Unwritten]
    /\ stop = [t \in Tasks |-> FALSE]
    /\ pool = <<>>
    /\ runner = [t \in Tasks |-> "none"]
    /\ body = [t \in Tasks |-> "none"]
    /\ tool = [t \in Tasks |-> "none"]
    /\ polls = [t \in Tasks |-> 0]
    /\ journal = [t \in Tasks |-> FALSE]
    /\ answer = [t \in Tasks |-> "none"]

----------------------------------------------------------------------------
\* A writer is between the payload and the status, and holds the lock.
Writing(t) == final[t].to # "none" /\ status[t] \notin Ended

\* A bug: the status is published before the payload it announces.
TrySetTerminalStatusFirst(t, s, usage) ==
    /\ ~Writing(t)
    /\ IF status[t] \in Ended
       THEN UNCHANGED <<final, status>>
       ELSE /\ final' = [final EXCEPT ![t].to = s]
            /\ status' = [status EXCEPT ![t] = s]

\* SubagentResult.try_set_terminal, under the result's lock.  The payload and
\* completed_at are assigned first and the status last, in a step of its own:
\* the poller reads the result without the lock.
TrySetTerminal(t, s, usage) ==
    /\ ~Writing(t)
    /\ IF status[t] \in Ended
       THEN UNCHANGED <<final, status>>
       ELSE /\ final' = [final EXCEPT ![t] = [to |-> s, usage |-> usage]]
            /\ UNCHANGED status

\* The last assignment of try_set_terminal: self.status = status.
PublishStatus(t) ==
    /\ Writing(t)
    /\ status' = [status EXCEPT ![t] = final[t].to]
    /\ UNCHANGED <<registry, final, stop, pool, runner, body, tool, polls,
                   journal, answer>>

\* task_tool up to its polling loop, and execute_async: the entry is
\* registered as pending and run_task queued on the pool.
Call(t) ==
    /\ tool[t] = "none"
    /\ tool' = [tool EXCEPT ![t] = "polling"]
    /\ registry' = registry \cup {t}
    /\ status' = [status EXCEPT ![t] = "pending"]
    /\ pool' = Append(pool, t)
    /\ runner' = [runner EXCEPT ![t] = "queued"]
    /\ UNCHANGED <<final, stop, body, polls, journal, answer>>

\* An unknown subagent type, or bash where the host's shell is not allowed.
Refuse(t) ==
    /\ tool[t] = "none"
    /\ tool' = [tool EXCEPT ![t] = "over"]
    /\ answer' = [answer EXCEPT ![t] = "failed"]
    /\ UNCHANGED <<registry, status, final, stop, pool, runner, body, polls,
                   journal>>

\* run_task starts on a free worker: the entry is running whatever it was, and
\* the coroutine is handed to the isolated loop.
StartTask(t) ==
    /\ pool # <<>> /\ Head(pool) = t
    /\ Cardinality({u \in Tasks : runner[u] \in {"waiting", "timeout", "kill"}})
         < Workers
    /\ t \in registry
    /\ pool' = Tail(pool)
    /\ status' = [status EXCEPT ![t] = "running"]
    /\ runner' = [runner EXCEPT ![t] = "waiting"]
    /\ body' = [body EXCEPT ![t] = "ready"]
    /\ UNCHANGED <<registry, final, stop, tool, polls, journal, answer>>

\* The isolated loop cannot be started or does not take the coroutine.
SubmitRaises(t) ==
    /\ runner[t] = "waiting"
    /\ body[t] = "ready"
    /\ TrySetTerminal(t, "failed", FALSE)
    /\ body' = [body EXCEPT ![t] = "done"]
    /\ UNCHANGED <<registry, stop, pool, runner, tool, polls, journal, answer>>

\* execution_future.result timed out: run_task sets the cancel event, and
\* goes on to record the timeout.
TimesOut(t) ==
    /\ runner[t] = "waiting"
    /\ body[t] # "done" \/ Writing(t)
    /\ stop' = [stop EXCEPT ![t] = TRUE]
    /\ runner' = [runner EXCEPT ![t] = "timeout"]
    /\ UNCHANGED <<registry, status, final, pool, body, tool, polls, journal,
                   answer>>

\* A bug: the branch cancels the future and records nothing.
RecordTimeoutNever(t) ==
    /\ runner[t] = "timeout"
    /\ runner' = [runner EXCEPT ![t] = "kill"]
    /\ UNCHANGED <<registry, status, final, stop, pool, body, tool, polls,
                   journal, answer>>

\* The rest of the timeout branch: TIMED_OUT carries no usage records.
RecordTimeout(t) ==
    /\ runner[t] = "timeout"
    /\ TrySetTerminal(t, "timed_out", FALSE)
    /\ runner' = [runner EXCEPT ![t] = "kill"]
    /\ UNCHANGED <<registry, stop, pool, body, tool, polls, journal, answer>>

\* execution_future.cancel(), and the worker is free; the coroutine may still
\* be on its way.
KillFuture(t) ==
    /\ runner[t] = "kill"
    /\ ~Writing(t)
    /\ runner' = [runner EXCEPT ![t] = "done"]
    /\ UNCHANGED <<registry, status, final, stop, pool, body, tool, polls,
                   journal, answer>>

\* _aexecute meets the CancelledError at an await, and no handler records it.
Killed(t) ==
    /\ runner[t] = "done"
    /\ body[t] \in {"ready", "streaming"}
    /\ body' = [body EXCEPT ![t] = "done"]
    /\ UNCHANGED <<registry, status, final, stop, pool, runner, tool, polls,
                   journal, answer>>

\* The coroutine returned in time, and the pool worker is free again.
RunnerReturns(t) ==
    /\ runner[t] = "waiting"
    /\ body[t] = "done"
    /\ ~Writing(t)
    /\ runner' = [runner EXCEPT ![t] = "done"]
    /\ UNCHANGED <<registry, status, final, stop, pool, body, tool, polls,
                   journal, answer>>

\* _build_initial_state loads the skills and filters the tools: it may raise,
\* before the token collector exists.
BuildRaises(t) == TrySetTerminal(t, "failed", FALSE)

\* _aexecute up to the stream, with the check for a cancel that came before it.
BeginStream(t) ==
    /\ body[t] = "ready"
    /\ \/ /\ ~stop[t]
          /\ body' = [body EXCEPT ![t] = "streaming"]
          /\ UNCHANGED <<final, status>>
       \/ /\ BuildRaises(t) \/ (stop[t] /\ TrySetTerminal(t, "cancelled", FALSE))
          /\ body' = [body EXCEPT ![t] = "done"]
    /\ UNCHANGED <<registry, stop, pool, runner, tool, polls, journal, answer>>

\* The stream ends: a chunk that finds the cancel event set, the final answer
\* (or the partial one of a run out of turns), or an error.  Every one of them
\* records the collector's snapshot.
EndStream(t) ==
    /\ body[t] = "streaming"
    /\ \/ stop[t] /\ TrySetTerminal(t, "cancelled", TRUE)
       \/ TrySetTerminal(t, "completed", TRUE)
       \/ TrySetTerminal(t, "failed", TRUE)
    /\ body' = [body EXCEPT ![t] = "done"]
    /\ UNCHANGED <<registry, stop, pool, runner, tool, polls, journal, answer>>

----------------------------------------------------------------------------
\* _is_subagent_terminal: the status, or completed_at which is set before it.
IsTerminal(t) == status[t] \in Ended \/ final[t].to # "none"

\* _report_subagent_usage: once, and only what has been recorded.
Report(t) == journal' = [journal EXCEPT ![t] = @ \/ final[t].usage]

\* One turn of the task tool's polling loop that finds the task over.  Only
\* this call removes its entry, so "Task disappeared" is never the answer.
PollEnded(t) ==
    /\ tool[t] = "polling"
    /\ t \in registry
    /\ status[t] \in Ended
    /\ Report(t)
    /\ registry' = registry \ {t}
    /\ tool' = [tool EXCEPT ![t] = "over"]
    /\ answer' = [answer EXCEPT ![t] = status[t]]
    /\ polls' = [polls EXCEPT ![t] = 0]
    /\ UNCHANGED <<status, final, stop, pool, runner, body>>

\* A turn that finds it pending or running, and sleeps.
PollAgain(t) ==
    /\ tool[t] = "polling"
    /\ t \in registry
    /\ status[t] \notin Ended
    /\ polls[t] < MaxPolls
    /\ polls' = [polls EXCEPT ![t] = @ + 1]
    /\ UNCHANGED <<registry, status, final, stop, pool, runner, body, tool,
                   journal, answer>>

\* The turn that exceeds max_poll_count: usage so far, cancel, and a deferred
\* cleanup that polls from zero.
PollingTimesOut(t) ==
    /\ tool[t] = "polling"
    /\ t \in registry
    /\ status[t] \notin Ended
    /\ polls[t] = MaxPolls
    /\ Report(t)
    /\ stop' = [stop EXCEPT ![t] = TRUE]
    /\ tool' = [tool EXCEPT ![t] = "deferred"]
    /\ polls' = [polls EXCEPT ![t] = 0]
    /\ answer' = [answer EXCEPT ![t] = "polling_timed_out"]
    /\ UNCHANGED <<registry, status, final, pool, runner, body>>

\* The parent run is cancelled while the tool sleeps: request_cancel, then the
\* shielded wait for a terminal status.
ParentCancels(t) ==
    /\ tool[t] = "polling"
    /\ tool' = [tool EXCEPT ![t] = "draining"]
    /\ polls' = [polls EXCEPT ![t] = 0]
    /\ stop' = [stop EXCEPT ![t] = @ \/ t \in registry]
    /\ UNCHANGED <<registry, status, final, pool, runner, body, journal, answer>>

\* The wait ends: the task is over, or the polls are used up, or a second
\* cancellation interrupts it.  Then the usage is reported and the entry
\* removed, now or by the deferred cleanup, and CancelledError is raised.
DrainEnds(t) ==
    /\ tool[t] = "draining"
    /\ Report(t)
    /\ IF IsTerminal(t)
       THEN /\ registry' = registry \ {t}
            /\ tool' = [tool EXCEPT ![t] = "over"]
       ELSE /\ tool' = [tool EXCEPT ![t] = "deferred"]
            /\ UNCHANGED registry
    /\ answer' = [answer EXCEPT ![t] = "raised"]
    /\ UNCHANGED <<status, final, stop, pool, runner, body, polls>>

\* _deferred_cleanup_subagent_task: remove a terminal entry, sleep, or give up.
DeferredCleanup(t) ==
    /\ tool[t] = "deferred"
    /\ \/ /\ IsTerminal(t)
          /\ registry' = registry \ {t}
          /\ tool' = [tool EXCEPT ![t] = "over"]
          /\ polls' = [polls EXCEPT ![t] = 0]
       \/ /\ ~IsTerminal(t)
          /\ polls[t] < MaxPolls
          /\ polls' = [polls EXCEPT ![t] = @ + 1]
          /\ UNCHANGED <<registry, tool>>
       \/ /\ ~IsTerminal(t)
          /\ polls[t] = MaxPolls
          /\ tool' = [tool EXCEPT ![t] = "over"]
          /\ polls' = [polls EXCEPT ![t] = 0]
          /\ UNCHANGED registry
    /\ UNCHANGED <<status, final, stop, pool, runner, body, journal, answer>>

SubNext ==
    \E t \in Tasks :
        \/ Call(t) \/ Refuse(t) \/ StartTask(t) \/ SubmitRaises(t)
        \/ PublishStatus(t)
        \/ TimesOut(t) \/ RecordTimeout(t) \/ KillFuture(t) \/ Killed(t)
        \/ RunnerReturns(t) \/ BeginStream(t) \/ EndStream(t)
        \/ PollEnded(t) \/ PollAgain(t) \/ PollingTimesOut(t)
        \/ ParentCancels(t) \/ DrainEnds(t) \/ DeferredCleanup(t)

RunnerGoes(t) == TimesOut(t) \/ RecordTimeout(t) \/ KillFuture(t) \/ RunnerReturns(t)
Polls(t) == PollEnded(t) \/ PollAgain(t) \/ PollingTimesOut(t)

\* The pool, the wait with a timeout and the polling loop always go on.  The
\* coroutine need not: it may hang in a tool call, and only its timeout ends it.
SubFairness ==
    \A t \in Tasks :
        /\ WF_subVars(StartTask(t))
        /\ WF_subVars(PublishStatus(t))
        /\ WF_subVars(RunnerGoes(t))
        /\ WF_subVars(Polls(t))
        /\ WF_subVars(DrainEnds(t))
        /\ WF_subVars(DeferredCleanup(t))

SubSpec == SubInit /\ [][SubNext]_subVars /\ SubFairness

----------------------------------------------------------------------------
(* Properties                                                              *)

\* A parent that is told a streamed subagent ended has its tokens in its own
\* journal, although the poller reads the result without the result's lock.
TokensReachParent ==
    \A t \in Tasks : answer[t] = "completed" => journal[t]

\* Every accepted task gets a terminal status, also behind a full pool and a
\* coroutine that never returns: _background_tasks never waits on it for ever.
TaskSettles ==
    \A t \in Tasks : (status[t] = "pending") ~> (status[t] \in Ended)

============================================================================
