------------------------------- MODULE MCRuns -------------------------------
(***************************************************************************)
(* The life of a run, one component per behaviour: focus, chosen in the    *)
(* initial state, says which of them takes its steps; the others rest in   *)
(* their initial states.  The components share no variable, so nothing is  *)
(* lost by looking at them one at a time.                                  *)
(***************************************************************************)
EXTENDS ThreadRuns, RunRows, StreamBridge, RunJournal, Scheduler, GoalLoop

VARIABLE focus

runsVars == <<focus, runVars, rowVars, bridgeVars, journalVars, schedVars, goalVars>>

RunsInit ==
    /\ focus \in {"thread", "rows", "stream", "journal", "scheduler", "goal"}
    /\ RunInit /\ RowInit /\ BridgeInit /\ JournalInit /\ SchedInit /\ GoalInit
    \* a component that rests has one initial state
    /\ focus = "stream" \/ kind = "memory"
    /\ focus = "scheduler" \/ task.type = "once"

RunsNext ==
    \/ /\ focus = "thread" /\ RunNext
       /\ UNCHANGED <<focus, rowVars, bridgeVars, journalVars, schedVars, goalVars>>
    \/ /\ focus = "rows" /\ RowNext
       /\ UNCHANGED <<focus, runVars, bridgeVars, journalVars, schedVars, goalVars>>
    \/ /\ focus = "stream" /\ BridgeNext
       /\ UNCHANGED <<focus, runVars, rowVars, journalVars, schedVars, goalVars>>
    \/ /\ focus = "journal" /\ JournalNext
       /\ UNCHANGED <<focus, runVars, rowVars, bridgeVars, schedVars, goalVars>>
    \/ /\ focus = "scheduler" /\ SchedNext
       /\ UNCHANGED <<focus, runVars, rowVars, bridgeVars, journalVars, goalVars>>
    \/ /\ focus = "goal" /\ GoalNext
       /\ UNCHANGED <<focus, runVars, rowVars, bridgeVars, journalVars, schedVars>>

\* The fairness of each component, asked of it when it is the one in focus.
RunsFairness ==
    /\ \A r \in Runs : WF_runVars(focus = "thread" /\ Step(r))
    /\ WF_rowVars(focus = "rows" /\ RowStep)
    /\ WF_bridgeVars(focus = "stream" /\ PublishEnd)
    /\ WF_bridgeVars(focus = "stream" /\ CleanUp)
    /\ \A c \in Clients : WF_bridgeVars(focus = "stream" /\ Serve(c))
    /\ \A t \in Triggers : WF_schedVars(focus = "scheduler" /\ DispatchStep(t))
    /\ \A i \in 1 .. MaxRows : WF_schedVars(focus = "scheduler" /\ CompletionStep(i))
    /\ WF_schedVars(focus = "scheduler" /\ EditWrites)
    /\ WF_schedVars(focus = "scheduler" /\ StartStep)
    /\ WF_schedVars(focus = "scheduler" /\ LeaseExpires)
    /\ WF_schedVars(focus = "scheduler" /\ Claim)

RunsSpec == RunsInit /\ [][RunsNext]_runsVars /\ RunsFairness

\* What the components keep at every moment: their types (a stream's window within
\* queue_maxsize), no run in the graph beside an older one, a final row for a
\* finished run whichever write landed last, no progress snapshot behind the
\* journal's flush, and the cap on a goal's turns.
RunsInvariant ==
    /\ RunsTypeOK /\ RowTypeOK /\ BridgeTypeOK
    /\ JournalTypeOK /\ SchedTypeOK /\ GoalTypeOK
    /\ Serialised /\ RowSettles /\ QuietAfterFlush /\ ContinuationsBounded

=============================================================================
