------------------------------ MODULE GoalLoop ------------------------------
(***************************************************************************)
(* The hidden goal turns of a run: after each turn the goal of the thread  *)
(* is evaluated by a model, and the run goes on, stands down or clears the *)
(* goal (_prepare_goal_continuation_input), while the user may set or      *)
(* clear the goal and edit the thread.  The goal lives in the checkpoint.  *)
(* Goal writes take goal_thread_lock; a graph turn and POST /state write   *)
(* the whole checkpoint from what they read before, without the lock.      *)
(***************************************************************************)
EXTENDS Naturals

CONSTANTS
    MaxContinuations,   \* max_continuations of every goal
    MaxNoProgress,      \* max_no_progress_continuations
    MaxEdits            \* bound: goals set or cleared and states posted

ASSUME GoalBounds == MaxContinuations \in Nat /\ MaxNoProgress \in Nat /\ MaxEdits \in Nat

VARIABLES
    ckpt,       \* the latest checkpoint: id, goal, visible conversation, last answer
    phase,      \* where the worker stands
    seen,       \* the checkpoint the evaluation is about
    verdict,    \* what the evaluator model said
    plan,       \* the goal write the worker is about to make
    base,       \* the checkpoint a goal write has read under the lock
    posting,    \* the checkpoint a POST /state has read, NoGoal when none
    chosen,     \* the goal the user chose last, 0 for none (history)
    lost,       \* a whole-checkpoint write put an older goal back (history)
    turns,      \* continuation turns run for each goal (history)
    edits

goalVars == <<ckpt, phase, seen, verdict, plan, base, posting, chosen, lost, turns, edits>>

\* gen stands for objective and created_at; key for the last progress_key
NoGoal == [gen |-> 0, count |-> 0, stalled |-> 0, key |-> <<>>]
NoPlan == [write |-> "none", count |-> 0, stalled |-> 0, next |-> "over"]
NoCkpt == [id |-> 0, goal |-> NoGoal, talk |-> 0, answer |-> 0]

Verdicts == {"satisfied", "goal_not_met_yet", "blocked", "run_failed"}

GoalInit ==
    /\ ckpt = [NoCkpt EXCEPT !.goal = [NoGoal EXCEPT !.gen = 1]]
    /\ phase = "idle" /\ seen = NoCkpt /\ verdict = "none" /\ plan = NoPlan
    /\ base = NoCkpt /\ posting = NoCkpt
    /\ chosen = 1 /\ lost = FALSE /\ turns = [g \in 1 .. MaxEdits + 1 |-> 0] /\ edits = 0

LockFree == phase \notin {"checking", "putting"}
Matches(left, right) == left.gen # 0 /\ left.gen = right.gen

-----------------------------------------------------------------------------
\* The user

\* PUT and DELETE of the goal, under the lock
SetGoal(gen) ==
    /\ edits < MaxEdits /\ LockFree
    /\ gen \in {0, edits + 2}
    /\ ckpt' = [ckpt EXCEPT !.id = @ + 1, !.goal = [NoGoal EXCEPT !.gen = gen]]
    /\ chosen' = gen /\ edits' = edits + 1
    /\ UNCHANGED <<phase, seen, verdict, plan, base, posting, lost, turns>>

\* update_thread_state reads the latest checkpoint ...
PostReads ==
    /\ edits < MaxEdits /\ posting = NoCkpt
    /\ posting' = ckpt /\ edits' = edits + 1
    /\ UNCHANGED <<ckpt, phase, seen, verdict, plan, base, chosen, lost, turns>>

\* ... and writes it back with its values merged in: here, another message
PostWrites ==
    /\ posting # NoCkpt
    /\ ckpt' = [posting EXCEPT !.id = ckpt.id + 1, !.talk = @ + 1]
    /\ lost' = (lost \/ posting.goal # ckpt.goal)
    /\ posting' = NoCkpt
    /\ UNCHANGED <<phase, seen, verdict, plan, base, chosen, turns, edits>>

-----------------------------------------------------------------------------
\* The turns.  base is free then: it keeps what the graph loaded.

BeginTurn ==
    /\ phase \in {"idle", "continue"}
    /\ phase' = "turn" /\ base' = ckpt
    /\ turns' = IF phase = "continue" THEN [turns EXCEPT ![seen.goal.gen] = @ + 1] ELSE turns
    /\ UNCHANGED <<ckpt, seen, verdict, plan, posting, chosen, lost, edits>>

\* The graph checkpoints what it holds, with a new visible answer or without
EndTurn ==
    /\ phase = "turn"
    /\ \E new \in {0, 1} :
         ckpt' = [base EXCEPT !.id = ckpt.id + 1, !.talk = @ + new,
                              !.answer = IF new = 1 THEN 1 - @ ELSE @]
    /\ lost' = (lost \/ base.goal # ckpt.goal)
    /\ phase' = "start" /\ base' = NoCkpt
    /\ UNCHANGED <<seen, verdict, plan, posting, chosen, turns, edits>>

-----------------------------------------------------------------------------
\* _prepare_goal_continuation_input

\* compute_no_progress_count: the same blocker over the same visible answer
NoProgress(said) ==
    IF said # "satisfied" /\ seen.goal.key = <<said, seen.answer>>
    THEN seen.goal.stalled + 1 ELSE 0

EndLoop == phase' = "over" /\ plan' = NoPlan

\* A goal write is planned: evaluation only, a counted continuation, or a clear
PlanWrite(write, said, next) ==
    /\ phase' = "locking"
    /\ plan' = [write |-> write, count |-> seen.goal.count + 1,
                stalled |-> NoProgress(said), next |-> next]

ReadGoal ==
    /\ phase = "start"
    /\ IF ckpt.goal.gen = 0 THEN phase' = "over" ELSE phase' = "evaluating"
    /\ seen' = ckpt
    /\ UNCHANGED <<ckpt, verdict, plan, base, posting, chosen, lost, turns, edits>>

\* The evaluator answers; or the turn left no durable receipt; or it fails
Evaluate ==
    /\ phase = "evaluating"
    /\ \/ /\ verdict' \in {"satisfied", "goal_not_met_yet", "blocked"}
          /\ phase' = "recheck" /\ UNCHANGED plan
       \/ verdict' = "run_failed" /\ PlanWrite("note", "run_failed", "over")
       \/ EndLoop /\ UNCHANGED verdict
    /\ UNCHANGED <<ckpt, seen, base, posting, chosen, lost, turns, edits>>

\* _stand_down_reason and should_continue_goal
StandsDown ==
    \/ verdict # "goal_not_met_yet"
    \/ seen.goal.count >= MaxContinuations
    \/ NoProgress(verdict) >= MaxNoProgress

\* Goal and conversation are read again after the evaluation
Recheck ==
    /\ phase = "recheck"
    /\ CASE ~Matches(seen.goal, ckpt.goal) -> EndLoop
         [] Matches(seen.goal, ckpt.goal) /\ ckpt.id # seen.id ->
              PlanWrite("note", verdict, "over")
         [] ckpt = seen /\ verdict = "satisfied" -> PlanWrite("clear", verdict, "over")
         [] ckpt = seen /\ verdict # "satisfied" /\ StandsDown ->
              PlanWrite("note", verdict, "over")
         [] OTHER -> PlanWrite("count", verdict, "guard")
    /\ UNCHANGED <<ckpt, seen, verdict, base, posting, chosen, lost, turns, edits>>

\* A bug: the evaluation is written whatever goal the thread has by now.
PersistReadsAny ==
    /\ phase = "locking"
    /\ phase' = "checking" /\ base' = ckpt
    /\ UNCHANGED <<ckpt, seen, verdict, plan, posting, chosen, lost, turns, edits>>

\* _persist_goal_evaluation: under the lock, the goal must be the same instance
PersistReads ==
    /\ phase = "locking"
    /\ IF Matches(seen.goal, ckpt.goal)
         THEN phase' = "checking" /\ base' = ckpt /\ UNCHANGED plan
         ELSE EndLoop /\ UNCHANGED base
    /\ UNCHANGED <<ckpt, seen, verdict, posting, chosen, lost, turns, edits>>

\* write_thread_goal reads again; another checkpoint id is a GoalWriteConflict
PersistChecks ==
    /\ phase = "checking"
    /\ IF ckpt.id = base.id THEN phase' = "putting" /\ UNCHANGED <<plan, base>>
                            ELSE EndLoop /\ base' = NoCkpt
    /\ UNCHANGED <<ckpt, seen, verdict, posting, chosen, lost, turns, edits>>

\* attach_goal_evaluation over the goal read, then aput
Attached ==
    IF plan.write = "clear" THEN NoGoal
    ELSE [base.goal EXCEPT !.stalled = plan.stalled, !.key = <<verdict, seen.answer>>,
                           !.count = IF plan.write = "count" THEN plan.count ELSE @]

PersistPuts ==
    /\ phase = "putting"
    /\ ckpt' = [base EXCEPT !.id = ckpt.id + 1, !.goal = Attached]
    /\ phase' = plan.next /\ plan' = NoPlan /\ base' = NoCkpt
    /\ UNCHANGED <<seen, verdict, posting, chosen, lost, turns, edits>>

\* The last look before the continuation: same goal, same visible conversation
Guard ==
    /\ phase = "guard"
    /\ IF ~Matches(seen.goal, ckpt.goal) THEN EndLoop
       ELSE IF ckpt.talk # seen.talk THEN PlanWrite("count", verdict, "over")
       ELSE phase' = "continue" /\ UNCHANGED plan
    /\ UNCHANGED <<ckpt, seen, verdict, base, posting, chosen, lost, turns, edits>>

WorkerStep ==
    \/ BeginTurn \/ EndTurn \/ ReadGoal \/ Evaluate \/ Recheck
    \/ PersistReads \/ PersistChecks \/ PersistPuts \/ Guard

GoalNext ==
    \/ WorkerStep \/ PostReads \/ PostWrites
    \/ \E gen \in 0 .. MaxEdits + 1 : SetGoal(gen)

GoalSpec == GoalInit /\ [][GoalNext]_goalVars

-----------------------------------------------------------------------------
GoalTypeOK ==
    /\ phase \in {"idle", "turn", "start", "evaluating", "recheck", "locking",
                  "checking", "putting", "guard", "continue", "over"}
    /\ verdict \in Verdicts \cup {"none"}
    /\ plan.write \in {"none", "note", "count", "clear"}
    /\ chosen \in 0 .. MaxEdits + 1 /\ lost \in BOOLEAN /\ edits \in 0 .. MaxEdits
    /\ \A c \in {ckpt, seen, base, posting} : c.id \in Nat /\ c.goal.gen \in 0 .. MaxEdits + 1

\* "A user message or /goal clear racing the evaluation must win": an evaluation
\* write that lands is about the goal the user chose last, unless a
\* whole-checkpoint write had put an older goal back.
UserGoalWins == [][phase = "putting" /\ ckpt' # ckpt => seen.goal.gen = chosen \/ lost]_goalVars

\* No goal gets more hidden turns than its cap, unless an older goal, with its
\* older count, was put back.
ContinuationsBounded == \A g \in DOMAIN turns : turns[g] <= MaxContinuations \/ lost
=============================================================================
