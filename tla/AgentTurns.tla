----------------------------- MODULE AgentTurns -----------------------------
(***************************************************************************)
(* The loop of an agent between its model and its tools, as the            *)
(* middlewares of build_middlewares shape it: summarization and the todo    *)
(* reminder before the model, the repair of dangling tool calls in the      *)
(* request, then, on the answer, the safety filter, the token budget, the   *)
(* subagent limit and the todo list, in that order.  A run may be cancelled *)
(* between any two of them; what it kept is its last checkpoint.  Loop      *)
(* detection has a module of its own.  Warnings and hints are extra         *)
(* messages at the end of one request and left out; an answer costs one     *)
(* token.                                                                   *)
(***************************************************************************)
EXTENDS Naturals, Sequences, FiniteSets, SequencesExt, Filters

CONSTANTS Replies,       \* what a model may answer: the names of its tool calls
          MaxReplies,    \* bound: answers in all runs
          MaxChatRuns,   \* bound: runs of the thread
          MaxCompacts,   \* bound: manual compactions
          TokenLimit,    \* hard_stop_threshold * max_tokens
          MaxNudges,     \* _MAX_COMPLETION_REMINDERS
          MaxTasks       \* max_concurrent subagent calls

ASSUME TurnsAssumption ==
    /\ {MaxReplies, MaxChatRuns, MaxCompacts, MaxNudges} \subseteq Nat
    /\ {TokenLimit, MaxTasks} \subseteq Nat \ {0}
    /\ Replies \subseteq Seq({"work", "task", "todos", "ask", "broken"})

VARIABLES
    chat,      \* the thread's messages and todos in the run
    saved,     \* the thread's last checkpoint
    at,        \* the node of the graph the run is at
    spent,     \* tokens of the run
    capped,    \* the budget's stop reason
    nudges,    \* completion reminders of the run
    ran,       \* tool calls that have been executed
    counts,    \* runs, answers, compactions so far
    compact,   \* the checkpoint a manual compaction has read
    filtered,  \* tool calls of answers the provider cut off (history)
    since      \* answers since the budget's stop (history)

turnVars == <<chat, saved, at, spent, capped, nudges, ran, counts, compact, filtered, since>>

Human == [type |-> "human", calls |-> <<>>]
TodoReminder == [type |-> "reminder", calls |-> <<>>]
AI(calls) == [type |-> "ai", calls |-> calls]
\* A ToolMessage; placeholder is the synthetic answer to a call without one.
ToolResult(call) == [type |-> "tool", calls |-> <<call>>]
Placeholder(call) == [type |-> "placeholder", calls |-> <<call>>]
EmptyThread == [msgs |-> <<>>, todos |-> "none"]
Unread == [msgs |-> <<>>, todos |-> "unread"]

TurnsTypeOK ==
    /\ chat.todos \in {"none", "open", "done"} /\ saved.todos \in {"none", "open", "done"}
    /\ at \in {"idle", "summarize", "remind", "asking", "safety", "budget", "limit", "todo",
               "route", "tools"}
    /\ spent \in 0 .. MaxReplies /\ capped \in BOOLEAN /\ nudges \in 0 .. MaxNudges
    /\ ran \subseteq (1 .. MaxReplies) \X Nat
    /\ counts \in [runs : 0 .. MaxChatRuns, replies : 0 .. MaxReplies, compacts : 0 .. MaxCompacts]
    /\ since \in 0 .. MaxReplies

TurnsInit ==
    /\ chat = EmptyThread /\ saved = EmptyThread /\ at = "idle"
    /\ spent = 0 /\ capped = FALSE /\ nudges = 0
    /\ ran = {} /\ filtered = {} /\ since = 0
    /\ counts = [runs |-> 0, replies |-> 0, compacts |-> 0]
    /\ compact = Unread

\* A node of the graph ends: what it returns is in the next checkpoint.
SavesThread(thread, next) ==
    /\ saved' = thread
    /\ chat' = IF next = "idle" THEN EmptyThread ELSE thread
    /\ at' = next
Saves(msgs, next) == SavesThread([chat EXCEPT !.msgs = msgs], next)

Messages == chat.msgs
LastAI == Messages[CHOOSE i \in DOMAIN Messages :
             Messages[i].type = "ai" /\ \A j \in DOMAIN Messages : Messages[j].type = "ai" => j <= i]
\* tool_calls come first; the others are invalid_tool_calls.
Valid(calls) == Kept(calls, {c \in Members(calls) : c.name # "broken"})
Invalid(calls) == Kept(calls, {c \in Members(calls) : c.name = "broken"})
Has(msgs, type) == \E i \in DOMAIN msgs : msgs[i].type = type
Named(calls, name) == Kept(calls, {c \in Members(calls) : c.name = name})
\* The answer replaced in place, under its id.
Rewritten(calls) == [Messages EXCEPT ![Len(Messages)] = AI(calls)]

-----------------------------------------------------------------------------
\* A user message starts a run: budget and reminders of other runs do not count.
StartChat ==
    /\ at = "idle" /\ counts.runs < MaxChatRuns
    /\ SavesThread([saved EXCEPT !.msgs = Append(@, Human)], "summarize")
    /\ spent' = 0 /\ capped' = FALSE /\ nudges' = 0 /\ since' = 0
    /\ counts' = [counts EXCEPT !.runs = @ + 1]
    /\ UNCHANGED <<ran, compact, filtered>>

\* Where summarization may cut: never between an answer and its results.
Cuts(msgs) == {k \in 1 .. Len(msgs) - 1 : msgs[k + 1].type # "tool"}
After(msgs, k) == SubSeq(msgs, k + 1, Len(msgs))

\* before_model: old messages become a summary, or there is no need, or no summary.
Summarized ==
    /\ at = "summarize"
    /\ \/ Saves(Messages, "remind")
       \/ \E k \in Cuts(Messages) : Saves(After(Messages, k), "remind")
    /\ UNCHANGED <<spent, capped, nudges, ran, counts, compact, filtered, since>>

TodosShown(msgs) ==
    \/ Has(msgs, "reminder")
    \/ \E i \in DOMAIN msgs : msgs[i].type = "ai" /\ Named(msgs[i].calls, "todos") # <<>>

\* before_model of the todo list, registered after summarization.
Reminds ==
    /\ at = "remind"
    /\ Saves(IF chat.todos # "none" /\ ~TodosShown(Messages)
             THEN Append(Messages, TodoReminder) ELSE Messages, "asking")
    /\ UNCHANGED <<spent, capped, nudges, ran, counts, compact, filtered, since>>

\* Mutant of Patched: malformed calls are not seen.
PatchedValid(msgs) ==
    LET called == UNION {{c.id : c \in Members(Valid(msgs[i].calls))} :
                            i \in {k \in DOMAIN msgs : msgs[k].type = "ai"}}
        results(id) == Kept(msgs, {m \in Members(msgs) : m.type = "tool" /\ m.calls[1].id = id})
        answer(c) == IF results(c.id) # <<>> THEN Head(results(c.id)) ELSE Placeholder(c)
        part(m) == IF m.type = "ai"
                   THEN <<m>> \o [j \in DOMAIN Valid(m.calls) |-> answer(Valid(m.calls)[j])]
                   ELSE IF m.type = "tool" /\ m.calls[1].id \in called THEN <<>>
                   ELSE <<m>>
    IN  FlattenSeq([i \in DOMAIN msgs |-> part(msgs[i])])

\* _build_patched_messages: every call of an answer, valid or not, is followed by its
\* result or a placeholder; results of no known call stay where they are.
Patched(msgs) ==
    LET called == UNION {{c.id : c \in Members(msgs[i].calls)} :
                            i \in {k \in DOMAIN msgs : msgs[k].type = "ai"}}
        results(id) == Kept(msgs, {m \in Members(msgs) : m.type = "tool" /\ m.calls[1].id = id})
        answer(c) == IF results(c.id) # <<>> THEN Head(results(c.id)) ELSE Placeholder(c)
        part(m) == IF m.type = "ai" THEN <<m>> \o [j \in DOMAIN m.calls |-> answer(m.calls[j])]
                   ELSE IF m.type = "tool" /\ m.calls[1].id \in called THEN <<>>
                   ELSE <<m>>
    IN  FlattenSeq([i \in DOMAIN msgs |-> part(msgs[i])])

\* The model answers; a provider's safety filter may have cut the answer off.
Answers ==
    /\ at = "asking" /\ counts.replies < MaxReplies
    /\ \E names \in Replies, cut \in BOOLEAN :
          LET n == counts.replies + 1
              calls == [j \in DOMAIN names |-> [id |-> <<n, j>>, name |-> names[j]]]
          IN  /\ Saves(Append(Messages, AI(calls)), "safety")
              /\ filtered' = IF cut THEN filtered \cup {<<n, j>> : j \in DOMAIN names} ELSE filtered
    /\ counts' = [counts EXCEPT !.replies = @ + 1]
    /\ since' = IF capped THEN since + 1 ELSE since
    /\ UNCHANGED <<spent, capped, nudges, ran, compact>>

\* SafetyFinishReasonMiddleware: the tool calls of a cut answer are dropped.
CutOff(msg) == \E j \in DOMAIN msg.calls : msg.calls[j].id \in filtered
FiltersUnsafe ==
    /\ at = "safety"
    /\ Saves(IF Valid(LastAI.calls) # <<>> /\ CutOff(LastAI) THEN Rewritten(Invalid(LastAI.calls))
             ELSE Messages, "budget")
    /\ UNCHANGED <<spent, capped, nudges, ran, counts, compact, filtered, since>>

\* TokenBudgetMiddleware: past the limit the tool calls are dropped.
ChecksBudget ==
    /\ at = "budget"
    /\ spent' = spent + 1
    /\ LET stop == spent' >= TokenLimit
       IN  /\ capped' = (capped \/ stop)
           /\ Saves(IF stop THEN Rewritten(Invalid(LastAI.calls)) ELSE Messages, "limit")
    /\ UNCHANGED <<nudges, ran, counts, compact, filtered, since>>

\* SubagentLimitMiddleware: the first MaxTasks task calls are kept.
LimitsTasks ==
    /\ at = "limit"
    /\ LET calls == LastAI.calls
           tasks == Named(calls, "task")
           extra == {tasks[i].id : i \in MaxTasks + 1 .. Len(tasks)}
       IN  Saves(IF extra = {} THEN Messages
                 ELSE Rewritten(Kept(calls, {c \in Members(calls) : c.id \notin extra})), "todo")
    /\ UNCHANGED <<spent, capped, nudges, ran, counts, compact, filtered, since>>

\* TodoMiddleware: parallel write_todos are refused; an answer without any call,
\* while todos are open, is sent back to the model, MaxNudges times in a run.
ChecksTodos ==
    /\ at = "todo"
    /\ LET writes == Named(LastAI.calls, "todos")
       IN  \/ /\ Len(writes) > 1
              /\ Saves(Messages \o [i \in DOMAIN writes |-> ToolResult(writes[i])], "route")
              /\ UNCHANGED nudges
           \/ /\ Len(writes) <= 1 /\ LastAI.calls = <<>>
              /\ chat.todos = "open" /\ nudges < MaxNudges
              /\ nudges' = nudges + 1
              /\ Saves(Messages, "summarize")
           \/ /\ Len(writes) <= 1
              /\ LastAI.calls = <<>> => chat.todos # "open" \/ nudges >= MaxNudges
              /\ Saves(Messages, "route")
              /\ UNCHANGED nudges
    /\ UNCHANGED <<spent, capped, ran, counts, compact, filtered, since>>

Answered(call) ==
    \E i \in DOMAIN Messages : Messages[i].type = "tool" /\ Messages[i].calls[1].id = call.id
ToRun == Kept(Valid(LastAI.calls), {c \in Members(LastAI.calls) : ~Answered(c)})

\* The graph's edge: calls to run, calls already answered, or the end.
Routes ==
    /\ at = "route"
    /\ Saves(Messages, IF Valid(LastAI.calls) = <<>> THEN "idle"
                       ELSE IF ToRun # <<>> THEN "tools" ELSE "summarize")
    /\ UNCHANGED <<spent, capped, nudges, ran, counts, compact, filtered, since>>

\* The calls run side by side.
RunsTool ==
    /\ at = "tools"
    /\ \E j \in DOMAIN ToRun : /\ ToRun[j].id \notin ran
                               /\ ran' = ran \cup {ToRun[j].id}
    /\ UNCHANGED <<chat, saved, at, spent, capped, nudges, counts, compact, filtered, since>>

\* Their results are kept together, in the order of the calls.  A clarification ends
\* the run, unless it is disabled or has company.
ToolsEnd ==
    /\ at = "tools" /\ \A j \in DOMAIN ToRun : ToRun[j].id \in ran
    /\ \E todos \in IF Named(ToRun, "todos") # <<>> THEN {"none", "open", "done"} ELSE {chat.todos},
          next \in IF Named(ToRun, "ask") # <<>> THEN {"idle", "summarize"} ELSE {"summarize"} :
          SavesThread([msgs |-> Messages \o [j \in DOMAIN ToRun |-> ToolResult(ToRun[j])],
                       todos |-> todos], next)
    /\ UNCHANGED <<spent, capped, nudges, ran, counts, compact, filtered, since>>

\* The run is cancelled between two checkpoints.
CancelChat ==
    /\ at # "idle"
    /\ at' = "idle"
    /\ chat' = EmptyThread
    /\ UNCHANGED <<saved, spent, capped, nudges, ran, counts, compact, filtered, since>>

\* compact_thread reads the thread's checkpoint while no run is in flight, waits for
\* the summary, and writes its own checkpoint, whatever has run in the meantime.
CompactReads ==
    /\ at = "idle" /\ compact = Unread /\ saved.msgs # <<>> /\ counts.compacts < MaxCompacts
    /\ compact' = saved
    /\ counts' = [counts EXCEPT !.compacts = @ + 1]
    /\ UNCHANGED <<chat, saved, at, spent, capped, nudges, ran, filtered, since>>

CompactWrites ==
    /\ compact # Unread
    /\ \/ \E k \in Cuts(compact.msgs) : saved' = [compact EXCEPT !.msgs = After(@, k)]
       \/ UNCHANGED saved
    /\ compact' = Unread
    /\ UNCHANGED <<chat, at, spent, capped, nudges, ran, counts, filtered, since>>

TurnsNext ==
    \/ StartChat \/ Summarized \/ Reminds \/ Answers \/ FiltersUnsafe \/ ChecksBudget
    \/ LimitsTasks \/ ChecksTodos \/ Routes \/ RunsTool \/ ToolsEnd \/ CancelChat
    \/ CompactReads \/ CompactWrites

TurnsSpec == TurnsInit /\ [][TurnsNext]_turnVars

-----------------------------------------------------------------------------
IsResult(m, call) == m.type \in {"tool", "placeholder"} /\ m.calls[1].id = call.id

\* What a provider accepts: behind every answer exactly the results of its calls, and
\* no result anywhere else.
WellFormed(msgs) ==
    /\ \A i \in DOMAIN msgs : msgs[i].type = "ai" =>
          \A j \in DOMAIN msgs[i].calls :
              i + j \in DOMAIN msgs /\ IsResult(msgs[i + j], msgs[i].calls[j])
    /\ \A k \in DOMAIN msgs : msgs[k].type \in {"tool", "placeholder"} =>
          \E i \in 1 .. k - 1 : /\ msgs[i].type = "ai" /\ k - i \in DOMAIN msgs[i].calls
                                /\ msgs[k].calls[1] = msgs[i].calls[k - i]

\* Every model request is one the provider accepts, after cancelled tools, refused
\* and malformed calls, summaries and a compaction that overtook a run; and a
\* result that is there is never replaced by a placeholder.
RequestAccepted ==
    at = "asking" =>
        LET request == Patched(Messages)
        IN  /\ WellFormed(request)
            /\ \A i \in DOMAIN Messages : Messages[i].type = "tool" =>
                  \E k \in DOMAIN request : request[k] = Messages[i]

\* A tool call of an answer that the provider cut off is never executed, not even by
\* a later run that finds it in the thread.
CutOffNeverRuns == ran \cap filtered = {}

\* After the budget's stop no tool runs, and the todo list can bring the model back at
\* most MaxNudges times.
BudgetHolds == capped => at # "tools" /\ since <= MaxNudges

=============================================================================
