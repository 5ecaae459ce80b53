---------------------------- MODULE ToolProgress ----------------------------
(***************************************************************************)
(* ToolProgressMiddleware: a state per thread and tool that warns of a tool *)
(* which makes no progress and blocks one that cannot.  The calls of a turn *)
(* finish in any order, a call of an abandoned run may finish in the next   *)
(* one, and threads share a bounded table.  A result is what                *)
(* normalize_tool_message makes of it.                                      *)
(***************************************************************************)
EXTENDS Naturals, Sequences, FiniteSets, Filters

CONSTANTS Chats,        \* threads
          Instruments,  \* tools that are not exempt
          ToolCalls,
          Nothing,
          Stagnation,   \* stagnation_threshold
          Escalation,   \* warn_escalation_count
          MaxTracked,   \* max_tracked_threads
          MaxPending,   \* _MAX_PENDING_PER_RUN
          MaxTurns      \* bound: runs of a thread

ASSUME ProgressAssumption ==
    /\ {Stagnation, Escalation, MaxTracked, MaxPending} \subseteq Nat \ {0}
    /\ MaxTurns \in Nat

VARIABLES
    tracked,  \* keys of _phase_states, least recently written first
    tool,     \* _phase_states
    hints,    \* _pending: hints waiting per thread and run
    turn,     \* the run each thread is in
    use,      \* the tool calls
    ended,    \* the tools blocked in this run of a tracked thread (history)
    grave     \* the tools of which a call came back in this run, be it one of an earlier
              \* run, with a failure no model can repair (history)

progressVars == <<tracked, tool, hints, turn, use, ended, grave>>

\* recent: whether recent_word_sets has anything to compare with.
Fresh == [phase |-> "active", count |-> 0, recent |-> FALSE]
NoUse == [at |-> "idle", of |-> Nothing, tool |-> Nothing, turn |-> 0]

\* The classes of result the state machine tells apart: success, success that
\* repeats a recent one, partial success, an error the model can repair
\* (permission, no_results, not_found, unknown), one it cannot (rate_limited,
\* transient), one that ends the use of the tool (auth, config, internal).
Outcomes == {"good", "duplicate", "partial", "repairable", "transient", "stop"}
Recoverable(o) == o \notin {"transient", "stop"}

Cap == Stagnation + Escalation

ProgressTypeOK ==
    /\ tracked \in Seq(Chats) /\ Len(tracked) <= MaxTracked
    /\ tool \in [Chats -> [Instruments -> [phase : {"active", "warned", "blocked"},
                                           count : 0 .. Cap, recent : BOOLEAN]]]
    /\ hints \in [Chats -> [1 .. MaxTurns -> 0 .. MaxPending]]
    /\ turn \in [Chats -> 0 .. MaxTurns]
    /\ use \in [ToolCalls -> [at : {"idle", "running", "hinting"}, of : Chats \cup {Nothing},
                              tool : Instruments \cup {Nothing}, turn : 0 .. MaxTurns]]
    /\ ended \in [Chats -> SUBSET Instruments]
    /\ grave \in [Chats -> SUBSET Instruments]

ProgressInit ==
    /\ tracked = <<>>
    /\ tool = [t \in Chats |-> [i \in Instruments |-> Fresh]]
    /\ hints = [t \in Chats |-> [r \in 1 .. MaxTurns |-> 0]]
    /\ turn = [t \in Chats |-> 0]
    /\ use = [c \in ToolCalls |-> NoUse]
    /\ ended = [t \in Chats |-> {}]
    /\ grave = [t \in Chats |-> {}]

InTable(t) == \E i \in DOMAIN tracked : tracked[i] = t

-----------------------------------------------------------------------------
\* before_agent: hints of other runs are dropped, every tool of a tracked thread
\* starts afresh.
BeginTurn(t) ==
    /\ turn[t] < MaxTurns
    /\ turn' = [turn EXCEPT ![t] = @ + 1]
    /\ hints' = [hints EXCEPT ![t] = [r \in 1 .. MaxTurns |-> IF r = turn'[t] THEN @[r] ELSE 0]]
    /\ tool' = IF InTable(t) THEN [tool EXCEPT ![t] = [i \in Instruments |-> Fresh]] ELSE tool
    /\ ended' = [ended EXCEPT ![t] = {}]
    /\ grave' = [grave EXCEPT ![t] = {}]
    /\ UNCHANGED <<tracked, use>>

\* wrap_tool_call: a blocked tool is answered at once, any other runs.
UseTool(c, t, i) ==
    /\ use[c].at = "idle" /\ turn[t] > 0
    /\ ~(InTable(t) /\ tool[t][i].phase = "blocked")
    /\ use' = [use EXCEPT ![c] = [at |-> "running", of |-> t, tool |-> i, turn |-> turn[t]]]
    /\ UNCHANGED <<tracked, tool, hints, turn, ended, grave>>

Least(a, b) == IF a < b THEN a ELSE b

\* _assess_and_transition; counts past Cap are alike.
Assess(s, o) ==
    LET n == Least(s.count + 1, Cap)
        state(phase) == [s EXCEPT !.phase = phase, !.count = n]
    IN  CASE s.phase = "blocked" -> s
          [] s.phase # "blocked" /\ o = "stop" -> state("blocked")
          [] s.phase # "blocked" /\ o = "good" -> [phase |-> "active", count |-> 0, recent |-> TRUE]
          [] OTHER -> IF n >= Cap /\ ~Recoverable(o) THEN state("blocked")
                      ELSE IF n >= Stagnation THEN state("warned")
                      ELSE state(s.phase)
\* A hint is formatted for a problem that leaves the tool warned.
Hints(s, o) ==
    /\ s.phase # "blocked" /\ o \notin {"good", "stop"}
    /\ s.count + 1 >= Stagnation
    /\ Recoverable(o) \/ s.count + 1 < Cap

\* _update_state_from_result, under the lock: _get_state makes the thread the most
\* recent and evicts the oldest ones, with their hints.
Finish(c, o) ==
    /\ use[c].at = "running"
    /\ LET t == use[c].of
           i == use[c].tool
           order == Append(Kept(tracked, Chats \ {t}), t)
           kept == IF Len(order) > MaxTracked THEN Tail(order) ELSE order
           gone == {x \in Chats : InTable(x) /\ \A k \in DOMAIN kept : kept[k] # x}
           was == IF InTable(t) THEN tool[t] ELSE [x \in Instruments |-> Fresh]
           new == Assess(was[i], o)
       IN  /\ o = "duplicate" => was[i].recent
           /\ tracked' = kept
           /\ tool' = [x \in Chats |-> IF x = t THEN [was EXCEPT ![i] = new]
                                       ELSE IF x \in gone THEN [y \in Instruments |-> Fresh]
                                       ELSE tool[x]]
           /\ hints' = [x \in Chats |-> IF x \in gone THEN [r \in 1 .. MaxTurns |-> 0]
                                        ELSE hints[x]]
           /\ use' = [use EXCEPT ![c] = IF Hints(was[i], o) THEN [@ EXCEPT !.at = "hinting"]
                                        ELSE NoUse]
           /\ ended' = [x \in Chats |-> IF x \in gone THEN {}
                                        ELSE IF x = t /\ new.phase = "blocked" THEN ended[x] \cup {i}
                                        ELSE ended[x]]
           /\ grave' = [grave EXCEPT ![t] = IF Recoverable(o) THEN @ ELSE @ \cup {i}]
    /\ UNCHANGED turn

\* _queue_assessment takes the lock again: the thread may have been evicted since.
QueueHint(c) ==
    /\ use[c].at = "hinting"
    /\ LET u == use[c]
       IN  hints' = IF InTable(u.of)
                    THEN [hints EXCEPT ![u.of][u.turn] = Least(@ + 1, MaxPending)]
                    ELSE hints
    /\ use' = [use EXCEPT ![c] = NoUse]
    /\ UNCHANGED <<tracked, tool, turn, ended, grave>>

\* wrap_model_call hands the run's hints to the model.
DrainHints(t) ==
    /\ turn[t] > 0 /\ hints[t][turn[t]] > 0
    /\ hints' = [hints EXCEPT ![t][turn[t]] = 0]
    /\ UNCHANGED <<tracked, tool, turn, use, ended, grave>>

ProgressNext ==
    \/ \E t \in Chats : BeginTurn(t) \/ DrainHints(t)
    \/ \E c \in ToolCalls : \/ \E t \in Chats, i \in Instruments : UseTool(c, t, i)
                            \/ \E o \in Outcomes : Finish(c, o)
                            \/ QueueHint(c)

ProgressSpec == ProgressInit /\ [][ProgressNext]_progressVars

-----------------------------------------------------------------------------
\* A tool that was blocked stays blocked until its run ends or its thread is evicted:
\* a call that was already running, and comes back with good news, does not unblock it.
BlockIsFinal == \A t \in Chats : \A i \in ended[t] : tool[t][i].phase = "blocked"

\* A tool is blocked only after a failure the model could not repair that came back
\* since the run began, to a call of this thread: none that came back before the run, or
\* in another thread, blocks it.  A call of an abandoned run that comes back in this one
\* does, although _reset_run_states means that "state from a previous run never bleeds
\* into the next".
BlockHasCause ==
    \A t \in Chats, i \in Instruments : tool[t][i].phase = "blocked" => i \in grave[t]

\* No hints wait for a thread the table has forgotten, where no eviction would find
\* them, and at most the bound's number for any run.
NoPhantomHints == \A t \in Chats, r \in 1 .. MaxTurns : hints[t][r] > 0 => InTable(t)

=============================================================================
