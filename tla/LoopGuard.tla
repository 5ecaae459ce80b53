------------------------------ MODULE LoopGuard ------------------------------
(***************************************************************************)
(* The loop detection of one middleware instance over the runs of several   *)
(* threads: a sliding window of tool-call hashes and a count per tool for    *)
(* each thread, least recently used threads forgotten, warnings queued for   *)
(* the next model call of the same run.  A response calls one tool; a warning *)
(* is queued in the step that found it (the code takes the lock again), and    *)
(* the cap on the number of queues, twice max_tracked_threads, is not reached. *)
(***************************************************************************)
EXTENDS Filters, FiniteSets

CONSTANTS Chats,       \* threads
          Tools, Args, \* tool names and arguments, up to _stable_tool_key
          Window,      \* window_size
          WarnAt,      \* warn_threshold
          StopAt,      \* hard_limit
          FreqWarnAt,  \* tool_freq_warn
          FreqStopAt,  \* tool_freq_hard_limit
          MaxChats     \* max_tracked_threads

ASSUME LoopAssumption ==
    /\ {Window, WarnAt, StopAt, FreqWarnAt, FreqStopAt, MaxChats} \subseteq Nat \ {0}

VARIABLES
    history,  \* _history, with _warned, _tool_freq, _tool_freq_warned
    lru,      \* the order of _history, least recently used first
    pending,  \* _pending_warnings of the thread's run
    agent,    \* each thread's run: "off", "model" (calls it next), "tools"
    evicted   \* the thread forgotten by the last step

loopVars == <<history, lru, pending, agent, evicted>>

(* _hash_tool_calls *)
Hashes == Tools \X Args
ToolOf(h) == h[1]

Unseen == [window |-> <<>>, warned |-> {}, freq |-> [n \in Tools |-> 0], told |-> {}]

LoopTypeOK ==
    /\ history \in [Chats -> [window : Seq(Hashes), warned : SUBSET Hashes,
                              freq : [Tools -> 0 .. FreqStopAt], told : SUBSET Tools]]
    /\ lru \in Seq(Chats) /\ Len(lru) <= MaxChats
    /\ pending \in [Chats -> SUBSET (Hashes \cup Tools)]
    /\ agent \in [Chats -> {"off", "model", "tools"}]
    /\ evicted \subseteq Chats

LoopInit ==
    /\ history = [c \in Chats |-> Unseen]
    /\ lru = <<>>
    /\ pending = [c \in Chats |-> {}]
    /\ agent = [c \in Chats |-> "off"]
    /\ evicted = {}

(* before_agent: warnings of earlier runs of the thread are dropped. *)
BeforeAgent(c) ==
    /\ agent[c] = "off"
    /\ agent' = [agent EXCEPT ![c] = "model"]
    /\ pending' = [pending EXCEPT ![c] = {}]
    /\ evicted' = {}
    /\ UNCHANGED <<history, lru>>

(* wrap_model_call drains the warnings, and the model answers without a tool. *)
Answers(c) ==
    /\ agent[c] = "model"
    /\ agent' = [agent EXCEPT ![c] = "off"]
    /\ pending' = [pending EXCEPT ![c] = {}]
    /\ evicted' = {}
    /\ UNCHANGED <<history, lru>>

(* _evict_if_needed, after the thread was touched. *)
Touched(c) == Append(Kept(lru, Chats \ {c}), c)
Overflow(c) == IF Len(Touched(c)) > MaxChats THEN {Head(Touched(c))} ELSE {}

(* history[-window_size:] and the warned hashes still in it. *)
Slid(w) == IF Len(w) > Window THEN Tail(w) ELSE w
In(w) == {w[i] : i \in DOMAIN w}
Times(w, h) == Cardinality({i \in DOMAIN w : w[i] = h})

Seen(c, h) ==
    LET w == Slid(Append(history[c].window, h))
    IN [history[c] EXCEPT !.window = w, !.warned = @ \cap In(w)]

\* A bug: a call that has been warned about is not counted.
CountedUnwarned(s, h) ==
    [s EXCEPT !.freq[ToolOf(h)] = IF @ < FreqStopAt /\ h \notin s.warned THEN @ + 1 ELSE @]

Counted(s, h) == [s EXCEPT !.freq[ToolOf(h)] = IF @ < FreqStopAt THEN @ + 1 ELSE @]

(* _track_and_check: the tracking after the call, and its verdict. *)
Verdict(s, h) ==
    LET n == Times(s.window, h)
        t == Counted(s, h)
        often(limit) == t.freq[ToolOf(h)] >= limit
    IN IF n >= StopAt
       THEN [to |-> s, stop |-> TRUE, warn |-> {}]
       ELSE IF n >= WarnAt /\ h \notin s.warned
       THEN [to |-> [s EXCEPT !.warned = @ \cup {h}], stop |-> FALSE, warn |-> {h}]
       ELSE [to |-> IF often(FreqWarnAt) /\ ~often(FreqStopAt)
                    THEN [t EXCEPT !.told = @ \cup {ToolOf(h)}] ELSE t,
             stop |-> often(FreqStopAt),
             warn |-> IF often(FreqWarnAt) THEN {ToolOf(h)} \ s.told ELSE {}]

(* The model calls a tool: wrap_model_call drains, after_model tracks and either *)
(* strips the call, which ends the run, or queues a warning.                     *)
CallsTool(c, h) ==
    LET v == Verdict(Seen(c, h), h)
        out == Overflow(c) IN
    /\ agent[c] = "model"
    /\ agent' = [agent EXCEPT ![c] = IF v.stop THEN "off" ELSE "tools"]
    /\ history' = [d \in Chats |-> IF d \in out THEN Unseen ELSE
                                   IF d = c THEN v.to ELSE history[d]]
    /\ lru' = IF out = {} THEN Touched(c) ELSE Tail(Touched(c))
    /\ pending' = [d \in Chats |-> IF d \in out \/ (v.stop /\ d = c) THEN {} ELSE
                                   IF d = c THEN v.warn ELSE pending[d]]
    /\ evicted' = out

(* The tools node has run. *)
ToolsDone(c) ==
    /\ agent[c] = "tools"
    /\ agent' = [agent EXCEPT ![c] = "model"]
    /\ evicted' = {}
    /\ UNCHANGED <<history, lru, pending>>

(* A run that has begun goes on. *)
Goes(c) == Answers(c) \/ ToolsDone(c) \/ \E h \in Hashes : CallsTool(c, h)

LoopNext == \E c \in Chats : BeforeAgent(c) \/ Goes(c)

LoopFairness == \A c \in Chats : WF_loopVars(Goes(c))

LoopSpec == LoopInit /\ [][LoopNext]_loopVars /\ LoopFairness

(***************************************************************************)
(* Properties.                                                             *)
(***************************************************************************)
(* Whatever tools a model keeps calling, its run ends: the window catches a call  *)
(* that repeats, the count per tool one that varies, and neither a warning that    *)
(* leaves _track_and_check early nor a hash that leaves the window lets a run go   *)
(* on for ever.  Only a thread that is evicted again and again while it runs       *)
(* escapes.                                                                        *)
LoopsEnd ==
    \A c \in Chats : <>[](agent[c] # "off") => []<>(c \in evicted)
=============================================================================
