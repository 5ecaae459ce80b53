----------------------------- MODULE McpSessions -----------------------------
(***************************************************************************)
(* The pool of persistent MCP sessions.  A session lives in an owner task   *)
(* on the event loop of the call that created it; calls on the gateway's    *)
(* loop and on the short-lived loops of sync tool wrappers share the pool   *)
(* through a thread lock.  Calls and the sessions they create have the same *)
(* names.  A caller's cancellation is modelled where it waits for a session *)
(* (phase 3, or joined).  In phase 2 _shutdown swallows it, but for a       *)
(* creation of another loop that is waited for (session_pool.py:319): there *)
(* it would end the caller with its own session in flight and the rest of   *)
(* its evictions undone, and is left out.  A close takes all its sessions   *)
(* out of the pool and signals them in one step.                            *)
(***************************************************************************)
EXTENDS Filters, FiniteSets

CONSTANTS Calls,        \* calls of get_session
          Scopes,         \* (server_name, scope_key)
          None,
          MaxSessions,  \* MAX_SESSIONS
          MaxCloses     \* bound: close_scope, close_server, close_all calls

ASSUME McpAssumption ==
    /\ None \notin Calls
    /\ MaxSessions \in Nat \ {0}
    /\ MaxCloses \in Nat

Loops == {"gateway", "short"}

VARIABLES
    entries,   \* _entries, least recently used first
    inflight,  \* _inflight: the call creating each key's session
    owner,     \* _run_session, its ready future, close event and cancel
    call,      \* where each call is
    open,      \* the short loop runs
    closes     \* closes so far

mcpVars == <<entries, inflight, owner, call, open, closes>>

NoOwner == [at |-> "none", ready |-> "pending", close |-> FALSE, cancel |-> FALSE]
NewOwner == [NoOwner EXCEPT !.at = "new"]
NoCall == [at |-> "idle", key |-> None, loop |-> None, evicted |-> {}, on |-> None]

McpTypeOK ==
    /\ entries \in Seq(Calls)
    /\ inflight \in [Scopes -> Calls \cup {None}]
    /\ owner \in [Calls -> [at : {"none", "new", "connecting", "serving", "done"},
                            ready : {"pending", "session", "error"},
                            close : BOOLEAN, cancel : BOOLEAN]]
    /\ call \in [Calls -> [at : {"idle", "wait", "unwind", "got", "raised"},
                           key : Scopes \cup {None}, loop : Loops \cup {None},
                           evicted : SUBSET (Calls \X BOOLEAN),
                           on : Calls \cup {None}]]
    /\ open \in BOOLEAN
    /\ closes \in 0 .. MaxCloses

McpInit ==
    /\ entries = <<>>
    /\ inflight = [k \in Scopes |-> None]
    /\ owner = [c \in Calls |-> NoOwner]
    /\ call = [c \in Calls |-> NoCall]
    /\ open = TRUE
    /\ closes = 0

IsOpen(l) == l = "gateway" \/ open
Registered == Members(entries)
Entry(k) == {c \in Registered : call[c].key = k}

\* Signal an owner: its close event, and cancel for one still being created.
Signalled(c, cancel) ==
    [owner EXCEPT ![c].close = TRUE, ![c].cancel = @ \/ cancel]

----------------------------------------------------------------------------
\* get_session, phase 1, a live session of this loop: it becomes the most
\* recently used.
Hit(c, k, l) ==
    /\ call[c].at = "idle" /\ IsOpen(l)
    /\ \E e \in Entry(k) :
          /\ call[e].loop = l
          /\ entries' = Append(Kept(entries, Calls \ {e}), e)
          /\ call' = [call EXCEPT ![c] = [NoCall EXCEPT !.at = "got", !.key = k,
                                                        !.loop = l, !.on = e]]
    /\ UNCHANGED <<inflight, owner, open, closes>>

\* The least recently used entries that make room for a new one.
Oldest(s) ==
    IF Len(s) < MaxSessions THEN {}
    ELSE {s[i] : i \in 1 .. Len(s) - MaxSessions + 1}

\* Phase 1 otherwise: evict a session of another loop, join a creation on this
\* loop or start one, and evict down to capacity.
Miss(c, k, l) ==
    /\ call[c].at = "idle" /\ IsOpen(l)
    /\ \A e \in Entry(k) : call[e].loop # l
    /\ LET i == inflight[k]
           joins == i # None /\ call[i].loop = l
           rest == Kept(entries, Calls \ Entry(k))
           old == Oldest(rest)
           out == {<<e, FALSE>> : e \in Entry(k) \cup old}
                    \cup (IF i # None /\ ~joins THEN {<<i, TRUE>>} ELSE {})
       IN  /\ entries' = Kept(rest, Calls \ old)
           /\ call' = [call EXCEPT ![c] =
                         [at |-> "wait", key |-> k, loop |-> l, evicted |-> out,
                          on |-> IF joins THEN i ELSE c]]
           /\ IF joins
              THEN UNCHANGED <<inflight, owner>>
              ELSE /\ inflight' = [inflight EXCEPT ![k] = c]
                   /\ owner' = [owner EXCEPT ![c] = NewOwner]
    /\ UNCHANGED <<open, closes>>

\* Phase 2: one evicted session is told to close, by way of its own loop: an
\* owner task queued there before has had its first step.
Evict(c) ==
    /\ \E x \in call[c].evicted :
          /\ owner[x[1]].at # "new"
          /\ owner' = Signalled(x[1], x[2])
          /\ call' = [call EXCEPT ![c].evicted = @ \ {x}]
    /\ UNCHANGED <<entries, inflight, open, closes>>

Waits(c) == call[c].at = "wait" /\ call[c].evicted = {}

\* Phase 2b: the joined creation is ready, or failed.
Joined(c) ==
    /\ Waits(c) /\ call[c].on # c
    /\ LET r == owner[call[c].on].ready IN
       /\ r # "pending"
       /\ call' = [call EXCEPT ![c].at = IF r = "session" THEN "got" ELSE "raised"]
    /\ UNCHANGED <<entries, inflight, owner, open, closes>>

\* Our in-flight record is no longer there when the creation ends.
DropOurs(c) ==
    [inflight EXCEPT ![call[c].key] = IF @ = c THEN None ELSE @]

\* A bug: the session is registered without asking whether it was closed.
PromoteAlways(c) ==
    /\ Waits(c) /\ call[c].on = c /\ owner[c].ready = "session"
    /\ entries' = Append(entries, c)
    /\ inflight' = DropOurs(c)
    /\ call' = [call EXCEPT ![c].at = "got"]
    /\ UNCHANGED <<owner, open, closes>>

\* Phase 4: register the session, unless a close removed the record meanwhile:
\* then tear it down and raise.
Promote(c) ==
    /\ Waits(c) /\ call[c].on = c /\ owner[c].ready = "session"
    /\ IF inflight[call[c].key] = c
       THEN /\ entries' = Append(entries, c)
            /\ inflight' = DropOurs(c)
            /\ call' = [call EXCEPT ![c].at = "got"]
            /\ UNCHANGED owner
       ELSE /\ owner' = Signalled(c, FALSE)
            /\ call' = [call EXCEPT ![c].at = "raised"]
            /\ UNCHANGED <<entries, inflight>>
    /\ UNCHANGED <<open, closes>>

\* Phase 3: the owner reported an error.
CreationFails(c) ==
    /\ Waits(c) /\ call[c].on = c /\ owner[c].ready = "error"
    /\ inflight' = DropOurs(c)
    /\ call' = [call EXCEPT ![c].at = "raised"]
    /\ UNCHANGED <<entries, owner, open, closes>>

\* A bug: the cancelled caller leaves its owner task to itself.
CancelLeavesOwner(c) ==
    /\ Waits(c)
    /\ IF call[c].on = c
       THEN /\ inflight' = DropOurs(c)
            /\ call' = [call EXCEPT ![c].at = "raised"]
            /\ UNCHANGED owner
       ELSE /\ call' = [call EXCEPT ![c].at = "raised"]
            /\ UNCHANGED <<inflight, owner>>
    /\ UNCHANGED <<entries, open, closes>>

\* The waiting caller is cancelled: a creator takes its owner task down with it,
\* a joiner's wait is shielded.  The owner's first step is queued before it.
Cancel(c) ==
    /\ Waits(c)
    /\ owner[c].at # "new"
    /\ IF call[c].on = c
       THEN /\ owner' = Signalled(c, TRUE)
            /\ call' = [call EXCEPT ![c].at = "unwind"]
       ELSE /\ call' = [call EXCEPT ![c].at = "raised"]
            /\ UNCHANGED owner
    /\ UNCHANGED <<entries, inflight, open, closes>>

\* Phase 3: the owner has unwound.
Unwound(c) ==
    /\ call[c].at = "unwind" /\ owner[c].at = "done"
    /\ inflight' = DropOurs(c)
    /\ call' = [call EXCEPT ![c].at = "raised"]
    /\ UNCHANGED <<entries, owner, open, closes>>

----------------------------------------------------------------------------
\* _run_session starts, connects and initializes, or fails; an owner cancelled
\* before its first step never runs, and its ready future stays pending.
OwnerStarts(c) ==
    /\ owner[c].at = "new"
    /\ owner' = [owner EXCEPT ![c].at = IF owner[c].cancel THEN "done"
                                                           ELSE "connecting"]
    /\ UNCHANGED <<entries, inflight, call, open, closes>>

OwnerConnects(c) ==
    /\ owner[c].at = "connecting" /\ ~owner[c].cancel
    /\ \/ owner' = [owner EXCEPT ![c].at = "serving", ![c].ready = "session"]
       \/ owner' = [owner EXCEPT ![c].at = "done", ![c].ready = "error"]
    /\ UNCHANGED <<entries, inflight, call, open, closes>>

\* The close event or a cancel ends it, in its own task.
OwnerExits(c) ==
    /\ \/ owner[c].at = "connecting" /\ owner[c].cancel
       \/ owner[c].at = "serving" /\ (owner[c].close \/ owner[c].cancel)
    /\ owner' = [owner EXCEPT ![c].at = "done",
                              ![c].ready = IF @ = "pending" THEN "error" ELSE @]
    /\ UNCHANGED <<entries, inflight, call, open, closes>>

\* asyncio.run of the sync wrapper returns: it cancels what is left on its loop.
LoopCloses ==
    /\ open
    /\ \A c \in Calls : call[c].loop = "short" => call[c].at \in {"got", "raised"}
    /\ open' = FALSE
    /\ owner' = [c \in Calls |-> IF call[c].loop = "short" /\ owner[c].at # "none"
                                 THEN [owner[c] EXCEPT !.at = "done", !.cancel = TRUE]
                                 ELSE owner[c]]
    /\ UNCHANGED <<entries, inflight, call, closes>>

\* close_scope, close_server, close_all, close_all_sync over the keys they name,
\* from the gateway's loop, where they may meet an owner task not yet started.
Close(ks) ==
    /\ closes < MaxCloses
    /\ \A k \in ks : inflight[k] # None /\ call[inflight[k]].loop = "short"
                       => owner[inflight[k]].at # "new"
    /\ closes' = closes + 1
    /\ entries' = Kept(entries, {e \in Calls : call[e].key \notin ks})
    /\ inflight' = [k \in Scopes |-> IF k \in ks THEN None ELSE inflight[k]]
    /\ owner' = [c \in Calls |->
          IF \E k \in ks : c \in Entry(k) THEN [owner[c] EXCEPT !.close = TRUE]
          ELSE IF \E k \in ks : c = inflight[k]
               THEN [owner[c] EXCEPT !.close = TRUE, !.cancel = TRUE]
          ELSE owner[c]]
    /\ UNCHANGED <<call, open>>

McpNext ==
    \/ \E c \in Calls :
          \/ \E k \in Scopes, l \in Loops : Hit(c, k, l) \/ Miss(c, k, l)
          \/ Evict(c) \/ Joined(c) \/ Promote(c) \/ CreationFails(c)
          \/ Cancel(c) \/ Unwound(c)
          \/ OwnerStarts(c) \/ OwnerConnects(c) \/ OwnerExits(c)
    \/ LoopCloses
    \/ \E ks \in {{k} : k \in Scopes} \cup {Scopes} : Close(ks)

\* Loops run what is ready, and a connection attempt ends one way or the other.
McpFairness ==
    \A c \in Calls :
        /\ WF_mcpVars(Evict(c))
        /\ WF_mcpVars(Joined(c) \/ Promote(c) \/ CreationFails(c) \/ Unwound(c))
        /\ WF_mcpVars(OwnerStarts(c) \/ OwnerConnects(c) \/ OwnerExits(c))

McpSpec == McpInit /\ [][McpNext]_mcpVars /\ McpFairness

----------------------------------------------------------------------------
(* Properties                                                              *)

Alive(c) == owner[c].at \in {"new", "connecting", "serving"}

\* "We must NOT resurrect the session into _entries": what the pool hands out
\* next is never a session some close, eviction or cancel has already ended.
EntryIsLive ==
    \A c \in Registered :
        ~owner[c].close /\ (owner[c].cancel => call[c].loop = "short" /\ ~open)

\* "We never leak a session or owner task": an owner nobody has told to stop
\* is one the pool still knows, or is about to tell.
NoLostOwner ==
    \A c \in Calls : Alive(c) /\ ~owner[c].close /\ ~owner[c].cancel =>
        \/ c \in Registered
        \/ \E k \in Scopes : inflight[k] = c
        \/ \E d \in Calls : \E b \in BOOLEAN : <<c, b>> \in call[d].evicted
        \/ Waits(c) /\ owner[c].ready = "session"

============================================================================
