---------------------------- MODULE StreamBridge ----------------------------
(***************************************************************************)
(* The event stream of one run and the clients that follow it: publish,    *)
(* the retained window, subscribe with Last-Event-ID, the end marker and   *)
(* the delayed cleanup, for the bridge in memory and the one in Redis, and *)
(* sse_consumer, which reads either.  Event n is the n-th published, from  *)
(* 0, so the window is start .. next - 1 and an event id is its number.    *)
(***************************************************************************)
EXTENDS Naturals

CONSTANTS
    Clients,
    Maxsize,     \* queue_maxsize
    MaxEvents    \* bound: events of the run

ASSUME BridgeBounds == Maxsize \in Nat \ {0} /\ MaxEvents \in Nat

VARIABLES
    kind,        \* the bridge: "memory" or "redis"
    start, next, \* the retained window
    ended,       \* the end marker was published
    exists,      \* the stream is still held
    terminal,    \* the run's record has a final status
    client       \* what each client has and where it reads

bridgeVars == <<kind, start, next, ended, exists, terminal, client>>

\* "stray": it reads an empty stream that its own subscription created
Offline == [reads |-> "nothing", at |-> 0, last |-> 0]

BridgeInit ==
    /\ kind \in {"memory", "redis"}
    /\ start = 0 /\ next = 0 /\ ended = FALSE /\ exists = (kind = "memory") /\ terminal = FALSE
    /\ client = [c \in Clients |-> Offline]

Follows(c) == client[c].reads = "stream"

-----------------------------------------------------------------------------
\* The producer: publish trims the window, publish_end trims no event.  The Redis key
\* comes with the first of them; the event of an error follows the final status.
Publish ==
    /\ ~ended /\ next < MaxEvents /\ exists' = TRUE
    /\ next' = next + 1
    /\ start' = IF next' - start > Maxsize THEN next' - Maxsize ELSE start
    /\ UNCHANGED <<kind, ended, terminal, client>>

\* set_status comes before the end marker
SetTerminal ==
    /\ ~terminal /\ terminal' = TRUE
    /\ UNCHANGED <<kind, start, next, ended, exists, client>>

PublishEnd ==
    /\ terminal /\ ~ended /\ ended' = TRUE /\ exists' = TRUE
    /\ UNCHANGED <<kind, start, next, terminal, client>>

\* cleanup 60 s after the end; a reader in memory keeps the stream it holds
CleanUp ==
    /\ ended /\ exists /\ exists' = FALSE
    /\ UNCHANGED <<kind, start, next, ended, terminal, client>>

-----------------------------------------------------------------------------
\* sse_consumer

\* A bug: the client is sent the event it names once more.
StartOffsetAtLast(last) ==
    CASE last = 0 -> start
      [] kind = "redis" -> last
      [] kind = "memory" /\ last - 1 \in start .. next - 1 -> last - 1
      [] OTHER -> start

\* _resolve_start_offset, _resolve_start_stream_id.  last counts what the client
\* has seen: the id it sends is the one of event last - 1.
StartOffset(last) ==
    CASE last = 0 -> start
      [] kind = "redis" -> last
      [] kind = "memory" /\ last - 1 \in start .. next - 1 -> last
      [] OTHER -> start

\* _terminal_record_stream_missing: only the Redis bridge can tell
StreamMissing == kind = "redis" /\ terminal /\ ~exists

Subscribe(c) ==
    /\ client[c].reads = "nothing" /\ ~StreamMissing
    /\ client' = [client EXCEPT ![c].reads = IF exists \/ kind = "redis" THEN "stream" ELSE "stray",
                                ![c].at = StartOffset(client[c].last)]
    /\ UNCHANGED <<kind, start, next, ended, exists, terminal>>

\* A stream that is gone, or has no event yet, of a finished run: the end at once
SubscribeTooLate(c) ==
    /\ client[c].reads = "nothing" /\ StreamMissing
    /\ client' = [client EXCEPT ![c].reads = "end"]
    /\ UNCHANGED <<kind, start, next, ended, exists, terminal>>

\* The next retained event; a reader that fell behind resumes at the window
Deliver(c) ==
    LET n == IF client[c].at < start THEN start ELSE client[c].at
    IN  /\ Follows(c) /\ (kind = "redis" => exists) /\ n < next
        /\ client' = [client EXCEPT ![c].at = n + 1, ![c].last = n + 1]
        /\ UNCHANGED <<kind, start, next, ended, exists, terminal>>

DeliverEnd(c) ==
    /\ Follows(c) /\ (kind = "redis" => exists) /\ client[c].at >= next /\ ended
    /\ client' = [client EXCEPT ![c].reads = "end"]
    /\ UNCHANGED <<kind, start, next, ended, exists, terminal>>

\* A bug: a reader that times out just waits again.
NoEndAtHeartbeat(c) == FALSE /\ UNCHANGED bridgeVars

\* At a heartbeat the Redis reader looks whether the stream is still there
EndAtHeartbeat(c) ==
    /\ Follows(c) /\ StreamMissing
    /\ client' = [client EXCEPT ![c].reads = "end"]
    /\ UNCHANGED <<kind, start, next, ended, exists, terminal>>

\* The client goes away, or Redis fails more than _MAX_SUBSCRIBE_RETRIES times;
\* it may come back with the id it has
Disconnect(c) ==
    /\ client[c].reads \in {"stream", "stray"}
    /\ client' = [client EXCEPT ![c].reads = "nothing", ![c].at = 0]
    /\ UNCHANGED <<kind, start, next, ended, exists, terminal>>

Serve(c) == Deliver(c) \/ DeliverEnd(c) \/ EndAtHeartbeat(c)

BridgeNext ==
    \/ Publish \/ SetTerminal \/ PublishEnd \/ CleanUp
    \/ \E c \in Clients : Serve(c) \/ Subscribe(c) \/ SubscribeTooLate(c) \/ Disconnect(c)

BridgeFairness ==
    /\ WF_bridgeVars(PublishEnd) /\ WF_bridgeVars(CleanUp)
    /\ \A c \in Clients : WF_bridgeVars(Serve(c))

BridgeSpec == BridgeInit /\ [][BridgeNext]_bridgeVars /\ BridgeFairness

-----------------------------------------------------------------------------
BridgeTypeOK ==
    /\ kind \in {"memory", "redis"}
    /\ next \in 0 .. MaxEvents /\ start \in 0 .. next /\ next - start <= Maxsize
    /\ ended \in BOOLEAN /\ exists \in BOOLEAN /\ terminal \in BOOLEAN
    /\ client \in [Clients -> [reads : {"nothing", "stream", "stray", "end"},
                               at : 0 .. MaxEvents, last : 0 .. MaxEvents]]

\* Over all its connections a client gets events in order and none twice, and it
\* misses an event only when the window had moved past it.
NoGapNoRepeat ==
    [][\A c \in Clients : Follows(c) /\ Follows(c)' /\ client'[c].at # client[c].at =>
         /\ client'[c].last > client[c].last
         /\ \A n \in client[c].last .. client'[c].last - 2 : n < start]_bridgeVars

\* A client that follows the stream of a finished run is sent the end, also when
\* the stream is cleaned up under it or never came to be; not one that subscribed in memory after
\* the cleanup, which reads heartbeats.
EndReaches == \A c \in Clients : Follows(c) /\ terminal ~> ~Follows(c)
=============================================================================
