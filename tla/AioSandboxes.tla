---------------------------- MODULE AioSandboxes ----------------------------
(***************************************************************************)
(* The AIO sandbox provider of one process over the local container        *)
(* backend.  Every thread has one sandbox, whose container has the thread's *)
(* name; the provider's maps change under one lock, the backend is called   *)
(* outside it.  Acquisitions are the async ones: a cancelled one gives its  *)
(* locks back while the worker thread it waits for runs on.                 *)
(***************************************************************************)
EXTENDS Filters, FiniteSets

CONSTANTS Acquisitions,  \* acquisitions of a sandbox
          Threads,    \* threads of the user, one sandbox id each
          Nobody,
          Replicas,   \* replicas, the soft cap
          MaxInfos,   \* bound: SandboxInfo objects made
          MaxFaults   \* bound: dead containers, failing commands, restarts

VARIABLES
    container,  \* the container that runs under each name
    made,       \* SandboxInfo objects made
    active,     \* _sandboxes, _sandbox_infos, _thread_sandboxes, _last_activity
    idle,       \* the last activity is older than idle_timeout
    warm,       \* _warm_pool, oldest first
    locked,     \* _thread_locks
    filelock,   \* the lock files
    acq,        \* where each acquisition is
    sweep,      \* the idle checker
    shut,       \* _shutdown_called, and what shutdown has still to destroy
    lost,       \* containers given up: a command failed, a wait was cancelled, or
                \* the maps had two entries of the sandbox and kept the stale one
    faults      \* faults so far

aioVars == <<container, made, active, idle, warm, locked, filelock, acq, sweep,
             shut, lost, faults>>
maps == <<active, idle, warm>>
world == <<container, made, lost, faults>>

(* A container of another process. *)
Foreign == MaxInfos + 1

(* obj tells objects apart; cid is the container id, 0 when only the name is known. *)
Info == [obj : 1 .. MaxInfos, cid : 0 .. MaxInfos]
Sandbox == [of : Threads, info : Info]

ASSUME AioAssumption ==
    /\ Nobody \notin Acquisitions \cup Threads \cup Info
    /\ IsFiniteSet(Threads)
    /\ Replicas \in Nat \ {0}
    /\ MaxInfos \in Nat /\ MaxFaults \in Nat

NoAcq == [at |-> "idle", of |-> Nobody, post |-> FALSE, live |-> TRUE,
          info |-> Nobody, victim |-> {}, next |-> "idle"]
NotShut == [called |-> FALSE, ids |-> {}, stops |-> {}]
Asleep == [at |-> "asleep", ids |-> {}, now |-> Nobody, stops |-> {}]

Units == {"reuse", "probe", "drop", "confirm", "reclaim", "probe_warm", "drop_warm",
          "confirm_warm", "stop", "wait", "discover", "register", "count", "evict",
          "create", "ready"}

AioTypeOK ==
    /\ container \in [Threads -> 0 .. Foreign]
    /\ made \in 0 .. MaxInfos
    /\ active \in [Threads -> Info \cup {Nobody}]
    /\ idle \in [Threads -> BOOLEAN]
    /\ warm \in Seq(Sandbox)
    /\ locked \in [Threads -> Acquisitions \cup {Nobody}]
    /\ filelock \in [Threads -> Acquisitions \cup {Nobody}]
    /\ acq \in [Acquisitions -> [at : Units \cup {"idle"}, of : Threads \cup {Nobody},
                          post : BOOLEAN, live : BOOLEAN, info : Info \cup {Nobody},
                          victim : SUBSET Sandbox, next : Units \cup {"idle"}]]
    /\ sweep \in [at : {"asleep", "verify", "destroy", "stop", "reap"}, ids : SUBSET Threads,
                  now : Threads \cup {Nobody}, stops : SUBSET Sandbox]
    /\ shut \in [called : BOOLEAN, ids : SUBSET Threads, stops : SUBSET Sandbox]
    /\ lost \subseteq 1 .. MaxInfos
    /\ faults \in 0 .. MaxFaults

AioInit ==
    /\ container = [t \in Threads |-> 0]
    /\ made = 0
    /\ active = [t \in Threads |-> Nobody]
    /\ idle = [t \in Threads |-> FALSE]
    /\ warm = <<>>
    /\ locked = [t \in Threads |-> Nobody]
    /\ filelock = [t \in Threads |-> Nobody]
    /\ acq = [c \in Acquisitions |-> NoAcq]
    /\ sweep = Asleep
    /\ shut = NotShut
    /\ lost = {}
    /\ faults = 0

WarmOf(t) == {i \in DOMAIN warm : warm[i].of = t}
WarmInfo(t) == {warm[i].info : i \in WarmOf(t)}
Drained(t) == Kept(warm, {e \in Sandbox : e.of # t})

(* The sandbox has an entry in both maps: a worker thread that outlived its      *)
(* acquisition made the one while another acquisition made the other.            *)
Twice(t) == active[t] # Nobody /\ WarmOf(t) # {}

(* Of two entries the map keeps or stops i only: when i is of a container that    *)
(* has died since, the one that runs is forgotten.                               *)
Forgotten(t, i) ==
    IF Twice(t) /\ i.cid \notin {0, container[t]} THEN {container[t]} \ {0, Foreign} ELSE {}

(* _remove_tracked_sandbox: the sandbox it finds, and the maps without it. *)
Tracked(t) == {[of |-> t, info |-> i] :
                  i \in IF active[t] # Nobody THEN {active[t]} ELSE WarmInfo(t)}
Untrack(t) ==
    /\ active' = [active EXCEPT ![t] = Nobody]
    /\ idle' = [idle EXCEPT ![t] = FALSE]
    /\ warm' = Drained(t)
    /\ lost' = lost \cup UNION {Forgotten(t, v.info) : v \in Tracked(t)}

Fault == faults < MaxFaults /\ faults' = faults + 1

(***************************************************************************)
(* The container runtime.                                                  *)
(***************************************************************************)
(* docker stop, by id when the info has one, by name otherwise; a stop that *)
(* fails is logged and forgotten.                                           *)
Stop(v) ==
    \/ /\ container' = IF v.info.cid \in {0, container[v.of]}
                       THEN [container EXCEPT ![v.of] = 0] ELSE container
       /\ UNCHANGED <<made, lost, faults>>
    \/ /\ Fault
       /\ lost' = lost \cup ({container[v.of]} \ {0, Foreign})
       /\ UNCHANGED <<container, made>>

(* A container dies, and another process starts one for the thread. *)
Dies(t) ==
    /\ container[t] # 0
    /\ container' = [container EXCEPT ![t] = 0]
    /\ Fault
    /\ UNCHANGED <<made, active, idle, warm, locked, filelock, acq, sweep, shut, lost>>

OtherStarts(t) ==
    /\ container[t] = 0 /\ filelock[t] = Nobody
    /\ container' = [container EXCEPT ![t] = Foreign]
    /\ Fault
    /\ UNCHANGED <<made, active, idle, warm, locked, filelock, acq, sweep, shut, lost>>

(***************************************************************************)
(* Acquisitions.                                                           *)
(***************************************************************************)
At(c, s) == acq[c].at = s

(* Return or raise: the locks are given back. *)
Over(c) ==
    /\ acq' = [acq EXCEPT ![c] = NoAcq]
    /\ locked' = [t \in Threads |-> IF locked[t] = c THEN Nobody ELSE locked[t]]
    /\ filelock' = [t \in Threads |-> IF filelock[t] = c THEN Nobody ELSE filelock[t]]

(* The coroutine must go on for s; the rest runs on in the same worker thread. *)
Awaits(c, s) ==
    \/ s \in {"wait", "discover", "register", "count", "evict", "create", "ready"}
    \/ s = "reclaim" /\ ~acq[c].post

HoldsInfo == {"probe", "drop", "probe_warm", "drop_warm", "register", "ready"}

(* The acquisition goes on at s; a cancelled one ends with its worker thread. *)
Goes(c, s, fields) ==
    IF s = "idle" \/ (~acq[c].live /\ Awaits(c, s))
    THEN Over(c)
    ELSE /\ acq' = [acq EXCEPT ![c] = [fields EXCEPT !.at = s,
                        !.info = IF s \in HoldsInfo THEN @ ELSE Nobody,
                        !.next = IF s = "stop" THEN @ ELSE "idle"]]
         /\ UNCHANGED <<locked, filelock>>
Step(c, s) == Goes(c, s, acq[c])

(* acquire_async *)
Acquire(c, t) ==
    /\ At(c, "idle") /\ locked[t] = Nobody
    /\ locked' = [locked EXCEPT ![t] = c]
    /\ acq' = [acq EXCEPT ![c] = [NoAcq EXCEPT !.at = "reuse", !.of = t]]
    /\ UNCHANGED <<maps, world, filelock, sweep, shut>>

(* The coroutine is cancelled: the locks go, the worker thread does not; a       *)
(* container it waits for to become ready is nobody's.                           *)
CancelAcquire(c) ==
    /\ acq[c].at \notin {"idle", "register"} /\ acq[c].live
    /\ locked' = [locked EXCEPT ![acq[c].of] = Nobody]
    /\ filelock' = [filelock EXCEPT ![acq[c].of] = IF @ = c THEN Nobody ELSE @]
    /\ acq' = [acq EXCEPT ![c] =
                  IF @.at \in {"wait", "ready"} THEN NoAcq ELSE [@ EXCEPT !.live = FALSE]]
    /\ lost' = lost \cup (IF At(c, "ready") THEN {acq[c].info.cid} \ {0} ELSE {})
    /\ UNCHANGED <<maps, container, made, sweep, shut, faults>>

(* _reuse_in_process_sandbox and _reclaim_warm_pool_sandbox: the lookup, ... *)
Reuse(c) ==
    /\ At(c, "reuse")
    /\ IF active[acq[c].of] # Nobody
       THEN Goes(c, "probe", [acq[c] EXCEPT !.info = active[acq[c].of]])
       ELSE Step(c, "reclaim")
    /\ UNCHANGED <<maps, world, sweep, shut>>

AfterReclaim(c) == IF acq[c].post THEN "discover" ELSE "wait"

Reclaim(c) ==
    /\ At(c, "reclaim")
    /\ \/ /\ WarmInfo(acq[c].of) = {}
          /\ Step(c, AfterReclaim(c))
       \/ \E i \in WarmInfo(acq[c].of) :
             Goes(c, "probe_warm", [acq[c] EXCEPT !.info = i])
    /\ UNCHANGED <<maps, world, sweep, shut>>

(* ... the health check by name (a check that fails counts as alive), ... *)
Probe(c) ==
    /\ At(c, "probe") \/ At(c, "probe_warm")
    /\ \/ /\ \/ container[acq[c].of] # 0 /\ UNCHANGED faults
             \/ container[acq[c].of] = 0 /\ Fault
          /\ Step(c, IF At(c, "probe") THEN "confirm" ELSE "confirm_warm")
       \/ /\ container[acq[c].of] = 0 /\ UNCHANGED faults
          /\ Step(c, IF At(c, "probe") THEN "drop" ELSE "drop_warm")
    /\ UNCHANGED <<maps, container, made, lost, sweep, shut>>

\* A bug: whatever is tracked under the name is dropped.
StillTrackedAny(c) == Tracked(acq[c].of) # {}

(* ... _drop_unhealthy_sandbox, of the very entry that was checked, ... *)
StillTracked(c) == acq[c].info \in {active[acq[c].of]} \cup WarmInfo(acq[c].of)

DropSandbox(c) ==
    LET t == acq[c].of
        next == IF At(c, "drop") THEN "reclaim" ELSE AfterReclaim(c) IN
    /\ At(c, "drop") \/ At(c, "drop_warm")
    /\ IF StillTracked(c)
       THEN /\ Untrack(t)
            /\ Goes(c, "stop", [acq[c] EXCEPT !.next = next, !.victim = Tracked(t)])
       ELSE UNCHANGED <<maps, lost>> /\ Step(c, next)
    /\ UNCHANGED <<container, made, faults, sweep, shut>>

(* ... backend.destroy, after a drop, an eviction or a failed start, ... *)
StopVictim(c) ==
    /\ At(c, "stop")
    /\ \E v \in acq[c].victim : Stop(v)
    /\ Goes(c, acq[c].next, [acq[c] EXCEPT !.victim = {}])
    /\ UNCHANGED <<maps, sweep, shut>>

(* ... and the second lookup. *)
Confirm(c) ==
    LET t == acq[c].of IN
    /\ At(c, "confirm")
    /\ IF active[t] # Nobody
       THEN idle' = [idle EXCEPT ![t] = FALSE] /\ Over(c)
       ELSE UNCHANGED idle /\ Step(c, "reclaim")
    /\ UNCHANGED <<active, warm, world, sweep, shut>>

Register(t, info) ==
    /\ active' = [active EXCEPT ![t] = info]
    /\ idle' = [idle EXCEPT ![t] = FALSE]

ConfirmWarm(c) ==
    LET t == acq[c].of IN
    /\ At(c, "confirm_warm")
    /\ \/ WarmInfo(t) = {} /\ UNCHANGED <<maps, lost>> /\ Step(c, AfterReclaim(c))
       \/ \E i \in WarmInfo(t) : /\ Register(t, i) /\ warm' = Drained(t) /\ Over(c)
                               /\ lost' = lost \cup Forgotten(t, i)
    /\ UNCHANGED <<container, made, faults, sweep, shut>>

(* _discover_or_create_with_lock: the lock file, the second look, ... *)
LockFile(c) ==
    /\ At(c, "wait") /\ filelock[acq[c].of] = Nobody
    /\ filelock' = [filelock EXCEPT ![acq[c].of] = c]
    /\ acq' = [acq EXCEPT ![c].at = "reuse", ![c].post = TRUE]
    /\ UNCHANGED <<maps, world, locked, sweep, shut>>

NewInfo(cid) == [obj |-> made + 1, cid |-> cid]

(* ... backend.discover, which knows the container's name only, ... *)
Discover(c) ==
    /\ At(c, "discover")
    /\ \/ /\ container[acq[c].of] # 0 /\ made < MaxInfos
          /\ made' = made + 1
          /\ Goes(c, "register", [acq[c] EXCEPT !.info = NewInfo(0)])
          /\ UNCHANGED faults
       \/ /\ \/ container[acq[c].of] = 0 /\ UNCHANGED faults
             \/ container[acq[c].of] # 0 /\ Fault
          /\ Step(c, "count") /\ UNCHANGED made
    /\ UNCHANGED <<maps, container, lost, sweep, shut>>

(* ... and _create_sandbox_async: the replicas counted, the oldest evicted, ... *)
Count(c) ==
    /\ At(c, "count")
    /\ Step(c, IF Cardinality({t \in Threads : active[t] # Nobody}) + Len(warm) >= Replicas
               THEN "evict" ELSE "create")
    /\ UNCHANGED <<maps, world, sweep, shut>>

EvictOldest(c) ==
    /\ At(c, "evict")
    /\ IF warm = <<>>
       THEN UNCHANGED warm /\ Step(c, "create")
       ELSE /\ warm' = Tail(warm)
            /\ Goes(c, "stop", [acq[c] EXCEPT !.next = "create", !.victim = {Head(warm)}])
    /\ UNCHANGED <<active, idle, world, sweep, shut>>

(* ... the container started, or found on a name conflict, ... *)
CreateContainer(c) ==
    LET t == acq[c].of IN
    /\ At(c, "create")
    /\ \/ /\ made < MaxInfos
          /\ made' = made + 1
          /\ container' = [container EXCEPT ![t] = IF @ = 0 THEN made + 1 ELSE @]
          /\ Goes(c, "ready", [acq[c] EXCEPT
                    !.info = NewInfo(IF container[t] = 0 THEN made + 1 ELSE 0)])
          /\ lost' = lost \cup (IF acq[c].live \/ container[t] # 0 THEN {} ELSE {made + 1})
          /\ UNCHANGED faults
       \/ Fault /\ Over(c) /\ UNCHANGED <<container, made, lost>>
    /\ UNCHANGED <<maps, sweep, shut>>

(* ... ready and registered, or destroyed. *)
Ready(c) ==
    /\ At(c, "ready")
    /\ \/ Register(acq[c].of, acq[c].info) /\ Over(c) /\ UNCHANGED faults
       \/ /\ Fault /\ UNCHANGED <<active, idle>>
          /\ Goes(c, "stop", [acq[c] EXCEPT !.next = "idle",
                                  !.victim = {[of |-> acq[c].of, info |-> acq[c].info]}])
    /\ UNCHANGED <<warm, container, made, lost, sweep, shut>>

(* _register_discovered_sandbox *)
RegisterDiscovered(c) ==
    /\ At(c, "register")
    /\ Register(acq[c].of, acq[c].info)
    /\ Over(c)
    /\ UNCHANGED <<warm, world, sweep, shut>>

(***************************************************************************)
(* The rest of the provider.                                               *)
(***************************************************************************)
calls == <<locked, filelock, acq>>

(* get *)
Get(t) ==
    /\ active[t] # Nobody /\ idle[t]
    /\ idle' = [idle EXCEPT ![t] = FALSE]
    /\ UNCHANGED <<active, warm, world, calls, sweep, shut>>

(* idle_timeout passes without activity. *)
GrowsIdle(t) ==
    /\ active[t] # Nobody /\ ~idle[t]
    /\ idle' = [idle EXCEPT ![t] = TRUE]
    /\ UNCHANGED <<active, warm, world, calls, sweep, shut>>

\* A bug: a sandbox that has grown idle is not worth parking.
ParkedUnlessIdle(t) ==
    IF idle[t] THEN warm ELSE Append(warm, [of |-> t, info |-> active[t]])

(* release: the container is parked. *)
Parked(t) ==
    IF active[t] = Nobody \/ WarmOf(t) # {} THEN warm
    ELSE Append(warm, [of |-> t, info |-> active[t]])

ReleaseSandbox(t) ==
    /\ active[t] # Nobody
    /\ active' = [active EXCEPT ![t] = Nobody]
    /\ idle' = [idle EXCEPT ![t] = FALSE]
    /\ warm' = Parked(t)
    /\ lost' = lost \cup UNION {Forgotten(t, i) : i \in WarmInfo(t)}
    /\ UNCHANGED <<container, made, faults, calls, sweep, shut>>

(* _cleanup_idle_sandboxes: the snapshot, ... *)
Snapshot ==
    /\ sweep = Asleep /\ ~shut.called
    /\ sweep' = [Asleep EXCEPT !.at = "verify", !.ids = {t \in Threads : idle[t]}]
    /\ UNCHANGED <<maps, world, calls, shut>>

(* ... the check that the sandbox is still idle, ... *)
VerifyIdle(t) ==
    /\ sweep.at = "verify" /\ t \in sweep.ids
    /\ sweep' = [sweep EXCEPT !.ids = @ \ {t},
                              !.at = IF idle[t] THEN "destroy" ELSE @,
                              !.now = IF idle[t] THEN t ELSE Nobody]
    /\ UNCHANGED <<maps, world, calls, shut>>

(* ... destroy, after the lock was given back, ... *)
DestroyIdle(t) ==
    /\ sweep.at = "destroy" /\ t = sweep.now
    /\ Untrack(t)
    /\ sweep' = [sweep EXCEPT !.at = "stop", !.now = Nobody, !.stops = Tracked(t)]
    /\ UNCHANGED <<container, made, faults, calls, shut>>

(* ... and the warm entries that expired, the oldest first. *)
ReapExpired ==
    /\ sweep.at = "verify" /\ sweep.ids = {}
    /\ \E n \in 0 .. Len(warm) :
          /\ warm' = SubSeq(warm, n + 1, Len(warm))
          /\ sweep' = [Asleep EXCEPT !.at = "reap", !.stops = {warm[i] : i \in 1 .. n}]
    /\ UNCHANGED <<active, idle, world, calls, shut>>

StopSwept ==
    /\ sweep.at \in {"stop", "reap"}
    /\ \/ /\ sweep.stops = {} /\ UNCHANGED world
          /\ sweep' = [sweep EXCEPT !.at = IF @ = "stop" THEN "verify" ELSE "asleep"]
       \/ \E v \in sweep.stops :
             Stop(v) /\ sweep' = [sweep EXCEPT !.stops = @ \ {v}]
    /\ UNCHANGED <<maps, calls, shut>>

(* shutdown: once, from atexit or a signal; then every sandbox is destroyed. *)
Shutdown ==
    /\ ~shut.called
    /\ shut' = [called |-> TRUE, ids |-> {t \in Threads : active[t] # Nobody},
                stops |-> {warm[i] : i \in DOMAIN warm}]
    /\ warm' = <<>>
    /\ UNCHANGED <<active, idle, world, calls, sweep>>

ShutNext(t) ==
    /\ t \in shut.ids
    /\ Untrack(t)
    /\ shut' = [shut EXCEPT !.ids = @ \ {t}, !.stops = @ \cup Tracked(t)]
    /\ UNCHANGED <<container, made, faults, calls, sweep>>

StopShut(v) ==
    /\ v \in shut.stops
    /\ Stop(v)
    /\ shut' = [shut EXCEPT !.stops = @ \ {v}]
    /\ UNCHANGED <<maps, calls, sweep>>

(* The process dies or exits and another starts: _reconcile_orphans adopts every *)
(* container list_running finds, or none when it fails.                          *)
Adopts(some) ==
    \E seq \in [1 .. Cardinality(some) -> some] :
        /\ {seq[i] : i \in DOMAIN seq} = some
        /\ warm' = [i \in DOMAIN seq |-> [of |-> seq[i], info |-> [obj |-> made + i, cid |-> 0]]]
        /\ made' = made + Cardinality(some)

Restart ==
    LET running == {t \in Threads : container[t] # 0} IN
    /\ \/ shut.called /\ shut.ids = {} /\ shut.stops = {} /\ UNCHANGED faults
       \/ Fault
    /\ \/ made + Cardinality(running) <= MaxInfos /\ Adopts(running) /\ lost' = {}
       \/ /\ running # {}
          /\ warm' = <<>> /\ lost' = {container[t] : t \in running} \ {Foreign}
          /\ UNCHANGED made
    /\ active' = [t \in Threads |-> Nobody]
    /\ idle' = [t \in Threads |-> FALSE]
    /\ locked' = [t \in Threads |-> Nobody]
    /\ filelock' = [t \in Threads |-> Nobody]
    /\ acq' = [c \in Acquisitions |-> NoAcq]
    /\ sweep' = Asleep
    /\ shut' = NotShut
    /\ UNCHANGED container

AioNext ==
    \/ \E c \in Acquisitions :
          \/ \E t \in Threads : Acquire(c, t)
          \/ CancelAcquire(c)
          \/ Reuse(c) \/ Reclaim(c) \/ Probe(c) \/ DropSandbox(c) \/ StopVictim(c)
          \/ Confirm(c) \/ ConfirmWarm(c) \/ LockFile(c) \/ Discover(c)
          \/ Count(c) \/ EvictOldest(c) \/ CreateContainer(c) \/ Ready(c)
          \/ RegisterDiscovered(c)
    \/ \E t \in Threads :
          \/ Dies(t) \/ OtherStarts(t) \/ Get(t) \/ GrowsIdle(t) \/ ReleaseSandbox(t)
          \/ VerifyIdle(t) \/ DestroyIdle(t) \/ ShutNext(t)
    \/ Snapshot \/ ReapExpired \/ StopSwept \/ Shutdown \/ Restart
    \/ \E v \in shut.stops : StopShut(v)

AioSpec == AioInit /\ [][AioNext]_aioVars

(***************************************************************************)
(* Properties.                                                             *)
(***************************************************************************)
(* Somebody tracks the thread's container, is on the way to stop it, or waits for *)
(* it to become ready: by its id, or by its name.                                *)
Stops == sweep.stops \cup shut.stops \cup UNION {acq[c].victim : c \in Acquisitions}
Handled(t) ==
    \/ \E i \in ({active[t]} \ {Nobody}) \cup WarmInfo(t) : i.cid \in {0, container[t]}
    \/ \E v \in Stops : v.of = t /\ v.info.cid \in {0, container[t]}
    \/ \E c \in Acquisitions :
          acq[c].of = t /\ acq[c].at = "ready" /\ acq[c].info.cid = container[t]

(* A container this process started, or adopted at its start, is tracked, about  *)
(* to be tracked, or about to be stopped: release, reclaim, drop, eviction, the  *)
(* idle checker and shutdown never leave one running that no map knows.  The     *)
(* exceptions are named: a stop or a list_running that failed, a wait for        *)
(* readiness that was cancelled, an entry that gave way to a stale one.          *)
NothingLeaks ==
    \A t \in Threads : container[t] \in (1 .. MaxInfos) \ lost => Handled(t)

(* A health check that has become stale takes no running container of this       *)
(* process out of the maps: _remove_tracked_sandbox compares the SandboxInfo it  *)
(* checked with the one that is tracked now.  It takes the wrong one when both   *)
(* maps have an entry, which two cancelled acquisitions bring about.             *)
StaleProbeSpares ==
    [][\A c \in Acquisitions :
          acq[c].at \in {"drop", "drop_warm"} /\ acq'[c].at = "stop" /\ ~Twice(acq[c].of)
          => \A v \in acq'[c].victim : v.info.cid = 0 \/ v.info.cid # container[v.of]]_aioVars

=============================================================================
