---------------------------- MODULE E2bSandboxes ----------------------------
(***************************************************************************)
(* The E2B sandbox provider of one process.  A sandbox is a virtual machine *)
(* of the e2b service, tagged with the user and the thread it was made for. *)
(* The provider's maps change under one lock, the service is called outside *)
(* it; an acquisition holds its thread's lock from its start to its end, a  *)
(* release and an eviction hold none.  acquire_async runs in a worker       *)
(* thread, so an acquisition that was cancelled runs to its end all the     *)
(* same.  A paused machine counts as a reaped one.                          *)
(***************************************************************************)
EXTENDS Naturals, Sequences, FiniteSets, Filters

CONSTANTS Owners,     \* pairs of a user and a thread
          NoThread,
          Takers,     \* acquisitions
          Releasers,  \* releases
          Slots,      \* replicas, the soft cap
          MaxVms,     \* bound: machines made
          MaxBlips    \* bound: machines reaped, failed calls of the service, ends of the process

ASSUME E2bAssumption ==
    /\ NoThread \notin Owners \cup Takers
    /\ Slots \in Nat \ {0} /\ MaxVms \in Nat /\ MaxBlips \in Nat

VARIABLES
    vmOf,      \* the tags of the machines made so far
    alive,     \* the machines that run
    inUse,     \* _sandboxes
    dead,      \* the ones in use whose object has _dead set
    bound,     \* _thread_sandboxes, 0 for none
    pool,      \* _warm_pool, oldest first
    threadLock, \* who holds the thread's lock
    taker,     \* where each acquisition is
    releaser,  \* where each release is
    ending,    \* _shutdown_called, and the machines shutdown has still to kill
    unseen,    \* owners whose running machine a failed call hid
    blips

e2bVars == <<vmOf, alive, inUse, dead, bound, pool, threadLock, taker, releaser,
             ending, unseen, blips>>
service == <<vmOf, alive, unseen, blips>>
registry == <<inUse, dead, bound, pool>>
others == <<releaser, ending>>

Vms == DOMAIN vmOf
AtRest == [at |-> "idle", of |-> NoThread, vm |-> 0, popped |-> FALSE]
Closed == [at |-> "idle", of |-> NoThread, vm |-> 0]

E2bTypeOK ==
    /\ vmOf \in Seq(Owners) /\ Len(vmOf) <= MaxVms
    /\ alive \subseteq Vms /\ inUse \subseteq Vms /\ dead \subseteq inUse
    /\ bound \in [Owners -> {0} \cup Vms]
    /\ pool \in Seq([vm : Vms, of : Owners \cup {NoThread}])
    /\ threadLock \in [Owners -> Takers \cup {NoThread}]
    /\ taker \in [Takers -> [at : {"idle", "reuse", "ping", "reclaim", "reconnect", "list",
                                   "connect", "count", "evict", "kill", "create", "register"},
                             of : Owners \cup {NoThread}, vm : {0} \cup Vms, popped : BOOLEAN]]
    /\ releaser \in [Releasers -> [at : {"idle", "sync", "kill", "park"},
                                   of : Owners \cup {NoThread}, vm : {0} \cup Vms]]
    /\ ending \in [called : BOOLEAN, vms : SUBSET Vms]
    /\ unseen \subseteq Owners
    /\ blips \in 0 .. MaxBlips

E2bInit ==
    /\ vmOf = <<>> /\ alive = {} /\ unseen = {} /\ blips = 0
    /\ inUse = {} /\ dead = {} /\ pool = <<>>
    /\ bound = [o \in Owners |-> 0]
    /\ threadLock = [o \in Owners |-> NoThread]
    /\ taker = [c \in Takers |-> AtRest]
    /\ releaser = [r \in Releasers |-> Closed]
    /\ ending = [called |-> FALSE, vms |-> {}]

Blip == blips < MaxBlips /\ blips' = blips + 1

(* The service stops a machine: idle_timeout, or a pause. *)
Reaped(v) ==
    /\ v \in alive /\ Blip
    /\ alive' = alive \ {v}
    /\ UNCHANGED <<vmOf, unseen, registry, threadLock, taker, others>>

(* A probe that does not say the machine is gone: any other error counts as alive. *)
SeemsAlive(v) ==
    \/ v \in alive /\ UNCHANGED blips
    \/ v \notin alive /\ Blip

(* A command of a tool finds that the machine is gone. *)
CommandFails(v) ==
    /\ v \in inUse \ (alive \cup dead)
    /\ dead' = dead \cup {v}
    /\ UNCHANGED <<inUse, bound, pool, service, threadLock, taker, others>>

(* kill(), through a fresh connection or the sandbox's own; a failed one is logged. *)
KillVm(v) ==
    \/ alive' = alive \ {v} /\ UNCHANGED <<vmOf, unseen, blips>>
    \/ v \in alive /\ Blip /\ UNCHANGED <<vmOf, alive, unseen>>

(***************************************************************************)
(* Acquisitions.                                                           *)
(***************************************************************************)
Owner(c) == taker[c].of

(* acquire: the thread's lock. *)
TakeLock(c, o) ==
    /\ taker[c] = AtRest /\ threadLock[o] = NoThread
    /\ threadLock' = [threadLock EXCEPT ![o] = c]
    /\ taker' = [taker EXCEPT ![c] = [AtRest EXCEPT !.at = "reuse", !.of = o]]
    /\ UNCHANGED <<service, registry, others>>

GoesTo(c, s, v) ==
    /\ taker' = [taker EXCEPT ![c] = [at |-> s, of |-> @.of, vm |-> v, popped |-> FALSE]]
    /\ UNCHANGED threadLock

(* Return or raise. *)
Finishes(c) ==
    /\ taker' = [taker EXCEPT ![c] = AtRest]
    /\ threadLock' = [threadLock EXCEPT ![Owner(c)] = NoThread]

(* _reuse_in_process_sandbox: the lookup, ... *)
ReuseLookup(c) ==
    LET v == bound[Owner(c)] IN
    /\ taker[c].at = "reuse"
    /\ IF v \in inUse THEN GoesTo(c, "ping", v) /\ UNCHANGED bound
       ELSE /\ bound' = [bound EXCEPT ![Owner(c)] = 0]
            /\ GoesTo(c, "reclaim", 0)
    /\ UNCHANGED <<inUse, dead, pool, service, others>>

(* ... and the ping.  The object a release has taken meanwhile may be closed,  *)
(* which the ping reads as dead.                                              *)
PingSandbox(c) ==
    LET v == taker[c].vm IN
    /\ taker[c].at = "ping"
    /\ \/ /\ v \notin dead
          /\ SeemsAlive(v)
          /\ Finishes(c) /\ UNCHANGED registry
       \/ /\ v \notin alive \/ taker[c].popped
          /\ inUse' = inUse \ {v} /\ dead' = dead \ {v}
          /\ bound' = [bound EXCEPT ![Owner(c)] = 0]
          /\ GoesTo(c, "reclaim", 0)
          /\ UNCHANGED <<pool, blips>>
    /\ UNCHANGED <<vmOf, alive, unseen, others>>

(* The entries of the pool with the owner's seed. *)
ParkedFor(o) == {i \in DOMAIN pool : pool[i].of = o}

(* _reclaim_warm_pool_sandbox: the oldest leaves the pool, ... *)
ReclaimWarm(c) ==
    /\ taker[c].at = "reclaim"
    /\ \/ /\ ParkedFor(Owner(c)) = {}
          /\ GoesTo(c, "list", 0) /\ UNCHANGED pool
       \/ \E i \in ParkedFor(Owner(c)) :
             /\ \A j \in ParkedFor(Owner(c)) : i <= j
             /\ pool' = SubSeq(pool, 1, i - 1) \o SubSeq(pool, i + 1, Len(pool))
             /\ GoesTo(c, "reconnect", pool[i].vm)
    /\ UNCHANGED <<inUse, dead, bound, service, others>>

(* ... is connected to and probed; when that fails, the tags are searched, and    *)
(* when a machine found there fails, a new one is made.                           *)
ConnectVm(c) ==
    LET v == taker[c].vm
        next == IF taker[c].at = "reconnect" THEN "list" ELSE "count" IN
    /\ taker[c].at \in {"reconnect", "connect"}
    /\ \/ /\ SeemsAlive(v)
          /\ GoesTo(c, "register", v) /\ UNCHANGED unseen
       \/ /\ v \notin alive /\ UNCHANGED <<blips, unseen>>
          /\ GoesTo(c, next, 0)
       \/ /\ v \in alive /\ Blip
          /\ unseen' = unseen \cup (IF next = "count" THEN {Owner(c)} ELSE {})
          /\ GoesTo(c, next, 0)
    /\ UNCHANGED <<vmOf, alive, registry, others>>

(* The running machines with the owner's tags. *)
Tagged(o) == {v \in alive : vmOf[v] = o}

(* _discover_remote_sandbox: the search for a running machine with the tags. *)
ListVms(c) ==
    /\ taker[c].at = "list"
    /\ \/ /\ \E v \in Tagged(Owner(c)) : GoesTo(c, "connect", v)
          /\ UNCHANGED <<blips, unseen>>
       \/ /\ Tagged(Owner(c)) = {} /\ GoesTo(c, "count", 0)
          /\ UNCHANGED <<blips, unseen>>
       \/ /\ Tagged(Owner(c)) # {} /\ GoesTo(c, "count", 0)
          /\ Blip /\ unseen' = unseen \cup {Owner(c)}
    /\ UNCHANGED <<vmOf, alive, registry, others>>

(* _create_sandbox: the replicas counted, ... *)
CountVms(c) ==
    /\ taker[c].at = "count"
    /\ GoesTo(c, IF Cardinality(inUse) + Len(pool) >= Slots THEN "evict" ELSE "create", 0)
    /\ UNCHANGED <<service, registry, others>>

(* ... _evict_oldest_warm, the pop and the kill, ... *)
PopOldest(c) ==
    /\ taker[c].at = "evict"
    /\ IF pool = <<>> THEN GoesTo(c, "create", 0) /\ UNCHANGED pool
                      ELSE GoesTo(c, "kill", Head(pool).vm) /\ pool' = Tail(pool)
    /\ UNCHANGED <<inUse, dead, bound, service, others>>

KillEvicted(c) ==
    /\ taker[c].at = "kill"
    /\ KillVm(taker[c].vm)
    /\ GoesTo(c, "create", 0)
    /\ UNCHANGED <<registry, others>>

(* ... and the new machine, with its paths and mounts; the call may raise. *)
CreateVm(c) ==
    /\ taker[c].at = "create"
    /\ \/ /\ Len(vmOf) < MaxVms
          /\ vmOf' = Append(vmOf, Owner(c))
          /\ alive' = alive \cup {Len(vmOf')}
          /\ GoesTo(c, "register", Len(vmOf'))
          /\ UNCHANGED blips
       \/ Blip /\ Finishes(c) /\ UNCHANGED <<vmOf, alive>>
    /\ UNCHANGED <<unseen, registry, others>>

(* A sandbox reclaimed, discovered or made enters the maps, as a new object. *)
RegisterVm(c) ==
    LET v == taker[c].vm IN
    /\ taker[c].at = "register"
    /\ inUse' = inUse \cup {v} /\ dead' = dead \ {v}
    /\ bound' = [bound EXCEPT ![Owner(c)] = v]
    /\ Finishes(c)
    /\ UNCHANGED <<pool, service, others>>

(***************************************************************************)
(* Releases.                                                               *)
(***************************************************************************)
Releases(r, rec) == releaser' = [releaser EXCEPT ![r] = rec]

(* release: the sandbox and its key leave the maps, ... *)
ReleaseVm(r, v) ==
    LET keys == {o \in Owners : bound[o] = v} IN
    /\ releaser[r] = Closed /\ v \in inUse
    /\ inUse' = inUse \ {v} /\ dead' = dead \ {v}
    /\ bound' = [o \in Owners |-> IF o \in keys THEN 0 ELSE bound[o]]
    /\ Releases(r, [at |-> IF v \in dead THEN "kill" ELSE IF keys = {} THEN "park" ELSE "sync",
                    of |-> IF keys = {} THEN NoThread ELSE CHOOSE o \in keys : TRUE,
                    vm |-> v])
    /\ taker' = [c \in Takers |-> IF taker[c].at = "ping" /\ taker[c].vm = v
                                  THEN [taker[c] EXCEPT !.popped = TRUE] ELSE taker[c]]
    /\ UNCHANGED <<pool, service, threadLock, ending>>

(* ... its files are copied to the host, which may find the machine gone, ... *)
SyncOutputs(r) ==
    LET v == releaser[r].vm IN
    /\ releaser[r].at = "sync"
    /\ \/ v \notin alive /\ Releases(r, [releaser[r] EXCEPT !.at = "kill"]) /\ UNCHANGED blips
       \/ /\ SeemsAlive(v)
          /\ Releases(r, [releaser[r] EXCEPT !.at = "park"])
    /\ UNCHANGED <<vmOf, alive, unseen, registry, threadLock, taker, ending>>

(* ... a dead one is killed, ... *)
KillReleased(r) ==
    /\ releaser[r].at = "kill"
    /\ KillVm(releaser[r].vm)
    /\ Releases(r, Closed)
    /\ UNCHANGED <<registry, threadLock, taker, ending>>

(* ... the others are parked, as the newest of the pool. *)
ParkVm(r) ==
    LET v == releaser[r].vm IN
    /\ releaser[r].at = "park"
    /\ pool' = Append(Kept(pool, [vm : Vms \ {v}, of : Owners \cup {NoThread}]),
                      [vm |-> v, of |-> releaser[r].of])
    /\ Releases(r, Closed)
    /\ UNCHANGED <<inUse, dead, bound, service, threadLock, taker, ending>>

(***************************************************************************)
(* The end of the process.                                                 *)
(***************************************************************************)
(* shutdown: once; the maps are emptied, then every machine is killed. *)
ShutsDown ==
    /\ ~ending.called /\ Blip
    /\ ending' = [called |-> TRUE, vms |-> inUse \cup {pool[i].vm : i \in DOMAIN pool}]
    /\ inUse' = {} /\ dead' = {} /\ pool' = <<>>
    /\ bound' = [o \in Owners |-> 0]
    /\ taker' = [c \in Takers |-> IF taker[c].at = "ping" THEN [taker[c] EXCEPT !.popped = TRUE]
                                                          ELSE taker[c]]
    /\ UNCHANGED <<vmOf, alive, unseen, threadLock, releaser>>

KillOnExit(v) ==
    /\ v \in ending.vms
    /\ KillVm(v)
    /\ ending' = [ending EXCEPT !.vms = @ \ {v}]
    /\ UNCHANGED <<registry, threadLock, taker, releaser>>

(* The process exits or dies, and another starts. *)
Restarts ==
    /\ \/ ending = [called |-> TRUE, vms |-> {}] /\ UNCHANGED blips
       \/ Blip
    /\ inUse' = {} /\ dead' = {} /\ pool' = <<>>
    /\ bound' = [o \in Owners |-> 0]
    /\ threadLock' = [o \in Owners |-> NoThread]
    /\ taker' = [c \in Takers |-> AtRest]
    /\ releaser' = [r \in Releasers |-> Closed]
    /\ ending' = [called |-> FALSE, vms |-> {}]
    /\ UNCHANGED <<vmOf, alive, unseen>>

E2bNext ==
    \/ \E c \in Takers :
          \/ \E o \in Owners : TakeLock(c, o)
          \/ ReuseLookup(c) \/ PingSandbox(c) \/ ReclaimWarm(c) \/ ConnectVm(c) \/ ListVms(c)
          \/ CountVms(c) \/ PopOldest(c) \/ KillEvicted(c) \/ CreateVm(c) \/ RegisterVm(c)
    \/ \E r \in Releasers :
          \/ \E v \in inUse : ReleaseVm(r, v)
          \/ SyncOutputs(r) \/ KillReleased(r) \/ ParkVm(r)
    \/ \E v \in Vms : Reaped(v) \/ CommandFails(v) \/ KillOnExit(v)
    \/ ShutsDown \/ Restarts

E2bSpec == E2bInit /\ [][E2bNext]_e2bVars

(***************************************************************************)
(* Properties.                                                             *)
(***************************************************************************)
(* A thread is only ever given a machine that was made for it, and a machine that *)
(* is in use has exactly the key of its thread: what release() reads off the      *)
(* key, and parks under that thread's seed, is right.                             *)
OwnVmOnly ==
    /\ \A o \in Owners : bound[o] # 0 => vmOf[bound[o]] = o /\ bound[o] \in inUse
    /\ \A v \in inUse : bound[vmOf[v]] = v
    /\ \A i \in DOMAIN pool : pool[i].of = vmOf[pool[i].vm]

(* A thread has one running machine at most: an acquisition that meets its        *)
(* machine on the way to the pool, or on the way out of it to be killed, finds it *)
(* by its tags and makes no other.  The exception is a search or a connection     *)
(* that failed while the machine ran.                                             *)
OneVmPerThread ==
    \A o \in Owners \ unseen : Cardinality(Tagged(o)) <= 1

=============================================================================
