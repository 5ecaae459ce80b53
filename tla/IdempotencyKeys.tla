-------------------------- MODULE IdempotencyKeys ---------------------------
(***************************************************************************)
(* The Idempotency-Key contract of the write endpoints:                    *)
(* _idem_replay_or_run (app/gateway/routers/after_sales.py) over           *)
(* SqlIdempotencyStore (app/after_sales/idempotency.py).  A key is scoped  *)
(* to caller, role and endpoint; Keys are such scoped keys.  A request     *)
(* takes the key's lock, looks its record up, replays it or runs the       *)
(* handler and stores the response.  Records are in the database and       *)
(* survive a restart of the process; locks and requests do not.            *)
(***************************************************************************)
EXTENDS Integers, FiniteSets

CONSTANTS
    Requests, KeyOf, BodyOf,   \* the requests, each with its key and body
    Keys,
    TTL, MaxTime,              \* lifetime of a record; bound of the clock
    MaxRestarts,               \* bounds the restarts of the process
    None

ASSUME IdemAssumption ==
    /\ KeyOf \in [Requests -> Keys]
    /\ TTL \in Nat \ {0} /\ MaxTime \in Nat /\ MaxRestarts \in Nat
    /\ None \notin Requests
    /\ None \notin [from : Requests, expires : Nat] \cup [at : Nat, life : Nat]

VARIABLES
    records,   \* records[k]: the row of key k, or None
    lock,      \* lock[k]: the request that holds the asyncio.Lock of k, or None
    stage,
    response,  \* response[r]: the request whose handler produced r's response
    now,
    restarts,
    ran        \* history: when and in which life of the process r's handler ended

idemVars == <<records, lock, stage, response, now, restarts, ran>>

Inside == {"lookup", "run", "store"}

IdemInit ==
    /\ records = [k \in Keys |-> None]
    /\ lock = [k \in Keys |-> None]
    /\ stage = [r \in Requests |-> "idle"]
    /\ response = [r \in Requests |-> None]
    /\ now = 0
    /\ restarts = 0
    /\ ran = [r \in Requests |-> None]

Goto(r, label) == stage' = [stage EXCEPT ![r] = label]
Unlock(r) == lock' = [lock EXCEPT ![KeyOf[r]] = None]

Arrive(r) ==
    /\ stage[r] = "idle"
    /\ Goto(r, "lock")
    /\ UNCHANGED <<records, lock, response, now, restarts, ran>>

\* Mutant of LockFree: no lock_for.
LockIgnored(r) == TRUE

LockFree(r) == lock[KeyOf[r]] = None

\* async with store.lock_for(key, endpoint)
Acquire(r) ==
    /\ stage[r] = "lock"
    /\ LockFree(r)
    /\ lock' = [lock EXCEPT ![KeyOf[r]] = r]
    /\ Goto(r, "lookup")
    /\ UNCHANGED <<records, response, now, restarts, ran>>

IsLive(rec) == rec # None /\ now < rec.expires

\* row.request_fingerprint = fingerprint_request(body)
SameBody(r, rec) == BodyOf[rec.from] = BodyOf[r]

\* lookup misses: no record, or an expired one, which it deletes.
Miss(r) ==
    /\ stage[r] = "lookup"
    /\ ~IsLive(records[KeyOf[r]])
    /\ records' = [records EXCEPT ![KeyOf[r]] = None]
    /\ Goto(r, "run")
    /\ UNCHANGED <<lock, response, now, restarts, ran>>

\* lookup hits: the cached response is returned and the handler is not run.
Replay(r) ==
    /\ stage[r] = "lookup"
    /\ LET rec == records[KeyOf[r]]
       IN  /\ IsLive(rec) /\ SameBody(r, rec)
           /\ response' = [response EXCEPT ![r] = rec.from]
    /\ Unlock(r)
    /\ Goto(r, "done")
    /\ UNCHANGED <<records, now, restarts, ran>>

\* The lookup itself raises: the handler has not run.
LookupRaises(r) ==
    /\ stage[r] = "lookup"
    /\ Unlock(r)
    /\ Goto(r, "failed")
    /\ UNCHANGED <<records, response, now, restarts, ran>>

\* The key was used for another body: 422.
Conflict(r) ==
    /\ stage[r] = "lookup"
    /\ LET rec == records[KeyOf[r]] IN IsLive(rec) /\ ~SameBody(r, rec)
    /\ Unlock(r)
    /\ Goto(r, "refused")
    /\ UNCHANGED <<records, response, now, restarts, ran>>

\* The handler returns a response ...
RunOk(r) ==
    /\ stage[r] = "run"
    /\ ran' = [ran EXCEPT ![r] = [at |-> now, life |-> restarts]]
    /\ Goto(r, "store")
    /\ UNCHANGED <<records, lock, response, now, restarts>>

\* Mutant of RunRaises: the lock is kept.
RunRaisesLocked(r) ==
    /\ stage[r] = "run"
    /\ Goto(r, "failed")
    /\ UNCHANGED <<records, lock, response, now, restarts, ran>>

\* ... or raises: nothing is cached, the lock is released.
RunRaises(r) ==
    /\ stage[r] = "run"
    /\ Unlock(r)
    /\ Goto(r, "failed")
    /\ UNCHANGED <<records, response, now, restarts, ran>>

\* store: a record that is already there stays (unique index).
Store(r) ==
    /\ stage[r] = "store"
    /\ records' = [records EXCEPT ![KeyOf[r]] =
                      IF @ = None THEN [from |-> r, expires |-> now + TTL] ELSE @]
    /\ response' = [response EXCEPT ![r] = r]
    /\ Unlock(r)
    /\ Goto(r, "done")
    /\ UNCHANGED <<now, restarts, ran>>

\* store raises what is not an IntegrityError: the handler's effects are there,
\* its response is not, and the caller gets a 500.
StoreRaises(r) ==
    /\ stage[r] = "store"
    /\ Unlock(r)
    /\ Goto(r, "unstored")
    /\ UNCHANGED <<records, response, now, restarts, ran>>

\* The process dies and comes back: requests and locks are gone.
Restart ==
    /\ restarts < MaxRestarts
    /\ restarts' = restarts + 1
    /\ lock' = [k \in Keys |-> None]
    /\ stage' = [r \in Requests |-> IF stage[r] \in Inside \cup {"lock"} THEN "lost" ELSE stage[r]]
    /\ UNCHANGED <<records, response, now, ran>>

Tick ==
    /\ now < MaxTime
    /\ now' = now + 1
    /\ UNCHANGED <<records, lock, stage, response, restarts, ran>>

Waiting(r) == stage[r] \in Inside \cup {"lock"}
\* Nobody is running: the process waits, with whoever waits for a lock.
Wait == (\A r \in Requests : stage[r] \notin Inside) /\ UNCHANGED idemVars

Step(r) ==
    \/ Acquire(r) \/ Miss(r) \/ Replay(r) \/ Conflict(r) \/ LookupRaises(r)
    \/ RunOk(r) \/ RunRaises(r) \/ Store(r) \/ StoreRaises(r)

IdemNext ==
    \/ \E r \in Requests : Arrive(r) \/ Step(r)
    \/ Restart \/ Tick \/ Wait

\* The event loop resumes whoever is ready; asyncio.Lock is first come, first
\* served, and there are finitely many requests.
IdemFairness == \A r \in Requests : WF_idemVars(Step(r))

IdemSpec == IdemInit /\ [][IdemNext]_idemVars /\ IdemFairness

-----------------------------------------------------------------------------
(* Properties                                                              *)

IdemTypeOK ==
    /\ records \in [Keys -> [from : Requests, expires : Nat] \cup {None}]
    /\ lock \in [Keys -> Requests \cup {None}]
    /\ stage \in [Requests -> Inside \cup {"idle", "lock", "done", "refused", "failed", "unstored", "lost"}]
    /\ response \in [Requests -> Requests \cup {None}]
    /\ now \in Nat /\ restarts \in Nat
    /\ ran \in [Requests -> [at : Nat, life : Nat] \cup {None}]

\* The response of r's handler was not lost on its way to the store.
Cached(r) == stage[r] # "unstored"

\* The side effects happen once: in one life of the process, two requests with
\* the same key whose handlers both succeeded are at least a lifetime of the
\* record apart, unless the response of the earlier one could not be stored.
\* (Of two at the same time the model does not say which was earlier.)
RunsOnce ==
    \A q, r \in Requests :
        /\ q # r /\ KeyOf[q] = KeyOf[r]
        /\ ran[q] # None /\ ran[r] # None /\ ran[q].life = ran[r].life
        /\ Cached(q)
        /\ Cached(r) \/ ran[q].at < ran[r].at
        => ran[q].at - ran[r].at >= TTL \/ ran[r].at - ran[q].at >= TTL

\* Nobody is handed the response to another request body, even when a key is
\* reused, its record expires or the process restarts.
AnswersOwnBody ==
    \A r \in Requests : response[r] # None => BodyOf[response[r]] = BodyOf[r]

\* Every request that waits for the key's lock is answered or lost in a restart:
\* no outcome of a handler keeps the lock.
EveryoneAnswered == \A r \in Requests : Waiting(r) ~> ~Waiting(r)

=============================================================================
