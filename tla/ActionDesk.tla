----------------------------- MODULE ActionDesk -----------------------------
(***************************************************************************)
(* The refund approval desk: concurrent HTTP requests and agent tools that *)
(* create, approve, reject, execute, invalidate and reap action requests,  *)
(* over the SQL repository, the payment adapter and the dispatch adapter.  *)
(*                                                                         *)
(* The gateway is one asyncio process.  Code between two awaits is one     *)
(* atomic step; every database call is one, and other requests run in      *)
(* between.  A request carries what it read in mem[r] and goes on with it, *)
(* however stale, until the compare-and-set on the row's version.          *)
(***************************************************************************)
EXTENDS Integers, Sequences, FiniteSets

CONSTANTS
    Orders, Balance,   \* orders and their refundable balances
    Stock,             \* replacement units in the warehouse
    Cases, Owner,      \* service cases and the user each belongs to
    Users, Admins,     \* operators; Admins have the supervisor role
    Plans, Opening,    \* possible decisions; Opening[c]: how case c starts
    ActionIds,         \* bounds the number of action rows
    Requests, Kind,    \* bounds the requests; Kind[r]: the handler r runs
    Tools,             \* requests run as agent tools, which a run cancels
    Versions,          \* values of expected_version a client may send
    TTL, MaxTime,      \* lifetime of an action; bound of the clock
    MaxFaults,         \* bounds the storage errors
    None               \* no value

Kinds == {"create", "approve", "reject", "execute", "supplement", "reap"}
DeskKinds == {"approve", "reject", "execute"}
Active == {"pending_approval", "approved"}
ActionStatus == Active \cup {"rejected", "completed"}

\* What of a decision an action is made from (schemas.DecisionResult).
PlanShape == [type : {"refund", "resend", "manual"}, amount : Nat \ {0},
              auto : BOOLEAN, need : {1, 2}, needsReturn : BOOLEAN]

Amounts == {p.amount : p \in Plans}

ASSUME DeskAssumption ==
    /\ Balance \in [Orders -> Nat]
    /\ Stock \in Nat
    /\ Owner \in [Cases -> Users]
    /\ Admins \subseteq Users
    /\ Plans \subseteq PlanShape
    /\ Opening \in [Cases -> [order : Orders, plan : Plans]]
    /\ Kind \in [Requests -> Kinds]
    /\ Tools \subseteq Requests
    /\ Versions \subseteq Nat
    /\ TTL \in Nat /\ MaxTime \in Nat /\ MaxFaults \in Nat

VARIABLES
    available, reserved, transactions, captured,   \* the payment adapter
    stock, outbound,                               \* the dispatch adapter
    cases, actions, events,                        \* the database
    pc, mem,                                       \* the requests
    now, faults

ledger == <<available, reserved, transactions, captured>>
warehouse == <<stock, outbound>>
vars == <<ledger, warehouse, cases, actions, events, pc, mem, now, faults>>

\* ActionRequest: the payload, who must sign it and who did, and its state.
\* auto stands for approved_by = "system-policy".
Rows == [case : Cases, type : {"refund", "resend"}, order : Orders,
         amount : Amounts, needsReturn : BOOLEAN, auto : BOOLEAN,
         need : {1, 2}, requester : Users, expires : Nat,
         status : ActionStatus, version : Nat, signers : Seq(Users),
         reserved : BOOLEAN]

CaseStatus == ActionStatus \cup {"decided", "awaiting_evidence", "execution_processing"}
CaseRows == [order : Orders, plan : Plans, status : CaseStatus, version : Nat]

\* The idempotency key: a hash of the case, the action type and the payload.
Key(a) == [case |-> a.case, type |-> a.type, order |-> a.order,
           amount |-> a.amount, needsReturn |-> a.needsReturn]

PaymentKeys == [case : Cases, type : {"refund", "resend"}, order : Orders,
                amount : Amounts, needsReturn : BOOLEAN]

\* settle() has no caller in the program.
Ledger == INSTANCE RefundLedger
          WITH Keys <- PaymentKeys, settled <- {}

Labels == {"idle", "readCase", "decide", "insert", "refresh", "list", "save", "reread",
           "clear", "updateCase", "event", "event2", "next",
           "done", "failed", "cancelled"}
Ended == {"done", "failed", "cancelled"}
InFlight(r) == pc[r] \notin Ended \cup {"idle"}

Blank == [aid |-> None, act |-> None, expected |-> 0,
          cid |-> None, cas |-> None, batch |-> {}]

Init ==
    /\ available = Balance
    /\ reserved = [o \in Orders |-> 0]
    /\ transactions = {}
    /\ captured = [o \in Orders |-> 0]
    /\ stock = Stock
    /\ outbound = {}
    /\ cases = [c \in Cases |-> [order |-> Opening[c].order, plan |-> Opening[c].plan,
                                 status |-> "decided", version |-> 1]]
    /\ actions = [i \in {} |-> None]
    /\ events = {}
    /\ pc = [r \in Requests |-> "idle"]
    /\ mem = [r \in Requests |-> Blank]
    /\ now = 0
    /\ faults = 0

-----------------------------------------------------------------------------
(* Steps every handler shares.                                             *)

Goto(r, label) == pc' = [pc EXCEPT ![r] = label]
End(r, label) == Goto(r, label) /\ mem' = [mem EXCEPT ![r] = Blank]

\* Mutant of Guarded: nothing is rolled back.
GuardedNever(r) == FALSE

\* The except clauses around the insert of a new action and around the save of
\* an approval: give the reservation back, then re-raise.  The other handlers
\* have none.
Guarded(r) ==
    \/ Kind[r] = "create" /\ pc[r] \in {"insert", "refresh"}
    \/ Kind[r] = "approve" /\ pc[r] \in {"save", "reread"}

Abort(r) ==
    /\ IF Guarded(r) /\ mem[r].act.type = "refund" /\ mem[r].act.reserved
         THEN Ledger!Release(mem[r].cas.order, mem[r].act.amount)
         ELSE UNCHANGED ledger
    /\ End(r, "failed")

\* _admin_action: the action is read first, its case in a second query.
ReadAction(r) ==
    /\ pc[r] = "idle" /\ Kind[r] \in DeskKinds
    /\ \E i \in DOMAIN actions :
          mem' = [mem EXCEPT ![r] = [Blank EXCEPT !.aid = i, !.act = actions[i]]]
    /\ Goto(r, "readCase")
    /\ UNCHANGED <<ledger, warehouse, cases, actions, events, now, faults>>

ReadActionCase(r) ==
    /\ pc[r] = "readCase"
    /\ LET c == mem[r].act.case
       IN  mem' = [mem EXCEPT ![r].cid = c, ![r].cas = cases[c]]
    /\ Goto(r, "decide")
    /\ UNCHANGED <<ledger, warehouse, cases, actions, events, now, faults>>

\* get_case, of the caller's own case.
ReadCase(r) ==
    /\ pc[r] = "idle" /\ Kind[r] \in {"create", "supplement"}
    /\ \E c \in Cases :
          mem' = [mem EXCEPT ![r] = [Blank EXCEPT !.cid = c, !.cas = cases[c]]]
    /\ Goto(r, IF Kind[r] = "create" THEN "decide" ELSE "list")
    /\ UNCHANGED <<ledger, warehouse, cases, actions, events, now, faults>>

\* save_action: the whole row is written if its version is still the expected
\* one.
VersionHolds(r) == actions[mem[r].aid].version = mem[r].expected

SaveAction(r) ==
    /\ pc[r] \in {"save", "clear"}
    /\ VersionHolds(r)
    /\ actions' = [actions EXCEPT ![mem[r].aid] = mem[r].act]
    /\ Goto(r, CASE pc[r] = "clear" -> "updateCase"
                 [] Kind[r] = "reap" -> "next"
                 [] OTHER -> "reread")
    /\ UNCHANGED <<ledger, warehouse, cases, events, mem, now, faults>>

\* Mutant of SaveConflict: the save is tried again with the version it has.
SaveConflictRetries(r) ==
    /\ pc[r] \in {"save", "clear"}
    /\ ~VersionHolds(r)
    /\ UNCHANGED vars

SaveConflict(r) ==
    /\ pc[r] \in {"save", "clear"}
    /\ ~VersionHolds(r)
    /\ Abort(r)
    /\ UNCHANGED <<warehouse, cases, actions, events, now, faults>>

\* save_action and create_action return the row as it is by now.
Reread(r) ==
    /\ \/ pc[r] = "reread" /\ Kind[r] \in DeskKinds
       \/ pc[r] = "refresh"
    /\ mem' = [mem EXCEPT ![r].act = actions[mem[r].aid]]
    /\ Goto(r, IF Kind[r] \in {"approve", "reject"} THEN "event" ELSE "updateCase")
    /\ UNCHANGED <<ledger, warehouse, cases, actions, events, now, faults>>

\* update_case: compare-and-set on the version of the case as it was read.
CaseHolds(r) == cases[mem[r].cid].version = mem[r].cas.version

WriteCase(r, order, plan, status) ==
    /\ pc[r] = "updateCase"
    /\ CaseHolds(r)
    /\ cases' = [cases EXCEPT ![mem[r].cid] =
                    [order |-> order, plan |-> plan, status |-> status,
                     version |-> mem[r].cas.version + 1]]
    /\ UNCHANGED <<ledger, warehouse, actions, events, now, faults>>

StatusAfter(kind, a) ==
    CASE kind \in {"create", "approve"} -> a.status
      [] kind = "reject" -> "rejected"
      [] kind = "execute" -> IF a.type = "resend" THEN "completed" ELSE "execution_processing"

UpdateCase(r) ==
    /\ Kind[r] \in DeskKinds \cup {"create"}
    /\ LET c == mem[r].cas
       IN  WriteCase(r, c.order, c.plan, StatusAfter(Kind[r], mem[r].act))
    /\ IF Kind[r] \in {"create", "execute"}
         THEN Goto(r, "event") /\ UNCHANGED mem
         ELSE End(r, "done")

CaseConflict(r) ==
    /\ pc[r] = "updateCase"
    /\ ~CaseHolds(r)
    /\ Abort(r)
    /\ UNCHANGED <<warehouse, cases, actions, events, now, faults>>

EventType(r) ==
    CASE Kind[r] = "create" ->
            IF mem[r].act.status = "pending_approval" THEN "approval_requested" ELSE "action_approved"
      [] Kind[r] = "approve" -> "approval_granted"
      [] Kind[r] = "reject" -> "approval_rejected"
      [] Kind[r] = "execute" -> "execution_succeeded"
      [] Kind[r] = "supplement" ->
            IF pc[r] = "event" THEN "evidence_supplemented" ELSE "case_reassessed"

\* append_event: CaseEventChain has its detail.
AppendEvent(r) ==
    /\ pc[r] \in {"event", "event2"}
    /\ events' = events \cup {[case |-> mem[r].cid, type |-> EventType(r), action |-> mem[r].aid]}
    /\ CASE Kind[r] \in {"approve", "reject"} -> Goto(r, "updateCase") /\ UNCHANGED mem
         [] Kind[r] = "supplement" /\ pc[r] = "event" -> Goto(r, "event2") /\ UNCHANGED mem
         [] OTHER -> End(r, "done")
    /\ UNCHANGED <<ledger, warehouse, cases, actions, now, faults>>

\* A database call raises, before its commit or after it.
StorageError(r) ==
    /\ InFlight(r) /\ faults < MaxFaults
    /\ pc[r] # "decide"
    /\ Abort(r)
    /\ faults' = faults + 1
    /\ UNCHANGED <<warehouse, cases, actions, events, now>>

\* Cancelling a run cancels its task: CancelledError at the next await, which
\* the except Exception clauses do not catch.
Cancel(r) ==
    /\ InFlight(r) /\ r \in Tools
    /\ End(r, "cancelled")
    /\ UNCHANGED <<ledger, warehouse, cases, actions, events, now, faults>>

-----------------------------------------------------------------------------
(* create_case_action                                                      *)

\* create_refund_action, create_resend_action.  Only a refund can be approved
\* by policy, and only a refund names a number of signatures.
NewAction(c, cas) ==
    LET p == cas.plan
        refund == p.type = "refund"
        auto == refund /\ p.auto
    IN  [case |-> c, type |-> p.type, order |-> cas.order, amount |-> p.amount,
         needsReturn |-> refund /\ p.needsReturn, auto |-> auto,
         need |-> IF refund THEN p.need ELSE 1,
         requester |-> Owner[c], expires |-> now + TTL,
         status |-> IF auto THEN "approved" ELSE "pending_approval",
         version |-> 1, signers |-> <<>>, reserved |-> auto]

ReadyForAction(cas) == cas.status = "decided" /\ cas.plan.type # "manual"

\* An action approved by policy is funded before it is stored.
CreateAction(r) ==
    /\ pc[r] = "decide" /\ Kind[r] = "create"
    /\ LET cas == mem[r].cas
           a == NewAction(mem[r].cid, cas)
       IN  /\ ReadyForAction(cas)
           /\ IF a.reserved THEN Ledger!Reserve(cas.order, a.amount) ELSE UNCHANGED ledger
           /\ mem' = [mem EXCEPT ![r].act = a]
    /\ Goto(r, "insert")
    /\ UNCHANGED <<warehouse, cases, actions, events, now, faults>>

CreateRefused(r) ==
    /\ pc[r] = "decide" /\ Kind[r] = "create"
    /\ LET cas == mem[r].cas
           a == NewAction(mem[r].cid, cas)
       IN  ReadyForAction(cas) => a.reserved /\ ~Ledger!CanReserve(cas.order, a.amount)
    /\ End(r, "failed")
    /\ UNCHANGED <<ledger, warehouse, cases, actions, events, now, faults>>

\* The partial unique index and the UNIQUE constraint on idempotency_key; the
\* check for an active action that precedes the insert is subsumed.
HasActive(c) == \E i \in DOMAIN actions : actions[i].case = c /\ actions[i].status \in Active
KeyTaken(k) == \E i \in DOMAIN actions : Key(actions[i]) = k
Insertable(a) == ~HasActive(a.case) /\ ~KeyTaken(Key(a))

InsertAction(r) ==
    /\ pc[r] = "insert"
    /\ Insertable(mem[r].act)
    /\ \E i \in ActionIds \ DOMAIN actions :
          /\ actions' = [j \in DOMAIN actions \cup {i} |->
                            IF j = i THEN mem[r].act ELSE actions[j]]
          /\ mem' = [mem EXCEPT ![r].aid = i]
    /\ Goto(r, "refresh")
    /\ UNCHANGED <<ledger, warehouse, cases, events, now, faults>>

InsertConflict(r) ==
    /\ pc[r] = "insert"
    /\ ~Insertable(mem[r].act)
    /\ Abort(r)
    /\ UNCHANGED <<warehouse, cases, actions, events, now, faults>>

-----------------------------------------------------------------------------
(* approve, reject                                                         *)

\* _check_decision, for an approver u who sends expected_version v.
CheckDecision(a, u, v) ==
    /\ a.status = "pending_approval"
    /\ a.version = v
    /\ now < a.expires
    /\ u \in Admins
    /\ a.requester # u

\* Mutant of HasSigned: a second signature by the same person counts.
SignsAgain(a, u) == FALSE

\* approver_id in action.approver_ids
HasSigned(a, u) == \E j \in 1..Len(a.signers) : a.signers[j] = u

Approved(a, u) ==
    LET signers == Append(a.signers, u)
    IN  [a EXCEPT !.signers = signers,
                  !.status = IF Len(signers) >= a.need THEN "approved" ELSE "pending_approval",
                  !.version = @ + 1]

\* Mutant of NeedsFunds: an approval freezes nothing.
NeedsNoFunds(a) == FALSE

\* The balance is checked on the order of the payload and reserved on the order
\* of the case.
NeedsFunds(a) == a.type = "refund" /\ ~a.reserved

ApproveAllowed(r, u, v) ==
    LET a == mem[r].act
    IN  /\ CheckDecision(a, u, v)
        /\ ~HasSigned(a, u)
        /\ NeedsFunds(a) => /\ Ledger!CanReserve(a.order, a.amount)
                            /\ Ledger!CanReserve(mem[r].cas.order, a.amount)

Approve(r) ==
    /\ pc[r] = "decide" /\ Kind[r] = "approve"
    /\ \E u \in Users, v \in Versions :
          LET a == mem[r].act
          IN  /\ ApproveAllowed(r, u, v)
              /\ IF NeedsFunds(a) THEN Ledger!Reserve(mem[r].cas.order, a.amount)
                                  ELSE UNCHANGED ledger
              /\ mem' = [mem EXCEPT ![r].act = [Approved(a, u) EXCEPT !.reserved = a.type = "refund"],
                                    ![r].expected = v]
    /\ Goto(r, "save")
    /\ UNCHANGED <<warehouse, cases, actions, events, now, faults>>

\* The reservation is released before the rejection is saved.
Reject(r) ==
    /\ pc[r] = "decide" /\ Kind[r] = "reject"
    /\ \E u \in Users, v \in Versions :
          LET a == mem[r].act
          IN  /\ CheckDecision(a, u, v)
              /\ IF a.type = "refund" /\ a.reserved
                   THEN Ledger!Release(mem[r].cas.order, a.amount)
                   ELSE UNCHANGED ledger
              /\ mem' = [mem EXCEPT ![r].act = [a EXCEPT !.status = "rejected",
                                                         !.version = @ + 1,
                                                         !.reserved = FALSE],
                                    ![r].expected = v]
    /\ Goto(r, "save")
    /\ UNCHANGED <<warehouse, cases, actions, events, now, faults>>

-----------------------------------------------------------------------------
(* execute                                                                 *)

\* Mutant of ExecuteChecks: the status is not looked at.
ExecuteUnapproved(a, v, h) == a.version = v /\ now < a.expires /\ h

\* Checks of execute_approved_action and execute_approved_resend; h: the payload
\* sent has the hash that was signed.
ExecuteChecks(a, v, h) ==
    /\ a.status = "approved"
    /\ a.version = v
    /\ now < a.expires
    /\ h

\* The pool of the case's order is checked, the pool of the payload's order is
\* captured; a key with a receipt skips both.
PayAllowed(r, v, h) ==
    LET a == mem[r].act
    IN  /\ a.type = "refund"
        /\ ExecuteChecks(a, v, h)
        /\ ~a.needsReturn
        /\ \/ Ledger!Paid(Key(a))
           \/ /\ reserved[mem[r].cas.order] >= a.amount
              /\ Ledger!CanCapture(a.order, a.amount)

DispatchAllowed(r, v, h) ==
    LET a == mem[r].act
    IN  /\ a.type = "resend"
        /\ ExecuteChecks(a, v, h)
        /\ Key(a) \in outbound \/ stock >= 1

\* execute_case_action up to the save: status, version and, for a refund, the
\* reserved flag.
Completed(a) == [a EXCEPT !.status = "completed", !.version = @ + 1, !.reserved = FALSE]

\* Mutant of Pay: the action is completed and the adapter never called.
PayOnPaper(r) ==
    /\ pc[r] = "decide" /\ Kind[r] = "execute"
    /\ \E v \in Versions, h \in BOOLEAN :
          /\ PayAllowed(r, v, h)
          /\ mem' = [mem EXCEPT ![r].act = Completed(mem[r].act), ![r].expected = v]
    /\ Goto(r, "save")
    /\ UNCHANGED <<ledger, warehouse, cases, actions, events, now, faults>>

\* execute_approved_action and the refund it makes.
Pay(r) ==
    /\ pc[r] = "decide" /\ Kind[r] = "execute"
    /\ \E v \in Versions, h \in BOOLEAN :
          LET a == mem[r].act
          IN  /\ PayAllowed(r, v, h)
              /\ IF Ledger!Paid(Key(a)) THEN UNCHANGED ledger
                                        ELSE Ledger!Capture(a.order, a.amount, Key(a))
              /\ mem' = [mem EXCEPT ![r].act = Completed(a), ![r].expected = v]
    /\ Goto(r, "save")
    /\ UNCHANGED <<warehouse, cases, actions, events, now, faults>>

\* Mutant of StockAfter: a retry ships again.
StockCharged(k) == stock - 1

\* MockReverseExecutor.dispatch replays a key it knows.
StockAfter(k) == IF k \in outbound THEN stock ELSE stock - 1

Dispatch(r) ==
    /\ pc[r] = "decide" /\ Kind[r] = "execute"
    /\ \E v \in Versions, h \in BOOLEAN :
          LET a == mem[r].act
          IN  /\ DispatchAllowed(r, v, h)
              /\ stock' = StockAfter(Key(a))
              /\ outbound' = outbound \cup {Key(a)}
              /\ mem' = [mem EXCEPT ![r].act = Completed(a), ![r].expected = v]
    /\ Goto(r, "save")
    /\ UNCHANGED <<ledger, cases, actions, events, now, faults>>

\* A decision on the desk is refused, with no effect.
Refuse(r) ==
    /\ pc[r] = "decide" /\ Kind[r] \in DeskKinds
    /\ ~ \A u \in Users, v \in Versions, h \in BOOLEAN :
            CASE Kind[r] = "approve" -> ApproveAllowed(r, u, v)
              [] Kind[r] = "reject" -> CheckDecision(mem[r].act, u, v)
              [] Kind[r] = "execute" -> PayAllowed(r, v, h) \/ DispatchAllowed(r, v, h)
    /\ End(r, "failed")
    /\ UNCHANGED <<ledger, warehouse, cases, actions, events, now, faults>>

-----------------------------------------------------------------------------
(* continue_intake_case: new evidence invalidates the active action        *)

\* Mutant of Invalidated: the version is left alone.
InvalidatedInPlace(a) == [a EXCEPT !.status = "rejected"]

Invalidated(a) == [a EXCEPT !.status = "rejected", !.version = @ + 1]

\* invalidate_active_actions: the actions of the case are listed ...
ListActive(r) ==
    /\ pc[r] = "list"
    /\ \/ \E i \in DOMAIN actions :
             LET a == actions[i]
             IN  /\ a.case = mem[r].cid /\ a.status \in Active
                 /\ mem' = [mem EXCEPT ![r].aid = i, ![r].expected = a.version,
                                       ![r].act = Invalidated(a)]
                 /\ Goto(r, "save")
       \/ /\ ~HasActive(mem[r].cid)
          /\ Goto(r, "updateCase")
          /\ UNCHANGED mem
    /\ UNCHANGED <<ledger, warehouse, cases, actions, events, now, faults>>

\* ... and, once saved and read again, its reservation is released, on the order
\* the case had when it was read, and the flag is cleared by a second save.
ReleaseInvalidated(r) ==
    /\ pc[r] = "reread" /\ Kind[r] = "supplement"
    /\ LET a == actions[mem[r].aid]
       IN  IF a.type = "refund" /\ a.reserved
             THEN /\ Ledger!Release(mem[r].cas.order, a.amount)
                  /\ mem' = [mem EXCEPT ![r].act = [a EXCEPT !.reserved = FALSE, !.version = @ + 1],
                                        ![r].expected = a.version]
                  /\ Goto(r, "clear")
             ELSE UNCHANGED <<ledger, mem>> /\ Goto(r, "updateCase")
    /\ UNCHANGED <<warehouse, cases, actions, events, now, faults>>

\* The case is written with the plan that the new evidence leads to.
Reassess(r) ==
    /\ Kind[r] = "supplement"
    /\ \E order \in Orders, plan \in Plans :
          WriteCase(r, order, plan, IF plan.type = "manual" THEN "awaiting_evidence" ELSE "decided")
    /\ Goto(r, "event")
    /\ UNCHANGED mem

-----------------------------------------------------------------------------
(* release_expired_reservations, run by every load of the approval desk    *)

Expired(a) == a.reserved /\ a.status \in Active /\ a.expires < now

\* The order comes from the case row.
ReapList(r) ==
    /\ pc[r] = "idle" /\ Kind[r] = "reap"
    /\ mem' = [mem EXCEPT ![r].batch =
                  {[aid |-> i, act |-> actions[i], order |-> cases[actions[i].case].order] :
                      i \in {j \in DOMAIN actions : Expired(actions[j])}}]
    /\ Goto(r, "next")
    /\ UNCHANGED <<ledger, warehouse, cases, actions, events, now, faults>>

\* The version of the row is not changed.
ReapRelease(r) ==
    /\ pc[r] = "next"
    /\ \E b \in mem[r].batch :
          /\ Ledger!Release(b.order, b.act.amount)
          /\ mem' = [mem EXCEPT ![r].aid = b.aid, ![r].expected = b.act.version,
                                ![r].act = [b.act EXCEPT !.reserved = FALSE],
                                ![r].batch = @ \ {b}]
    /\ Goto(r, "save")
    /\ UNCHANGED <<warehouse, cases, actions, events, now, faults>>

ReapDone(r) ==
    /\ pc[r] = "next" /\ mem[r].batch = {}
    /\ End(r, "done")
    /\ UNCHANGED <<ledger, warehouse, cases, actions, events, now, faults>>

-----------------------------------------------------------------------------

Tick ==
    /\ now < MaxTime
    /\ now' = now + 1
    /\ UNCHANGED <<ledger, warehouse, cases, actions, events, pc, mem, faults>>

Quiescent == \A r \in Requests : ~InFlight(r)

\* Between requests the process waits.
Wait == Quiescent /\ UNCHANGED vars

Step(r) ==
    \/ ReadAction(r) \/ ReadActionCase(r) \/ ReadCase(r)
    \/ CreateAction(r) \/ CreateRefused(r) \/ InsertAction(r) \/ InsertConflict(r)
    \/ Approve(r) \/ Reject(r) \/ Pay(r) \/ Dispatch(r) \/ Refuse(r)
    \/ SaveAction(r) \/ SaveConflict(r) \/ Reread(r)
    \/ ListActive(r) \/ ReleaseInvalidated(r) \/ Reassess(r)
    \/ UpdateCase(r) \/ CaseConflict(r) \/ AppendEvent(r)
    \/ ReapList(r) \/ ReapRelease(r) \/ ReapDone(r)

Next ==
    \/ \E r \in Requests : Step(r) \/ StorageError(r) \/ Cancel(r)
    \/ Tick
    \/ Wait

Spec == Init /\ [][Next]_vars

\* The event loop resumes every request that is ready.
FairSpec == Spec /\ \A r \in Requests : WF_vars(Step(r) /\ InFlight(r))

-----------------------------------------------------------------------------
(* Properties                                                              *)

BatchItems == [aid : ActionIds, act : Rows, order : Orders]

Memory == [aid : ActionIds \cup {None}, act : Rows \cup {None}, expected : Nat,
           cid : Cases \cup {None}, cas : CaseRows \cup {None},
           batch : SUBSET BatchItems]

Events == [case : Cases \cup {None}, action : ActionIds \cup {None},
           type : {"approval_requested", "action_approved", "approval_granted",
                   "approval_rejected", "execution_succeeded",
                   "evidence_supplemented", "case_reassessed"}]

TypeOK ==
    /\ available \in [Orders -> Nat]
    /\ reserved \in [Orders -> Nat]
    /\ transactions \subseteq [key : PaymentKeys, order : Orders, amount : Amounts]
    /\ captured \in [Orders -> Nat]
    /\ stock \in Nat
    /\ outbound \subseteq PaymentKeys
    /\ cases \in [Cases -> CaseRows]
    /\ DOMAIN actions \subseteq ActionIds
    /\ actions \in [DOMAIN actions -> Rows]
    /\ events \subseteq Events
    /\ pc \in [Requests -> Labels]
    /\ mem \in [Requests -> Memory]
    /\ now \in Nat /\ faults \in Nat

\* As many signatures as the action needs, or the policy's.
FullySigned(a) == a.auto \/ Len(a.signers) >= a.need

\* Every signature is of another supervisor, none of them the requester.
SignedByOthers(a) ==
    /\ \A j \in 1..Len(a.signers) : a.signers[j] \in Admins \ {a.requester}
    /\ \A j, k \in 1..Len(a.signers) : a.signers[j] = a.signers[k] => j = k

\* No money moves without its signatures: every receipt of the payment adapter
\* and every outbound shipment belongs to a stored action that has, in its row,
\* all the distinct signatures it needs and none by its requester, although
\* execute acts on a copy of the row that other requests may have rewritten.
MovedWasSigned ==
    \A k \in {t.key : t \in transactions} \cup outbound :
        \E i \in DOMAIN actions :
            /\ Key(actions[i]) = k
            /\ FullySigned(actions[i])
            /\ SignedByOthers(actions[i])

\* A row that says completed is backed by a receipt (refund) or a shipment
\* (resend) under its own idempotency key.
CompletedHasReceipt ==
    \A i \in DOMAIN actions :
        actions[i].status = "completed" =>
            IF actions[i].type = "refund" THEN Ledger!Paid(Key(actions[i]))
                                          ELSE Key(actions[i]) \in outbound

\* What was asked for and who must sign it: save_action rewrites these fields
\* with what create_action stored.
SameContract(a, b) ==
    /\ b.case = a.case /\ b.type = a.type /\ b.order = a.order /\ b.amount = a.amount
    /\ b.needsReturn = a.needsReturn /\ b.auto = a.auto /\ b.need = a.need
    /\ b.requester = a.requester /\ b.expires = a.expires

\* The life of an action row.
RowStep(a, b) ==
    /\ SameContract(a, b)
    /\ \/ /\ a.status = "pending_approval"
          /\ \E u \in Admins : b.signers = Append(a.signers, u)
          /\ b.status = IF Len(b.signers) >= a.need THEN "approved" ELSE "pending_approval"
          /\ b.version = a.version + 1
       \/ /\ a.status \in Active
          /\ b.status = "rejected"
          /\ b.signers = a.signers
          /\ b.version = a.version + 1
       \/ /\ a.status = "approved"
          /\ b.status = "completed"
          /\ b.signers = a.signers
          /\ b.version = a.version + 1
       \/ /\ b.status = a.status
          /\ b.signers = a.signers
          /\ b.version \in {a.version, a.version + 1}
          /\ ~b.reserved

\* No lost update: save_action writes whole rows computed from stale copies, and
\* the reaper's saves leave the version alone, and still every write that lands
\* is one step of the life of the row as it is in the database: no signature
\* disappears, a rejected or completed row stays so, a payload never changes.
RowLifecycle ==
    [][\A i \in DOMAIN actions :
          actions'[i] # actions[i] => RowStep(actions[i], actions'[i])]_vars

\* The desk keeps the promise: a payment is signed by the row it belongs to and
\* paid in the payment adapter, at most once.
Promise == INSTANCE RefundPromise
           WITH Payments <- PaymentKeys,
                signed <- {Key(actions[i]) : i \in {j \in DOMAIN actions : FullySigned(actions[j])}},
                paid <- {t.key : t \in transactions}

KeepsPromise == Promise!PromiseSpec

\* Every step of every handler is at most one call of the payment adapter, so
\* that all that holds of the adapter holds of the desk.
ImplementsLedger == Ledger!LedgerSpec

\* A completed action has its execution in the audit trail once its requests
\* have ended.
ExecutionAudited ==
    Quiescent => \A i \in DOMAIN actions :
        actions[i].status = "completed" =>
            [case |-> actions[i].case, type |-> "execution_succeeded", action |-> i] \in events

\* Every request that has started gets its answer.
Answered == \A r \in Requests : InFlight(r) ~> pc[r] \in Ended

\* A unit leaves the warehouse once per key: what is in stock and what was
\* shipped add up, however often execute is retried.
ShippedOnce == stock + Cardinality(outbound) = Stock

=============================================================================
