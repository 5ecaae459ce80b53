--------------------------- MODULE SchemaBootstrap ---------------------------
(***************************************************************************)
(* How a gateway brings the database to the current schema when it starts  *)
(* (persistence/bootstrap.py), over the fourteen alembic revisions of      *)
(* migrations/versions and their helpers.                                  *)
(*                                                                         *)
(* An empty database gets every table at once and is stamped at the head;  *)
(* one that predates alembic gets its missing baseline tables, is stamped  *)
(* at the baseline and upgraded; one with a version is upgraded.  Callers  *)
(* queue on a lock: gateways on Postgres's advisory lock, tasks of one     *)
(* process on SQLite's in-process lock.  (Two processes on one SQLite file *)
(* are documented as best effort and left out.)                            *)
(*                                                                         *)
(* What the code leaves to the drivers is modelled from their behaviour:   *)
(* Postgres runs DDL inside the transaction, an upgrade being a single     *)
(* one; SQLite commits each DDL statement on its own until the first row   *)
(* is written, which opens a transaction.  alembic rebuilds a SQLite table *)
(* that it cannot alter in place, through a temporary copy.                *)
(*                                                                         *)
(* The rows of the tables are left out.  They matter to one revision: 0009 *)
(* adds a NOT NULL column without a default, which either database refuses *)
(* once case_events holds a row, so what is shown here is shown of         *)
(* databases whose case_events is empty or past that revision.             *)
(***************************************************************************)
EXTENDS Naturals, Sequences, FiniteSets, Filters

CONSTANTS
    Callers,         \* gateways on Postgres, tasks of one process on SQLite
    NoCaller,
    Backends,        \* the backends explored
    MaxCrashes

ASSUME BootAssumption ==
    /\ Backends \subseteq {"sqlite", "postgres"}
    /\ MaxCrashes \in Nat /\ NoCaller \notin Callers

VARIABLES
    backend,
    db,              \* what is committed: objects, the version table, its revisions
    txn,             \* the same as the holder of the lock sees it
    inTxn,            \* the holder has a transaction that a crash undoes
    holder, pc,
    plan,            \* the phases the holder has left
    todo,            \* the statements of its current phase
    crashes

bootVars == <<backend, db, txn, inTxn, holder, pc, plan, todo, crashes>>

-----------------------------------------------------------------------------
(* Statements.  An object is a table, or a part of one: a column, an index. *)

Table(t) == <<t, "table">>

Create(t, part) == [kind |-> "create", obj |-> <<t, part>>]
Safe(t, part) == [kind |-> "safe", obj |-> <<t, part>>]
Discard(t, part) == [kind |-> "discard", obj |-> <<t, part>>]
\* A batch that SQLite can only do by copying the table; "copy" writes rows.
Rebuild(t, part) == <<[kind |-> "rebuild", obj |-> <<t, part>>],
                      [kind |-> "copy", obj |-> <<t, part>>]>>

\* One statement for each table of ts and another after it.
ForEach(ts, first(_), second(_)) ==
    [k \in 1 .. 2 * Len(ts) |->
        IF k % 2 = 1 THEN first(ts[(k + 1) \div 2]) ELSE second(ts[k \div 2])]

BaselineOrder ==
    <<"channel_connections", "channel_conversations", "channel_credentials",
      "channel_oauth_states", "feedback", "run_events", "runs", "threads_meta", "users">>

BaselineTables == Members(BaselineOrder)

\* 0001 creates its tables with no guard: only a database without them gets here.
Baseline ==
    ForEach(BaselineOrder, LAMBDA t : Create(t, "table"), LAMBDA t : Create(t, "ix"))

RunsTokenUsage == Rebuild("runs", "token_usage_by_model")

ScheduledTasks ==
    <<Create("scheduled_tasks", "table"), Create("scheduled_tasks", "ix"),
      Create("scheduled_task_runs", "table"), Create("scheduled_task_runs", "ix")>>

AfterSales ==
    <<Safe("service_cases", "table"), Safe("service_cases", "ix"),
      Safe("action_requests", "table"), Safe("action_requests", "ix"),
      Safe("case_events", "table"), Safe("case_events", "ix")>>

ActionActive == <<Safe("action_requests", "uq_action_one_active_per_case")>>

ActionApprovers ==
    <<Safe("action_requests", "approvers_required"), Safe("action_requests", "approver_ids")>>

Idempotency ==
    <<Safe("after_sales_idempotency", "table"), Safe("after_sales_idempotency", "ix")>>

HashChain == <<Safe("case_events", "prev_hash"), Safe("case_events", "event_hash")>>

ToolCallAudit ==
    <<Safe("after_sales_tool_audit", "table"), Safe("after_sales_tool_audit", "ix")>>

ActionReserved == <<Safe("action_requests", "reserved")>>

\* The index of 0009 makes seq unique over all cases; 0011 takes that back.
EventSeq == <<Safe("case_events", "seq"), Safe("case_events", "uq_seq")>>

KnowledgeHealth == <<Safe("after_sales_knowledge_health", "table")>>

EventSeqUnique ==
    <<Discard("case_events", "uq_seq"), Safe("case_events", "uq_case_events_case_id_seq")>>

CaseIntake ==
    Rebuild("service_cases", "nullable_order_and_issue")
    \o <<Safe("service_cases", "complaint_text"), Safe("service_cases", "customer_expectation"),
         Safe("service_cases", "next_step"), Safe("service_cases", "reply_draft")>>

Upgrades ==
    [r0001_baseline |-> Baseline, r0002_runs_token_usage |-> RunsTokenUsage,
     r0003_scheduled_tasks |-> ScheduledTasks, r0004_after_sales |-> AfterSales,
     r0005_action_active |-> ActionActive,
     r0006_action_approvers |-> ActionApprovers, r0006_idempotency |-> Idempotency,
     r0007_hash_chain |-> HashChain, r0007_tool_call_audit |-> ToolCallAudit,
     r0008_action_reserved |-> ActionReserved, r0009_event_seq |-> EventSeq,
     r0010_knowledge_health |-> KnowledgeHealth,
     r0011_event_seq_unique |-> EventSeqUnique, r0012_case_intake |-> CaseIntake]

Revisions == DOMAIN Upgrades

\* down_revision: two branches leave 0005 and meet in 0011.
DownRevision ==
    [r \in Revisions |->
        CASE r = "r0001_baseline" -> {}
          [] r = "r0002_runs_token_usage" -> {"r0001_baseline"}
          [] r = "r0003_scheduled_tasks" -> {"r0002_runs_token_usage"}
          [] r = "r0004_after_sales" -> {"r0003_scheduled_tasks"}
          [] r = "r0005_action_active" -> {"r0004_after_sales"}
          [] r \in {"r0006_action_approvers", "r0006_idempotency"} -> {"r0005_action_active"}
          [] r = "r0007_hash_chain" -> {"r0006_action_approvers"}
          [] r = "r0007_tool_call_audit" -> {"r0006_idempotency"}
          [] r = "r0008_action_reserved" -> {"r0007_hash_chain"}
          [] r = "r0009_event_seq" -> {"r0008_action_reserved"}
          [] r = "r0010_knowledge_health" -> {"r0009_event_seq"}
          [] r = "r0011_event_seq_unique" -> {"r0010_knowledge_health", "r0007_tool_call_audit"}
          [] r = "r0012_case_intake" -> {"r0011_event_seq_unique"}]

\* The early returns of upgrade(): 0002 when its column is there, 0003 when its
\* first table is, and the others when the table they alter is not.
Returns(r, objs) ==
    \/ /\ r = "r0002_runs_token_usage"
       /\ Table("runs") \notin objs \/ <<"runs", "token_usage_by_model">> \in objs
    \/ r = "r0003_scheduled_tasks" /\ Table("scheduled_tasks") \in objs
    \/ r = "r0005_action_active" /\ Table("action_requests") \notin objs
    \/ r = "r0011_event_seq_unique" /\ Table("case_events") \notin objs
    \/ r = "r0012_case_intake" /\ Table("service_cases") \notin objs

-----------------------------------------------------------------------------
(* What the models declare, and create_all *)

Made(r) == {s.obj : s \in {x \in Members(Upgrades[r]) : x.kind # "discard"}}

MadeBy(revisions) ==
    (UNION {Made(r) : r \in revisions})
    \ (IF "r0011_event_seq_unique" \in revisions THEN {<<"case_events", "uq_seq">>} ELSE {})

\* The revisions and the models describe one schema.
Metadata == MadeBy(Revisions)
Tables == {o[1] : o \in Metadata}
Indexes == {"ix", "uq_action_one_active_per_case"}

\* In the order the models are imported: the runs of a task before the task.
ImportOrder ==
    <<"service_cases", "action_requests", "case_events", "channel_connections",
      "channel_conversations", "channel_credentials", "channel_oauth_states", "feedback",
      "run_events", "runs", "scheduled_task_runs", "scheduled_tasks", "threads_meta", "users",
      "after_sales_idempotency", "after_sales_knowledge_health", "after_sales_tool_audit">>

\* create_all looks once which tables are missing, then makes each of them with
\* all of its columns, followed by its indexes.
CreateAll(tables, objs) ==
    ForEach(Kept(ImportOrder, {t \in tables : Table(t) \notin objs}),
            LAMBDA t : [kind |-> "create_all", obj |-> Table(t)],
            LAMBDA t : [kind |-> "indexes", obj |-> Table(t)])

-----------------------------------------------------------------------------
(* Executing a statement on a database d, on a backend *)

Commit == [kind |-> "commit", obj |-> NoCaller]

\* safe_create_table, safe_add_column and safe_create_index do nothing for what
\* is there, nor for a part of a table that is not.
SafeSkips(o, objs) == o \in objs \/ (o # Table(o[1]) /\ Table(o[1]) \notin objs)

Copy(o) == <<o[1], "alembic_tmp">>

\* The database refuses to create what is already there.
Refused(s, d, on) ==
    \/ s.kind \in {"create", "create_all"} /\ s.obj \in d.objs
    \/ s.kind = "rebuild" /\ on = "sqlite" /\ Copy(s.obj) \in d.objs

Effect(s, d, on) ==
    CASE s.kind = "create" -> [d EXCEPT !.objs = @ \cup {s.obj}]
      [] s.kind = "safe" -> [d EXCEPT !.objs = IF SafeSkips(s.obj, @) THEN @ ELSE @ \cup {s.obj}]
      [] s.kind = "discard" -> [d EXCEPT !.objs = @ \ {s.obj}]
      [] s.kind = "rebuild" ->
            [d EXCEPT !.objs = IF on = "postgres" THEN @ ELSE @ \cup {Copy(s.obj)}]
      [] s.kind = "copy" -> [d EXCEPT !.objs = (@ \cup {s.obj}) \ {Copy(s.obj)}]
      [] s.kind = "create_all" ->
            [d EXCEPT !.objs = @ \cup {o \in Metadata : o[1] = s.obj[1] /\ o[2] \notin Indexes}]
      [] s.kind = "indexes" ->
            [d EXCEPT !.objs = @ \cup {o \in Metadata : o[1] = s.obj[1] /\ o[2] \in Indexes}]
      [] s.kind = "version_table" -> [d EXCEPT !.table = TRUE]
      [] s.kind = "stamp" -> [d EXCEPT !.applied = s.obj]
      [] s.kind = "record" -> [d EXCEPT !.applied = @ \cup s.obj]
      [] OTHER -> d

WritesRows(s) == s.kind \in {"copy", "stamp", "record"}

-----------------------------------------------------------------------------
(* The initial databases *)

\* A revision and all it comes after.
Ancestors[r \in Revisions] == {r} \cup UNION {Ancestors[x] : x \in DownRevision[r]}

Unversioned(objs) == [objs |-> objs, table |-> FALSE, applied |-> {}]
NewTables == {"channel_connections", "channel_conversations", "channel_credentials",
              "channel_oauth_states"}

\* Nothing; a release before alembic, older than the channel tables; one that had
\* run create_all over every model; and each release that shipped a revision.
InitialDatabases ==
    {Unversioned({}), Unversioned(Metadata),
     Unversioned({o \in MadeBy({"r0001_baseline"}) : o[1] \notin NewTables})}
    \cup {[objs |-> MadeBy(Ancestors[r]), table |-> TRUE, applied |-> Ancestors[r]] : r \in Revisions}

BootInit ==
    /\ backend \in Backends
    /\ db \in InitialDatabases /\ txn = db /\ inTxn = FALSE
    /\ holder = NoCaller /\ pc = [c \in Callers |-> "down"]
    /\ plan = <<>> /\ todo = <<>> /\ crashes = 0

-----------------------------------------------------------------------------
(* bootstrap_schema *)

Boot(c) ==
    /\ pc[c] \in {"down", "failed"}
    /\ pc' = [pc EXCEPT ![c] = "waiting"]
    /\ UNCHANGED <<backend, db, txn, inTxn, holder, plan, todo, crashes>>

DecideState ==
    IF db.table THEN "versioned"
    ELSE IF \E t \in Tables : Table(t) \in db.objs THEN "legacy" ELSE "empty"

\* What follows the reflection, as phases: the revisions a stamp writes are in it.
\* A bug: the tables are all there, so a legacy database is stamped at the head.
PhasesStampHead(state) ==
    CASE state = "empty" -> <<[do |-> "create", arg |-> Tables], [do |-> "stamp", arg |-> Revisions]>>
      [] state = "legacy" -> <<[do |-> "create", arg |-> BaselineTables], [do |-> "stamp", arg |-> Revisions],
                               [do |-> "upgrade", arg |-> {}]>>
      [] state = "versioned" -> <<[do |-> "upgrade", arg |-> {}]>>

Phases(state) ==
    CASE state = "empty" -> <<[do |-> "create", arg |-> Tables], [do |-> "stamp", arg |-> Revisions]>>
      [] state = "legacy" -> <<[do |-> "create", arg |-> BaselineTables],
                               [do |-> "stamp", arg |-> {"r0001_baseline"}],
                               [do |-> "upgrade", arg |-> {}]>>
      [] state = "versioned" -> <<[do |-> "upgrade", arg |-> {}]>>

\* Taking the lock; the state is reflected and decided under it.
Lock(c) ==
    /\ pc[c] = "waiting" /\ holder = NoCaller
    /\ holder' = c /\ pc' = [pc EXCEPT ![c] = "working"]
    /\ txn' = db /\ inTxn' = FALSE
    /\ plan' = Phases(DecideState) /\ todo' = <<>>
    /\ UNCHANGED <<backend, db, crashes>>

\* On Postgres a phase is one transaction, on SQLite a revision is.
BeginCreate ==
    /\ holder # NoCaller /\ todo = <<>> /\ plan # <<>> /\ Head(plan).do = "create"
    /\ todo' = Append(CreateAll(Head(plan).arg, txn.objs), Commit)
    /\ plan' = Tail(plan) /\ inTxn' = (backend = "postgres")
    /\ UNCHANGED <<backend, db, txn, holder, pc, crashes>>

BeginStamp ==
    /\ holder # NoCaller /\ todo = <<>> /\ plan # <<>> /\ Head(plan).do = "stamp"
    /\ todo' = <<[kind |-> "version_table", obj |-> NoCaller],
                 [kind |-> "stamp", obj |-> Head(plan).arg], Commit>>
    /\ plan' = Tail(plan) /\ inTxn' = (backend = "postgres")
    /\ UNCHANGED <<backend, db, txn, holder, pc, crashes>>

\* alembic runs a revision once all it revises have run.
BeginRevision(r) ==
    /\ holder # NoCaller /\ todo = <<>> /\ plan # <<>> /\ Head(plan).do = "upgrade"
    /\ r \notin txn.applied /\ DownRevision[r] \subseteq txn.applied
    /\ todo' = (IF Returns(r, txn.objs) THEN <<>> ELSE Upgrades[r])
               \o <<[kind |-> "record", obj |-> {r}]>>
               \o (IF backend = "sqlite" THEN <<Commit>> ELSE <<>>)
    /\ inTxn' = (backend = "postgres")
    /\ UNCHANGED <<backend, db, txn, holder, pc, plan, crashes>>

Upgraded ==
    /\ holder # NoCaller /\ todo = <<>> /\ plan # <<>> /\ Head(plan).do = "upgrade"
    /\ txn.applied = Revisions
    /\ todo' = <<Commit>> /\ plan' = Tail(plan)
    /\ UNCHANGED <<backend, db, txn, inTxn, holder, pc, crashes>>

Execute ==
    /\ holder # NoCaller /\ todo # <<>> /\ ~ Refused(Head(todo), txn, backend)
    /\ LET s == Head(todo)
           opened == s # Commit /\ (inTxn \/ WritesRows(s))
       IN  /\ txn' = Effect(s, txn, backend)
           /\ inTxn' = opened
           /\ db' = IF opened THEN db ELSE Effect(s, txn, backend)
    /\ todo' = Tail(todo)
    /\ UNCHANGED <<backend, holder, pc, plan, crashes>>

\* The error leaves bootstrap_schema: the transaction is undone, the lock released.
Fails ==
    /\ holder # NoCaller /\ todo # <<>> /\ Refused(Head(todo), txn, backend)
    /\ pc' = [pc EXCEPT ![holder] = "failed"]
    /\ holder' = NoCaller /\ txn' = db /\ inTxn' = FALSE /\ plan' = <<>> /\ todo' = <<>>
    /\ UNCHANGED <<backend, db, crashes>>

Up ==
    /\ holder # NoCaller /\ todo = <<>> /\ plan = <<>>
    /\ pc' = [pc EXCEPT ![holder] = "up"]
    /\ holder' = NoCaller
    /\ UNCHANGED <<backend, db, txn, inTxn, plan, todo, crashes>>

\* A process dies, on SQLite with all its tasks; Postgres drops its session's lock.
Crash(c) ==
    /\ crashes < MaxCrashes /\ pc[c] # "down"
    /\ crashes' = crashes + 1
    /\ IF backend = "sqlite" THEN pc' = [x \in Callers |-> "down"] ELSE pc' = [pc EXCEPT ![c] = "down"]
    /\ IF backend = "sqlite" \/ holder = c
       THEN holder' = NoCaller /\ txn' = db /\ inTxn' = FALSE /\ plan' = <<>> /\ todo' = <<>>
       ELSE UNCHANGED <<holder, txn, inTxn, plan, todo>>
    /\ UNCHANGED <<backend, db>>

BootNext ==
    \/ \E c \in Callers : Boot(c) \/ Lock(c) \/ Crash(c)
    \/ \E r \in Revisions : BeginRevision(r)
    \/ BeginCreate \/ BeginStamp \/ Upgraded \/ Execute \/ Fails \/ Up

BootSpec == BootInit /\ [][BootNext]_bootVars

-----------------------------------------------------------------------------
(* Properties *)

BootTypeOK ==
    /\ backend \in Backends /\ holder \in Callers \cup {NoCaller} /\ inTxn \in BOOLEAN
    /\ pc \in [Callers -> {"down", "waiting", "working", "up", "failed"}]
    /\ \A d \in {db, txn} : d.applied \subseteq Revisions /\ d.table \in BOOLEAN
    /\ crashes \in 0 .. MaxCrashes

\* The schema of the models, and no index that would refuse their rows.
Complete(d) ==
    /\ Metadata \subseteq d.objs /\ <<"case_events", "uq_seq">> \notin d.objs
    /\ d.applied = Revisions

\* No revision is recorded as applied while a table it creates is missing.
AppliedIsBuilt ==
    \A r \in db.applied : {o \in MadeBy({r}) : o = Table(o[1])} \subseteq db.objs

\* From whatever database (with no event before 0009) and however many callers race
\* for it, no call of bootstrap_schema fails, and one that returns leaves the schema
\* complete: on Postgres wherever a process dies, on SQLite as long as none does.
BootsToHead ==
    backend = "postgres" \/ crashes = 0 =>
        \A c \in Callers : pc[c] # "failed" /\ (pc[c] = "up" => Complete(db))

=============================================================================
